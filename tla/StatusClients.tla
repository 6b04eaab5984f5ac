---------------------------- MODULE StatusClients ---------------------------
(***************************************************************************)
(* The two ways a client waits for an analysis job, composed with the job  *)
(* lifecycle of AnalysisJobs: the SSE stream of GET /status/{token}/stream *)
(* and the synchronous submit, which holds its request open in wait_for.   *)
(*                                                                         *)
(* Both read the snapshot first and subscribe to the Redis channel of the  *)
(* job afterwards; Redis delivers a message to the subscribers of the      *)
(* moment and keeps nothing.  wait_for reads the snapshot again whenever   *)
(* the channel is silent for 30 seconds, the stream does not.              *)
(*                                                                         *)
(* Progress events are left out: of the messages a handler has not read    *)
(* yet only the first terminal one, which ends it, is kept.                *)
(***************************************************************************)
EXTENDS AnalysisJobs

CONSTANTS
    Streamed,   \* the jobs whose status somebody streams, once each
    Awaited     \* the jobs submitted synchronously, not from the web app

ASSUME ClientsAssumption == Streamed \subseteq Job /\ Awaited \subseteq Job

VARIABLES
    stream,     \* progress of the SSE handler
    streamBox,  \* the terminal status it has yet to read from its channel
    final,      \* the status of the event it sent with final: true
    wait,       \* progress of wait_for in the synchronous submit
    waitBox,    \* the terminal status it has yet to read from its channel
    reply,      \* the status it returned
    due         \* jobs whose wait reads the snapshot before it expires

streamVars == <<stream, streamBox, final>>
waitVars   == <<wait, waitBox, reply, due>>
clientVars == <<streamVars, waitVars>>
allVars    == <<vars, clientVars>>

StreamStep == {"off", "opened", "primed", "listening", "closed"}
WaitStep   == {"off", "peeked", "listening", "returned"}

ClientsInit ==
    /\ Init
    /\ stream    = [j \in Job |-> "off"]
    /\ streamBox = [j \in Job |-> NoStatus]
    /\ final     = [j \in Job |-> NoStatus]
    /\ wait      = [j \in Job |-> "off"]
    /\ waitBox   = [j \in Job |-> NoStatus]
    /\ reply     = [j \in Job |-> NoStatus]
    /\ due       = {}

-----------------------------------------------------------------------------
(* The channel *)

\* A step of the job lifecycle that publishes: the snapshot key is set and
\* the same body is sent to the subscribers.
Published(j) == snapshot'[j] \notin {NoStatus, snapshot[j]}

Hear(pc, box, j) ==
    IF /\ Published(j) /\ snapshot'[j] \in TerminalStatuses
       /\ pc[j] = "listening" /\ box[j] = NoStatus
    THEN snapshot'[j] ELSE box[j]

Broadcast ==
    /\ streamBox' = [j \in Job |-> Hear(stream, streamBox, j)]
    /\ waitBox'   = [j \in Job |-> Hear(wait, waitBox, j)]
    /\ due' = due \cup {j \in Awaited : Published(j) /\ wait[j] # "returned"}

\* Timing: a snapshot lives 600 seconds, a wait polls every 30; and the request
\* of a synchronous submit is not held open for the day after which its queued
\* row is stuck.
WithinTime ==
    /\ \A j \in due : snapshot'[j] # NoStatus
    /\ \A j \in (stuck' \ stuck) \cap Awaited :
          row[j] = "queued" => wait[j] = "returned"

\* A step A of the job lifecycle, seen by the clients.
Observed(A) ==
    /\ A
    /\ WithinTime
    /\ Broadcast
    /\ UNCHANGED <<stream, final, wait, reply>>

JobStep == Observed(Next)

-----------------------------------------------------------------------------
(* GET /status/{token}/stream *)

CloseStream(j, s) ==
    /\ stream' = [stream EXCEPT ![j] = "closed"]
    /\ final' = [final EXCEPT ![j] = s]

OpenStream(j) ==
    /\ j \in Streamed /\ submit[j] = "sent"
    /\ stream[j] = "off"
    /\ IF JobState(j) \in TerminalStatuses
       THEN CloseStream(j, JobState(j))
       ELSE stream' = [stream EXCEPT ![j] = "opened"] /\ UNCHANGED final
    /\ UNCHANGED <<vars, streamBox, waitVars>>

\* subscribe(skip_cached=True) reads the snapshot, and passes over whatever
\* it says.
SkipCached(j) ==
    /\ stream[j] = "opened"
    /\ stream' = [stream EXCEPT ![j] = "primed"]
    /\ UNCHANGED <<vars, streamBox, final, waitVars>>

SubscribeStream(j) ==
    /\ stream[j] = "primed"
    /\ stream' = [stream EXCEPT ![j] = "listening"]
    /\ UNCHANGED <<vars, streamBox, final, waitVars>>

SendFinal(j) ==
    /\ stream[j] = "listening" /\ streamBox[j] # NoStatus
    /\ CloseStream(j, streamBox[j])
    /\ streamBox' = [streamBox EXCEPT ![j] = NoStatus]
    /\ UNCHANGED <<vars, waitVars>>

StreamNext(j) ==
    OpenStream(j) \/ SkipCached(j) \/ SubscribeStream(j) \/ SendFinal(j)

-----------------------------------------------------------------------------
(* wait_for, in a synchronous submit that has sent its task *)

Return(j, s) ==
    /\ wait' = [wait EXCEPT ![j] = "returned"]
    /\ reply' = [reply EXCEPT ![j] = s]

\* Read the snapshot: return it if it is terminal, else go to step.
ReadSnapshot(j, step) ==
    IF snapshot[j] \in TerminalStatuses
    THEN Return(j, snapshot[j])
    ELSE wait' = [wait EXCEPT ![j] = step] /\ UNCHANGED reply

PeekSnapshot(j) ==
    /\ j \in Awaited /\ submit[j] = "sent"
    /\ wait[j] = "off"
    /\ ReadSnapshot(j, "peeked")
    /\ due' = due \ {j}
    /\ UNCHANGED <<vars, streamVars, waitBox>>

SubscribeWait(j) ==
    /\ wait[j] = "peeked"
    /\ wait' = [wait EXCEPT ![j] = "listening"]
    /\ UNCHANGED <<vars, streamVars, waitBox, reply, due>>

\* Mutant: wait_for passes over a silent channel, as subscribe does.
PollNothing(j) ==
    /\ wait[j] = "listening" /\ waitBox[j] = NoStatus
    /\ due' = due \ {j}
    /\ UNCHANGED <<vars, streamVars, wait, waitBox, reply>>

\* get_message returned None after 30 seconds.
PollSnapshot(j) ==
    /\ wait[j] = "listening" /\ waitBox[j] = NoStatus
    /\ ReadSnapshot(j, "listening")
    /\ due' = due \ {j}
    /\ UNCHANGED <<vars, streamVars, waitBox>>

ReturnHeard(j) ==
    /\ wait[j] = "listening" /\ waitBox[j] # NoStatus
    /\ Return(j, waitBox[j])
    /\ waitBox' = [waitBox EXCEPT ![j] = NoStatus]
    /\ due' = due \ {j}
    /\ UNCHANGED <<vars, streamVars>>

WaitNext(j) ==
    PeekSnapshot(j) \/ SubscribeWait(j) \/ PollSnapshot(j) \/ ReturnHeard(j)

-----------------------------------------------------------------------------
ClientsNext ==
    \/ JobStep
    \/ \E j \in Job : StreamNext(j) \/ WaitNext(j)

ClientsSpec == ClientsInit /\ [][ClientsNext]_allVars

\* The event loop of the API runs its handlers on, a waiting request polls, a
\* worker takes the message and its child comes to an end.
ClientsFairness ==
    \A j \in Job :
        /\ WF_allVars(Observed(SubmitNext(j)))
        /\ WF_allVars(Observed(Deliver(j)))
        /\ WF_allVars(Observed(ChildProgress(j)))
        /\ WF_allVars(StreamNext(j))
        /\ WF_allVars(WaitNext(j))

FairClientsSpec == ClientsSpec /\ ClientsFairness

-----------------------------------------------------------------------------
ClientsTypeOK ==
    /\ TypeOK
    /\ stream \in [Job -> StreamStep]
    /\ streamBox \in [Job -> TerminalStatuses \cup {NoStatus}]
    /\ final \in [Job -> TerminalStatuses \cup {NoStatus}]
    /\ wait \in [Job -> WaitStep]
    /\ waitBox \in [Job -> TerminalStatuses \cup {NoStatus}]
    /\ reply \in [Job -> TerminalStatuses \cup {NoStatus}]
    /\ due \subseteq Job

\* A status a client may be told: the database has recorded it, and if it is
\* completed the result file that goes with it is whole.
Backed(j, s) ==
    s # NoStatus => /\ s \in recorded[j]
                    /\ s = "completed" => result[j] = "whole"

\* However late a client is told the end of its job, by the stream or by the
\* synchronous submit, that end was recorded and its result can be loaded.
AnswersAreBacked ==
    \A j \in Job : Backed(j, final[j]) /\ Backed(j, reply[j])

\* AnswersAreBacked, and the same of the messages still in the channels.
ClientsInv ==
    /\ ClientsTypeOK
    /\ IndInv
    /\ AnswersAreBacked
    /\ \A j \in Job : Backed(j, streamBox[j]) /\ Backed(j, waitBox[j])

\* The job runs its course: nobody cancels it, its time limit does not expire.
RunsItsCourse(j) == [](cancel[j] = "idle" /\ monitor[j] = "idle")

\* A synchronous submit whose job runs its course is answered, whenever the
\* job ends: before the first read of wait_for, between that read and the
\* subscription, or after it.
WaitIsAnswered ==
    \A j \in Job :
        RunsItsCourse(j) => (wait[j] = "peeked" ~> wait[j] = "returned")

\* A stream that is subscribed while the analysis runs its course gets its
\* final event.
SubscribedStreamEnds ==
    \A j \in Job :
        RunsItsCourse(j) =>
            (stream[j] = "listening" /\ attempt[j] \in {"running", "writing"}
                 ~> stream[j] = "closed")

\* "The final event has final: true": every stream that is opened ends.
StreamEnds ==
    \A j \in Job : stream[j] = "opened" ~> stream[j] = "closed"

=============================================================================
