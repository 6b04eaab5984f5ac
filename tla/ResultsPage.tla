---------------------------- MODULE ResultsPage -----------------------------
(***************************************************************************)
(* The results page of one job in a browser tab: the hook useJobStatus,    *)
(* which reads the status stream and polls once the stream has failed, the *)
(* result of a synchronous submit left in the session storage, the cancel  *)
(* button, and the view the page chooses.                                  *)
(*                                                                         *)
(* The API is outside: job is what it knows of the job, and it answers     *)
(* each request with what it knows at that moment.  Answers are handled in *)
(* any order; polls do not wait for one another.                           *)
(***************************************************************************)
EXTENDS Naturals, Sequences, FiniteSets

CONSTANTS
    Poll,       \* the polls that may be in flight at the same time
    MaxEvents,  \* events of the stream the page has not read yet
    MaxReloads, \* how often the tab is loaded again
    Faults      \* what the network and the API may do, see below

\* hang: the stream is not answered within ten seconds; close: it ends without
\* its final event; lose: a connection breaks; refuse: an error is the answer;
\* expire: the result file is gone from the temporary storage.
ASSUME PageAssumption ==
    /\ MaxEvents \in Nat \ {0} /\ MaxReloads \in Nat
    /\ Faults \subseteq {"hang", "close", "lose", "refuse", "expire"}

VARIABLES
    job,        \* the status of the job at the API
    readable,   \* its result file can be loaded
    page,       \* "open", or "home" once the user is elsewhere
    conn,       \* the request of the stream: "asking", "reading" or "over"
    events,     \* the events sent and not read
    fallback,   \* the hook polls
    timer,      \* the interval of the polls is running
    poll,       \* each poll in flight, or its answer on the way
    response,   \* the last answer the hook has kept
    completed,  \* completedRef
    rows,       \* how many times the table was given its rows
    cancel,     \* the request of the cancel button
    reloads     \* bound

streamVars == <<conn, events>>
pollVars   == <<fallback, timer, poll>>
apiVars    == <<job, readable>>
vars == <<apiVars, page, streamVars, pollVars, response, completed,
          rows, cancel, reloads>>

Running  == {"queued", "processing"}
\* failed stands for analysis_error, analysis_timeout and analysis_cancelled.
Terminal == {"completed", "failed"}
\* refused: an answer that is no job status; bare: completed, without data.
Code     == Running \cup Terminal \cup {"refused", "bare"}

\* What is displayed, in the order in which the page asks.
View ==
    IF response = "none" THEN "spinner"
    ELSE IF response \in Running THEN "progress"
    ELSE IF response \notin {"completed", "bare"} THEN "error"
    ELSE IF rows = 0 THEN "empty" ELSE "table"

-----------------------------------------------------------------------------
(* The page is opened, and its effects run *)

\* readSyncResult finds the result of a synchronous submit, of a job that is over.
Init ==
    /\ job \in Running \cup {"completed"}
    /\ readable = TRUE
    /\ page = "open"
    /\ conn = "asking"
    /\ events = <<>>
    /\ fallback = FALSE
    /\ timer = FALSE
    /\ poll = [p \in Poll |-> "free"]
    /\ response = "none"
    /\ completed = FALSE
    /\ rows \in (IF job = "completed" THEN {0, 1} ELSE {0})
    /\ cancel = "idle"
    /\ reloads = 0

\* The tab is loaded again; readSyncResult has removed what it read.
Reload ==
    /\ page = "open" /\ reloads < MaxReloads
    /\ reloads' = reloads + 1
    /\ conn' = "asking"
    /\ events' = <<>>
    /\ fallback' = FALSE
    /\ timer' = FALSE
    /\ poll' = [p \in Poll |-> "free"]
    /\ response' = "none"
    /\ completed' = FALSE
    /\ rows' = 0
    /\ cancel' = "idle"
    /\ UNCHANGED <<apiVars, page>>

\* Unmounting aborts the stream and clears the interval; the answers of polls
\* on their way are of no effect.  The request of the button goes on.
Unmount ==
    /\ page' = "home"
    /\ conn' = "over"
    /\ events' = <<>>
    /\ timer' = FALSE
    /\ poll' = [p \in Poll |-> "free"]

Leave ==
    /\ page = "open"
    /\ Unmount
    /\ UNCHANGED <<apiVars, fallback, response, completed, rows, cancel, reloads>>

-----------------------------------------------------------------------------
(* The API *)

\* The status the API would answer a poll with, and send down the stream.
PollAnswer   == IF job = "completed" /\ ~readable THEN "refused" ELSE job
StreamAnswer(s) == IF s = "completed" /\ ~readable THEN "bare" ELSE s

Record(s) ==
    /\ job' = s
    /\ events' = IF conn = "reading" THEN Append(events, StreamAnswer(s))
                                     ELSE events

Advance(s) ==
    /\ job \in Running /\ s \in {"processing"} \cup Terminal
    /\ s = "processing" => Len(events) < MaxEvents
    /\ Record(s)
    /\ UNCHANGED <<readable, page, conn, pollVars, response, completed,
                   rows, cancel, reloads>>

ExpireResult ==
    /\ "expire" \in Faults /\ job \in Terminal /\ readable
    /\ readable' = FALSE
    /\ UNCHANGED <<job, page, streamVars, pollVars, response, completed,
                   rows, cancel, reloads>>

-----------------------------------------------------------------------------
(* The stream *)

Keep(code) == response' = code

\* Mutant: the hook hands the data on whenever it hears of them.
TakeDataAgain(code) ==
    /\ completed' = TRUE
    /\ rows' = IF code = "bare" THEN rows ELSE rows + 1

\* handleCompleted, of the hook and then of the page.
TakeData(code) ==
    /\ completed' = TRUE
    /\ rows' = IF completed \/ code = "bare" THEN rows ELSE rows + 1

Hear(code) ==
    /\ Keep(code)
    /\ IF code \in {"completed", "bare"}
       THEN TakeData(code)
       ELSE UNCHANGED <<completed, rows>>

\* The headers arrive, the timeout of ten seconds is cleared, and the API sends
\* what it knows first.
StreamOpens ==
    /\ conn = "asking"
    /\ conn' = "reading"
    /\ events' = <<StreamAnswer(job)>>
    /\ UNCHANGED <<apiVars, page, pollVars, response, completed, rows,
                   cancel, reloads>>

\* The stream is over and nothing takes its place.
GiveUp ==
    /\ conn' = "over"
    /\ events' = <<>>
    /\ UNCHANGED <<apiVars, page, pollVars, response, completed, rows,
                   cancel, reloads>>

\* The second effect starts as fallback is set, with a poll at once.
FallBack ==
    /\ conn' = "over"
    /\ events' = <<>>
    /\ fallback' = TRUE
    /\ timer' = TRUE
    /\ \E p \in Poll : poll' = [poll EXCEPT ![p] = "asked"]
    /\ UNCHANGED <<apiVars, page, response, completed, rows, cancel, reloads>>

\* The answer is not ok or has no body.
StreamRefused ==
    /\ conn = "asking" /\ "refuse" \in Faults
    /\ FallBack

\* fetch or read rejects, and the controller was not aborted.
StreamBreaks ==
    /\ conn \in {"asking", "reading"} /\ "lose" \in Faults
    /\ FallBack

\* The timeout aborts the controller: the catch of run leaves fallback alone.
StreamTimesOut ==
    /\ conn = "asking" /\ "hang" \in Faults
    /\ GiveUp

\* done, without a final event.
StreamCloses ==
    /\ conn = "reading" /\ events = <<>> /\ "close" \in Faults
    /\ GiveUp

ReadEvent ==
    /\ conn = "reading" /\ events # <<>>
    /\ Hear(Head(events))
    /\ events' = Tail(events)
    /\ conn' = IF Head(events) \in Running THEN "reading" ELSE "over"
    /\ UNCHANGED <<apiVars, page, pollVars, cancel, reloads>>

-----------------------------------------------------------------------------
(* The polls *)

\* Five seconds have passed.
Tick(p) ==
    /\ timer /\ poll[p] = "free"
    /\ poll' = [poll EXCEPT ![p] = "asked"]
    /\ UNCHANGED <<apiVars, page, streamVars, fallback, timer, response,
                   completed, rows, cancel, reloads>>

Answered(p, code) ==
    /\ poll[p] = "asked"
    /\ poll' = [poll EXCEPT ![p] = code]
    /\ UNCHANGED <<apiVars, page, streamVars, fallback, timer, response,
                   completed, rows, cancel, reloads>>

AnswerPoll(p)  == Answered(p, PollAnswer)
RefusePoll(p)  == "refuse" \in Faults /\ Answered(p, "refused")
\* fetch rejects, or the body is not JSON: retry at the next interval.
LosePoll(p)    == "lose" \in Faults /\ Answered(p, "free")

\* completed, or one of TERMINAL, clears the interval.
Stops(code) == code \in Terminal

HearPoll(p) ==
    /\ poll[p] \in Code
    /\ Hear(poll[p])
    /\ timer' = (timer /\ ~Stops(poll[p]))
    /\ poll' = [poll EXCEPT ![p] = "free"]
    /\ UNCHANGED <<apiVars, page, streamVars, fallback, cancel, reloads>>

-----------------------------------------------------------------------------
(* The cancel button of the progress view *)

PressCancel ==
    /\ page = "open" /\ View = "progress" /\ cancel = "idle"
    /\ cancel' = "asked"
    /\ UNCHANGED <<apiVars, page, streamVars, pollVars, response,
                   completed, rows, reloads>>

\* The API ends a job that is running.
CancelReaches ==
    /\ cancel = "asked"
    /\ cancel' = "answered"
    /\ IF job \in Running THEN Record("failed") ELSE UNCHANGED <<job, events>>
    /\ UNCHANGED <<readable, page, conn, pollVars, response,
                   completed, rows, reloads>>

\* An error is an answer too: the button does not look at its status.
CancelRefused ==
    /\ cancel = "asked" /\ "refuse" \in Faults
    /\ cancel' = "answered"
    /\ UNCHANGED <<apiVars, page, streamVars, pollVars, response,
                   completed, rows, reloads>>

\* onCancelled, whatever the page displays by now.
CancelGoesHome ==
    /\ page = "open" /\ cancel = "answered"
    /\ cancel' = "done"
    /\ Unmount
    /\ UNCHANGED <<apiVars, fallback, response, completed, rows, reloads>>

CancelLost ==
    /\ cancel = "asked" /\ "lose" \in Faults
    /\ cancel' = "idle"
    /\ UNCHANGED <<apiVars, page, streamVars, pollVars, response,
                   completed, rows, reloads>>

-----------------------------------------------------------------------------
PollNext(p) ==
    Tick(p) \/ AnswerPoll(p) \/ RefusePoll(p) \/ LosePoll(p) \/ HearPoll(p)

StreamNext ==
    \/ StreamOpens \/ StreamRefused \/ StreamBreaks \/ StreamTimesOut
    \/ StreamCloses \/ ReadEvent

CancelNext ==
    PressCancel \/ CancelReaches \/ CancelRefused \/ CancelGoesHome \/ CancelLost

Next ==
    \/ \E s \in Code : Advance(s)
    \/ ExpireResult \/ Reload \/ Leave
    \/ StreamNext \/ CancelNext
    \/ \E p \in Poll : PollNext(p)

Spec == Init /\ [][Next]_vars

\* The browser runs its callbacks and timers, a stream that is asked for comes
\* to something, and of the polls that are sent again and again some arrive.
Fairness ==
    /\ WF_vars(StreamOpens \/ StreamRefused \/ StreamTimesOut)
    /\ WF_vars(ReadEvent)
    /\ WF_vars(CancelGoesHome)
    /\ \A p \in Poll : /\ WF_vars(Tick(p))
                       /\ SF_vars(AnswerPoll(p))
                       /\ WF_vars(HearPoll(p))

FairSpec == Spec /\ Fairness

-----------------------------------------------------------------------------
TypeOK ==
    /\ job \in Running \cup Terminal
    /\ readable \in BOOLEAN
    /\ page \in {"open", "home"}
    /\ conn \in {"asking", "reading", "over"}
    /\ events \in Seq(Code)
    /\ fallback \in BOOLEAN /\ timer \in BOOLEAN
    /\ poll \in [Poll -> {"free", "asked"} \cup Code]
    /\ response \in Code \cup {"none"}
    /\ completed \in BOOLEAN
    /\ rows \in Nat
    /\ cancel \in {"idle", "asked", "answered", "done"}
    /\ reloads \in 0..MaxReloads

\* The page listens to one source: the polls start where the stream ends, and
\* what the stream has said cannot overtake an answer of theirs.
OneSource ==
    /\ conn # "over" => ~fallback
    /\ timer => fallback
    /\ ~fallback => \A p \in Poll : poll[p] = "free"

\* The data of a completed answer are taken with it.
CompletedIsTaken == response \in {"completed", "bare"} => completed

\* What the page relies on, together.
PageInv == TypeOK /\ OneSource /\ CompletedIsTaken

\* The table is not given new rows under the eyes of its user: not by a second
\* poll that also says completed, nor by the status after a synchronous submit.
RowsStay == [][View = "table" /\ response' # "none" => rows' = rows]_vars

\* A table on display stays, until the page is loaded again.
TableStays ==
    [][View = "table" /\ response' # "none" => View' = "table"]_vars

\* Whoever is sent home by the cancel button leaves a job that is over.
HomeMeansOver == cancel = "done" => job \in Terminal

\* The end of the job is displayed, unless the user is gone.
EndIsDisplayed ==
    job \in Terminal ~> page = "home" \/ View \notin {"spinner", "progress"}

=============================================================================
