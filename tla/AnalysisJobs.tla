---------------------------- MODULE AnalysisJobs ----------------------------
(***************************************************************************)
(* The life of an analysis job, across the processes that share it: the    *)
(* API request that submits it, the Celery child that runs it, the worker  *)
(* process that enforces the hard time limit, the API request that cancels *)
(* it, and the cron job that releases stuck rows.                          *)
(*                                                                         *)
(* They meet in the row of analysis_jobs (PostgreSQL), in the progress     *)
(* snapshot (Redis, with a time to live), in the Celery message and in the *)
(* result file.  No lock or transaction spans two of these, and every      *)
(* handler is split here at each of its database, Redis and file accesses. *)
(***************************************************************************)
EXTENDS Naturals, FiniteSets

CONSTANTS
    Job,            \* tokens; one token is one analysis job
    User,           \* owners of jobs
    Queue,          \* the Celery queues, one worker deployment each
    Owner,          \* Owner[j]: the user whose API key submits j
    QueueOf,        \* QueueOf[j]: sync or async, from the option async_mode
    MaxConcurrent,  \* max_concurrent_analyses of a user
    Cancellable,    \* bound: the jobs somebody asks to cancel, once each
    Slow,           \* bound: the jobs that may run into their time limit
    Fragile,        \* bound: the jobs one of whose steps may fail or die
    MaxCrashes      \* bound: crashes of worker deployments

ASSUME ConstantsAssumption ==
    /\ IsFiniteSet(Job)
    /\ Owner \in [Job -> User]
    /\ QueueOf \in [Job -> Queue]
    /\ MaxConcurrent \in Nat \ {0}
    /\ Cancellable \subseteq Job
    /\ Slow \subseteq Job
    /\ Fragile \subseteq Job
    /\ MaxCrashes \in Nat

VARIABLES
    row,        \* analysis_jobs.status, "none" before the insert
    recorded,   \* history: every status the row has held
    snapshot,   \* the status in the Redis key of the job, "none" if absent
    result,     \* the result file
    message,    \* the Celery message of the job
    submit,     \* progress of the submit request
    attempt,    \* progress of the Celery child that runs the job
    outcome,    \* what the child will record when it ends
    waiting,    \* queued jobs whose position the child has yet to publish
    monitor,    \* progress of the time limit handler in the worker process
    cancel,     \* progress of the cancel request
    answer,     \* the status the cancel request answered with
    revoked,    \* the revocation is in the memory of the workers
    stuck,      \* rows older than the limit of release_stuck_analysis_jobs
    crashes     \* worker crashes so far

dbVars     == <<row, recorded>>
childVars  == <<attempt, outcome, waiting>>
cancelVars == <<cancel, answer, revoked>>
vars == <<row, recorded, snapshot, result, message, submit, attempt, outcome,
          waiting, monitor, cancel, answer, revoked, stuck, crashes>>

-----------------------------------------------------------------------------
(* Statuses and the steps of each handler *)

RunningStatuses  == {"queued", "processing"}
TerminalStatuses == {"completed", "error", "timeout", "cancelled"}
Status           == RunningStatuses \cup TerminalStatuses
NoStatus         == "none"

SubmitStep  == {"idle", "counted", "inserted", "announced", "stored",
                "sent", "rejected", "failed"}
AttemptStep == {"none", "received", "checked", "marked", "positioning",
                "running", "writing", "returned", "finishing", "recorded",
                "acking"}
MonitorStep == {"idle", "expired", "checked", "recorded", "killing"}
CancelStep  == {"idle", "asked", "revoked", "checked", "recorded",
                "answered", "failed"}

\* The child has set started_at and has not ended yet.
Started == {"marked", "positioning", "running", "writing", "returned",
            "finishing", "recorded", "acking"}

Init ==
    /\ row      = [j \in Job |-> NoStatus]
    /\ recorded = [j \in Job |-> {}]
    /\ snapshot = [j \in Job |-> NoStatus]
    /\ result   = [j \in Job |-> "absent"]
    /\ message  = [j \in Job |-> "unsent"]
    /\ submit   = [j \in Job |-> "idle"]
    /\ attempt  = [j \in Job |-> "none"]
    /\ outcome  = [j \in Job |-> NoStatus]
    /\ waiting  = [j \in Job |-> {}]
    /\ monitor  = [j \in Job |-> "idle"]
    /\ cancel   = [j \in Job |-> "idle"]
    /\ answer   = [j \in Job |-> NoStatus]
    /\ revoked  = [j \in Job |-> FALSE]
    /\ stuck    = {}
    /\ crashes  = 0

-----------------------------------------------------------------------------
(* The shared stores *)

\* An UPDATE of the status, with no condition on the status it replaces.
SetRow(j, s) ==
    /\ row' = [row EXCEPT ![j] = s]
    /\ recorded' = [recorded EXCEPT ![j] = @ \cup {s}]

\* A publish overwrites the snapshot whatever it holds; a Redis error is
\* logged and swallowed, the handler goes on.
Publish(j, s) ==
    \/ snapshot' = [snapshot EXCEPT ![j] = s]
    \/ j \in Fragile /\ UNCHANGED snapshot

\* What GET /status/{token} reports: the snapshot, else the row.
JobState(j) == IF snapshot[j] # NoStatus THEN snapshot[j] ELSE row[j]

Running(u) == {j \in Job : Owner[j] = u /\ row[j] \in RunningStatuses}

\* Mutant: _already_terminal forgets ANALYSIS_COMPLETED.
NotCompletedTerminal(j) == row[j] \in TerminalStatuses \ {"completed"}

AlreadyTerminal(j) == row[j] \in TerminalStatuses

\* Mutant: set instead of setex, the snapshot has no time to live.
NeverExpire(j) == FALSE

\* setex: the snapshot lives 600 seconds after the last publish.
ExpireSnapshot(j) ==
    /\ snapshot[j] # NoStatus
    /\ snapshot' = [snapshot EXCEPT ![j] = NoStatus]
    /\ UNCHANGED <<dbVars, result, message, submit, childVars, monitor,
                   cancelVars, stuck, crashes>>

-----------------------------------------------------------------------------
(* POST /submit/...: count, insert, publish, write the input, send the task *)

\* The COUNT of the transaction: another transaction may insert before the
\* INSERT of this one, the isolation level is READ COMMITTED.
CountRunning(j) ==
    /\ submit[j] = "idle"
    /\ submit' = [submit EXCEPT ![j] =
          IF Cardinality(Running(Owner[j])) >= MaxConcurrent
          THEN "rejected" ELSE "counted"]
    /\ UNCHANGED <<dbVars, snapshot, result, message, childVars, monitor,
                   cancelVars, stuck, crashes>>

InsertJob(j) ==
    /\ submit[j] = "counted"
    /\ submit' = [submit EXCEPT ![j] = "inserted"]
    /\ SetRow(j, "queued")
    /\ UNCHANGED <<snapshot, result, message, childVars, monitor, cancelVars,
                   stuck, crashes>>

AnnounceQueued(j) ==
    /\ submit[j] = "inserted"
    /\ submit' = [submit EXCEPT ![j] = "announced"]
    /\ Publish(j, "queued")
    /\ UNCHANGED <<dbVars, result, message, childVars, monitor, cancelVars,
                   stuck, crashes>>

StoreInput(j) ==
    /\ submit[j] = "announced"
    /\ submit' = [submit EXCEPT ![j] = "stored"]
    /\ UNCHANGED <<dbVars, snapshot, result, message, childVars, monitor,
                   cancelVars, stuck, crashes>>

SendTask(j) ==
    /\ submit[j] = "stored"
    /\ submit' = [submit EXCEPT ![j] = "sent"]
    /\ message' = [message EXCEPT ![j] = "ready"]
    /\ UNCHANGED <<dbVars, snapshot, result, childVars, monitor, cancelVars,
                   stuck, crashes>>

\* A step raises, or the API process dies: what was done stays done.
SubmitFails(j) ==
    /\ j \in Fragile
    /\ submit[j] \in {"counted", "inserted", "announced", "stored"}
    /\ submit' = [submit EXCEPT ![j] = "failed"]
    /\ UNCHANGED <<dbVars, snapshot, result, message, childVars, monitor,
                   cancelVars, stuck, crashes>>

SubmitNext(j) ==
    CountRunning(j) \/ InsertJob(j) \/ AnnounceQueued(j) \/ StoreInput(j)
        \/ SendTask(j) \/ SubmitFails(j)

-----------------------------------------------------------------------------
(* The Celery child: before_start, run_analysis, after_return.  The message *)
(* is acknowledged late, when the child has ended.                          *)

Goto(j, step) == attempt' = [attempt EXCEPT ![j] = step]

Deliver(j) ==
    /\ message[j] = "ready"
    /\ message' = [message EXCEPT ![j] = "unacked"]
    /\ Goto(j, "received")
    /\ UNCHANGED <<dbVars, snapshot, result, submit, outcome, waiting,
                   monitor, cancelVars, stuck, crashes>>

\* A worker that knows the task is revoked acknowledges it without a child.
Discard(j) ==
    /\ message[j] = "ready" /\ revoked[j]
    /\ message' = [message EXCEPT ![j] = "acked"]
    /\ UNCHANGED <<dbVars, snapshot, result, submit, childVars, monitor,
                   cancelVars, stuck, crashes>>

\* Mutant: before_start runs the job whatever its row says.
StartUnchecked(j) ==
    /\ attempt[j] = "received"
    /\ Goto(j, "checked")
    /\ UNCHANGED <<dbVars, snapshot, result, message, submit, outcome,
                   waiting, monitor, cancelVars, stuck, crashes>>

\* before_start: raise Ignore for a terminal row, else go on to start it.
CheckStart(j) ==
    /\ attempt[j] = "received"
    /\ Goto(j, IF AlreadyTerminal(j) THEN "acking" ELSE "checked")
    /\ UNCHANGED <<dbVars, snapshot, result, message, submit, outcome,
                   waiting, monitor, cancelVars, stuck, crashes>>

\* The row becomes PROCESSING whatever it holds by now; started_at is reset.
MarkProcessing(j) ==
    /\ attempt[j] = "checked"
    /\ SetRow(j, "processing")
    /\ stuck' = stuck \ {j}
    /\ Goto(j, "marked")
    /\ UNCHANGED <<snapshot, result, message, submit, outcome, waiting,
                   monitor, cancelVars, crashes>>

\* A database error in before_start fails the task: on_failure, after_return.
StartFails(j) ==
    /\ j \in Fragile
    /\ attempt[j] \in {"received", "checked", "marked"}
    /\ Goto(j, "returned")
    /\ outcome' = [outcome EXCEPT ![j] = "error"]
    /\ UNCHANGED <<dbVars, snapshot, result, message, submit, waiting,
                   monitor, cancelVars, stuck, crashes>>

\* Mutant: the query of list_queued_jobs loses its condition on the status.
ListAllJobs(j) ==
    /\ attempt[j] = "marked"
    /\ waiting' = [waiting EXCEPT ![j] =
          {k \in Job : k # j /\ QueueOf[k] = QueueOf[j]}]
    /\ Goto(j, "positioning")
    /\ UNCHANGED <<dbVars, snapshot, result, message, submit, outcome,
                   monitor, cancelVars, stuck, crashes>>

ListQueuedJobs(j) ==
    /\ attempt[j] = "marked"
    /\ waiting' = [waiting EXCEPT ![j] =
          {k \in Job : row[k] = "queued" /\ QueueOf[k] = QueueOf[j]}]
    /\ Goto(j, "positioning")
    /\ UNCHANGED <<dbVars, snapshot, result, message, submit, outcome,
                   monitor, cancelVars, stuck, crashes>>

\* The position of a job that was queued when the list was read.
PublishPosition(j) ==
    /\ attempt[j] = "positioning"
    /\ \E k \in waiting[j] :
          /\ waiting' = [waiting EXCEPT ![j] = @ \ {k}]
          /\ Publish(k, "queued")
    /\ UNCHANGED <<dbVars, result, message, submit, attempt, outcome,
                   monitor, cancelVars, stuck, crashes>>

StartRun(j) ==
    /\ attempt[j] = "positioning" /\ waiting[j] = {}
    /\ Goto(j, "running")
    /\ Publish(j, "processing")
    /\ UNCHANGED <<dbVars, result, message, submit, outcome, waiting,
                   monitor, cancelVars, stuck, crashes>>

\* Every log record of the whisp logger publishes progress.
EmitProgress(j) ==
    /\ attempt[j] \in {"running", "writing"}
    /\ Publish(j, "processing")
    /\ UNCHANGED <<dbVars, result, message, submit, childVars, monitor,
                   cancelVars, stuck, crashes>>

\* convert_df_to_geojson writes the file in place, it truncates it first.
BeginResult(j) ==
    /\ attempt[j] = "running"
    /\ result' = [result EXCEPT ![j] = "partial"]
    /\ Goto(j, "writing")
    /\ UNCHANGED <<dbVars, snapshot, message, submit, outcome, waiting,
                   monitor, cancelVars, stuck, crashes>>

\* SUCCESS reaches after_return.
FinishRun(j) ==
    /\ attempt[j] = "writing"
    /\ result' = [result EXCEPT ![j] = "whole"]
    /\ outcome' = [outcome EXCEPT ![j] = "completed"]
    /\ Goto(j, "returned")
    /\ UNCHANGED <<dbVars, snapshot, message, submit, waiting, monitor,
                   cancelVars, stuck, crashes>>

\* Mutant: run_analysis swallows the exception and the task succeeds.
FailRunSilently(j) ==
    /\ attempt[j] \in {"running", "writing"}
    /\ outcome' = [outcome EXCEPT ![j] = "completed"]
    /\ Goto(j, "returned")
    /\ UNCHANGED <<dbVars, snapshot, result, message, submit, waiting,
                   monitor, cancelVars, stuck, crashes>>

\* The analysis raises: on_failure chooses ERROR.
FailRun(j) ==
    /\ attempt[j] \in {"running", "writing"}
    /\ outcome' = [outcome EXCEPT ![j] = "error"]
    /\ Goto(j, "returned")
    /\ UNCHANGED <<dbVars, snapshot, result, message, submit, waiting,
                   monitor, cancelVars, stuck, crashes>>

\* Mutant: after_return records its outcome without looking at the row.
ReturnUnchecked(j) ==
    /\ attempt[j] = "returned"
    /\ Goto(j, "finishing")
    /\ UNCHANGED <<dbVars, snapshot, result, message, submit, outcome,
                   waiting, monitor, cancelVars, stuck, crashes>>

\* Mutant: after_return publishes its outcome before recording it.
PublishBeforePersist(j) ==
    /\ attempt[j] = "returned"
    /\ IF AlreadyTerminal(j)
       THEN Goto(j, "acking") /\ UNCHANGED snapshot
       ELSE Goto(j, "finishing") /\ Publish(j, outcome[j])
    /\ UNCHANGED <<dbVars, result, message, submit, outcome, waiting,
                   monitor, cancelVars, stuck, crashes>>

CheckReturn(j) ==
    /\ attempt[j] = "returned"
    /\ Goto(j, IF AlreadyTerminal(j) THEN "acking" ELSE "finishing")
    /\ UNCHANGED <<dbVars, snapshot, result, message, submit, outcome,
                   waiting, monitor, cancelVars, stuck, crashes>>

PersistOutcome(j) ==
    /\ attempt[j] = "finishing"
    /\ SetRow(j, outcome[j])
    /\ Goto(j, "recorded")
    /\ UNCHANGED <<snapshot, result, message, submit, outcome, waiting,
                   monitor, cancelVars, stuck, crashes>>

\* A database error in after_return: nothing is recorded.
PersistFails(j) ==
    /\ j \in Fragile
    /\ attempt[j] \in {"returned", "finishing"}
    /\ Goto(j, "acking")
    /\ UNCHANGED <<dbVars, snapshot, result, message, submit, outcome,
                   waiting, monitor, cancelVars, stuck, crashes>>

\* Mutant: _persist_terminal updates the row and publishes nothing.
SilentOutcome(j) ==
    /\ attempt[j] = "recorded"
    /\ Goto(j, "acking")
    /\ UNCHANGED <<dbVars, snapshot, result, message, submit, outcome,
                   waiting, monitor, cancelVars, stuck, crashes>>

PublishOutcome(j) ==
    /\ attempt[j] = "recorded"
    /\ Publish(j, outcome[j])
    /\ Goto(j, "acking")
    /\ UNCHANGED <<dbVars, result, message, submit, outcome, waiting,
                   monitor, cancelVars, stuck, crashes>>

\* The child is gone and its message acknowledged.
EndAttempt(j) ==
    /\ attempt' = [attempt EXCEPT ![j] = "none"]
    /\ outcome' = [outcome EXCEPT ![j] = NoStatus]
    /\ waiting' = [waiting EXCEPT ![j] = {}]
    /\ message' = [message EXCEPT ![j] = "acked"]

Acknowledge(j) ==
    /\ attempt[j] = "acking"
    /\ EndAttempt(j)
    /\ UNCHANGED <<dbVars, snapshot, result, submit, monitor, cancelVars,
                   stuck, crashes>>

\* The steps that bring the child to its end, one after the other.
ChildProgress(j) ==
    \/ CheckStart(j) \/ MarkProcessing(j)
    \/ ListQueuedJobs(j) \/ PublishPosition(j) \/ StartRun(j)
    \/ BeginResult(j) \/ FinishRun(j) \/ FailRun(j)
    \/ CheckReturn(j) \/ PersistOutcome(j) \/ PublishOutcome(j)
    \/ Acknowledge(j)

ChildNext(j) ==
    \/ Deliver(j) \/ Discard(j)
    \/ ChildProgress(j) \/ EmitProgress(j)
    \/ StartFails(j) \/ PersistFails(j)

-----------------------------------------------------------------------------
(* The worker process: hard time limit, revocation, loss of a child, crash  *)

Alive(j) == attempt[j] \notin {"none", "acking"}

\* The child is killed only after on_timeout has run: until then it goes on.
\* Celery acknowledges its message now or when on_timeout ends.
TimeLimit(j) ==
    /\ j \in Slow /\ Alive(j)
    /\ monitor[j] = "idle"
    /\ monitor' = [monitor EXCEPT ![j] = "expired"]
    /\ message' \in {message, [message EXCEPT ![j] = "acked"]}
    /\ UNCHANGED <<dbVars, snapshot, result, submit, childVars, cancelVars,
                   stuck, crashes>>

\* Mutant: on_timeout publishes TIMEOUT and never updates the row.
TimeoutNotPersisted(j) ==
    /\ monitor[j] = "expired"
    /\ monitor' = [monitor EXCEPT ![j] =
          IF AlreadyTerminal(j) THEN "killing" ELSE "recorded"]
    /\ UNCHANGED <<dbVars, snapshot, result, message, submit, childVars,
                   cancelVars, stuck, crashes>>

CheckTimeout(j) ==
    /\ monitor[j] = "expired"
    /\ monitor' = [monitor EXCEPT ![j] =
          IF AlreadyTerminal(j) THEN "killing" ELSE "checked"]
    /\ UNCHANGED <<dbVars, snapshot, result, message, submit, childVars,
                   cancelVars, stuck, crashes>>

PersistTimeout(j) ==
    /\ monitor[j] = "checked"
    /\ SetRow(j, "timeout")
    /\ monitor' = [monitor EXCEPT ![j] = "recorded"]
    /\ UNCHANGED <<snapshot, result, message, submit, childVars, cancelVars,
                   stuck, crashes>>

PublishTimeout(j) ==
    /\ monitor[j] = "recorded"
    /\ Publish(j, "timeout")
    /\ monitor' = [monitor EXCEPT ![j] = "killing"]
    /\ UNCHANGED <<dbVars, result, message, submit, childVars, cancelVars,
                   stuck, crashes>>

\* A database error in on_timeout: the child is killed, nothing is recorded.
TimeoutFails(j) ==
    /\ j \in Fragile
    /\ monitor[j] \in {"expired", "checked"}
    /\ monitor' = [monitor EXCEPT ![j] = "killing"]
    /\ UNCHANGED <<dbVars, snapshot, result, message, submit, childVars,
                   cancelVars, stuck, crashes>>

KillExpired(j) ==
    /\ monitor[j] = "killing"
    /\ monitor' = [monitor EXCEPT ![j] = "idle"]
    /\ EndAttempt(j)
    /\ UNCHANGED <<dbVars, snapshot, result, submit, cancelVars, stuck,
                   crashes>>

\* SIGKILL on revocation: neither on_failure nor after_return runs.
KillRevoked(j) ==
    /\ revoked[j] /\ Alive(j)
    /\ EndAttempt(j)
    /\ UNCHANGED <<dbVars, snapshot, result, submit, monitor, cancelVars,
                   stuck, crashes>>

\* The child dies by itself: WorkerLostError, acknowledged, no handler runs.
LoseChild(j) ==
    /\ j \in Fragile /\ Alive(j)
    /\ EndAttempt(j)
    /\ UNCHANGED <<dbVars, snapshot, result, submit, monitor, cancelVars,
                   stuck, crashes>>

\* The worker of a queue dies, or loses its broker: its unacknowledged
\* messages go back to the queue; only a dead one forgets the revocations.
CrashWorker(q) ==
    LET lost(j) == QueueOf[j] = q IN
    /\ crashes < MaxCrashes
    /\ \E j \in Job : lost(j) /\ attempt[j] # "none"
    /\ crashes' = crashes + 1
    /\ attempt' = [j \in Job |-> IF lost(j) THEN "none" ELSE attempt[j]]
    /\ outcome' = [j \in Job |-> IF lost(j) THEN NoStatus ELSE outcome[j]]
    /\ waiting' = [j \in Job |-> IF lost(j) THEN {} ELSE waiting[j]]
    /\ monitor' = [j \in Job |-> IF lost(j) THEN "idle" ELSE monitor[j]]
    /\ revoked' \in {revoked, [j \in Job |-> revoked[j] /\ ~lost(j)]}
    /\ message' = [j \in Job |-> IF lost(j) /\ message[j] = "unacked"
                                 THEN "ready" ELSE message[j]]
    /\ UNCHANGED <<dbVars, snapshot, result, submit, cancel, answer, stuck>>

WorkerNext(j) ==
    \/ TimeLimit(j) \/ CheckTimeout(j) \/ PersistTimeout(j)
    \/ PublishTimeout(j) \/ TimeoutFails(j) \/ KillExpired(j)
    \/ KillRevoked(j) \/ LoseChild(j)

-----------------------------------------------------------------------------
(* POST /status/{token}/cancel, for a job whose token has been handed out   *)

AnswerCancel(j, s) ==
    /\ cancel' = [cancel EXCEPT ![j] = "answered"]
    /\ answer' = [answer EXCEPT ![j] = s]

AskCancel(j) ==
    /\ j \in Cancellable /\ submit[j] = "sent"
    /\ cancel[j] = "idle"
    /\ IF JobState(j) \in TerminalStatuses
       THEN AnswerCancel(j, JobState(j))
       ELSE cancel' = [cancel EXCEPT ![j] = "asked"] /\ UNCHANGED answer
    /\ UNCHANGED <<dbVars, snapshot, result, message, submit, childVars,
                   monitor, revoked, stuck, crashes>>

\* control.revoke is a broadcast: a worker that is away never sees it.
Revoke(j) ==
    /\ cancel[j] = "asked"
    /\ cancel' = [cancel EXCEPT ![j] = "revoked"]
    /\ revoked' \in {revoked, [revoked EXCEPT ![j] = TRUE]}
    /\ UNCHANGED <<dbVars, snapshot, result, message, submit, childVars,
                   monitor, answer, stuck, crashes>>

\* terminate_analysis returns early for a row that is not running; its
\* caller answers ANALYSIS_CANCELLED either way.
CheckCancel(j) ==
    /\ cancel[j] = "revoked"
    /\ IF row[j] \in RunningStatuses
       THEN cancel' = [cancel EXCEPT ![j] = "checked"] /\ UNCHANGED answer
       ELSE AnswerCancel(j, "cancelled")
    /\ UNCHANGED <<dbVars, snapshot, result, message, submit, childVars,
                   monitor, revoked, stuck, crashes>>

PersistCancel(j) ==
    /\ cancel[j] = "checked"
    /\ SetRow(j, "cancelled")
    /\ cancel' = [cancel EXCEPT ![j] = "recorded"]
    /\ UNCHANGED <<snapshot, result, message, submit, childVars, monitor,
                   answer, revoked, stuck, crashes>>

PublishCancel(j) ==
    /\ cancel[j] = "recorded"
    /\ Publish(j, "cancelled")
    /\ AnswerCancel(j, "cancelled")
    /\ UNCHANGED <<dbVars, result, message, submit, childVars, monitor,
                   revoked, stuck, crashes>>

CancelFails(j) ==
    /\ j \in Fragile
    /\ cancel[j] \in {"asked", "revoked", "checked", "recorded"}
    /\ cancel' = [cancel EXCEPT ![j] = "failed"]
    /\ UNCHANGED <<dbVars, snapshot, result, message, submit, childVars,
                   monitor, answer, revoked, stuck, crashes>>

CancelNext(j) ==
    AskCancel(j) \/ Revoke(j) \/ CheckCancel(j) \/ PersistCancel(j)
        \/ PublishCancel(j) \/ CancelFails(j)

-----------------------------------------------------------------------------
(* The cron job.  A row is stuck when it has been queued for a day, or five *)
(* minutes longer in processing than its time limit: by then the child that *)
(* set started_at has been killed, and the submit request has ended.        *)

BecomeStuck(j) ==
    /\ j \notin stuck
    /\ \/ row[j] = "queued" /\ submit[j] \in {"sent", "failed"}
       \/ row[j] = "processing" /\ attempt[j] \notin Started /\ monitor[j] = "idle"
    /\ stuck' = stuck \cup {j}
    /\ UNCHANGED <<dbVars, snapshot, result, message, submit, childVars,
                   monitor, cancelVars, crashes>>

\* Mutant: the function releases queued rows only.
ReleaseQueuedJobs ==
    LET released == {j \in stuck : row[j] = "queued"} IN
    /\ released # {}
    /\ row' = [j \in Job |-> IF j \in released THEN "error" ELSE row[j]]
    /\ recorded' = [j \in Job |-> IF j \in released
                          THEN recorded[j] \cup {"error"} ELSE recorded[j]]
    /\ UNCHANGED <<snapshot, result, message, submit, childVars, monitor,
                   cancelVars, stuck, crashes>>

\* release_stuck_analysis_jobs writes the rows, and publishes nothing.
ReleaseStuckJobs ==
    LET released == {j \in stuck : row[j] \in RunningStatuses} IN
    /\ released # {}
    /\ row' = [j \in Job |-> IF j \in released THEN "error" ELSE row[j]]
    /\ recorded' = [j \in Job |-> IF j \in released
                          THEN recorded[j] \cup {"error"} ELSE recorded[j]]
    /\ UNCHANGED <<snapshot, result, message, submit, childVars, monitor,
                   cancelVars, stuck, crashes>>

-----------------------------------------------------------------------------
Next ==
    \/ \E j \in Job : \/ SubmitNext(j) \/ ChildNext(j) \/ WorkerNext(j)
                      \/ CancelNext(j) \/ ExpireSnapshot(j) \/ BecomeStuck(j)
    \/ \E q \in Queue : CrashWorker(q)
    \/ ReleaseStuckJobs

\* What the deployment guarantees.  No handler is trusted to go on by itself:
\* the hard time limit fires (a child outside Slow ends before it), its handler
\* runs, a message whose child ended is acknowledged, the submit request ends,
\* the cron job runs, time passes, and Redis expires keys.
Fairness ==
    /\ \A j \in Job :
          /\ WF_vars(SubmitNext(j))
          /\ j \notin Slow => WF_vars(ChildProgress(j))
          /\ WF_vars(TimeLimit(j))
          /\ WF_vars(CheckTimeout(j) \/ PersistTimeout(j) \/ PublishTimeout(j))
          /\ WF_vars(KillExpired(j)) /\ WF_vars(Acknowledge(j))
          /\ WF_vars(BecomeStuck(j)) /\ WF_vars(ExpireSnapshot(j))
    /\ WF_vars(ReleaseStuckJobs)

Spec == Init /\ [][Next]_vars
FairSpec == Spec /\ Fairness

-----------------------------------------------------------------------------
(* Safety *)

TypeOK ==
    /\ row \in [Job -> Status \cup {NoStatus}]
    /\ recorded \in [Job -> SUBSET Status]
    /\ snapshot \in [Job -> Status \cup {NoStatus}]
    /\ result \in [Job -> {"absent", "partial", "whole"}]
    /\ message \in [Job -> {"unsent", "ready", "unacked", "acked"}]
    /\ submit \in [Job -> SubmitStep]
    /\ attempt \in [Job -> AttemptStep]
    /\ outcome \in [Job -> {NoStatus, "completed", "error"}]
    /\ waiting \in [Job -> SUBSET Job]
    /\ monitor \in [Job -> MonitorStep]
    /\ cancel \in [Job -> CancelStep]
    /\ answer \in [Job -> TerminalStatuses \cup {NoStatus}]
    /\ revoked \in [Job -> BOOLEAN]
    /\ stuck \subseteq Job
    /\ crashes \in 0..MaxCrashes

\* A job that clients are told is completed has a result they can read: the
\* status endpoint loads the result file on that status alone.
CompletedIsReadable ==
    \A j \in Job : JobState(j) = "completed" => result[j] = "whole"

\* Whatever the Redis snapshot says of a job, its row has said before: every
\* handler writes the database first, and none publishes what it has not
\* recorded.
ShownWasRecorded ==
    \A j \in Job : snapshot[j] # NoStatus => snapshot[j] \in recorded[j]

\* A result that was ever recorded as completed is never rewritten, whatever
\* is redelivered, cancelled or resurrected afterwards.
CompletedResultFrozen ==
    [][\A j \in Job : "completed" \in recorded[j] => result'[j] = result[j]]_vars

\* The actors whose next step overwrites the row of j with a terminal status
\* or with processing, on the strength of a check they made earlier.
Armed(j) ==
    {h \in {"child", "monitor", "cancel"} :
        \/ h = "child"   /\ attempt[j] \in {"checked", "finishing"}
        \/ h = "monitor" /\ monitor[j] = "checked"
        \/ h = "cancel"  /\ cancel[j] = "checked"}

\* The checks of _already_terminal and terminate_analysis are a one-way gate:
\* while a row stays terminal no handler gets past its check, and each later
\* rewrite of the row spends the check of a handler that was already past it.
TerminalRowIsGuarded ==
    [][\A j \in Job :
          row[j] \in TerminalStatuses /\ row'[j] \in TerminalStatuses
              => /\ Armed(j)' \subseteq Armed(j)
                 /\ row'[j] # row[j] => Armed(j)' # Armed(j)]_vars

-----------------------------------------------------------------------------
(* The inductive invariant behind ShownWasRecorded, CompletedIsReadable and *)
(* CompletedResultFrozen, and behind LedgerIsKept *)

RowWasRecorded == \A j \in Job : row[j] # NoStatus => row[j] \in recorded[j]

\* Whatever a handler may still publish, it has recorded or read in the row.
PendingWasRecorded ==
    \A j \in Job :
        /\ submit[j] = "inserted" => "queued" \in recorded[j]
        /\ \A k \in waiting[j] : "queued" \in recorded[k]
        /\ attempt[j] \in {"marked", "positioning", "running", "writing"}
              => "processing" \in recorded[j]
        /\ attempt[j] = "recorded" => outcome[j] \in recorded[j]
        /\ monitor[j] = "recorded" => "timeout" \in recorded[j]
        /\ cancel[j] = "recorded" => "cancelled" \in recorded[j]

\* A child about to record its outcome has one, and has written the result of
\* a success.
OutcomeIsReady ==
    \A j \in Job :
        attempt[j] \in {"returned", "finishing", "recorded"}
            => \/ outcome[j] = "error"
               \/ outcome[j] = "completed" /\ result[j] = "whole"

\* A child, and the messages and handlers that end one, exist only for a job
\* whose submit request has gone through.
OnlySentRuns ==
    \A j \in Job : submit[j] # "sent" =>
        /\ message[j] = "unsent"
        /\ attempt[j] = "none"
        /\ monitor[j] = "idle"
        /\ "completed" \notin recorded[j]

\* Once a job is recorded as completed its row is never running again, so no
\* child gets past _already_terminal to write the result a second time.
CompletedIsOver ==
    \A j \in Job : "completed" \in recorded[j] =>
        /\ result[j] = "whole"
        /\ row[j] \in TerminalStatuses
        /\ attempt[j] \in {"none", "received", "recorded", "acking", "returned"}

IndInv ==
    /\ TypeOK
    /\ RowWasRecorded
    /\ ShownWasRecorded
    /\ PendingWasRecorded
    /\ OutcomeIsReady
    /\ OnlySentRuns
    /\ CompletedIsOver

-----------------------------------------------------------------------------
(* What the handlers do together, seen without them *)

Ledger == INSTANCE JobLedger
    WITH status <- row, history <- recorded, shown <- snapshot, file <- result

\* Whatever order the handlers run in and whichever of them die, the service
\* keeps the promises of JobLedger: a job is queued once, shown only what it
\* has been, completed only with a whole result, and neither started nor its
\* result written after that.
LedgerIsKept == Ledger!LedgerSpec

-----------------------------------------------------------------------------
(* Liveness *)

\* Every admitted job comes to rest in a terminal status and so frees its
\* slot of max_concurrent_analyses, whichever handlers fail or die and even
\* if no worker ever takes its message.
JobsSettle ==
    \A j \in Job : [](row[j] # NoStatus => <>[](row[j] \in TerminalStatuses))

\* What clients are told of a job comes to agree with its row for good: no
\* late publish (of a position, of progress, of a lost race) outlives its
\* time to live.
StatusSettles ==
    \A j \in Job : <>[](JobState(j) = row[j])

-----------------------------------------------------------------------------
(* What the messages of the service promise and its races break *)

\* A request answered with "Analysis cancelled." has cancelled an analysis:
\* it does not complete all the same.
CancelledDoesNotComplete ==
    \A j \in Job : ~(answer[j] = "cancelled" /\ row[j] = "completed")

\* No user has more than max_concurrent_analyses analyses running.
ConcurrencyLimit ==
    \A u \in User : Cardinality(Running(u)) <= MaxConcurrent

=============================================================================
