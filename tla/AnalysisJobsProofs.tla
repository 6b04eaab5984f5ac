------------------------ MODULE AnalysisJobsProofs --------------------------
(***************************************************************************)
(* Theorems about AnalysisJobs, for every set of jobs, users and queues and *)
(* for every bound: its invariants first, then that it implements JobLedger; *)
(* about StatusClients, for any jobs that are streamed and awaited; and how *)
(* far the limit of concurrent analyses is overrun.                         *)
(***************************************************************************)
EXTENDS StatusClients, FiniteSetTheorems, TLAPS

LEMMA InitInd == Init => IndInv
  BY ConstantsAssumption
     DEF Init, IndInv, TypeOK, RowWasRecorded, ShownWasRecorded,
         PendingWasRecorded, OutcomeIsReady, CompletedIsOver, OnlySentRuns,
        Status,
         RunningStatuses, TerminalStatuses, NoStatus, SubmitStep, AttemptStep,
         MonitorStep, CancelStep

\* What an UPDATE of one row, a publish and the end of a child do to every job.
LEMMA SetRowFacts ==
    ASSUME TypeOK, NEW j \in Job, NEW s \in Status, SetRow(j, s)
    PROVE  /\ row' \in [Job -> Status \cup {NoStatus}]
           /\ recorded' \in [Job -> SUBSET Status]
           /\ \A k \in Job :
                 /\ row'[k] = IF k = j THEN s ELSE row[k]
                 /\ \A t : t \in recorded'[k]
                            <=> t \in recorded[k] \/ (k = j /\ t = s)
  BY DEF SetRow, TypeOK

LEMMA PublishFacts ==
    ASSUME TypeOK, NEW j \in Job, NEW s \in Status, Publish(j, s)
    PROVE  /\ snapshot' \in [Job -> Status \cup {NoStatus}]
           /\ \A k \in Job :
                 snapshot'[k] = snapshot[k] \/ (k = j /\ snapshot'[k] = s)
<1>1. CASE snapshot' = [snapshot EXCEPT ![j] = s]
  BY <1>1 DEF TypeOK
<1>2. CASE UNCHANGED snapshot
  BY <1>2 DEF TypeOK
<1> QED
  BY <1>1, <1>2 DEF Publish

LEMMA EndAttemptFacts ==
    ASSUME TypeOK, NEW j \in Job, EndAttempt(j)
    PROVE  /\ attempt' \in [Job -> AttemptStep]
           /\ outcome' \in [Job -> {NoStatus, "completed", "error"}]
           /\ waiting' \in [Job -> SUBSET Job]
           /\ message' \in [Job -> {"unsent", "ready", "unacked", "acked"}]
           /\ \A k \in Job :
                 /\ attempt'[k] = IF k = j THEN "none" ELSE attempt[k]
                 /\ outcome'[k] = IF k = j THEN NoStatus ELSE outcome[k]
                 /\ waiting'[k] = IF k = j THEN {} ELSE waiting[k]
                 /\ message'[k] = IF k = j THEN "acked" ELSE message[k]
  BY DEF EndAttempt, TypeOK, AttemptStep

LEMMA SubmitInd ==
    ASSUME IndInv, NEW j \in Job, SubmitNext(j)
    PROVE  IndInv'
<1> USE DEF IndInv, TypeOK, RowWasRecorded, ShownWasRecorded,
        PendingWasRecorded, OutcomeIsReady, CompletedIsOver, OnlySentRuns,
        Status,
        RunningStatuses, TerminalStatuses, NoStatus, SubmitStep, AttemptStep,
        MonitorStep, CancelStep, dbVars, childVars, cancelVars
<1>1. CASE CountRunning(j)
  BY <1>1 DEF CountRunning
<1>2. CASE InsertJob(j)
  <2>1. SetRow(j, "queued") /\ "queued" \in Status
    BY <1>2 DEF InsertJob
  <2>2. /\ row' \in [Job -> Status \cup {NoStatus}]
        /\ recorded' \in [Job -> SUBSET Status]
        /\ \A k \in Job :
              /\ row'[k] = IF k = j THEN "queued" ELSE row[k]
              /\ \A t : t \in recorded'[k]
                         <=> t \in recorded[k] \/ (k = j /\ t = "queued")
    BY <2>1, SetRowFacts
  <2>3. TypeOK'
    BY <1>2, <2>2 DEF InsertJob
  <2>4. RowWasRecorded' /\ ShownWasRecorded'
    BY <1>2, <2>2 DEF InsertJob
  <2>5. PendingWasRecorded'
    BY <1>2, <2>2 DEF InsertJob
  <2>6. OutcomeIsReady' /\ CompletedIsOver' /\ OnlySentRuns'
    BY <1>2, <2>2 DEF InsertJob
  <2> QED
    BY <2>3, <2>4, <2>5, <2>6
<1>3. CASE AnnounceQueued(j)
  BY <1>3, PublishFacts DEF AnnounceQueued
<1>4. CASE StoreInput(j)
  BY <1>4 DEF StoreInput
<1>5. CASE SendTask(j)
  BY <1>5 DEF SendTask
<1>6. CASE SubmitFails(j)
  BY <1>6 DEF SubmitFails
<1> QED
  BY <1>1, <1>2, <1>3, <1>4, <1>5, <1>6 DEF SubmitNext

LEMMA ChildInd ==
    ASSUME IndInv, NEW j \in Job, ChildNext(j)
    PROVE  IndInv'
<1> USE DEF IndInv, TypeOK, RowWasRecorded, ShownWasRecorded,
        PendingWasRecorded, OutcomeIsReady, CompletedIsOver, OnlySentRuns,
        Status,
        RunningStatuses, TerminalStatuses, NoStatus, SubmitStep, AttemptStep,
        MonitorStep, CancelStep, dbVars, childVars, cancelVars
<1>1. CASE Deliver(j)
  BY <1>1 DEF Deliver, Goto
<1>2. CASE Discard(j)
  BY <1>2 DEF Discard
<1>3. CASE CheckStart(j)
  BY <1>3 DEF CheckStart, Goto, AlreadyTerminal
<1>4. CASE MarkProcessing(j)
  <2>1. SetRow(j, "processing") /\ "processing" \in Status
    BY <1>4 DEF MarkProcessing
  <2>2. /\ row' \in [Job -> Status \cup {NoStatus}]
        /\ recorded' \in [Job -> SUBSET Status]
        /\ \A k \in Job :
              /\ row'[k] = IF k = j THEN "processing" ELSE row[k]
              /\ \A t : t \in recorded'[k]
                         <=> t \in recorded[k] \/ (k = j /\ t = "processing")
    BY <2>1, SetRowFacts
  <2>3. TypeOK'
    BY <1>4, <2>2 DEF MarkProcessing, Goto
  <2>4. RowWasRecorded' /\ ShownWasRecorded'
    BY <1>4, <2>2 DEF MarkProcessing, Goto
  <2>5. PendingWasRecorded'
    BY <1>4, <2>2 DEF MarkProcessing, Goto
  <2>6. OutcomeIsReady' /\ CompletedIsOver' /\ OnlySentRuns'
    BY <1>4, <2>2 DEF MarkProcessing, Goto
  <2> QED
    BY <2>3, <2>4, <2>5, <2>6
<1>5. CASE ListQueuedJobs(j)
  BY <1>5 DEF ListQueuedJobs, Goto
<1>6. CASE PublishPosition(j)
  BY <1>6, PublishFacts DEF PublishPosition
<1>7. CASE StartRun(j)
  BY <1>7, PublishFacts DEF StartRun, Goto
<1>8. CASE BeginResult(j)
  BY <1>8 DEF BeginResult, Goto
<1>9. CASE FinishRun(j)
  BY <1>9 DEF FinishRun, Goto
<1>10. CASE FailRun(j)
  BY <1>10 DEF FailRun, Goto
<1>11. CASE CheckReturn(j)
  BY <1>11 DEF CheckReturn, Goto, AlreadyTerminal
<1>12. CASE PersistOutcome(j)
  <2>1. SetRow(j, outcome[j]) /\ outcome[j] \in Status
    BY <1>12 DEF PersistOutcome
  <2>2. /\ row' \in [Job -> Status \cup {NoStatus}]
        /\ recorded' \in [Job -> SUBSET Status]
        /\ \A k \in Job :
              /\ row'[k] = IF k = j THEN outcome[j] ELSE row[k]
              /\ \A t : t \in recorded'[k]
                         <=> t \in recorded[k] \/ (k = j /\ t = outcome[j])
    BY <2>1, SetRowFacts
  <2>3. TypeOK'
    BY <1>12, <2>2 DEF PersistOutcome, Goto
  <2>4. RowWasRecorded' /\ ShownWasRecorded'
    <3>1. UNCHANGED snapshot
      BY <1>12 DEF PersistOutcome
    <3> QED
      BY <2>2, <3>1
  <2>5. PendingWasRecorded'
    <3>1. /\ outcome[j] \in recorded'[j]
          /\ \A k \in Job : \A t \in recorded[k] : t \in recorded'[k]
      BY <2>2
    <3>2. /\ attempt' = [attempt EXCEPT ![j] = "recorded"]
          /\ UNCHANGED <<submit, waiting, outcome, monitor, cancel>>
      BY <1>12 DEF PersistOutcome, Goto
    <3> QED
      BY <3>1, <3>2
  <2>6. OutcomeIsReady' /\ CompletedIsOver' /\ OnlySentRuns'
    BY <1>12, <2>2 DEF PersistOutcome, Goto
  <2> QED
    BY <2>3, <2>4, <2>5, <2>6
<1>13. CASE PublishOutcome(j)
  <2>1. Publish(j, outcome[j]) /\ outcome[j] \in Status \cap recorded[j]
    BY <1>13 DEF PublishOutcome
  <2>2. /\ snapshot' \in [Job -> Status \cup {NoStatus}]
        /\ \A k \in Job :
              snapshot'[k] = snapshot[k] \/ (k = j /\ snapshot'[k] = outcome[j])
    BY <2>1, PublishFacts
  <2>3. /\ attempt' = [attempt EXCEPT ![j] = "acking"]
        /\ UNCHANGED <<row, recorded, result, message, submit, outcome,
                       waiting, monitor, cancel, answer, revoked, stuck,
                       crashes>>
    BY <1>13 DEF PublishOutcome, Goto
  <2>4. /\ attempt' \in [Job -> AttemptStep]
        /\ \A k \in Job : attempt'[k] \in {attempt[k], "acking"}
    BY <2>3
  <2>5. TypeOK' /\ RowWasRecorded' /\ ShownWasRecorded'
    BY <2>1, <2>2, <2>3, <2>4
  <2>6. PendingWasRecorded'
    BY <2>3, <2>4
  <2>7. OutcomeIsReady' /\ CompletedIsOver'
    BY <2>3, <2>4
  <2>8. OnlySentRuns'
    <3>1. submit[j] = "sent"
      BY <1>13 DEF PublishOutcome
    <3> QED
      BY <2>3, <3>1
  <2> QED
    BY <2>5, <2>6, <2>7, <2>8
<1>14. CASE Acknowledge(j)
  BY <1>14, EndAttemptFacts DEF Acknowledge
<1>15. CASE EmitProgress(j)
  BY <1>15, PublishFacts DEF EmitProgress
<1>16. CASE StartFails(j)
  BY <1>16 DEF StartFails, Goto
<1>17. CASE PersistFails(j)
  BY <1>17 DEF PersistFails, Goto
<1> QED
  BY <1>1, <1>2, <1>3, <1>4, <1>5, <1>6, <1>7, <1>8, <1>9, <1>10, <1>11, <1>12, <1>13, <1>14, <1>15, <1>16, <1>17 DEF ChildNext, ChildProgress

LEMMA WorkerInd ==
    ASSUME IndInv, NEW j \in Job, WorkerNext(j)
    PROVE  IndInv'
<1> USE DEF IndInv, TypeOK, RowWasRecorded, ShownWasRecorded,
        PendingWasRecorded, OutcomeIsReady, CompletedIsOver, OnlySentRuns,
        Status,
        RunningStatuses, TerminalStatuses, NoStatus, SubmitStep, AttemptStep,
        MonitorStep, CancelStep, dbVars, childVars, cancelVars
<1>1. CASE TimeLimit(j)
  <2>1. message' \in [Job -> {"unsent", "ready", "unacked", "acked"}]
        /\ \A k \in Job : message'[k] = message[k] \/ (k = j /\ Alive(j))
    <3>1. CASE message' = message
      BY <3>1
    <3>2. CASE message' = [message EXCEPT ![j] = "acked"]
      BY <1>1, <3>2 DEF TimeLimit
    <3> QED
      BY <1>1, <3>1, <3>2 DEF TimeLimit
  <2>2. /\ monitor' = [monitor EXCEPT ![j] = "expired"]
        /\ Alive(j)
        /\ UNCHANGED <<row, recorded, snapshot, result, submit, attempt,
                       outcome, waiting, cancel, answer, revoked, stuck,
                       crashes>>
    BY <1>1 DEF TimeLimit
  <2> QED
    BY <2>1, <2>2 DEF Alive
<1>2. CASE CheckTimeout(j)
  BY <1>2 DEF CheckTimeout, AlreadyTerminal
<1>3. CASE PersistTimeout(j)
  <2>1. SetRow(j, "timeout") /\ "timeout" \in Status
    BY <1>3 DEF PersistTimeout
  <2>2. /\ row' \in [Job -> Status \cup {NoStatus}]
        /\ recorded' \in [Job -> SUBSET Status]
        /\ \A k \in Job :
              /\ row'[k] = IF k = j THEN "timeout" ELSE row[k]
              /\ \A t : t \in recorded'[k]
                         <=> t \in recorded[k] \/ (k = j /\ t = "timeout")
    BY <2>1, SetRowFacts
  <2>3. TypeOK'
    BY <1>3, <2>2 DEF PersistTimeout
  <2>4. RowWasRecorded' /\ ShownWasRecorded'
    BY <1>3, <2>2 DEF PersistTimeout
  <2>5. PendingWasRecorded'
    BY <1>3, <2>2 DEF PersistTimeout
  <2>6. OutcomeIsReady' /\ CompletedIsOver' /\ OnlySentRuns'
    BY <1>3, <2>2 DEF PersistTimeout
  <2> QED
    BY <2>3, <2>4, <2>5, <2>6
<1>4. CASE PublishTimeout(j)
  BY <1>4, PublishFacts DEF PublishTimeout
<1>5. CASE KillExpired(j)
  BY <1>5, EndAttemptFacts DEF KillExpired
<1>6. CASE KillRevoked(j)
  BY <1>6, EndAttemptFacts DEF KillRevoked, Alive
<1>7. CASE LoseChild(j)
  BY <1>7, EndAttemptFacts DEF LoseChild, Alive
<1>8. CASE TimeoutFails(j)
  BY <1>8 DEF TimeoutFails
<1> QED
  BY <1>1, <1>2, <1>3, <1>4, <1>5, <1>6, <1>7, <1>8 DEF WorkerNext

LEMMA CancelInd ==
    ASSUME IndInv, NEW j \in Job, CancelNext(j)
    PROVE  IndInv'
<1> USE DEF IndInv, TypeOK, RowWasRecorded, ShownWasRecorded,
        PendingWasRecorded, OutcomeIsReady, CompletedIsOver, OnlySentRuns,
        Status,
        RunningStatuses, TerminalStatuses, NoStatus, SubmitStep, AttemptStep,
        MonitorStep, CancelStep, dbVars, childVars, cancelVars
<1>1. CASE AskCancel(j)
  BY <1>1 DEF AskCancel, AnswerCancel, JobState
<1>2. CASE Revoke(j)
  <2>1. revoked' \in [Job -> BOOLEAN]
    <3>1. CASE revoked' = revoked
      BY <3>1
    <3>2. CASE revoked' = [revoked EXCEPT ![j] = TRUE]
      BY <3>2
    <3> QED
      BY <1>2, <3>1, <3>2 DEF Revoke
  <2>2. /\ cancel' = [cancel EXCEPT ![j] = "revoked"]
        /\ UNCHANGED <<row, recorded, snapshot, result, message, submit,
                       attempt, outcome, waiting, monitor, answer, stuck,
                       crashes>>
    BY <1>2 DEF Revoke
  <2> QED
    BY <2>1, <2>2
<1>3. CASE CheckCancel(j)
  <2>1. CASE row[j] \in RunningStatuses
    <3>1. /\ cancel' = [cancel EXCEPT ![j] = "checked"]
          /\ UNCHANGED <<row, recorded, snapshot, result, message, submit,
                         attempt, outcome, waiting, monitor, answer, revoked,
                         stuck, crashes>>
      BY <1>3, <2>1 DEF CheckCancel
    <3> QED
      BY <3>1
  <2>2. CASE row[j] \notin RunningStatuses
    <3>1. /\ cancel' = [cancel EXCEPT ![j] = "answered"]
          /\ answer' = [answer EXCEPT ![j] = "cancelled"]
          /\ UNCHANGED <<row, recorded, snapshot, result, message, submit,
                         attempt, outcome, waiting, monitor, revoked, stuck,
                         crashes>>
      BY <1>3, <2>2 DEF CheckCancel, AnswerCancel
    <3> QED
      BY <3>1
  <2> QED
    BY <2>1, <2>2
<1>4. CASE PersistCancel(j)
  <2>1. SetRow(j, "cancelled") /\ "cancelled" \in Status
    BY <1>4 DEF PersistCancel
  <2>2. /\ row' \in [Job -> Status \cup {NoStatus}]
        /\ recorded' \in [Job -> SUBSET Status]
        /\ \A k \in Job :
              /\ row'[k] = IF k = j THEN "cancelled" ELSE row[k]
              /\ \A t : t \in recorded'[k]
                         <=> t \in recorded[k] \/ (k = j /\ t = "cancelled")
    BY <2>1, SetRowFacts
  <2>3. TypeOK'
    BY <1>4, <2>2 DEF PersistCancel
  <2>4. RowWasRecorded' /\ ShownWasRecorded'
    BY <1>4, <2>2 DEF PersistCancel
  <2>5. PendingWasRecorded'
    BY <1>4, <2>2 DEF PersistCancel
  <2>6. OutcomeIsReady' /\ CompletedIsOver' /\ OnlySentRuns'
    BY <1>4, <2>2 DEF PersistCancel
  <2> QED
    BY <2>3, <2>4, <2>5, <2>6
<1>5. CASE PublishCancel(j)
  BY <1>5, PublishFacts DEF PublishCancel, AnswerCancel
<1>6. CASE CancelFails(j)
  BY <1>6 DEF CancelFails
<1> QED
  BY <1>1, <1>2, <1>3, <1>4, <1>5, <1>6 DEF CancelNext

LEMMA StoreInd ==
    ASSUME IndInv, NEW j \in Job, ExpireSnapshot(j) \/ BecomeStuck(j)
    PROVE  IndInv'
<1> USE DEF IndInv, TypeOK, RowWasRecorded, ShownWasRecorded,
        PendingWasRecorded, OutcomeIsReady, CompletedIsOver, OnlySentRuns,
        Status, RunningStatuses, TerminalStatuses, NoStatus, SubmitStep,
        AttemptStep, MonitorStep, CancelStep, dbVars, childVars, cancelVars
<1>1. CASE ExpireSnapshot(j)
  BY <1>1 DEF ExpireSnapshot
<1>2. CASE BecomeStuck(j)
  BY <1>2 DEF BecomeStuck
<1> QED
  BY <1>1, <1>2

LEMMA CrashInd ==
    ASSUME IndInv, NEW q \in Queue, CrashWorker(q)
    PROVE  IndInv'
<1> USE DEF IndInv, TypeOK, RowWasRecorded, ShownWasRecorded,
        PendingWasRecorded, OutcomeIsReady, CompletedIsOver, OnlySentRuns,
        Status, RunningStatuses, TerminalStatuses, NoStatus, SubmitStep,
        AttemptStep, MonitorStep, CancelStep, dbVars, childVars, cancelVars
<1>1. /\ attempt' \in [Job -> AttemptStep]
      /\ outcome' \in [Job -> {NoStatus, "completed", "error"}]
      /\ waiting' \in [Job -> SUBSET Job]
      /\ monitor' \in [Job -> MonitorStep]
      /\ message' \in [Job -> {"unsent", "ready", "unacked", "acked"}]
  BY DEF CrashWorker
<1>2. revoked' \in [Job -> BOOLEAN]
  <2>1. CASE revoked' = revoked
    BY <2>1
  <2>2. CASE revoked' = [j \in Job |-> revoked[j] /\ ~(QueueOf[j] = q)]
    BY <2>2
  <2> QED
    BY <2>1, <2>2 DEF CrashWorker
<1>3. crashes' \in 0..MaxCrashes
  BY ConstantsAssumption DEF CrashWorker
<1>4. UNCHANGED <<row, recorded, snapshot, result, submit, cancel, answer, stuck>>
  BY DEF CrashWorker
<1>5. \A j \in Job :
        /\ attempt'[j] \in {"none", attempt[j]}
        /\ waiting'[j] \subseteq waiting[j]
        /\ monitor'[j] \in {"idle", monitor[j]}
        /\ message[j] = "unsent" => message'[j] = "unsent"
        /\ attempt'[j] # "none" => outcome'[j] = outcome[j]
  BY DEF CrashWorker
<1> QED
  BY <1>1, <1>2, <1>3, <1>4, <1>5

LEMMA ReleaseInd ==
    ASSUME IndInv, ReleaseStuckJobs
    PROVE  IndInv'
<1> USE DEF IndInv, TypeOK, RowWasRecorded, ShownWasRecorded,
        PendingWasRecorded, OutcomeIsReady, CompletedIsOver, OnlySentRuns,
        Status, RunningStatuses, TerminalStatuses, NoStatus, SubmitStep,
        AttemptStep, MonitorStep, CancelStep, dbVars, childVars, cancelVars
<1>1. row' \in [Job -> Status \cup {NoStatus}] /\ recorded' \in [Job -> SUBSET Status]
  BY DEF ReleaseStuckJobs
<1>2. \A j \in Job :
        \/ row'[j] = row[j] /\ recorded'[j] = recorded[j]
        \/ /\ row[j] \in RunningStatuses
           /\ row'[j] = "error"
           /\ \A t : t \in recorded'[j] <=> t \in recorded[j] \/ t = "error"
  BY DEF ReleaseStuckJobs
<1>3. UNCHANGED <<snapshot, result, message, submit, attempt, outcome, waiting,
                  monitor, cancel, answer, revoked, stuck, crashes>>
  BY DEF ReleaseStuckJobs
<1>4. TypeOK'
  BY <1>1, <1>3
<1>5. RowWasRecorded' /\ ShownWasRecorded' /\ OutcomeIsReady'
  BY <1>1, <1>2, <1>3
<1>6. PendingWasRecorded'
  BY <1>1, <1>2, <1>3
<1>7. CompletedIsOver' /\ OnlySentRuns'
  BY <1>1, <1>2, <1>3
<1> QED
  BY <1>4, <1>5, <1>6, <1>7

\* Every step of every process preserves the inductive invariant.
LEMMA NextInd == IndInv /\ [Next]_vars => IndInv'
<1> SUFFICES ASSUME IndInv, [Next]_vars
             PROVE  IndInv'
  OBVIOUS
<1>1. CASE UNCHANGED vars
  BY <1>1 DEF vars, IndInv, TypeOK, RowWasRecorded, ShownWasRecorded,
              PendingWasRecorded, OutcomeIsReady, CompletedIsOver, OnlySentRuns
<1>2. CASE Next
  BY <1>2, SubmitInd, ChildInd, WorkerInd, CancelInd, StoreInd, CrashInd,
     ReleaseInd DEF Next
<1> QED
  BY <1>1, <1>2

\* The inductive invariant holds in every reachable state.
THEOREM Invariance == Spec => []IndInv
<1>1. Init => IndInv
  BY InitInd
<1>2. IndInv /\ [Next]_vars => IndInv'
  BY NextInd
<1> QED
  BY <1>1, <1>2, PTL DEF Spec

\* Every variable of the job lifecycle keeps its type.
THEOREM TypeCorrectness == Spec => []TypeOK
<1>1. IndInv => TypeOK
  BY DEF IndInv
<1> QED
  BY <1>1, Invariance, PTL

\* Redis never shows a status that the database has not recorded before.
THEOREM ShownAfterRecorded == Spec => []ShownWasRecorded
<1>1. IndInv => ShownWasRecorded
  BY DEF IndInv
<1> QED
  BY <1>1, Invariance, PTL

\* A job reported as completed has a whole result file to be read.
THEOREM CompletedReadable == Spec => []CompletedIsReadable
<1>1. IndInv => CompletedIsReadable
  BY DEF IndInv, TypeOK, RowWasRecorded, ShownWasRecorded, CompletedIsOver,
         CompletedIsReadable, JobState, NoStatus
<1> QED
  BY <1>1, Invariance, PTL

\* Only a child that is writing touches the result file, and CompletedIsOver
\* keeps every child of a completed job out of that state.
LEMMA NextKeepsCompletedResult ==
    ASSUME IndInv, Next, NEW k \in Job, "completed" \in recorded[k]
    PROVE  result'[k] = result[k]
<1>1. attempt[k] \notin {"running", "writing"} /\ result \in [Job -> {"absent", "partial", "whole"}]
  BY DEF IndInv, TypeOK, CompletedIsOver
<1>2. ASSUME NEW j \in Job, SubmitNext(j)
      PROVE  UNCHANGED result
  BY <1>2 DEF SubmitNext, CountRunning, InsertJob, AnnounceQueued, StoreInput,
              SendTask, SubmitFails
<1>3. ASSUME NEW j \in Job, ChildNext(j)
      PROVE  result'[k] = result[k]
  <2>1. CASE BeginResult(j) \/ FinishRun(j)
    BY <1>1, <2>1 DEF BeginResult, FinishRun
  <2>2. CASE ~(BeginResult(j) \/ FinishRun(j))
    BY <1>3, <2>2 DEF ChildNext, ChildProgress, Deliver, Discard, CheckStart,
       MarkProcessing, ListQueuedJobs, PublishPosition, StartRun, FailRun,
       CheckReturn, PersistOutcome, PublishOutcome, Acknowledge, EmitProgress,
       StartFails, PersistFails
  <2> QED
    BY <2>1, <2>2
<1>4. ASSUME NEW j \in Job, WorkerNext(j)
      PROVE  UNCHANGED result
  BY <1>4 DEF WorkerNext, TimeLimit, CheckTimeout, PersistTimeout,
              PublishTimeout, TimeoutFails, KillExpired, KillRevoked, LoseChild
<1>5. ASSUME NEW j \in Job, CancelNext(j)
      PROVE  UNCHANGED result
  BY <1>5 DEF CancelNext, AskCancel, Revoke, CheckCancel, PersistCancel,
              PublishCancel, CancelFails
<1>6. ASSUME \/ \E j \in Job : ExpireSnapshot(j) \/ BecomeStuck(j)
             \/ \E q \in Queue : CrashWorker(q)
             \/ ReleaseStuckJobs
      PROVE  UNCHANGED result
  BY <1>6 DEF ExpireSnapshot, BecomeStuck, CrashWorker, ReleaseStuckJobs
<1> QED
  BY <1>2, <1>3, <1>4, <1>5, <1>6 DEF Next

\* The result of a job once recorded as completed never changes again.
THEOREM CompletedFrozen == Spec => CompletedResultFrozen
<1>1. IndInv /\ [Next]_vars
        => [\A j \in Job : "completed" \in recorded[j] => result'[j] = result[j]]_vars
  BY NextKeepsCompletedResult
<1> QED
  BY <1>1, Invariance, PTL DEF Spec, CompletedResultFrozen

\* No step lets a handler past its check while the row of its job is
\* terminal, and a step that rewrites a terminal row uses up such a check.
LEMMA NextSpendsChecks ==
    ASSUME IndInv, Next, NEW k \in Job,
           row[k] \in TerminalStatuses, row'[k] \in TerminalStatuses
    PROVE  /\ Armed(k)' \subseteq Armed(k)
           /\ row'[k] # row[k] => Armed(k)' # Armed(k)
<1> DEFINE Writing == {"checked", "finishing"}
           Goal == /\ attempt'[k] \in Writing => attempt[k] \in Writing
                   /\ monitor'[k] = "checked" => monitor[k] = "checked"
                   /\ cancel'[k] = "checked" => cancel[k] = "checked"
                   /\ row'[k] # row[k] =>
                        \/ attempt[k] \in Writing /\ attempt'[k] \notin Writing
                        \/ monitor[k] = "checked" /\ monitor'[k] # "checked"
                        \/ cancel[k] = "checked" /\ cancel'[k] # "checked"
<1> SUFFICES Goal
  BY DEF Armed
<1> USE DEF TerminalStatuses, RunningStatuses, AlreadyTerminal, dbVars,
            childVars, cancelVars
<1>1. TypeOK
  BY DEF IndInv
<1>2. ASSUME NEW j \in Job, SubmitNext(j)
      PROVE  Goal
  BY <1>1, <1>2 DEF TypeOK, SubmitNext, CountRunning, InsertJob, SetRow,
     AnnounceQueued, StoreInput, SendTask, SubmitFails
<1>3. ASSUME NEW j \in Job, ChildNext(j)
      PROVE  Goal
  <2>1. CASE CheckStart(j) \/ CheckReturn(j) \/ Deliver(j) \/ Discard(j)
    BY <1>1, <2>1 DEF TypeOK, CheckStart, CheckReturn, Deliver, Discard, Goto
  <2>2. CASE MarkProcessing(j) \/ PersistOutcome(j)
    BY <1>1, <2>2 DEF TypeOK, MarkProcessing, PersistOutcome, SetRow, Goto
  <2>3. CASE \/ ListQueuedJobs(j) \/ PublishPosition(j) \/ StartRun(j)
             \/ BeginResult(j) \/ FinishRun(j) \/ FailRun(j)
    BY <1>1, <2>3 DEF TypeOK, ListQueuedJobs, PublishPosition, StartRun,
       BeginResult, FinishRun, FailRun, Goto
  <2>4. CASE \/ PublishOutcome(j) \/ Acknowledge(j) \/ EmitProgress(j)
             \/ StartFails(j) \/ PersistFails(j)
    BY <1>1, <2>4 DEF TypeOK, PublishOutcome, Acknowledge, EndAttempt,
       EmitProgress, StartFails, PersistFails, Goto
  <2> QED
    BY <1>3, <2>1, <2>2, <2>3, <2>4 DEF ChildNext, ChildProgress
<1>4. ASSUME NEW j \in Job, WorkerNext(j)
      PROVE  Goal
  BY <1>1, <1>4 DEF TypeOK, WorkerNext, TimeLimit, CheckTimeout,
     PersistTimeout, SetRow, PublishTimeout, TimeoutFails, KillExpired, KillRevoked,
     LoseChild, EndAttempt
<1>5. ASSUME NEW j \in Job, CancelNext(j)
      PROVE  Goal
  BY <1>1, <1>5 DEF TypeOK, CancelNext, AskCancel, AnswerCancel, Revoke,
     CheckCancel, PersistCancel, SetRow, PublishCancel, CancelFails
<1>6. ASSUME NEW j \in Job, ExpireSnapshot(j) \/ BecomeStuck(j)
      PROVE  Goal
  BY <1>6 DEF ExpireSnapshot, BecomeStuck
<1>7. ASSUME NEW q \in Queue, CrashWorker(q)
      PROVE  Goal
  BY <1>1, <1>7 DEF TypeOK, CrashWorker
<1>8. ASSUME ReleaseStuckJobs
      PROVE  Goal
  BY <1>1, <1>8 DEF TypeOK, ReleaseStuckJobs
<1> QED
  BY <1>2, <1>3, <1>4, <1>5, <1>6, <1>7, <1>8 DEF Next

\* The terminal checks are a one-way gate.
THEOREM TerminalGuarded == Spec => TerminalRowIsGuarded
<1>1. IndInv /\ [Next]_vars
        => [\A j \in Job :
               row[j] \in TerminalStatuses /\ row'[j] \in TerminalStatuses
                 => /\ Armed(j)' \subseteq Armed(j)
                    /\ row'[j] # row[j] => Armed(j)' # Armed(j)]_vars
  BY NextSpendsChecks
<1> QED
  BY <1>1, Invariance, PTL DEF Spec, TerminalRowIsGuarded

-----------------------------------------------------------------------------
(* AnalysisJobs implements JobLedger: each step of a handler is a step of the *)
(* ledger or no step at all.                                                  *)

\* A job is recorded by its own insert first, and cancelled after its submit.
AdmittedFirst ==
    \A j \in Job :
        /\ submit[j] \in {"idle", "counted", "rejected"} => recorded[j] = {}
        /\ submit[j] \in {"inserted", "announced", "stored", "sent"}
              => recorded[j] # {}
        /\ cancel[j] # "idle" => submit[j] = "sent"

LEMMA InitAdmitted == Init => AdmittedFirst
  BY DEF Init, AdmittedFirst

\* An UPDATE records something for one job and nothing for another.
LEMMA SetRowAdmits ==
    ASSUME TypeOK, NEW j \in Job, NEW s \in Status, SetRow(j, s)
    PROVE  \A k \in Job : recorded'[k] # {} <=> recorded[k] # {} \/ k = j
<1>1. \A k \in Job : recorded'[k] = IF k = j THEN recorded[k] \cup {s} ELSE recorded[k]
  BY DEF SetRow, TypeOK
<1> QED
  BY <1>1

\* Every step keeps the order insert, send, cancel.
LEMMA NextAdmitted == IndInv /\ AdmittedFirst /\ [Next]_vars => AdmittedFirst'
<1> SUFFICES ASSUME IndInv, AdmittedFirst, [Next]_vars
             PROVE  AdmittedFirst'
  OBVIOUS
<1>1. TypeOK /\ OnlySentRuns
  BY DEF IndInv
<1> USE <1>1 DEF dbVars, childVars, cancelVars
<1>2. ASSUME NEW j \in Job, SubmitNext(j)
      PROVE  AdmittedFirst'
  <2>1. CASE InsertJob(j)
    <3>1. SetRow(j, "queued") /\ "queued" \in Status
      BY <2>1 DEF InsertJob, Status, RunningStatuses
    <3>2. \A k \in Job : recorded'[k] # {} <=> recorded[k] # {} \/ k = j
      BY <3>1, SetRowAdmits
    <3>3. /\ \A k \in Job : submit'[k] = IF k = j THEN "inserted" ELSE submit[k]
          /\ submit[j] = "counted" /\ UNCHANGED cancel
      BY <2>1 DEF InsertJob, TypeOK
    <3> QED
      BY <3>2, <3>3 DEF AdmittedFirst
  <2>2. CASE CountRunning(j)
    BY <2>2 DEF CountRunning, AdmittedFirst, TypeOK
  <2>3. CASE AnnounceQueued(j) \/ StoreInput(j) \/ SendTask(j) \/ SubmitFails(j)
    BY <2>3 DEF AnnounceQueued, StoreInput, SendTask, SubmitFails,
       AdmittedFirst, TypeOK
  <2> QED
    BY <1>2, <2>1, <2>2, <2>3 DEF SubmitNext
<1>3. ASSUME NEW j \in Job, submit[j] = "sent", NEW s \in Status, SetRow(j, s),
             UNCHANGED submit, \A k \in Job : cancel'[k] # "idle" => cancel[k] # "idle"
      PROVE  AdmittedFirst'
  BY <1>3, SetRowAdmits DEF AdmittedFirst
<1>4. ASSUME UNCHANGED <<submit, recorded, cancel>>
      PROVE  AdmittedFirst'
  BY <1>4 DEF AdmittedFirst
<1>5. ASSUME NEW j \in Job, ChildNext(j)
      PROVE  AdmittedFirst'
  <2>1. CASE MarkProcessing(j)
    BY <1>3, <2>1 DEF MarkProcessing, OnlySentRuns, Status, RunningStatuses
  <2>2. CASE PersistOutcome(j)
    <3>1. attempt[j] = "finishing" /\ outcome[j] \in Status
      BY <2>2 DEF PersistOutcome, IndInv, OutcomeIsReady, Status, TerminalStatuses
    <3> QED
      BY <1>3, <2>2, <3>1 DEF PersistOutcome, OnlySentRuns
  <2>3. CASE ~(MarkProcessing(j) \/ PersistOutcome(j))
    BY <1>4, <1>5, <2>3 DEF ChildNext, ChildProgress, Deliver, Discard,
       CheckStart, ListQueuedJobs, PublishPosition, StartRun, BeginResult,
       FinishRun, FailRun, CheckReturn, PublishOutcome, Acknowledge,
       EmitProgress, StartFails, PersistFails
  <2> QED
    BY <2>1, <2>2, <2>3
<1>6. ASSUME NEW j \in Job, WorkerNext(j)
      PROVE  AdmittedFirst'
  <2>1. CASE PersistTimeout(j)
    BY <1>3, <2>1 DEF PersistTimeout, OnlySentRuns, Status, TerminalStatuses
  <2>2. CASE ~PersistTimeout(j)
    BY <1>4, <1>6, <2>2 DEF WorkerNext, TimeLimit, CheckTimeout,
       PublishTimeout, TimeoutFails, KillExpired, KillRevoked, LoseChild
  <2> QED
    BY <2>1, <2>2
<1>7. ASSUME NEW j \in Job, CancelNext(j)
      PROVE  AdmittedFirst'
  <2>1. CASE PersistCancel(j)
    <3>1. submit[j] = "sent" /\ \A k \in Job : cancel'[k] # "idle" => cancel[k] # "idle"
      BY <2>1 DEF PersistCancel, AdmittedFirst, TypeOK
    <3> QED
      BY <1>3, <2>1, <3>1 DEF PersistCancel, Status, TerminalStatuses
  <2>2. CASE ~PersistCancel(j)
    <3>1. submit[j] = "sent" /\ UNCHANGED <<submit, recorded>>
      BY <1>7, <2>2 DEF CancelNext, AskCancel, Revoke, CheckCancel,
         PublishCancel, CancelFails, AdmittedFirst
    <3>2. \A k \in Job : k # j => cancel'[k] = cancel[k]
      BY <1>7, <2>2 DEF CancelNext, AskCancel, AnswerCancel, Revoke,
         CheckCancel, PublishCancel, CancelFails, TypeOK
    <3> QED
      BY <3>1, <3>2 DEF AdmittedFirst
  <2> QED
    BY <2>1, <2>2
<1>8. ASSUME ReleaseStuckJobs
      PROVE  AdmittedFirst'
  <2>1. \A k \in Job : recorded'[k] # {} <=> recorded[k] # {}
    <3>1. ASSUME NEW k \in Job
          PROVE  \/ recorded'[k] = recorded[k]
                 \/ row[k] \in recorded[k] /\ recorded'[k] = recorded[k] \cup {"error"}
      BY <1>8, <3>1 DEF ReleaseStuckJobs, IndInv, RowWasRecorded,
         RunningStatuses, NoStatus
    <3> QED
      BY <3>1
  <2> QED
    BY <1>8, <2>1 DEF ReleaseStuckJobs, AdmittedFirst
<1>9. ASSUME NEW j \in Job, ExpireSnapshot(j) \/ BecomeStuck(j)
      PROVE  AdmittedFirst'
  BY <1>4, <1>9 DEF ExpireSnapshot, BecomeStuck
<1>10. ASSUME NEW q \in Queue, CrashWorker(q)
       PROVE  AdmittedFirst'
  BY <1>4, <1>10 DEF CrashWorker
<1>11. CASE UNCHANGED vars
  BY <1>4, <1>11 DEF vars
<1> QED
  BY <1>2, <1>5, <1>6, <1>7, <1>8, <1>9, <1>10, <1>11 DEF Next

-----------------------------------------------------------------------------
(* Each handler step is a step of the ledger *)

LEMMA InitLedger == Init => Ledger!LedgerInit
  BY DEF Init, Ledger!LedgerInit, NoStatus

LedgerStep == [Ledger!LedgerNext]_(Ledger!ledgerVars)

\* What is published or forgotten was recorded: a ledger Show.
LEMMA PublishShows ==
    ASSUME TypeOK, NEW j \in Job, NEW s \in Status \cup {NoStatus},
           s = NoStatus \/ s \in recorded[j],
           snapshot' \in {snapshot, [snapshot EXCEPT ![j] = s]},
           UNCHANGED <<row, recorded, result>>
    PROVE  LedgerStep
<1>1. CASE snapshot' = snapshot
  BY <1>1 DEF LedgerStep, Ledger!ledgerVars
<1>2. CASE snapshot' = [snapshot EXCEPT ![j] = s]
  <2>1. Ledger!Show(j, s)
    BY <1>2 DEF Ledger!Show, NoStatus
  <2>2. s \in Ledger!Begun \cup Ledger!Ended \cup {"none"}
    BY DEF Ledger!Begun, Ledger!Ended, Status, RunningStatuses,
           TerminalStatuses, NoStatus
  <2> QED
    BY <2>1, <2>2 DEF LedgerStep, Ledger!LedgerNext
<1> QED
  BY <1>1, <1>2

LEMMA StutterLedger ==
    ASSUME UNCHANGED <<row, recorded, snapshot, result>>
    PROVE  LedgerStep
  BY DEF LedgerStep, Ledger!ledgerVars

LEMMA EndsLedger ==
    ASSUME NEW j \in Job, NEW s \in TerminalStatuses, recorded[j] # {},
           s = "completed" => result[j] = "whole",
           SetRow(j, s), UNCHANGED <<snapshot, result>>
    PROVE  LedgerStep
<1>1. Ledger!End(j, s)
  BY DEF Ledger!End, Ledger!Assign, SetRow
<1>2. s \in Ledger!Ended
  BY DEF Ledger!Ended, TerminalStatuses
<1> QED
  BY <1>1, <1>2 DEF LedgerStep, Ledger!LedgerNext

LEMMA SubmitLedger ==
    ASSUME IndInv, AdmittedFirst, NEW j \in Job, SubmitNext(j)
    PROVE  LedgerStep
<1> USE DEF dbVars, childVars, cancelVars
<1>1. CASE InsertJob(j)
  <2>1. Ledger!Admit(j)
    BY <1>1 DEF InsertJob, SetRow, Ledger!Admit, Ledger!Assign, AdmittedFirst
  <2> QED
    BY <2>1 DEF LedgerStep, Ledger!LedgerNext
<1>2. CASE AnnounceQueued(j)
  BY <1>2, PublishShows DEF AnnounceQueued, Publish, IndInv,
     PendingWasRecorded, Status, RunningStatuses
<1>3. CASE CountRunning(j) \/ StoreInput(j) \/ SendTask(j) \/ SubmitFails(j)
  BY <1>3, StutterLedger DEF CountRunning, StoreInput, SendTask, SubmitFails
<1> QED
  BY <1>1, <1>2, <1>3 DEF SubmitNext

LEMMA ChildLedger ==
    ASSUME IndInv, AdmittedFirst, NEW j \in Job, ChildNext(j)
    PROVE  LedgerStep
<1> USE DEF dbVars, childVars, cancelVars
<1>1. attempt[j] # "none" => recorded[j] # {}
  BY DEF IndInv, OnlySentRuns, AdmittedFirst
<1>2. /\ TypeOK
      /\ attempt[j] \in {"checked", "running", "writing"} => "completed" \notin recorded[j]
  BY DEF IndInv, CompletedIsOver
<1>3. CASE MarkProcessing(j)
  <2>1. Ledger!Start(j)
    BY <1>1, <1>2, <1>3 DEF MarkProcessing, SetRow, Ledger!Start, Ledger!Assign
  <2> QED
    BY <2>1 DEF LedgerStep, Ledger!LedgerNext
<1>4. CASE PersistOutcome(j)
  <2>1. /\ outcome[j] \in TerminalStatuses
        /\ outcome[j] = "completed" => result[j] = "whole"
    BY <1>4 DEF PersistOutcome, IndInv, OutcomeIsReady, TerminalStatuses
  <2> QED
    BY <1>1, <1>4, <2>1, EndsLedger DEF PersistOutcome
<1>5. CASE BeginResult(j) \/ FinishRun(j)
  <2>1. \E f \in {"partial", "whole"} : Ledger!Write(j, f)
    BY <1>1, <1>2, <1>5 DEF BeginResult, FinishRun, Ledger!Write
  <2> QED
    BY <2>1 DEF LedgerStep, Ledger!LedgerNext
<1>6. CASE PublishPosition(j)
  <2>1. PICK k \in waiting[j] : Publish(k, "queued")
    BY <1>6 DEF PublishPosition
  <2>2. k \in Job /\ "queued" \in recorded[k] /\ "queued" \in Status
    BY <1>2 DEF TypeOK, IndInv, PendingWasRecorded, Status, RunningStatuses
  <2> QED
    BY <1>2, <1>6, <2>1, <2>2, PublishShows DEF PublishPosition, Publish
<1>7. CASE StartRun(j) \/ EmitProgress(j)
  BY <1>2, <1>7, PublishShows DEF StartRun, EmitProgress, Publish, IndInv,
     PendingWasRecorded, Status, RunningStatuses
<1>8. CASE PublishOutcome(j)
  BY <1>2, <1>8, PublishShows DEF PublishOutcome, Publish, IndInv, TypeOK,
     PendingWasRecorded, OutcomeIsReady, Status, TerminalStatuses
<1>9. CASE \/ Deliver(j) \/ Discard(j) \/ CheckStart(j) \/ StartFails(j)
           \/ ListQueuedJobs(j) \/ FailRun(j) \/ CheckReturn(j)
           \/ PersistFails(j) \/ Acknowledge(j)
  BY <1>9, StutterLedger DEF Deliver, Discard, CheckStart, StartFails,
     ListQueuedJobs, FailRun, CheckReturn, PersistFails, Acknowledge
<1> QED
  BY <1>3, <1>4, <1>5, <1>6, <1>7, <1>8, <1>9 DEF ChildNext, ChildProgress

LEMMA WorkerLedger ==
    ASSUME IndInv, AdmittedFirst, NEW j \in Job, WorkerNext(j)
    PROVE  LedgerStep
<1> USE DEF dbVars, childVars, cancelVars
<1>1. CASE PersistTimeout(j)
  <2>1. recorded[j] # {}
    BY <1>1 DEF PersistTimeout, IndInv, OnlySentRuns, AdmittedFirst
  <2> QED
    BY <1>1, <2>1, EndsLedger DEF PersistTimeout, TerminalStatuses
<1>2. CASE PublishTimeout(j)
  BY <1>2, PublishShows DEF PublishTimeout, Publish, IndInv,
     PendingWasRecorded, Status, TerminalStatuses
<1>3. CASE ~(PersistTimeout(j) \/ PublishTimeout(j))
  BY <1>3, StutterLedger DEF WorkerNext, TimeLimit, CheckTimeout,
     TimeoutFails, KillExpired, KillRevoked, LoseChild
<1> QED
  BY <1>1, <1>2, <1>3

LEMMA CancelLedger ==
    ASSUME IndInv, AdmittedFirst, NEW j \in Job, CancelNext(j)
    PROVE  LedgerStep
<1> USE DEF dbVars, childVars, cancelVars
<1>1. CASE PersistCancel(j)
  <2>1. recorded[j] # {}
    BY <1>1 DEF PersistCancel, AdmittedFirst
  <2> QED
    BY <1>1, <2>1, EndsLedger DEF PersistCancel, TerminalStatuses
<1>2. CASE PublishCancel(j)
  BY <1>2, PublishShows DEF PublishCancel, Publish, IndInv,
     PendingWasRecorded, Status, TerminalStatuses
<1>3. CASE ~(PersistCancel(j) \/ PublishCancel(j))
  BY <1>3, StutterLedger DEF CancelNext, AskCancel, Revoke, CheckCancel,
     CancelFails
<1> QED
  BY <1>1, <1>2, <1>3

LEMMA ReleaseLedger ==
    ASSUME ReleaseStuckJobs
    PROVE  LedgerStep
<1> DEFINE S == {j \in stuck : row[j] \in RunningStatuses}
<1> USE DEF dbVars, childVars, cancelVars
<1>1. Ledger!GiveUp(S \cap Job)
  BY DEF ReleaseStuckJobs, Ledger!GiveUp, Ledger!Begun, RunningStatuses
<1> QED
  BY <1>1 DEF LedgerStep, Ledger!LedgerNext

LEMMA NextLedger == IndInv /\ AdmittedFirst /\ [Next]_vars => LedgerStep
<1> SUFFICES ASSUME IndInv, AdmittedFirst, [Next]_vars
             PROVE  LedgerStep
  OBVIOUS
<1>1. CASE UNCHANGED vars
  BY <1>1, StutterLedger DEF vars
<1>2. ASSUME NEW j \in Job, ExpireSnapshot(j)
      PROVE  LedgerStep
  BY <1>2, PublishShows DEF ExpireSnapshot, IndInv, dbVars
<1>3. ASSUME \/ \E j \in Job : BecomeStuck(j)
             \/ \E q \in Queue : CrashWorker(q)
      PROVE  LedgerStep
  BY <1>3, StutterLedger DEF BecomeStuck, CrashWorker, dbVars
<1> QED
  BY <1>1, <1>2, <1>3, SubmitLedger, ChildLedger, WorkerLedger, CancelLedger,
     ReleaseLedger DEF Next

\* Whatever its handlers lose, race or overwrite, the service keeps the
\* promises of JobLedger.
THEOREM LedgerKept == Spec => LedgerIsKept
<1>1. Init => Ledger!LedgerInit /\ AdmittedFirst
  BY InitLedger, InitAdmitted
<1>2. IndInv /\ AdmittedFirst /\ [Next]_vars => AdmittedFirst'
  BY NextAdmitted
<1>3. IndInv /\ AdmittedFirst /\ [Next]_vars
        => [Ledger!LedgerNext]_(Ledger!ledgerVars)
  BY NextLedger DEF LedgerStep
<1> QED
  BY <1>1, <1>2, <1>3, Invariance, PTL DEF Spec, LedgerIsKept, Ledger!LedgerSpec

-----------------------------------------------------------------------------
(* The clients of the status *)

\* The history of a row only grows.
LEMMA RecordedGrows ==
    ASSUME IndInv, Next, NEW k \in Job
    PROVE  recorded[k] \subseteq recorded'[k]
<1> USE DEF dbVars, childVars, cancelVars
<1>1. recorded \in [Job -> SUBSET Status]
  BY DEF IndInv, TypeOK
<1>2. ASSUME NEW j \in Job, SubmitNext(j)
      PROVE  recorded[k] \subseteq recorded'[k]
  BY <1>1, <1>2 DEF SubmitNext, CountRunning, InsertJob, SetRow,
     AnnounceQueued, StoreInput, SendTask, SubmitFails
<1>3. ASSUME NEW j \in Job, ChildNext(j)
      PROVE  recorded[k] \subseteq recorded'[k]
  <2>1. CASE MarkProcessing(j) \/ PersistOutcome(j)
    BY <1>1, <2>1 DEF MarkProcessing, PersistOutcome, SetRow
  <2>2. CASE ~(MarkProcessing(j) \/ PersistOutcome(j))
    BY <1>3, <2>2 DEF ChildNext, ChildProgress, Deliver, Discard, CheckStart,
       ListQueuedJobs, PublishPosition, StartRun, BeginResult, FinishRun,
       FailRun, CheckReturn, PublishOutcome, Acknowledge, EmitProgress,
       StartFails, PersistFails
  <2> QED
    BY <2>1, <2>2
<1>4. ASSUME NEW j \in Job, WorkerNext(j)
      PROVE  recorded[k] \subseteq recorded'[k]
  BY <1>1, <1>4 DEF WorkerNext, TimeLimit, CheckTimeout, PersistTimeout,
     SetRow, PublishTimeout, TimeoutFails, KillExpired, KillRevoked, LoseChild
<1>5. ASSUME NEW j \in Job, CancelNext(j)
      PROVE  recorded[k] \subseteq recorded'[k]
  BY <1>1, <1>5 DEF CancelNext, AskCancel, Revoke, CheckCancel,
     PersistCancel, SetRow, PublishCancel, CancelFails
<1>6. ASSUME \/ \E j \in Job : ExpireSnapshot(j) \/ BecomeStuck(j)
             \/ \E q \in Queue : CrashWorker(q)
             \/ ReleaseStuckJobs
      PROVE  recorded[k] \subseteq recorded'[k]
  BY <1>1, <1>6 DEF ExpireSnapshot, BecomeStuck, CrashWorker, ReleaseStuckJobs
<1> QED
  BY <1>2, <1>3, <1>4, <1>5, <1>6 DEF Next

\* A status that is backed stays backed.
LEMMA BackedStays ==
    ASSUME IndInv, IndInv', Next, NEW k \in Job, NEW s, Backed(k, s)
    PROVE  s # NoStatus => /\ s \in recorded'[k]
                           /\ s = "completed" => result'[k] = "whole"
<1>1. recorded[k] \subseteq recorded'[k]
  BY RecordedGrows
<1>2. "completed" \in recorded'[k] => result'[k] = "whole"
  BY DEF IndInv, CompletedIsOver
<1> QED
  BY <1>1, <1>2 DEF Backed

LEMMA ClientsInitInv == ClientsInit => ClientsInv
<1> SUFFICES ASSUME ClientsInit
             PROVE  ClientsInv
  OBVIOUS
<1>1. IndInv
  BY InitInd DEF ClientsInit
<1> QED
  BY <1>1 DEF IndInv, ClientsInit, ClientsInv, ClientsTypeOK, StreamStep,
     WaitStep, AnswersAreBacked, Backed

\* A step of the job lifecycle: what the clients hold stays backed, and what
\* they hear is the snapshot, which ShownWasRecorded backs.
LEMMA JobStepInv ==
    ASSUME ClientsInv, JobStep
    PROVE  ClientsInv'
<1>1. IndInv /\ IndInv' /\ Next
  BY NextInd DEF ClientsInv, JobStep, Observed
<1>2. \A j \in Job : Backed(j, final[j])' /\ Backed(j, reply[j])'
  BY <1>1, BackedStays
     DEF ClientsInv, AnswersAreBacked, JobStep, Observed, Backed
<1>3. ASSUME NEW j \in Job, NEW s, Backed(j, s) \/ s = snapshot'[j]
      PROVE  s # NoStatus => /\ s \in recorded'[j]
                             /\ s = "completed" => result'[j] = "whole"
  BY <1>1, <1>3, BackedStays DEF IndInv, ShownWasRecorded, CompletedIsOver
<1>4. \A j \in Job : Backed(j, streamBox[j])' /\ Backed(j, waitBox[j])'
  BY <1>3 DEF ClientsInv, JobStep, Observed, Broadcast, Hear, Backed
<1>5. ClientsTypeOK'
  <2>1. TypeOK'
    BY <1>1 DEF IndInv
  <2>2. streamBox' \in [Job -> TerminalStatuses \cup {NoStatus}]
    BY DEF ClientsInv, ClientsTypeOK, JobStep, Observed, Broadcast, Hear
  <2>3. waitBox' \in [Job -> TerminalStatuses \cup {NoStatus}]
    BY DEF ClientsInv, ClientsTypeOK, JobStep, Observed, Broadcast, Hear
  <2>4. due' \subseteq Job
    BY ClientsAssumption DEF ClientsInv, ClientsTypeOK, JobStep, Observed, Broadcast
  <2> QED
    BY <2>1, <2>2, <2>3, <2>4 DEF ClientsInv, ClientsTypeOK, JobStep, Observed
<1> QED
  BY <1>1, <1>2, <1>4, <1>5 DEF ClientsInv, AnswersAreBacked

LEMMA StreamInv ==
    ASSUME ClientsInv, NEW j \in Job, StreamNext(j)
    PROVE  ClientsInv'
<1> USE DEF ClientsInv, ClientsTypeOK, AnswersAreBacked, Backed, StreamStep
<1>1. IndInv' /\ TypeOK' /\ UNCHANGED <<row, recorded, snapshot, result, waitVars>>
  BY DEF StreamNext, OpenStream, SkipCached, SubscribeStream, SendFinal, vars,
         IndInv, TypeOK, RowWasRecorded, ShownWasRecorded, PendingWasRecorded,
         OutcomeIsReady, CompletedIsOver, OnlySentRuns
<1>2. CASE OpenStream(j)
  <2>1. JobState(j) \in TerminalStatuses =>
           /\ JobState(j) \in recorded[j]
           /\ JobState(j) = "completed" => result[j] = "whole"
    BY DEF IndInv, JobState, ShownWasRecorded, RowWasRecorded, CompletedIsOver,
           TerminalStatuses, NoStatus
  <2> QED
    BY <1>1, <1>2, <2>1 DEF OpenStream, CloseStream, waitVars
<1>3. CASE SkipCached(j) \/ SubscribeStream(j)
  BY <1>1, <1>3 DEF SkipCached, SubscribeStream, waitVars
<1>4. CASE SendFinal(j)
  BY <1>1, <1>4 DEF SendFinal, CloseStream, waitVars
<1> QED
  BY <1>2, <1>3, <1>4 DEF StreamNext

LEMMA WaitInv ==
    ASSUME ClientsInv, NEW j \in Job, WaitNext(j)
    PROVE  ClientsInv'
<1> USE DEF ClientsInv, ClientsTypeOK, AnswersAreBacked, Backed, WaitStep
<1>1. /\ IndInv' /\ TypeOK'
      /\ UNCHANGED <<row, recorded, snapshot, result, streamVars>>
  BY DEF WaitNext, PeekSnapshot, SubscribeWait, PollSnapshot, ReturnHeard, vars,
         IndInv, TypeOK, RowWasRecorded, ShownWasRecorded, PendingWasRecorded,
         OutcomeIsReady, CompletedIsOver, OnlySentRuns
<1>2. snapshot[j] \in TerminalStatuses =>
         /\ snapshot[j] \in recorded[j]
         /\ snapshot[j] = "completed" => result[j] = "whole"
  BY DEF IndInv, ShownWasRecorded, CompletedIsOver, TerminalStatuses, NoStatus
<1>3. CASE PeekSnapshot(j) \/ PollSnapshot(j)
  BY <1>1, <1>2, <1>3 DEF PeekSnapshot, PollSnapshot, ReadSnapshot, Return, streamVars
<1>4. CASE SubscribeWait(j)
  BY <1>1, <1>4 DEF SubscribeWait, streamVars
<1>5. CASE ReturnHeard(j)
  BY <1>1, <1>5 DEF ReturnHeard, Return, streamVars
<1> QED
  BY <1>3, <1>4, <1>5 DEF WaitNext

LEMMA ClientsNextInv == ClientsInv /\ [ClientsNext]_allVars => ClientsInv'
<1> SUFFICES ASSUME ClientsInv, [ClientsNext]_allVars
             PROVE  ClientsInv'
  OBVIOUS
<1>1. CASE UNCHANGED allVars
  BY <1>1 DEF allVars, vars, clientVars, streamVars, waitVars, ClientsInv,
     ClientsTypeOK, AnswersAreBacked, Backed, IndInv, TypeOK, RowWasRecorded,
     ShownWasRecorded, PendingWasRecorded, OutcomeIsReady, CompletedIsOver,
     OnlySentRuns
<1>2. CASE ClientsNext
  BY <1>2, JobStepInv, StreamInv, WaitInv DEF ClientsNext
<1> QED
  BY <1>1, <1>2

\* Whatever a client is told of the end of a job was recorded in the database,
\* and a completed job it is told of has a result to load.
THEOREM AnswersBacked == ClientsSpec => []AnswersAreBacked
<1>1. ClientsInv => AnswersAreBacked
  BY DEF ClientsInv
<1> QED
  BY <1>1, ClientsInitInv, ClientsNextInv, PTL DEF ClientsSpec

\* The handlers keep their types, whatever the jobs do: what a channel holds for one
\* of them, and what it tells its client, is the status of a job that is over.
THEOREM ClientsTypeHolds == ClientsSpec => []ClientsTypeOK
<1>1. ClientsInv => ClientsTypeOK
  BY DEF ClientsInv
<1> QED
  BY <1>1, ClientsInitInv, ClientsNextInv, PTL DEF ClientsSpec

-----------------------------------------------------------------------------
(* How far the limit of concurrent analyses is overrun *)

\* The requests of a user between their COUNT and their INSERT, and the running jobs of a
\* user that no handler has ended before.
Counting(u) == {j \in Job : Owner[j] = u /\ submit[j] = "counted"}

NeverEnded(u) == {j \in Running(u) : recorded[j] \cap TerminalStatuses = {}}

AtMostCounting(n) == \A u \in User : Cardinality(Counting(u)) <= n

LimitWithin(n) == \A u \in User : Cardinality(NeverEnded(u)) <= (MaxConcurrent - 1) + n

\* The jobs of a user that are recorded and not as ended, and the invariant: the requests
\* that may still insert are counted with them.
Open(u) ==
    {j \in Job : Owner[j] = u /\ recorded[j] # {} /\ recorded[j] \cap TerminalStatuses = {}}

LimitInd(n) ==
    /\ \A j \in Job : recorded[j] # {} => row[j] # NoStatus
    /\ \A u \in User : Cardinality(Counting(u) \cup Open(u)) <= (MaxConcurrent - 1) + n

\* A row and its history change together.
Records(k) ==
    \/ row'[k] = row[k] /\ recorded'[k] = recorded[k]
    \/ row'[k] \in Status /\ recorded'[k] = recorded[k] \cup {row'[k]}

LEMMA SetRowRecords ==
    ASSUME TypeOK, NEW j \in Job, NEW s \in Status, SetRow(j, s)
    PROVE  \A k \in Job : Records(k) /\ (k # j => recorded'[k] = recorded[k])
<1>1. \A k \in Job : /\ row'[k] = IF k = j THEN s ELSE row[k]
                     /\ recorded'[k] = IF k = j THEN recorded[k] \cup {s} ELSE recorded[k]
  BY DEF SetRow, TypeOK
<1> QED
  BY <1>1 DEF Records

\* A step that counts nothing lets no request through, and only the insert of a request
\* that was counted records a new job.
LetsNoneIn ==
    /\ \A k \in Job : Records(k)
    /\ \A k \in Job : submit'[k] = "counted" => submit[k] = "counted"
    /\ \A k \in Job : recorded'[k] # {} => recorded[k] # {} \/ submit[k] = "counted"

LEMMA NextLetsIn ==
    ASSUME IndInv, AdmittedFirst, [Next]_vars
    PROVE  LetsNoneIn \/ \E j \in Job : CountRunning(j)
<1>1. TypeOK /\ OnlySentRuns
  BY DEF IndInv
<1> USE <1>1 DEF dbVars, childVars, cancelVars
<1>2. ASSUME UNCHANGED <<row, recorded, submit>>
      PROVE  LetsNoneIn
  BY <1>2 DEF LetsNoneIn, Records
<1>3. ASSUME NEW j \in Job, submit[j] = "sent", NEW s \in Status, SetRow(j, s), UNCHANGED submit
      PROVE  LetsNoneIn
  <2>1. recorded[j] # {}
    BY <1>3 DEF AdmittedFirst
  <2> QED
    BY <1>3, <2>1, SetRowRecords DEF LetsNoneIn
<1>4. ASSUME NEW j \in Job, SubmitNext(j), ~CountRunning(j)
      PROVE  LetsNoneIn
  <2>1. CASE InsertJob(j)
    <3>1. SetRow(j, "queued") /\ "queued" \in Status
      BY <2>1 DEF InsertJob, Status, RunningStatuses
    <3>2. /\ \A k \in Job : submit'[k] = IF k = j THEN "inserted" ELSE submit[k]
          /\ submit[j] = "counted"
      BY <2>1 DEF InsertJob, TypeOK
    <3> QED
      BY <3>1, <3>2, SetRowRecords DEF LetsNoneIn
  <2>2. CASE AnnounceQueued(j) \/ StoreInput(j) \/ SendTask(j) \/ SubmitFails(j)
    <3>1. UNCHANGED <<row, recorded>>
      BY <2>2 DEF AnnounceQueued, StoreInput, SendTask, SubmitFails
    <3>2. \A k \in Job : submit'[k] = "counted" => submit[k] = "counted"
      BY <2>2 DEF AnnounceQueued, StoreInput, SendTask, SubmitFails, TypeOK
    <3> QED
      BY <3>1, <3>2 DEF LetsNoneIn, Records
  <2> QED
    BY <1>4, <2>1, <2>2 DEF SubmitNext
<1>5. ASSUME NEW j \in Job, ChildNext(j)
      PROVE  LetsNoneIn
  <2>1. CASE MarkProcessing(j)
    BY <1>3, <2>1 DEF MarkProcessing, OnlySentRuns, Status, RunningStatuses
  <2>2. CASE PersistOutcome(j)
    <3>1. attempt[j] = "finishing" /\ outcome[j] \in Status
      BY <2>2 DEF PersistOutcome, IndInv, OutcomeIsReady, Status, TerminalStatuses
    <3> QED
      BY <1>3, <2>2, <3>1 DEF PersistOutcome, OnlySentRuns
  <2>3. CASE ~(MarkProcessing(j) \/ PersistOutcome(j))
    BY <1>2, <1>5, <2>3 DEF ChildNext, ChildProgress, Deliver, Discard,
       CheckStart, ListQueuedJobs, PublishPosition, StartRun, BeginResult,
       FinishRun, FailRun, CheckReturn, PublishOutcome, Acknowledge,
       EmitProgress, StartFails, PersistFails
  <2> QED
    BY <2>1, <2>2, <2>3
<1>6. ASSUME NEW j \in Job, WorkerNext(j)
      PROVE  LetsNoneIn
  <2>1. CASE PersistTimeout(j)
    BY <1>3, <2>1 DEF PersistTimeout, OnlySentRuns, Status, TerminalStatuses
  <2>2. CASE ~PersistTimeout(j)
    BY <1>2, <1>6, <2>2 DEF WorkerNext, TimeLimit, CheckTimeout,
       PublishTimeout, TimeoutFails, KillExpired, KillRevoked, LoseChild
  <2> QED
    BY <2>1, <2>2
<1>7. ASSUME NEW j \in Job, CancelNext(j)
      PROVE  LetsNoneIn
  <2>1. CASE PersistCancel(j)
    <3>1. submit[j] = "sent"
      BY <2>1 DEF PersistCancel, AdmittedFirst
    <3> QED
      BY <1>3, <2>1, <3>1 DEF PersistCancel, Status, TerminalStatuses
  <2>2. CASE ~PersistCancel(j)
    BY <1>2, <1>7, <2>2 DEF CancelNext, AskCancel, AnswerCancel, Revoke, CheckCancel,
       PublishCancel, CancelFails
  <2> QED
    BY <2>1, <2>2
<1>8. ASSUME ReleaseStuckJobs
      PROVE  LetsNoneIn
  <2>1. ASSUME NEW k \in Job
        PROVE  /\ Records(k)
               /\ recorded'[k] = recorded[k] \/ row[k] \in recorded[k]
    BY <1>8, <2>1 DEF ReleaseStuckJobs, IndInv, RowWasRecorded, Records, TypeOK, Status,
       RunningStatuses, TerminalStatuses, NoStatus
  <2> QED
    BY <1>8, <2>1 DEF ReleaseStuckJobs, LetsNoneIn
<1>9. ASSUME NEW j \in Job, ExpireSnapshot(j) \/ BecomeStuck(j)
      PROVE  LetsNoneIn
  BY <1>2, <1>9 DEF ExpireSnapshot, BecomeStuck
<1>10. ASSUME NEW q \in Queue, CrashWorker(q)
       PROVE  LetsNoneIn
  BY <1>2, <1>10 DEF CrashWorker
<1>11. CASE UNCHANGED vars
  BY <1>2, <1>11 DEF vars
<1> QED
  BY <1>4, <1>5, <1>6, <1>7, <1>8, <1>9, <1>10, <1>11 DEF Next

LEMMA JobSetsAreFinite ==
    ASSUME NEW S, S \subseteq Job
    PROVE  IsFiniteSet(S) /\ Cardinality(S) \in Nat
           /\ \A T \in SUBSET S : Cardinality(T) <= Cardinality(S)
BY ConstantsAssumption, FS_Subset, FS_CardinalityType

\* An open job is running: the count sees it.
LEMMA OpenIsRunning ==
    ASSUME IndInv, NEW n, LimitInd(n), NEW u
    PROVE  Open(u) = NeverEnded(u) /\ Open(u) \subseteq Running(u) /\ Running(u) \subseteq Job
<1>1. \A j \in Job : row[j] \in RunningStatuses => recorded[j] # {}
  BY DEF IndInv, RowWasRecorded, RunningStatuses, NoStatus
<1>2. \A j \in Job : recorded[j] # {} /\ recorded[j] \cap TerminalStatuses = {}
                        => row[j] \in RunningStatuses
  BY DEF IndInv, TypeOK, RowWasRecorded, LimitInd, Status
<1> QED
  BY <1>1, <1>2 DEF Open, NeverEnded, Running

LEMMA LimitNextInd ==
    ASSUME NEW n \in Nat, IndInv, AdmittedFirst, LimitInd(n), [Next]_vars, AtMostCounting(n)'
    PROVE  LimitInd(n)'
<1>1. MaxConcurrent \in Nat \ {0} /\ Owner \in [Job -> User]
  BY ConstantsAssumption
<1>2. CASE LetsNoneIn
  <2>1. \A j \in Job : recorded'[j] # {} => row'[j] # NoStatus
    BY <1>2 DEF LetsNoneIn, Records, LimitInd, Status, RunningStatuses, TerminalStatuses, NoStatus
  <2>2. ASSUME NEW u \in User
        PROVE  Cardinality((Counting(u) \cup Open(u))') <= (MaxConcurrent - 1) + n
    <3> DEFINE held == Counting(u) \cup Open(u)
    <3>1. \A j \in Job : recorded[j] \subseteq recorded'[j]
      BY <1>2 DEF LetsNoneIn, Records
    <3>2. held' \subseteq held
      BY <1>2, <3>1 DEF LetsNoneIn, Counting, Open
    <3>3. held \subseteq Job
      BY DEF Counting, Open
    <3>4. Cardinality(held) <= (MaxConcurrent - 1) + n
      BY DEF LimitInd
    <3> HIDE DEF held
    <3>5. Cardinality(held') <= Cardinality(held) /\ Cardinality(held) \in Nat
          /\ Cardinality(held') \in Nat
      BY <3>2, <3>3, JobSetsAreFinite
    <3>6. Cardinality(held') <= (MaxConcurrent - 1) + n
      BY <1>1, <3>4, <3>5
    <3> QED
      BY <3>6 DEF held
  <2> QED
    BY <2>1, <2>2 DEF LimitInd
<1>3. ASSUME NEW j \in Job, CountRunning(j)
      PROVE  LimitInd(n)'
  <2>1. UNCHANGED <<row, recorded>>
    BY <1>3 DEF CountRunning, dbVars
  <2>2. \A k \in Job : k # j => submit'[k] = submit[k]
    BY <1>3 DEF CountRunning, IndInv, TypeOK
  <2>3. ASSUME NEW u \in User
        PROVE  Cardinality((Counting(u) \cup Open(u))') <= (MaxConcurrent - 1) + n
    <3>1. Open(u)' = Open(u)
      BY <2>1 DEF Open
    <3> DEFINE c == Counting(u)'
               o == Open(u)
    <3>2. c \subseteq Job /\ o \subseteq Job /\ c \cup o \subseteq Job /\ c \cap o \subseteq Job
      BY DEF Counting, Open
    <3>3. CASE u = Owner[j] /\ Cardinality(Running(u)) < MaxConcurrent
      <4>1. Cardinality(c) <= n
        BY DEF AtMostCounting
      <4>2. Cardinality(o) <= Cardinality(Running(u)) /\ Cardinality(Running(u)) \in Nat
        BY OpenIsRunning, JobSetsAreFinite
      <4> HIDE DEF c, o
      <4>3. IsFiniteSet(c) /\ IsFiniteSet(o)
            /\ Cardinality(c) \in Nat /\ Cardinality(o) \in Nat /\ Cardinality(c \cap o) \in Nat
        BY <3>2, JobSetsAreFinite
      <4>4. Cardinality(c \cup o) = Cardinality(c) + Cardinality(o) - Cardinality(c \cap o)
        BY <4>3, FS_Union
      <4>5. Cardinality(c \cup o) <= (MaxConcurrent - 1) + n
        BY <1>1, <3>3, <4>1, <4>2, <4>3, <4>4
      <4> QED
        BY <3>1, <4>5 DEF c, o
    <3>4. CASE ~ (u = Owner[j] /\ Cardinality(Running(u)) < MaxConcurrent)
      <4>1. u = Owner[j] => submit'[j] # "counted"
        <5>1. ASSUME u = Owner[j] PROVE submit'[j] = "rejected"
          <6>1. Cardinality(Running(u)) \in Nat
            BY OpenIsRunning, JobSetsAreFinite
          <6>2. Cardinality(Running(Owner[j])) >= MaxConcurrent
            BY <1>1, <3>4, <5>1, <6>1
          <6> QED
            BY <1>3, <6>2 DEF CountRunning, IndInv, TypeOK
        <5> QED
          BY <5>1
      <4>2. c \subseteq Counting(u)
        BY <2>2, <4>1 DEF Counting
      <4> DEFINE held == Counting(u) \cup Open(u)
      <4>3. c \cup o \subseteq held
        BY <4>2
      <4>4. held \subseteq Job
        BY DEF Counting, Open
      <4>5. Cardinality(held) <= (MaxConcurrent - 1) + n
        BY DEF LimitInd
      <4> HIDE DEF held, c, o
      <4>6. Cardinality(c \cup o) <= Cardinality(held) /\ Cardinality(held) \in Nat
            /\ Cardinality(c \cup o) \in Nat
        BY <3>2, <4>3, <4>4, JobSetsAreFinite
      <4>7. Cardinality(c \cup o) <= (MaxConcurrent - 1) + n
        BY <1>1, <4>5, <4>6
      <4> QED
        BY <3>1, <4>7 DEF c, o
    <3> QED
      BY <3>3, <3>4
  <2>4. \A k \in Job : recorded'[k] # {} => row'[k] # NoStatus
    BY <2>1 DEF LimitInd
  <2> QED
    BY <2>3, <2>4 DEF LimitInd
<1> QED
  BY <1>2, <1>3, NextLetsIn

\* While at most n requests of a user stand between their count and their insert, the user
\* has at most n - 1 jobs running beyond max_concurrent_analyses, apart from those that a
\* task has set back to processing after they had ended.  With one request at a time they
\* keep the limit: what overruns it is the transaction of create_analysis_job that counts
\* without a lock.
THEOREM LimitIsOverrunByCounts ==
    ASSUME NEW n \in Nat \ {0}
    PROVE  Spec /\ []AtMostCounting(n) => []LimitWithin(n)
<1>1. Init => LimitInd(n) /\ AdmittedFirst
  <2> SUFFICES ASSUME Init PROVE LimitInd(n) /\ AdmittedFirst
    OBVIOUS
  <2>1. \A u : Counting(u) \cup Open(u) = {}
    BY DEF Init, Counting, Open
  <2>2. Cardinality({}) = 0
    BY FS_EmptySet
  <2>3. \A u \in User : Cardinality(Counting(u) \cup Open(u)) <= (MaxConcurrent - 1) + n
    <3>1. 0 <= (MaxConcurrent - 1) + n
      BY ConstantsAssumption
    <3> QED
      BY <2>1, <2>2, <3>1
  <2>4. \A j \in Job : recorded[j] = {}
    BY DEF Init
  <2> QED
    BY <2>3, <2>4, InitAdmitted DEF LimitInd
<1>2. IndInv /\ AdmittedFirst /\ LimitInd(n) /\ [Next]_vars /\ AtMostCounting(n)' => LimitInd(n)'
  BY LimitNextInd
<1>3. IndInv /\ AdmittedFirst /\ [Next]_vars => AdmittedFirst'
  BY NextAdmitted
<1>4. IndInv /\ LimitInd(n) => LimitWithin(n)
  <2> SUFFICES ASSUME IndInv, LimitInd(n), NEW u \in User
               PROVE  Cardinality(NeverEnded(u)) <= (MaxConcurrent - 1) + n
    BY DEF LimitWithin
  <2> DEFINE held == Counting(u) \cup Open(u)
  <2>1. NeverEnded(u) \subseteq held /\ held \subseteq Job
    <3>1. NeverEnded(u) = Open(u)
      BY OpenIsRunning
    <3> QED
      BY <3>1 DEF Counting, Open
  <2>2. Cardinality(held) <= (MaxConcurrent - 1) + n
    BY DEF LimitInd
  <2> HIDE DEF held
  <2>3. Cardinality(NeverEnded(u)) <= Cardinality(held) /\ Cardinality(held) \in Nat
        /\ Cardinality(NeverEnded(u)) \in Nat
    BY <2>1, JobSetsAreFinite
  <2> QED
    BY <2>2, <2>3, ConstantsAssumption
<1> QED
  BY <1>1, <1>2, <1>3, <1>4, Invariance, PTL DEF Spec
=============================================================================
