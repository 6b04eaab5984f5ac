------------------------------ MODULE JobLedger ------------------------------
(***************************************************************************)
(* What the job service promises to whoever follows a job, without saying  *)
(* which of its processes does what: which statuses a job may be given,    *)
(* which of them may be shown, and what its result file may do meanwhile.  *)
(* AnalysisJobs implements it, whatever its handlers lose or overwrite.    *)
(***************************************************************************)
CONSTANT Job

VARIABLES
    status,     \* the status of the job in the database
    history,    \* every status it has had
    shown,      \* the status the progress channel shows, "none" if nothing
    file        \* the result file

ledgerVars == <<status, history, shown, file>>

Begun == {"queued", "processing"}
Ended == {"completed", "error", "timeout", "cancelled"}

LedgerInit ==
    /\ status  = [j \in Job |-> "none"]
    /\ history = [j \in Job |-> {}]
    /\ shown   = [j \in Job |-> "none"]
    /\ file    = [j \in Job |-> "absent"]

Assign(j, s) ==
    /\ status'  = [status EXCEPT ![j] = s]
    /\ history' = [history EXCEPT ![j] = @ \cup {s}]
    /\ UNCHANGED <<shown, file>>

\* A job is queued once, first of all.
Admit(j) == history[j] = {} /\ Assign(j, "queued")

\* It may be started, and started again, until it has been completed.
Start(j) ==
    /\ history[j] # {} /\ "completed" \notin history[j]
    /\ Assign(j, "processing")

\* It ends, and may be given another end by a later handler; it is completed
\* only with its result in place.
End(j, s) ==
    /\ history[j] # {}
    /\ s = "completed" => file[j] = "whole"
    /\ Assign(j, s)

\* The jobs in S, none of which has ended, are given up.
GiveUp(S) ==
    /\ \A j \in S : status[j] \in Begun
    /\ status'  = [j \in Job |-> IF j \in S THEN "error" ELSE status[j]]
    /\ history' = [j \in Job |-> IF j \in S
                                 THEN history[j] \cup {"error"} ELSE history[j]]
    /\ UNCHANGED <<shown, file>>

\* Only a status the job has had is shown, and it may be forgotten.
Show(j, s) ==
    /\ s = "none" \/ s \in history[j]
    /\ shown' = [shown EXCEPT ![j] = s]
    /\ UNCHANGED <<status, history, file>>

\* The result of an admitted job is written, and written again, until the job
\* has been completed.
Write(j, f) ==
    /\ history[j] # {} /\ "completed" \notin history[j]
    /\ file' = [file EXCEPT ![j] = f]
    /\ UNCHANGED <<status, history, shown>>

LedgerNext ==
    \/ \E j \in Job :
          \/ Admit(j) \/ Start(j)
          \/ \E s \in Ended : End(j, s)
          \/ \E s \in Begun \cup Ended \cup {"none"} : Show(j, s)
          \/ \E f \in {"partial", "whole"} : Write(j, f)
    \/ \E S \in SUBSET Job : GiveUp(S)

LedgerSpec == LedgerInit /\ [][LedgerNext]_ledgerVars

=============================================================================
