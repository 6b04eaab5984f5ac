----------------------------- MODULE Migrations -----------------------------
(***************************************************************************)
(* db/migrate.js: each deployment starts a runner, which carries out the   *)
(* SQL files of its version that the table migration_history does not know *)
(* as successful, in the order of their names, each in a transaction of    *)
(* its own.  A runner that fails is started again; nothing keeps two       *)
(* runners from working at the same time.                                  *)
(*                                                                         *)
(* The files are numbers, in the order of localeCompare.                   *)
(***************************************************************************)
EXTENDS Integers

CONSTANTS
    File,       \* the files of all versions
    Runner,     \* the runners
    Has,        \* Has[r]: the files of the version that r deploys
    Repeatable, \* the files whose SQL succeeds when it is carried out again
    MaxStarts   \* a bound on the starts of a runner

ASSUME MigrationsAssumption ==
    /\ File \subseteq Nat /\ Repeatable \subseteq File
    /\ Has \in [Runner -> SUBSET File]
    /\ MaxStarts \in Nat

VARIABLES
    times,      \* times[f]: how often the effect of the file f was committed
    history,    \* its row of migration_history: "none", "success" or "failure"
    pc,         \* pc[r]: what a runner does
    todo,       \* todo[r]: pendingMigrations that are left
    cur,        \* cur[r]: the file a runner is at
    starts,     \* starts[r]: bounded by MaxStarts
    overlap     \* history variable: whether two runners were at work at one time

migVars == <<times, history, pc, todo, cur, starts, overlap>>

\* In "executed" the statements of a file are done and not committed; in
\* "rolledback" the failure is not yet recorded.
Working == {"connected", "running", "executed", "rolledback"}
Ended   == {"idle", "done", "failed"}

MigTypeOK ==
    /\ times \in [File -> Nat]
    /\ history \in [File -> {"none", "success", "failure"}]
    /\ pc \in [Runner -> Working \cup Ended]
    /\ todo \in [Runner -> SUBSET File]
    /\ cur \in [Runner -> File \cup {-1}]
    /\ starts \in [Runner -> Nat]
    /\ overlap \in BOOLEAN

MigInit ==
    /\ times = [f \in File |-> 0] /\ history = [f \in File |-> "none"]
    /\ pc = [r \in Runner |-> "idle"] /\ todo = [r \in Runner |-> {}]
    /\ cur = [r \in Runner |-> -1] /\ starts = [r \in Runner |-> 0]
    /\ overlap = FALSE

Go(r, step) == pc' = [pc EXCEPT ![r] = step]

Alone(r) == \A q \in Runner \ {r} : pc[q] \notin Working

\* connect and ensureMigrationTable, of a runner that has not succeeded.
Connect(r) ==
    /\ pc[r] \in {"idle", "failed"} /\ starts[r] < MaxStarts
    /\ starts' = [starts EXCEPT ![r] = @ + 1]
    /\ overlap' = (overlap \/ ~Alone(r))
    /\ Go(r, "connected")
    /\ UNCHANGED <<times, history, todo, cur>>

\* getExecutedMigrations, and what of the files is pending.
ReadHistory(r) ==
    /\ pc[r] = "connected"
    /\ todo' = [todo EXCEPT ![r] = {f \in Has[r] : history[f] # "success"}]
    /\ Go(r, "running")
    /\ UNCHANGED <<times, history, cur, starts, overlap>>

NothingLeft(r) ==
    /\ pc[r] = "running" /\ todo[r] = {}
    /\ Go(r, "done")
    /\ UNCHANGED <<times, history, todo, cur, starts, overlap>>

\* Mutant: the files come in any order.
IsAnyOf(f, S) == f \in S

IsFirstOf(f, S) == f \in S /\ \A g \in S : f <= g

\* What a transaction has written keeps others from writing it until it ends.
Locked(r, f) == \E q \in Runner \ {r} : pc[q] = "executed" /\ cur[q] = f

ExecuteMigration(r, f) ==
    /\ pc[r] = "running" /\ IsFirstOf(f, todo[r]) /\ ~Locked(r, f)
    /\ times[f] = 0 \/ f \in Repeatable
    /\ cur' = [cur EXCEPT ![r] = f]
    /\ Go(r, "executed")
    /\ UNCHANGED <<times, history, todo, starts, overlap>>

\* A statement fails: because what it creates is there already, or for itself.
MigrationFails(r, f) ==
    /\ pc[r] = "running" /\ IsFirstOf(f, todo[r]) /\ ~Locked(r, f)
    /\ cur' = [cur EXCEPT ![r] = f]
    /\ Go(r, "rolledback")
    /\ UNCHANGED <<times, history, todo, starts, overlap>>

\* Mutant: the transaction ends before the row is written.
CommittedOnly(r) ==
    /\ times' = [times EXCEPT ![cur[r]] = @ + 1]
    /\ UNCHANGED history

\* The effect of the file and its row, together.
Committed(r) ==
    /\ times' = [times EXCEPT ![cur[r]] = @ + 1]
    /\ history' = [history EXCEPT ![cur[r]] = "success"]

Commit(r) ==
    /\ pc[r] = "executed"
    /\ Committed(r)
    /\ todo' = [todo EXCEPT ![r] = @ \ {cur[r]}]
    /\ Go(r, "running")
    /\ UNCHANGED <<cur, starts, overlap>>

CommitFails(r) ==
    /\ pc[r] = "executed"
    /\ Go(r, "rolledback")
    /\ UNCHANGED <<times, history, todo, cur, starts, overlap>>

\* Mutant: a file that fails is tried again at once.
RetryFailure(r) ==
    /\ pc[r] = "rolledback"
    /\ ~Locked(r, cur[r]) /\ history' = [history EXCEPT ![cur[r]] = "failure"]
    /\ Go(r, "running")
    /\ UNCHANGED <<times, todo, cur, starts, overlap>>

\* Mutant: a file that fails is left out.
SkipFailure(r) ==
    /\ pc[r] = "rolledback"
    /\ ~Locked(r, cur[r]) /\ history' = [history EXCEPT ![cur[r]] = "failure"]
    /\ todo' = [todo EXCEPT ![r] = @ \ {cur[r]}]
    /\ Go(r, "running")
    /\ UNCHANGED <<times, cur, starts, overlap>>

\* The row is overwritten, whatever it says; or that fails too, which is ignored.
\* The run ends.
RecordFailure(r) ==
    /\ pc[r] = "rolledback"
    /\ \/ ~Locked(r, cur[r]) /\ history' = [history EXCEPT ![cur[r]] = "failure"]
       \/ UNCHANGED history
    /\ Go(r, "failed")
    /\ UNCHANGED <<times, todo, cur, starts, overlap>>

\* The connection breaks, or the pod is stopped: the transaction is rolled back,
\* unless its COMMIT had arrived.
Interrupted(r) ==
    /\ pc[r] \in Working
    /\ \/ pc[r] = "executed" /\ Committed(r)
       \/ UNCHANGED <<times, history>>
    /\ Go(r, "failed")
    /\ UNCHANGED <<todo, cur, starts, overlap>>

Step(r) ==
    \/ ReadHistory(r) \/ NothingLeft(r)
    \/ \E f \in todo[r] : ExecuteMigration(r, f) \/ MigrationFails(r, f)
    \/ Commit(r) \/ CommitFails(r) \/ RecordFailure(r)

MigNext == \E r \in Runner : Connect(r) \/ Step(r) \/ Interrupted(r)

MigSpec == MigInit /\ [][MigNext]_migVars

\* The process of a runner goes on, and the database answers it.
MigFairSpec == MigSpec /\ \A r \in Runner : WF_migVars(Step(r))

-----------------------------------------------------------------------------
(* Properties *)

\* A runner that ends well leaves all files of its version applied, whatever the
\* other runners did meanwhile.
DoneIsComplete == \A r \in Runner : pc[r] = "done" => \A f \in Has[r] : times[f] > 0

\* A file takes effect only after all those before it in its version.
EarlierFirst ==
    [][\A r \in Runner : Commit(r) =>
          \A f \in Has[r] : f < cur[r] => times[f] > 0]_migVars

\* As long as the runners come one after the other, no file takes effect twice,
\* and what took effect is recorded as successful.
OnceAlone ==
    ~overlap => \A f \in File : times[f] <= 1 /\ (times[f] = 1 => history[f] = "success")

\* What holds of a runner between two of its steps: what is not pending has taken
\* effect, and the file it is at is the first pending one.
Pending ==
    \A r \in Runner :
        /\ pc[r] \in {"running", "executed", "rolledback"} =>
               \A f \in Has[r] \ todo[r] : times[f] > 0
        /\ pc[r] \in {"executed", "rolledback"} => IsFirstOf(cur[r], todo[r])

\* Runners that come one after the other find what is pending without effect.
Solitude ==
    ~overlap =>
        /\ \A q, r \in Runner : pc[q] \in Working /\ pc[r] \in Working => q = r
        /\ \A r \in Runner : pc[r] \in {"running", "executed", "rolledback"} =>
               \A f \in todo[r] : times[f] = 0

\* The inductive invariant.  A file that is recorded as successful has taken
\* effect: its row is written in the transaction of its statements.
MigInv ==
    /\ MigTypeOK
    /\ \A f \in File : history[f] = "success" => times[f] > 0
    /\ Pending /\ Solitude /\ DoneIsComplete /\ OnceAlone

\* A run ends.
RunEnds == \A r \in Runner : pc[r] \in Working ~> pc[r] \in Ended

=============================================================================
