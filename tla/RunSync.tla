------------------------------ MODULE RunSync ------------------------------
(***************************************************************************)
(* run_sync: how a process of the workers calls the database.  Each        *)
(* process has an event loop and, on it, a pool of connections; a call     *)
(* that ends with any exception is repeated once, on a new loop with a new *)
(* pool.                                                                   *)
(*                                                                         *)
(* The database may go away at any moment, and with it every connection;   *)
(* an answer may be lost when the statement has taken effect.              *)
(***************************************************************************)
EXTENDS NoValue, Naturals

CONSTANTS
    MaxCalls,   \* a bound on the calls of the process
    MaxFaults   \* a bound on the faults of the database and the network

VARIABLES
    up,         \* the database takes connections
    loops,      \* the event loops the process has created
    loop,       \* the one it keeps, or None
    pool,       \* the pool it keeps: its loop, and whether its connections live; or None
    stage,      \* how far the call is, see SyncStage
    calls,
    applied,    \* history: how many times the call has taken effect
    spared,     \* history: no fault has come since the call began
    dbFaults

local == <<loops, loop, pool>>
syncVars == <<up, local, stage, calls, applied, spared, dbFaults>>

\* Between two calls, with how the last one ended; before and in each attempt; and
\* between them.
SyncStage ==
    {"new", "returned", "raised", "connect", "first", "reset", "reconnect", "second"}

Idle    == stage \in {"new", "returned", "raised"}
Calling == stage \in {"first", "second"}

SyncInit ==
    /\ up = TRUE /\ loops = 0 /\ loop = None /\ pool = None
    /\ stage = "new" /\ calls = 0 /\ applied = 0 /\ spared = TRUE
    /\ dbFaults = 0

-----------------------------------------------------------------------------
(* The process *)

\* _worker_loop: the loop that is kept, or a new one.
WorkerLoop ==
    IF loop = None THEN loop' = loops + 1 /\ loops' = loops + 1
                   ELSE UNCHANGED <<loop, loops>>

Call ==
    /\ Idle /\ calls < MaxCalls
    /\ WorkerLoop
    /\ stage' = "connect" /\ calls' = calls + 1 /\ applied' = 0 /\ spared' = TRUE
    /\ UNCHANGED <<up, pool, dbFaults>>

GoOn(next) ==
    /\ stage' = next
    /\ UNCHANGED <<up, loops, loop, calls, applied, spared, dbFaults>>

\* Mutant: the process waits for the database to come back.
WaitForDatabase == stage

\* Mutant: the failure to connect is not noticed.
GoOnWithout == "first"

AfterNoPool == "raised"

\* _ensure_worker_pool: the pool that is kept, whatever its state, or a new one.
\* What it raises is not caught.
EnsurePool ==
    /\ stage \in {"connect", "reconnect"}
    /\ LET next == IF stage = "connect" THEN "first" ELSE "second"
       IN  \/ pool # None /\ GoOn(next) /\ UNCHANGED pool
           \/ pool = None /\ up /\ GoOn(next) /\ pool' = [loop |-> loop, live |-> TRUE]
           \/ pool = None /\ ~up /\ GoOn(AfterNoPool) /\ UNCHANGED pool

\* The pool's connections answer, from the loop they belong to.
Usable == up /\ pool.live /\ pool.loop = loop

\* Mutant: the call is repeated until it succeeds.
AlwaysReset == "reset"

\* Mutant: the exception ends the call.
NeverReset == "raised"

AfterException == IF stage = "first" THEN "reset" ELSE "raised"

\* The statement takes effect; its answer comes, or is lost.
Execute ==
    /\ Calling /\ Usable
    /\ applied' = applied + 1
    /\ \/ stage' = "returned" /\ UNCHANGED <<dbFaults, spared>>
       \/ /\ dbFaults < MaxFaults
          /\ dbFaults' = dbFaults + 1 /\ spared' = FALSE
          /\ stage' = AfterException
    /\ UNCHANGED <<up, local, calls>>

\* It does not reach the database.
ExecuteFails ==
    /\ Calling /\ ~Usable
    /\ stage' = AfterException
    /\ UNCHANGED <<up, local, calls, applied, spared, dbFaults>>

\* Mutant: the pool is kept, on its closed loop.
KeepPool == UNCHANGED pool

DropPool == pool' = None

\* _reset_worker_pool closes the pool, or terminates it, and its loop; then the
\* process takes a new loop.
Reset ==
    /\ stage = "reset"
    /\ DropPool
    /\ loop' = loops + 1 /\ loops' = loops + 1
    /\ stage' = "reconnect"
    /\ UNCHANGED <<up, calls, applied, spared, dbFaults>>

-----------------------------------------------------------------------------
(* The database *)

GoesDown ==
    /\ up /\ dbFaults < MaxFaults
    /\ up' = FALSE /\ dbFaults' = dbFaults + 1 /\ spared' = FALSE
    /\ pool' = IF pool = None THEN None ELSE [pool EXCEPT !.live = FALSE]
    /\ UNCHANGED <<loops, loop, stage, calls, applied>>

ComesUp ==
    /\ ~up
    /\ up' = TRUE /\ spared' = FALSE
    /\ UNCHANGED <<local, stage, calls, applied, dbFaults>>

Attempt == EnsurePool \/ Execute \/ ExecuteFails \/ Reset

Process == Call \/ Attempt
SyncNext == Process \/ GoesDown \/ ComesUp

\* Each attempt ends: connections and statements have time limits.
SyncFairness == WF_syncVars(Attempt)

SyncSpec == SyncInit /\ [][SyncNext]_syncVars /\ SyncFairness

-----------------------------------------------------------------------------
(* Properties *)

\* The variables have their types, and an attempt has a pool.
SyncTypeOK ==
    /\ up \in BOOLEAN /\ spared \in BOOLEAN /\ stage \in SyncStage
    /\ loops \in Nat /\ loop \in 1..loops \cup {None}
    /\ Calling => pool # None
    /\ pool # None => pool.loop \in 1..loops /\ pool.live \in BOOLEAN
    /\ calls \in 0..MaxCalls /\ dbFaults \in 0..MaxFaults

\* A call that returns has taken effect; no call takes effect more than twice, and
\* twice only if an answer was lost.
EffectIsBounded ==
    /\ stage = "returned" => applied > 0
    /\ applied <= 2 /\ (applied = 2 => ~spared)

\* A call during which the database is up all the time, and no answer is lost, does
\* not fail, in whatever state earlier calls and faults have left the pool.
StalePoolHeals == stage = "raised" /\ spared => ~up

\* The pool that is kept belongs to the loop that is kept, whenever a call uses it.
PoolOfItsLoop == pool # None => pool.loop = loop

\* What holds of a call, its pool and its effect, whatever the database did.
SyncInv == SyncTypeOK /\ PoolOfItsLoop /\ EffectIsBounded /\ StalePoolHeals

\* Every call ends, however the database fails.
SyncEnds == (~Idle) ~> Idle

=============================================================================
