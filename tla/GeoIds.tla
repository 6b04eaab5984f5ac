------------------------------- MODULE GeoIds -------------------------------
(***************************************************************************)
(* resolve_geo_ids: the geometries of a list of geo ids are asked for at   *)
(* an outside service, one task for each, a few at a time, each with one   *)
(* retry, and the submission goes on only with all of them.                *)
(*                                                                         *)
(* The first task that fails ends the call and closes its HTTP client,     *)
(* while the others still run.                                             *)
(***************************************************************************)
EXTENDS Naturals, FiniteSets, FiniteSetsExt

CONSTANTS
    N,              \* the length of the list
    GeoId,
    WellFormed,     \* the geo ids that parse as a UUID
    Concurrency,    \* geoid_resolve_concurrency
    MaxAttempts,    \* _MAX_ATTEMPTS
    Unset

ASSUME GeoIdsAssumption ==
    /\ N \in Nat /\ WellFormed \subseteq GeoId /\ Unset \notin GeoId
    /\ Concurrency \in Nat \ {0} /\ MaxAttempts \in Nat \ {0}

Item == 1..N

VARIABLES
    list,       \* the geo ids of the submission
    held,       \* what the service has to say of each: see Final
    task,       \* the task of each item, see Stage
    tries,      \* the attempts its loop has begun
    asked,      \* history: the requests for it that reached the network
    faults,     \* history: how many of them failed in a way that may pass
    odd,        \* history: the items whose answer was of neither kind
    results,
    error,      \* the error of the first task that failed, or Unset
    outcome     \* what became of the submission, or Unset

request == <<list, held>>
geoVars    == <<request, task, tries, asked, faults, odd, results, error, outcome>>

Stage == {"new", "waiting", "asking", "sleeping", "done", "failed"}
\* A feature; a 404, or an answer that is no feature; one of the other 4xx.
Final == {"feature", "nothing", "refused"}
\* A 5xx, 408 or 429; no answer at all.
Retryable == {"busy", "lost"}
\* A 200 that is not JSON; a status that is neither 200, 4xx nor 5xx.
Odd == {"garbled", "other"}
Reply == Final \cup Retryable \cup Odd

End(code, arg) == [code |-> code, arg |-> arg]

GeoInit ==
    /\ list \in [Item -> GeoId] /\ held \in [WellFormed -> Final]
    /\ task = [i \in Item |-> "new"]
    /\ tries = [i \in Item |-> 0] /\ asked = tries /\ faults = tries
    /\ odd = {}
    /\ results = [i \in Item |-> Unset]
    /\ error = Unset /\ outcome = Unset

-----------------------------------------------------------------------------
\* Leaving the block of `async with` closes the client.
Closed == outcome # Unset

OnWire == IF Closed THEN 0 ELSE 1

\* The loop of _request at its start, or after its sleep.
Send(i) ==
    /\ tries' = [tries EXCEPT ![i] = @ + 1]
    /\ asked' = [asked EXCEPT ![i] = @ + OnWire]

\* Mutant: one task too many.
OneTooMany(i, good) == Cardinality({k \in good : k < i}) <= Concurrency

HasSlot(i, good) == Cardinality({k \in good : k < i}) < Concurrency

\* Every task has its first step before any answer is read: it checks its geo id,
\* and takes a slot or waits for one, in the order of the list.
Start ==
    /\ \A i \in Item : task[i] = "new"
    /\ LET good  == {i \in Item : list[i] \in WellFormed}
           first == {i \in good : HasSlot(i, good)}
       IN  /\ task' = [i \in Item |-> IF i \notin good THEN "failed"
                                      ELSE IF i \in first THEN "asking" ELSE "waiting"]
           /\ tries' = [i \in Item |-> IF i \in first THEN 1 ELSE 0]
           /\ asked' = tries'
           /\ error' = IF good = Item THEN Unset
                       ELSE End("invalid", list[Min(Item \ good)])
    /\ UNCHANGED <<request, faults, odd, results, outcome>>

Waiting == {k \in Item : task[k] = "waiting"}

\* Mutant: the slot is not given back.
KeepSlot(i, stage) ==
    task' = [task EXCEPT ![i] = stage] /\ UNCHANGED <<tries, asked>>

\* The task is over and gives its slot back; the one that waits longest takes it.
Leave(i, stage) ==
    IF Waiting = {}
    THEN task' = [task EXCEPT ![i] = stage] /\ UNCHANGED <<tries, asked>>
    ELSE LET next == Min(Waiting)
         IN  task' = [task EXCEPT ![i] = stage, ![next] = "asking"] /\ Send(next)

Fail(i, code) ==
    /\ Leave(i, "failed")
    /\ error' = IF error = Unset THEN End(code, list[i]) ELSE error
    /\ UNCHANGED results

\* Mutant: a task is not tried again.
LastTry(i) == TRUE

IsLastTry(i) == tries[i] = MaxAttempts

\* Mutant: "too many requests" counts as one of the other 4xx.
IsRefusedOrBusy(a) == a \in {"refused", "busy"}

IsRefused(a) == a = "refused"

\* Mutant: the answers are kept in the order in which they come.
KeepNext(i) == results' = [results EXCEPT ![Min({k \in Item : results[k] = Unset})] = list[i]]

Keep(i) == results' = [results EXCEPT ![i] = list[i]]

\* The service gives its answer, fails for the moment or answers oddly; a client
\* that is closed fails at once.
Answered(i, a) ==
    /\ task[i] = "asking"
    /\ a \in {held[list[i]]} \cup Retryable \cup Odd
    /\ (Closed /\ a # "lost") => asked[i] = tries[i]
    /\ faults' = [faults EXCEPT ![i] = IF a \in Retryable THEN @ + 1 ELSE @]
    /\ odd' = IF a \in Odd THEN odd \cup {i} ELSE odd
    /\ \/ a = "feature" /\ Keep(i) /\ Leave(i, "done") /\ UNCHANGED error
       \/ a = "nothing" /\ Leave(i, "done") /\ UNCHANGED <<results, error>>
       \/ a = "garbled" /\ Fail(i, "server_error")
       \/ a = "other" /\ Fail(i, "unavailable")
       \/ IsRefused(a) /\ Fail(i, "invalid")
       \/ a \in Retryable /\ ~IsRefused(a) /\ IsLastTry(i) /\ Fail(i, "unavailable")
       \/ /\ a \in Retryable /\ ~IsRefused(a) /\ ~IsLastTry(i)
          /\ task' = [task EXCEPT ![i] = "sleeping"]
          /\ UNCHANGED <<tries, asked, results, error>>
    /\ UNCHANGED <<request, outcome>>

\* _RETRY_DELAY_S has passed; the slot was kept.
Retry(i) ==
    /\ task[i] = "sleeping"
    /\ task' = [task EXCEPT ![i] = "asking"] /\ Send(i)
    /\ UNCHANGED <<request, faults, odd, results, error, outcome>>

Missing == {i \in Item : results[i] = Unset}

\* gather ends, with the first error or when all the tasks are done, and
\* submit_geo_ids goes on.
Gathered ==
    /\ outcome = Unset
    /\ error # Unset \/ \A i \in Item : task[i] = "done"
    /\ outcome' = IF error # Unset THEN error
                  ELSE IF Missing # {} THEN End("not_found", Missing)
                  ELSE End("submitted", results)
    /\ UNCHANGED <<request, task, tries, asked, faults, odd, results, error>>

\* The steps of the call, and those of a task.
CallStep == Start \/ Gathered
TaskStep(i) == Retry(i) \/ \E a \in Reply : Answered(i, a)

GeoNext == CallStep \/ \E i \in Item : TaskStep(i)

\* A request ends within the 30 seconds of the client, and the loop goes on.
GeoFairness == WF_geoVars(CallStep) /\ \A i \in Item : WF_geoVars(TaskStep(i))

GeoSpec == GeoInit /\ [][GeoNext]_geoVars /\ GeoFairness

-----------------------------------------------------------------------------
(* Properties *)

\* The variables have their types, and no more tasks hold a slot than there are.
TasksTypeOK ==
    /\ list \in [Item -> GeoId] /\ held \in [WellFormed -> Final]
    /\ task \in [Item -> Stage] /\ results \in [Item -> GeoId \cup {Unset}]
    /\ tries \in [Item -> 0..MaxAttempts] /\ \A i \in Item : asked[i] <= tries[i]
    /\ Cardinality({i \in Item : task[i] \in {"asking", "sleeping"}}) <= Concurrency

HasCode(code) == outcome # Unset /\ outcome.code = code

\* A submission goes on with the features of its list, each at its own place; one
\* that names missing geo ids names exactly those the service does not have.
ListIsAnswered ==
    /\ HasCode("submitted") => /\ outcome.arg = list
                               /\ \A i \in Item : held[list[i]] = "feature"
    /\ HasCode("not_found") => outcome.arg = {i \in Item : held[list[i]] = "nothing"}

\* A geo id is called invalid only if it is: no failure of the service, and none of
\* the client that another task's error has closed, is blamed on it.
BlameIsRight ==
    HasCode("invalid") /\ outcome.arg \in WellFormed => held[outcome.arg] = "refused"

\* The service is called unavailable only after an answer that is never tried again,
\* or when it failed in every attempt at one geo id.
OneFaultIsForgiven ==
    HasCode("unavailable") =>
        \E i \in Item : list[i] = outcome.arg /\ (i \in odd \/ faults[i] = MaxAttempts)

\* What holds of the tasks, and of what is said when one has failed.
TasksInv == TasksTypeOK /\ BlameIsRight /\ OneFaultIsForgiven

\* The tasks that outlive the call ask the service for nothing more.
NothingAfterTheEnd == [][outcome # Unset => asked' = asked]_geoVars

\* The call ends, and so do the tasks it has left behind.
CallEnds == <>(outcome # Unset) /\ <>[](\A i \in Item : task[i] \in {"done", "failed"})

=============================================================================
