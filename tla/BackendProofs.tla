--------------------------- MODULE BackendProofs ----------------------------
(***************************************************************************)
(* Proofs about four parts of the backend that share no state: the geo ids *)
(* of a submission, for a list of any length, any number of tasks at once  *)
(* and any number of attempts; the downloads of a result, for any number   *)
(* of attempts at the analysis and of ends of the API process; the runners *)
(* of the migrations, for any files, versions and number of runners,       *)
(* however they overlap and fail; and a worker's calls of the database,    *)
(* for any number of calls and faults.                                     *)
(***************************************************************************)
EXTENDS GeoIds, ResultExport, Migrations, RunSync, WellFoundedInduction,
        FiniteSetTheorems, TLAPS

-----------------------------------------------------------------------------
(* The geo ids of a submission: the invariant *)

GeoTypeOK ==
    /\ list \in [Item -> GeoId] /\ held \in [WellFormed -> Final]
    /\ task \in [Item -> Stage] /\ results \in [Item -> GeoId \cup {Unset}]
    /\ tries \in [Item -> Nat] /\ asked \in [Item -> Nat] /\ faults \in [Item -> Nat]
    /\ odd \subseteq Item

\* All tasks take their first step together; an error, and the end, come after it.
StartedAtOnce ==
    \/ error = Unset /\ outcome = Unset /\ \A i \in Item : task[i] = "new"
    \/ \A i \in Item : task[i] # "new"

\* A task that goes on has a geo id the service can be asked for.
OnlyGoodAreAsked ==
    \A i \in Item : task[i] \notin {"new", "failed"} => list[i] \in WellFormed

\* What a task has brought back is the feature of its place, and a task that is done
\* has brought back what there is.
ResultsAreHeld ==
    \A i \in Item :
        /\ results[i] # Unset => results[i] = list[i] /\ held[list[i]] = "feature"
        /\ task[i] = "done" => \/ held[list[i]] = "nothing"
                               \/ held[list[i]] = "feature" /\ results[i] = list[i]

\* Every earlier attempt of a task that goes on failed in a way that may pass.
FaultsAreCounted ==
    \A i \in Item :
        /\ task[i] = "asking" => tries[i] = faults[i] + 1
        /\ task[i] = "sleeping" => tries[i] = faults[i]
        /\ task[i] \in {"new", "waiting"} => tries[i] = 0 /\ faults[i] = 0

\* Some task for that geo id has failed, and for good.
FailedForGood(id) ==
    \E i \in Item : /\ list[i] = id /\ task[i] = "failed"
                    /\ i \in odd \/ faults[i] = MaxAttempts

\* What an error says of a geo id.
IsJustified(end) ==
    \E code \in {"invalid", "unavailable", "server_error"}, id \in GeoId :
        /\ end = End(code, id)
        /\ code = "invalid" /\ id \in WellFormed => held[id] = "refused"
        /\ code = "unavailable" => FailedForGood(id)

ErrorIsJustified == error = Unset \/ IsJustified(error)

OutcomeIsJustified ==
    \/ outcome = Unset
    \/ IsJustified(outcome)
    \/ outcome = End("not_found", {i \in Item : held[list[i]] = "nothing"})
    \/ outcome = End("submitted", list) /\ \A i \in Item : held[list[i]] = "feature"

GeoInv ==
    /\ GeoTypeOK /\ StartedAtOnce /\ OnlyGoodAreAsked /\ ResultsAreHeld
    /\ FaultsAreCounted /\ ErrorIsJustified /\ OutcomeIsJustified

-----------------------------------------------------------------------------
(* Lemmas *)

\* A set of numbers has a least one.
LEMMA LeastOf ==
  ASSUME NEW S, S \subseteq Nat, S # {}
  PROVE  \E x \in S : \A y \in S : x =< y
<1> DEFINE Less == {ss \in Nat \X Nat : ss[1] < ss[2]}
<1>1. IsWellFoundedOn(Less, Nat)
  BY NatLessThanWellFounded, Zenon DEF OpToRel
<1> HIDE DEF Less
<1>2. PICK x \in S : \A y \in S : ~ (<<y, x>> \in Less)
  BY <1>1, WFMin, Zenon
<1>3. ASSUME NEW y \in S PROVE x =< y
  <2>1. x \in Nat /\ y \in Nat
    OBVIOUS
  <2>2. ~ (y < x)
    BY <1>2, <2>1 DEF Less
  <2> QED
    BY <2>1, <2>2
<1> QED
  BY <1>3

\* The least of a set of items is one of them: the task the list names first, or
\* that waits longest.
LEMMA MinIsMember ==
  ASSUME NEW S, S \subseteq Nat, S # {}
  PROVE  Min(S) \in S
BY LeastOf, Zenon DEF Min

LEMMA ItemsAreNumbers == Item \subseteq Nat
BY GeoIdsAssumption DEF Item

-----------------------------------------------------------------------------
(* The initial states and each step *)

LEMMA InitGivesInv == GeoInit => GeoInv
BY DEF GeoInit, GeoInv, GeoTypeOK, Stage, StartedAtOnce, OnlyGoodAreAsked, ResultsAreHeld,
       FaultsAreCounted, ErrorIsJustified, OutcomeIsJustified

LEMMA StartKeepsInv == GeoInv /\ Start => GeoInv'
<1> SUFFICES ASSUME GeoInv, Start PROVE GeoInv'
  OBVIOUS
<1> DEFINE good  == {i \in Item : list[i] \in WellFormed}
           first == {i \in good : HasSlot(i, good)}
<1>1. /\ task' = [i \in Item |-> IF i \notin good THEN "failed"
                                 ELSE IF i \in first THEN "asking" ELSE "waiting"]
      /\ tries' = [i \in Item |-> IF i \in first THEN 1 ELSE 0]
      /\ asked' = tries'
      /\ error' = IF good = Item THEN Unset ELSE End("invalid", list[Min(Item \ good)])
      /\ UNCHANGED <<list, held, faults, odd, results, outcome>>
      /\ \A i \in Item : task[i] = "new"
  BY Zenon DEF Start, request
<1> USE GeoInv DEF GeoInv
<1>2. GeoTypeOK'
  BY <1>1 DEF GeoTypeOK, Stage
<1>3. StartedAtOnce'
  BY <1>1 DEF StartedAtOnce
<1>4. OnlyGoodAreAsked'
  BY <1>1 DEF OnlyGoodAreAsked
<1>5. ResultsAreHeld'
  BY <1>1 DEF ResultsAreHeld
<1>6. FaultsAreCounted'
  <2>1. \A i \in Item : faults'[i] = 0 /\ task'[i] # "sleeping"
    BY <1>1 DEF FaultsAreCounted
  <2>2. \A i \in Item : /\ task'[i] = "asking" => tries'[i] = 1
                        /\ task'[i] \in {"new", "waiting"} => tries'[i] = 0
    BY <1>1
  <2> QED
    BY <2>1, <2>2 DEF FaultsAreCounted
<1>7. ErrorIsJustified'
  <2>1. CASE good = Item
    BY <1>1, <2>1 DEF ErrorIsJustified
  <2>2. CASE good # Item
    <3>1. Min(Item \ good) \in Item \ good
      BY <2>2, MinIsMember, ItemsAreNumbers
    <3>2. list[Min(Item \ good)] \in GeoId \ WellFormed
      BY <3>1 DEF GeoTypeOK
    <3>3. IsJustified(error)'
      BY <1>1, <2>2, <3>2 DEF IsJustified
    <3> QED
      BY <3>3 DEF ErrorIsJustified
  <2> QED
    BY <2>1, <2>2
<1>8. OutcomeIsJustified'
  <2>1. CASE Item = {}
    BY <1>1, <2>1 DEF OutcomeIsJustified, IsJustified, FailedForGood
  <2>2. CASE Item # {}
    BY <1>1, <2>2 DEF StartedAtOnce, OutcomeIsJustified
  <2> QED
    BY <2>1, <2>2
<1> QED
  BY <1>2, <1>3, <1>4, <1>5, <1>6, <1>7, <1>8

LEMMA GatheredKeepsInv == GeoInv /\ Gathered => GeoInv'
<1> SUFFICES ASSUME GeoInv, Gathered PROVE GeoInv'
  OBVIOUS
<1> USE GeoInv DEF GeoInv
<1>1. UNCHANGED <<list, held, task, tries, asked, faults, odd, results, error>>
  BY DEF Gathered, request
<1>2. GeoTypeOK' /\ OnlyGoodAreAsked' /\ ResultsAreHeld' /\ FaultsAreCounted'
  BY <1>1 DEF GeoTypeOK, OnlyGoodAreAsked, ResultsAreHeld, FaultsAreCounted
<1>3. StartedAtOnce'
  BY <1>1 DEF Gathered, StartedAtOnce
<1>4. ErrorIsJustified'
  BY <1>1 DEF ErrorIsJustified, IsJustified, FailedForGood
<1>5. OutcomeIsJustified'
  <2>1. CASE error # Unset
    <3>1. outcome' = error /\ IsJustified(error)
      BY <2>1 DEF Gathered, ErrorIsJustified
    <3> QED
      BY <1>1, <3>1 DEF OutcomeIsJustified, IsJustified, FailedForGood
  <2>2. CASE error = Unset
    <3>1. \A i \in Item : task[i] = "done"
      BY <2>2 DEF Gathered
    <3>2. \A i \in Item : list[i] \in GeoId /\ list[i] # Unset
      BY GeoIdsAssumption DEF GeoTypeOK
    <3>3. \A i \in Item : results[i] = Unset <=> held[list[i]] = "nothing"
      BY <3>1, <3>2 DEF ResultsAreHeld
    <3>4. CASE Missing # {}
      <4>1. Missing = {i \in Item : held[list[i]] = "nothing"}
        BY <3>3 DEF Missing
      <4>2. outcome' = End("not_found", Missing)
        BY <2>2, <3>4 DEF Gathered
      <4> QED
        BY <1>1, <4>1, <4>2 DEF OutcomeIsJustified
    <3>5. CASE Missing = {}
      <4>1. \A i \in Item : results[i] = list[i] /\ held[list[i]] = "feature"
        BY <3>5, <3>1 DEF Missing, ResultsAreHeld
      <4>2. results = list
        BY <4>1 DEF GeoTypeOK
      <4>3. outcome' = End("submitted", results)
        BY <2>2, <3>5 DEF Gathered
      <4> QED
        BY <1>1, <4>1, <4>2, <4>3 DEF OutcomeIsJustified
    <3> QED
      BY <3>4, <3>5
  <2> QED
    BY <2>1, <2>2
<1> QED
  BY <1>2, <1>3, <1>4, <1>5

LEMMA RetryKeepsInv ==
  ASSUME GeoInv, NEW i \in Item, Retry(i)
  PROVE  GeoInv'
<1> USE GeoInv DEF GeoInv
<1>1. /\ task[i] = "sleeping"
      /\ task' = [task EXCEPT ![i] = "asking"]
      /\ tries' = [tries EXCEPT ![i] = @ + 1]
      /\ asked' = [asked EXCEPT ![i] = @ + OnWire] /\ OnWire \in Nat
      /\ UNCHANGED <<list, held, faults, odd, results, error, outcome>>
  BY DEF Retry, Send, request, OnWire
<1>2. GeoTypeOK'
  BY <1>1 DEF GeoTypeOK, Stage
<1>3. StartedAtOnce' /\ OnlyGoodAreAsked' /\ ResultsAreHeld'
  BY <1>1 DEF StartedAtOnce, OnlyGoodAreAsked, ResultsAreHeld, GeoTypeOK
<1>4. FaultsAreCounted'
  BY <1>1 DEF FaultsAreCounted, GeoTypeOK
<1>5. \A id : FailedForGood(id) => FailedForGood(id)'
  BY <1>1 DEF FailedForGood, GeoTypeOK
<1>6. ErrorIsJustified' /\ OutcomeIsJustified'
  BY <1>1, <1>5 DEF ErrorIsJustified, OutcomeIsJustified, IsJustified
<1> QED
  BY <1>2, <1>3, <1>4, <1>6

\* Another task can only be sent out: it waited before.
LEMMA LeaveIsLocal ==
  ASSUME GeoInv, NEW i \in Item, task[i] = "asking", NEW to \in Stage, Leave(i, to),
         to \notin {"new", "waiting"}
  PROVE  /\ task' \in [Item -> Stage] /\ tries' \in [Item -> Nat] /\ asked' \in [Item -> Nat]
         /\ task'[i] = to
         /\ \A k \in Item \ {i} :
              \/ task'[k] = task[k] /\ tries'[k] = tries[k]
              \/ task[k] = "waiting" /\ task'[k] = "asking" /\ tries'[k] = tries[k] + 1
<1> USE GeoInv DEF GeoInv
<1>1. GeoTypeOK
  OBVIOUS
<1>2. CASE Waiting = {}
  BY <1>1, <1>2 DEF Leave, GeoTypeOK
<1>3. CASE Waiting # {}
  <2>1. PICK next \in Waiting :
          /\ task' = [task EXCEPT ![i] = to, ![next] = "asking"]
          /\ tries' = [tries EXCEPT ![next] = @ + 1]
          /\ asked' = [asked EXCEPT ![next] = @ + OnWire]
    <3>1. Waiting \subseteq Nat
      BY ItemsAreNumbers DEF Waiting
    <3>2. Min(Waiting) \in Waiting
      BY <1>3, <3>1, MinIsMember
    <3> QED
      BY <1>3, <3>2, Zenon DEF Leave, Send
  <2>2. next \in Item /\ task[next] = "waiting" /\ next # i
    BY <2>1 DEF Waiting
  <2>3. OnWire \in Nat
    BY DEF OnWire
  <2> QED
    BY <1>1, <2>1, <2>2, <2>3 DEF GeoTypeOK, Stage
<1> QED
  BY <1>2, <1>3

\* The answers that end a task, in a form that hides who is sent out next.
LEMMA AnsweredIsLocal ==
  ASSUME GeoInv, NEW i \in Item, NEW a \in Reply, Answered(i, a)
  PROVE  /\ GeoTypeOK' /\ UNCHANGED <<list, held, outcome>>
         /\ task[i] = "asking" /\ list[i] \in WellFormed
         /\ faults' = [faults EXCEPT ![i] = IF a \in Retryable THEN @ + 1 ELSE @]
         /\ odd' = IF a \in Odd THEN odd \cup {i} ELSE odd
         /\ \A k \in Item \ {i} :
              \/ task'[k] = task[k] /\ tries'[k] = tries[k]
              \/ task[k] = "waiting" /\ task'[k] = "asking" /\ tries'[k] = tries[k] + 1
         /\ \/ /\ a = "feature" /\ held[list[i]] = a /\ task'[i] = "done"
               /\ results' = [results EXCEPT ![i] = list[i]] /\ error' = error
            \/ /\ a = "nothing" /\ held[list[i]] = a /\ task'[i] = "done"
               /\ results' = results /\ error' = error
            \/ /\ results' = results /\ task'[i] = "failed"
               /\ \E code \in {"invalid", "unavailable", "server_error"} :
                    /\ error' = IF error = Unset THEN End(code, list[i]) ELSE error
                    /\ code = "invalid" => held[list[i]] = "refused"
                    /\ code = "unavailable" => i \in odd' \/ faults'[i] = MaxAttempts
            \/ /\ a \in Retryable /\ task'[i] = "sleeping"
               /\ tries'[i] = tries[i] /\ results' = results /\ error' = error
<1> USE GeoInv DEF GeoInv
<1> DEFINE Sent == \A k \in Item \ {i} :
              \/ task'[k] = task[k] /\ tries'[k] = tries[k]
              \/ task[k] = "waiting" /\ task'[k] = "asking" /\ tries'[k] = tries[k] + 1
<1>1. /\ task[i] = "asking" /\ list[i] \in WellFormed
      /\ a \in {held[list[i]]} \cup Retryable \cup Odd
      /\ faults' = [faults EXCEPT ![i] = IF a \in Retryable THEN @ + 1 ELSE @]
      /\ odd' = IF a \in Odd THEN odd \cup {i} ELSE odd
      /\ UNCHANGED <<list, held, outcome>>
  BY DEF Answered, OnlyGoodAreAsked, request
<1>2. GeoTypeOK /\ faults' \in [Item -> Nat] /\ odd' \subseteq Item
  BY <1>1 DEF GeoTypeOK
<1>3. ASSUME NEW to \in {"done", "failed"}, Leave(i, to)
      PROVE  /\ task' \in [Item -> Stage] /\ tries' \in [Item -> Nat] /\ asked' \in [Item -> Nat]
             /\ task'[i] = to /\ Sent
  <2>1. to \in Stage /\ to \notin {"new", "waiting"}
    BY DEF Stage
  <2> QED
    BY <1>1, <1>3, <2>1, LeaveIsLocal, Zenon
<1>4. CASE a = "feature" /\ Keep(i) /\ Leave(i, "done") /\ UNCHANGED error
  <2>1. a = held[list[i]]
    BY <1>1, <1>4 DEF Retryable, Odd
  <2> QED
    BY <1>1, <1>2, <1>3, <1>4, <2>1 DEF Keep, GeoTypeOK
<1>5. CASE a = "nothing" /\ Leave(i, "done") /\ UNCHANGED <<results, error>>
  <2>1. a = held[list[i]]
    BY <1>1, <1>5 DEF Retryable, Odd
  <2> QED
    BY <1>1, <1>2, <1>3, <1>5, <2>1 DEF GeoTypeOK
<1>6. ASSUME NEW code \in {"invalid", "unavailable", "server_error"}, Fail(i, code),
             code = "invalid" => held[list[i]] = "refused",
             code = "unavailable" => i \in odd' \/ faults'[i] = MaxAttempts
      PROVE  /\ GeoTypeOK' /\ Sent /\ results' = results /\ task'[i] = "failed"
             /\ error' = IF error = Unset THEN End(code, list[i]) ELSE error
  BY <1>1, <1>2, <1>3, <1>6 DEF Fail, GeoTypeOK
<1>7. CASE a = "garbled" /\ Fail(i, "server_error")
  BY <1>1, <1>6, <1>7
<1>8. CASE a = "other" /\ Fail(i, "unavailable")
  BY <1>1, <1>6, <1>8 DEF Odd
<1>9. CASE IsRefused(a) /\ Fail(i, "invalid")
  <2>1. held[list[i]] = "refused"
    BY <1>1, <1>9 DEF IsRefused, Retryable, Odd
  <2> QED
    BY <1>1, <1>6, <1>9, <2>1
<1>10. CASE a \in Retryable /\ IsLastTry(i) /\ Fail(i, "unavailable")
  <2>1. faults'[i] = MaxAttempts
    BY <1>1, <1>2, <1>10 DEF IsLastTry, FaultsAreCounted, GeoTypeOK
  <2> QED
    BY <1>1, <1>6, <1>10, <2>1
<1>11. CASE /\ a \in Retryable /\ task' = [task EXCEPT ![i] = "sleeping"]
            /\ UNCHANGED <<tries, asked, results, error>>
  BY <1>1, <1>2, <1>11 DEF GeoTypeOK, Stage
<1> QED
  BY <1>4, <1>5, <1>7, <1>8, <1>9, <1>10, <1>11 DEF Answered

LEMMA AnsweredKeepsInv ==
  ASSUME GeoInv, NEW i \in Item, NEW a \in Reply, Answered(i, a)
  PROVE  GeoInv'
<1> USE GeoInv DEF GeoInv
<1> DEFINE CallEnded ==
      /\ results' = results /\ task'[i] = "failed"
      /\ \E code \in {"invalid", "unavailable", "server_error"} :
           /\ error' = IF error = Unset THEN End(code, list[i]) ELSE error
           /\ code = "invalid" => held[list[i]] = "refused"
           /\ code = "unavailable" => i \in odd' \/ faults'[i] = MaxAttempts
<1>1. GeoTypeOK /\ GeoTypeOK'
  BY AnsweredIsLocal, Zenon
<1>2. /\ UNCHANGED <<list, held, outcome>>
      /\ task[i] = "asking" /\ list[i] \in WellFormed
  BY AnsweredIsLocal, Zenon
<1>3. \A k \in Item \ {i} : faults'[k] = faults[k] /\ (k \in odd => k \in odd')
  BY <1>1, AnsweredIsLocal DEF GeoTypeOK
<1>4. \A k \in Item \ {i} :
        \/ task'[k] = task[k] /\ tries'[k] = tries[k]
        \/ task[k] = "waiting" /\ task'[k] = "asking" /\ tries'[k] = tries[k] + 1
  BY AnsweredIsLocal, Zenon
<1>5. \/ /\ task'[i] = "done" /\ held[list[i]] = "feature" /\ error' = error
         /\ results' = [results EXCEPT ![i] = list[i]]
      \/ task'[i] = "done" /\ held[list[i]] = "nothing" /\ results' = results /\ error' = error
      \/ CallEnded
      \/ /\ task'[i] = "sleeping" /\ results' = results /\ error' = error
         /\ tries'[i] = tries[i] /\ faults'[i] = faults[i] + 1
  BY <1>1, AnsweredIsLocal DEF GeoTypeOK
<1>6. StartedAtOnce'
  <2>1. \A k \in Item : task[k] # "new"
    BY <1>2 DEF StartedAtOnce
  <2> QED
    BY <2>1, <1>4, <1>5 DEF StartedAtOnce
<1>7. OnlyGoodAreAsked'
  BY <1>2, <1>4, <1>5 DEF OnlyGoodAreAsked
<1>8. ResultsAreHeld'
  <2>1. \A k \in Item : k = i \/ results'[k] = results[k]
    BY <1>1, <1>5 DEF GeoTypeOK
  <2>2. results'[i] = results[i] \/ (results'[i] = list[i] /\ held[list[i]] = "feature")
    BY <1>1, <1>5 DEF GeoTypeOK
  <2>3. task'[i] = "done" => \/ held[list[i]] = "nothing"
                             \/ held[list[i]] = "feature" /\ results'[i] = list[i]
    BY <1>1, <1>5 DEF GeoTypeOK
  <2> QED
    BY <1>2, <1>4, <2>1, <2>2, <2>3 DEF ResultsAreHeld
<1>9. FaultsAreCounted'
  <2>1. ASSUME NEW k \in Item \ {i}
        PROVE  /\ task'[k] = "asking" => tries'[k] = faults'[k] + 1
               /\ task'[k] = "sleeping" => tries'[k] = faults'[k]
               /\ task'[k] \in {"new", "waiting"} => tries'[k] = 0 /\ faults'[k] = 0
    BY <1>1, <1>3, <1>4 DEF FaultsAreCounted, GeoTypeOK
  <2>2. task'[i] = "sleeping" => tries'[i] = faults'[i]
    BY <1>1, <1>2, <1>5 DEF FaultsAreCounted, GeoTypeOK
  <2>3. task'[i] \in {"done", "failed", "sleeping"}
    BY <1>5
  <2> QED
    BY <2>1, <2>2, <2>3 DEF FaultsAreCounted
<1>10. \A id : FailedForGood(id) => FailedForGood(id)'
  BY <1>2, <1>3, <1>4 DEF FailedForGood
<1>11. \A end : IsJustified(end) => IsJustified(end)'
  BY <1>2, <1>10 DEF IsJustified
<1>12. ErrorIsJustified'
  <2>1. CASE error' = error
    BY <2>1, <1>11 DEF ErrorIsJustified, IsJustified
  <2>2. CASE CallEnded /\ error = Unset
    <3>1. PICK code \in {"invalid", "unavailable", "server_error"} :
            /\ error' = End(code, list[i])
            /\ code = "invalid" => held[list[i]] = "refused"
            /\ code = "unavailable" => i \in odd' \/ faults'[i] = MaxAttempts
      BY <2>2
    <3>2. list[i] \in GeoId
      BY <1>1 DEF GeoTypeOK
    <3>3. code = "unavailable" => FailedForGood(list[i])'
      BY <3>1, <2>2, <1>2 DEF FailedForGood
    <3>4. IsJustified(error)'
      BY <3>1, <3>2, <3>3, <1>2 DEF IsJustified
    <3> QED
      BY <3>4 DEF ErrorIsJustified
  <2>3. CASE CallEnded /\ error # Unset
    BY <2>1, <2>3
  <2> QED
    BY <1>5, <2>1, <2>2, <2>3
<1>13. OutcomeIsJustified'
  BY <1>2, <1>11 DEF OutcomeIsJustified, IsJustified
<1> QED
  BY <1>1, <1>6, <1>7, <1>8, <1>9, <1>12, <1>13

LEMMA StutterKeepsInv == GeoInv /\ UNCHANGED geoVars => GeoInv'
BY DEF GeoInv, geoVars, request, GeoTypeOK, StartedAtOnce, OnlyGoodAreAsked, ResultsAreHeld,
       FaultsAreCounted, ErrorIsJustified, OutcomeIsJustified, IsJustified, FailedForGood

-----------------------------------------------------------------------------
(* The theorems *)

\* The invariant holds for any list, any geo ids that parse, any number of tasks and
\* attempts, and any failures of the service.
THEOREM GeoInvHolds == GeoSpec => []GeoInv
<1>1. GeoInit => GeoInv
  BY InitGivesInv
<1>2. GeoInv /\ [GeoNext]_geoVars => GeoInv'
  BY StartKeepsInv, GatheredKeepsInv, RetryKeepsInv, AnsweredKeepsInv, StutterKeepsInv DEF GeoNext, CallStep, TaskStep
<1> QED
  BY <1>1, <1>2, PTL DEF GeoSpec

\* A submission of geo ids goes on with its own features in order, or names exactly
\* the missing ones.
THEOREM ListIsAnsweredHolds == GeoSpec => []ListIsAnswered
<1>1. GeoInv => ListIsAnswered
  BY DEF GeoInv, OutcomeIsJustified, IsJustified, End, ListIsAnswered, HasCode
<1> QED
  BY <1>1, GeoInvHolds, PTL

\* Only a geo id that does not parse, or that the service refused, is called invalid.
THEOREM BlameIsRightHolds == GeoSpec => []BlameIsRight
<1>1. GeoInv => BlameIsRight
  BY DEF GeoInv, OutcomeIsJustified, IsJustified, End, BlameIsRight, HasCode
<1> QED
  BY <1>1, GeoInvHolds, PTL

\* The service is not called unavailable for a fault that another attempt made good.
THEOREM OneFaultIsForgivenHolds == GeoSpec => []OneFaultIsForgiven
<1>1. GeoInv => OneFaultIsForgiven
  BY DEF GeoInv, OutcomeIsJustified, IsJustified, End, FailedForGood, OneFaultIsForgiven, HasCode
<1> QED
  BY <1>1, GeoInvHolds, PTL

\* After the call has ended no task asks the service for anything.
THEOREM NothingAfterTheEndHolds == GeoSpec => NothingAfterTheEnd
<1>1. GeoInv /\ [GeoNext]_geoVars => [outcome # Unset => asked' = asked]_geoVars
  <2> SUFFICES ASSUME GeoInv, GeoNext, outcome # Unset PROVE asked' = asked
    BY DEF geoVars
  <2>1. asked \in [Item -> Nat] /\ OnWire = 0
    BY DEF GeoInv, GeoTypeOK, OnWire, Closed
  <2>2. ASSUME NEW i \in Item, Send(i) PROVE asked' = asked
    BY <2>1, <2>2 DEF Send
  <2>3. CASE Start
    <3>1. Item = {} /\ asked' = [i \in Item |-> 0]
      <4>1. Item = {}
        BY <2>3 DEF Start, GeoInv, StartedAtOnce
      <4>2. asked' = tries' /\ DOMAIN tries' = Item
        BY <2>3 DEF Start
      <4> QED
        BY <2>3, <4>1, <4>2 DEF Start
    <3> QED
      BY <2>1, <3>1
  <2>4. CASE Gathered
    BY <2>4 DEF Gathered
  <2>5. ASSUME NEW i \in Item, Retry(i) PROVE asked' = asked
    BY <2>2, <2>5 DEF Retry
  <2>6. ASSUME NEW i \in Item, NEW a \in Reply, Answered(i, a) PROVE asked' = asked
    <3>1. ASSUME NEW to, Leave(i, to) PROVE asked' = asked
      <4>1. CASE Waiting = {}
        BY <3>1, <4>1 DEF Leave
      <4>2. CASE Waiting # {}
        <5>1. Waiting \subseteq Nat /\ Waiting \subseteq Item
          BY ItemsAreNumbers DEF Waiting
        <5>2. Min(Waiting) \in Item
          BY <4>2, <5>1, MinIsMember
        <5>3. Send(Min(Waiting))
          BY <3>1, <4>2, Zenon DEF Leave
        <5> QED
          BY <2>2, <5>2, <5>3
      <4> QED
        BY <4>1, <4>2
    <3> QED
      BY <2>6, <3>1, Zenon DEF Answered, Fail
  <2> QED
    BY <2>3, <2>4, <2>5, <2>6 DEF GeoNext, CallStep, TaskStep
<1> QED
  BY <1>1, GeoInvHolds, PTL DEF GeoSpec, NothingAfterTheEnd

-----------------------------------------------------------------------------
(* Its tasks and their slots *)

\* The tasks that hold a slot.
Holding == {i \in Item : task[i] \in {"asking", "sleeping"}}

\* A task sleeps only before an attempt that it has, asks no more often than it tries,
\* and takes a slot only when one is free.
SlotsInv ==
    /\ \A i \in Item : /\ tries[i] <= MaxAttempts /\ asked[i] <= tries[i]
                       /\ task[i] = "sleeping" => tries[i] < MaxAttempts
    /\ Cardinality(Holding) <= Concurrency

LEMMA ItemsAreFinite ==
  ASSUME NEW S \in SUBSET Item
  PROVE  IsFiniteSet(S) /\ Cardinality(S) \in Nat
<1>1. IsFiniteSet(Item)
  BY GeoIdsAssumption, FS_Interval DEF Item
<1> QED
  BY <1>1, FS_Subset, FS_CardinalityType

\* The last of a set of items is one of them.
LEMMA LastIsMember ==
  ASSUME NEW S \in SUBSET Item, S # {}
  PROVE  \E m \in S : \A i \in S : i <= m
<1> DEFINE T == {k \in Nat : \E i \in S : k = N - i}
<1>1. N \in Nat /\ S \subseteq Nat /\ \A i \in S : i <= N
  BY GeoIdsAssumption DEF Item
<1>2. T \subseteq Nat /\ T # {}
  <2>1. PICK i \in S : TRUE
    OBVIOUS
  <2>2. N - i \in T
    BY <1>1, <2>1
  <2> QED
    BY <2>2
<1>3. Min(T) \in T /\ \A k \in T : Min(T) <= k
  <2>1. \E x \in T : \A y \in T : x <= y
    BY <1>2, LeastOf
  <2> QED
    BY <2>1, Zenon DEF Min
<1>4. PICK m \in S : Min(T) = N - m
  BY <1>3
<1>5. ASSUME NEW i \in S PROVE i <= m
  <2>1. N - i \in T
    BY <1>1
  <2>2. N - m <= N - i
    BY <1>3, <1>4, <2>1
  <2> QED
    BY <1>1, <2>2
<1> QED
  BY <1>5

\* The first tasks of the list that may ask are no more than there are slots: each of
\* them has fewer than that before it.
LEMMA FirstFit ==
  ASSUME NEW good \in SUBSET Item
  PROVE  Cardinality({i \in good : HasSlot(i, good)}) <= Concurrency
<1> DEFINE first == {i \in good : HasSlot(i, good)}
<1>1. first \in SUBSET Item
  OBVIOUS
<1>2. CASE first = {}
  BY <1>2, FS_EmptySet, GeoIdsAssumption
<1>3. CASE first # {}
  <2>1. PICK m \in first : \A i \in first : i <= m
    BY <1>1, <1>3, LastIsMember
  <2> DEFINE before == {k \in good : k < m}
  <2>2. before \in SUBSET Item /\ IsFiniteSet(before) /\ Cardinality(before) \in Nat
    BY ItemsAreFinite
  <2>3. Cardinality(before) < Concurrency
    BY <2>1 DEF HasSlot
  <2>4. first \subseteq before \cup {m}
    <3>1. ASSUME NEW i \in first, i # m PROVE i < m
      <4>1. i \in Nat /\ m \in Nat /\ i <= m
        BY <1>1, <2>1, ItemsAreNumbers
      <4> QED
        BY <4>1, <3>1
    <3> QED
      BY <3>1
  <2> HIDE DEF before, first
  <2>5. IsFiniteSet(before \cup {m}) /\ Cardinality(before \cup {m}) <= Cardinality(before) + 1
    <3>1. /\ IsFiniteSet(before \cup {m})
          /\ Cardinality(before \cup {m}) =
               IF m \in before THEN Cardinality(before) ELSE Cardinality(before) + 1
      BY <2>2, FS_AddElement, Zenon
    <3> QED
      BY <2>2, <3>1
  <2>6. Cardinality(first) <= Cardinality(before \cup {m})
    BY <2>4, <2>5, FS_Subset
  <2>7. Cardinality(first) \in Nat /\ Cardinality(before \cup {m}) \in Nat
    BY <1>1, <2>5, ItemsAreFinite, FS_CardinalityType
  <2>8. Cardinality(first) <= Concurrency
    BY <2>2, <2>3, <2>5, <2>6, <2>7, GeoIdsAssumption
  <2> QED
    BY <2>8 DEF first
<1> QED
  BY <1>2, <1>3

LEMMA InitGivesSlots == GeoInit => SlotsInv
<1> SUFFICES ASSUME GeoInit PROVE SlotsInv
  OBVIOUS
<1>1. Holding = {}
  BY DEF GeoInit, Holding
<1>2. Cardinality(Holding) = 0
  BY <1>1, FS_EmptySet
<1> QED
  BY <1>2, GeoIdsAssumption DEF GeoInit, SlotsInv

LEMMA StartKeepsSlots == GeoInv /\ SlotsInv /\ Start => SlotsInv'
<1> SUFFICES ASSUME GeoInv, SlotsInv, Start PROVE SlotsInv'
  OBVIOUS
<1> DEFINE good  == {i \in Item : list[i] \in WellFormed}
           first == {i \in good : HasSlot(i, good)}
<1>1. /\ task' = [i \in Item |-> IF i \notin good THEN "failed"
                                 ELSE IF i \in first THEN "asking" ELSE "waiting"]
      /\ tries' = [i \in Item |-> IF i \in first THEN 1 ELSE 0]
      /\ asked' = tries'
  BY Zenon DEF Start
<1>2. Cardinality(first) <= Concurrency
  BY FirstFit
<1> HIDE DEF first
<1>3. Holding' = {i \in Item : i \in good /\ i \in first}
  BY <1>1 DEF Holding
<1>4. first \subseteq good /\ good \subseteq Item
  BY DEF first
<1> HIDE DEF good
<1>5. Holding' = first
  BY <1>3, <1>4
<1> QED
  BY <1>1, <1>2, <1>5, GeoIdsAssumption DEF SlotsInv

LEMMA RetryKeepsSlots ==
  ASSUME GeoInv, SlotsInv, NEW i \in Item, Retry(i)
  PROVE  SlotsInv'
<1>1. /\ task[i] = "sleeping"
      /\ task' = [task EXCEPT ![i] = "asking"]
      /\ tries' = [tries EXCEPT ![i] = @ + 1]
      /\ asked' = [asked EXCEPT ![i] = @ + OnWire] /\ OnWire \in 0..1
  BY DEF Retry, Send, OnWire
<1>2. GeoTypeOK
  BY DEF GeoInv
<1>3. Holding' = Holding
  BY <1>1, <1>2 DEF Holding, GeoTypeOK
<1> QED
  BY <1>1, <1>2, <1>3, GeoIdsAssumption DEF SlotsInv, GeoTypeOK

\* Whoever leaves gives back its slot, and at most one takes it.
LEMMA LeaveKeepsSlots ==
  ASSUME GeoInv, SlotsInv, NEW i \in Item, task[i] = "asking",
         NEW to \in {"done", "failed"}, Leave(i, to)
  PROVE  SlotsInv'
<1>1. GeoTypeOK
  BY DEF GeoInv
<1>2. Holding \in SUBSET Item /\ i \in Holding
  BY DEF Holding
<1>3. /\ IsFiniteSet(Holding) /\ Cardinality(Holding) \in Nat
      /\ IsFiniteSet(Holding \ {i}) /\ Cardinality(Holding \ {i}) = Cardinality(Holding) - 1
  BY <1>2, ItemsAreFinite, FS_RemoveElement
<1>4. CASE Waiting = {}
  <2>1. task' = [task EXCEPT ![i] = to] /\ UNCHANGED <<tries, asked>>
    BY <1>4 DEF Leave
  <2>2. Holding' = Holding \ {i}
    BY <1>1, <2>1 DEF Holding, GeoTypeOK
  <2> QED
    BY <1>1, <1>3, <2>1, <2>2, GeoIdsAssumption DEF SlotsInv, GeoTypeOK
<1>5. CASE Waiting # {}
  <2>1. PICK next \in Waiting :
          /\ task' = [task EXCEPT ![i] = to, ![next] = "asking"]
          /\ tries' = [tries EXCEPT ![next] = @ + 1]
          /\ asked' = [asked EXCEPT ![next] = @ + OnWire]
    <3>1. Waiting \subseteq Nat
      BY ItemsAreNumbers DEF Waiting
    <3>2. Min(Waiting) \in Waiting
      BY <1>5, <3>1, MinIsMember
    <3> QED
      BY <1>5, <3>2, Zenon DEF Leave, Send
  <2>2. next \in Item /\ task[next] = "waiting" /\ next # i
    BY <2>1 DEF Waiting
  <2>3. OnWire \in 0..1
    BY DEF OnWire
  <2>4. Holding' = (Holding \ {i}) \cup {next} /\ next \notin Holding
    BY <1>1, <2>1, <2>2 DEF Holding, GeoTypeOK
  <2>5. Cardinality(Holding') = Cardinality(Holding)
    <3> DEFINE rest == Holding \ {i}
    <3>1. Cardinality(rest \cup {next}) = Cardinality(rest) + 1
      <4>1. IsFiniteSet(rest) /\ next \notin rest
        BY <1>3, <2>4
      <4> HIDE DEF rest
      <4> QED
        BY <4>1, FS_AddElement
    <3> QED
      BY <1>3, <2>4, <3>1
  <2>6. tries[next] = 0
    BY <2>2 DEF GeoInv, FaultsAreCounted
  <2> QED
    BY <1>1, <2>1, <2>2, <2>3, <2>5, <2>6, GeoIdsAssumption DEF SlotsInv, GeoTypeOK
<1> QED
  BY <1>4, <1>5

LEMMA AnsweredKeepsSlots ==
  ASSUME GeoInv, SlotsInv, NEW i \in Item, NEW a \in Reply, Answered(i, a)
  PROVE  SlotsInv'
<1>1. task[i] = "asking"
  BY DEF Answered
<1>2. CASE \E to \in {"done", "failed"} : Leave(i, to)
  BY <1>1, <1>2, LeaveKeepsSlots
<1>3. CASE ~IsLastTry(i) /\ task' = [task EXCEPT ![i] = "sleeping"] /\ UNCHANGED <<tries, asked>>
  <2>1. GeoTypeOK
    BY DEF GeoInv
  <2>2. Holding' = Holding
    BY <1>1, <1>3, <2>1 DEF Holding, GeoTypeOK
  <2>3. tries[i] < MaxAttempts
    BY <1>3, <2>1, GeoIdsAssumption DEF IsLastTry, SlotsInv, GeoTypeOK
  <2> QED
    BY <1>3, <2>1, <2>2, <2>3 DEF SlotsInv, GeoTypeOK
<1> QED
  BY <1>2, <1>3, Zenon DEF Answered, Fail

\* Of resolve_geo_ids, for a list of any length: at most so many of its tasks hold a slot as
\* the setting allows; no task asks more often than it tries, or tries more often than it
\* may; a geo id is called invalid only if the service refused it; and the service is called
\* unavailable only after an answer that is never tried again, or when it failed in every
\* attempt at one geo id.
THEOREM TasksInvHolds == GeoSpec => []TasksInv
<1>1. GeoInit => SlotsInv
  BY InitGivesSlots
<1>2. GeoInv /\ SlotsInv /\ [GeoNext]_geoVars => SlotsInv'
  <2>1. SlotsInv /\ (Gathered \/ UNCHANGED geoVars) => SlotsInv'
    BY DEF SlotsInv, Gathered, geoVars, Holding
  <2> QED
    BY <2>1, StartKeepsSlots, RetryKeepsSlots, AnsweredKeepsSlots DEF GeoNext, CallStep, TaskStep
<1>3. GeoInv /\ SlotsInv => TasksTypeOK
  BY GeoIdsAssumption DEF GeoInv, GeoTypeOK, SlotsInv, Holding, TasksTypeOK
<1>4. TasksTypeOK /\ BlameIsRight /\ OneFaultIsForgiven => TasksInv
  BY DEF TasksInv
<1> QED
  BY <1>1, <1>2, <1>3, <1>4, GeoInvHolds, BlameIsRightHolds, OneFaultIsForgivenHolds, PTL DEF GeoSpec

-----------------------------------------------------------------------------
(* The downloads of a result *)

\* What a file says it is, if it says that it is whole.
Backed(f) == f # None /\ f.whole => f.of \in wholes

\* Where the CSV, kept or being built, may come from: an attempt read before the job was
\* completed, and not after the last one, or else the result that the job has.
Sourced(f) ==
    f # None => /\ f.of <= last
                /\ f.of \in early \/ (job = "completed" /\ f = result)

\* A result that is whole is known to have been; what a request has read for its
\* CSV was whole, and stays so while children go on to write the result; a job
\* that is over has no child; one that is completed keeps the result of the last child;
\* and a CSV comes from where it may.
ExportInv ==
    /\ ExportTypeOK /\ child \in Child \cup {None}
    /\ Backed(result) /\ Backed(tmp)
    /\ build # None => build.whole /\ build.of \in wholes
    /\ DownloadsAreWhole
    /\ job # "running" => child = None
    /\ job = "completed" => result # None /\ result.whole /\ result.of = last
    /\ result # None => result.of <= last
    /\ Sourced(csv) /\ Sourced(build)

LEMMA InitExportInv == ExportInit => ExportInv
  BY ExportAssumption
     DEF ExportInit, ExportInv, ExportTypeOK, Stored, Backed, Sourced, DownloadsAreWhole, Error

\* The steps of the workers write no file of the API and take back no whole result.
LEMMA ChildStep ==
  ASSUME ExportInv,
         \/ \E c \in Child : StartChild(c)
         \/ BeginResult \/ FinishResult \/ LoseChild
         \/ \E s \in {"completed", "failed"} : EndJob(s)
  PROVE  ExportInv'
<1> USE ExportAssumption
<1>1. UNCHANGED apiVars /\ wholes \subseteq wholes'
  BY DEF StartChild, BeginResult, FinishResult, LoseChild, EndJob
<1>2. child # None => child \in Child
  BY DEF ExportInv
<1>3. ExportTypeOK' /\ child' \in Child \cup {None}
  <2>1. CASE \E c \in Child : StartChild(c)
    BY <2>1 DEF ExportInv, ExportTypeOK, Stored, StartChild, apiVars
  <2>2. CASE BeginResult
    BY <1>2, <2>2 DEF ExportInv, ExportTypeOK, Stored, BeginResult, Content, apiVars
  <2>3. CASE FinishResult
    BY <1>2, <2>3 DEF ExportInv, ExportTypeOK, Stored, FinishResult, Content, apiVars
  <2>4. CASE LoseChild
    BY <2>4 DEF ExportInv, ExportTypeOK, Stored, LoseChild, apiVars
  <2>5. CASE \E s \in {"completed", "failed"} : EndJob(s)
    BY <2>5 DEF ExportInv, ExportTypeOK, Stored, EndJob, apiVars
  <2> QED
    BY <2>1, <2>2, <2>3, <2>4, <2>5
<1>4. Backed(result)'
  BY DEF ExportInv, Backed, StartChild, BeginResult, FinishResult, LoseChild,
         EndJob, Content
<1>5. /\ Backed(tmp)' /\ DownloadsAreWhole'
      /\ (build # None => build.whole /\ build.of \in wholes)'
  BY <1>1 DEF ExportInv, Backed, DownloadsAreWhole, apiVars
<1>6. job = "running" /\ (child # None => child = last /\ child \in Nat) /\ last \in Nat
  <2>1. job = "running"
    <3>1. job # "running" => child = None
      BY DEF ExportInv
    <3>2. child # None \/ job = "running"
      BY Zenon DEF StartChild, BeginResult, FinishResult, LoseChild, EndJob
    <3> QED
      BY <3>1, <3>2
  <2>2. child \in {last, None} /\ last \in Child \cup {0} /\ Child \subseteq Nat
    BY DEF ExportInv, ExportTypeOK
  <2> QED
    BY <1>2, <2>1, <2>2
<1>7. last' \in Nat /\ last <= last'
  <2>1. CASE \E c \in Child : StartChild(c)
    BY <1>6, <2>1 DEF StartChild
  <2>2. CASE ~ \E c \in Child : StartChild(c)
    <3>1. last' = last
      BY <2>2, Zenon DEF BeginResult, FinishResult, LoseChild, EndJob
    <3> QED
      BY <1>6, <3>1
  <2> QED
    BY <2>1, <2>2
<1>8. ASSUME NEW f, Sourced(f), f = None \/ f.of \in Nat
      PROVE  f # None => f.of <= last' /\ f.of \in early'
  BY <1>1, <1>6, <1>7, <1>8 DEF Sourced, apiVars
<1>9. Sourced(csv)' /\ Sourced(build)'
  <2>1. \A f \in {csv, build} : Sourced(f) /\ (f = None \/ f.of \in Nat)
    BY DEF ExportInv, ExportTypeOK, Stored
  <2>2. csv' = csv /\ build' = build
    BY <1>1 DEF apiVars
  <2>3. \A f \in {csv, build} : f # None => f.of <= last' /\ f.of \in early'
    BY <1>8, <2>1
  <2> QED
    BY <2>2, <2>3 DEF Sourced
<1>10. (result # None => result.of <= last)'
  <2>1. CASE BeginResult \/ FinishResult
    BY <1>6, <2>1 DEF BeginResult, FinishResult, Content
  <2>2. CASE ~ (BeginResult \/ FinishResult)
    <3>1. result' = result
      BY <2>2 DEF StartChild, LoseChild, EndJob
    <3>2. result # None => result.of \in Nat /\ result.of <= last
      BY DEF ExportInv, ExportTypeOK, Stored
    <3> QED
      BY <1>6, <1>7, <3>1, <3>2
  <2> QED
    BY <2>1, <2>2
<1>11. /\ (job # "running" => child = None)'
       /\ (job = "completed" => result # None /\ result.whole /\ result.of = last)'
  <2>1. CASE \E s \in {"completed", "failed"} : EndJob(s)
    <3>1. PICK s \in {"completed", "failed"} : EndJob(s)
      BY <2>1
    <3>2. child # None /\ child' = None /\ job' = s /\ result' = result /\ last' = last
          /\ (s = "completed" => result = Content(child, TRUE))
      BY <3>1 DEF EndJob
    <3>3. Content(child, TRUE).of = child /\ Content(child, TRUE).whole
          /\ Content(child, TRUE) # None
      <4>1. Content(child, TRUE) \in [of : Child, whole : BOOLEAN]
        BY <1>2, <3>2 DEF Content
      <4> QED
        BY <4>1 DEF Content
    <3> QED
      BY <1>6, <3>2, <3>3
  <2>2. CASE ~ \E s \in {"completed", "failed"} : EndJob(s)
    <3>1. job' = "running"
      BY <1>6, <2>2 DEF StartChild, BeginResult, FinishResult, LoseChild
    <3> QED
      BY <3>1
  <2> QED
    BY <2>1, <2>2
<1> QED
  BY <1>3, <1>4, <1>5, <1>9, <1>10, <1>11 DEF ExportInv

\* What the API reads is whole, and it answers with nothing else.
LEMMA ApiStep ==
  ASSUME ExportInv,
         GenerateGeojson \/ DownloadCsv \/ BeginCsv \/ ReplaceCsv \/ StopApi
  PROVE  ExportInv'
<1>1. UNCHANGED jobVars
  BY DEF GenerateGeojson, DownloadCsv, BeginCsv, ReplaceCsv, StopApi
<1>2. CASE GenerateGeojson
  BY <1>1, <1>2 DEF GenerateGeojson, Answer, Readable, Data, Error, ExportInv, ExportTypeOK,
                    Stored, Backed, Sourced, DownloadsAreWhole, jobVars
<1>3. CASE DownloadCsv
  <2>1. CASE csv # None
    BY <1>1, <1>3, <2>1 DEF DownloadCsv, Answer, Data, Error, ExportInv, ExportTypeOK, Stored,
                            Backed, Sourced, DownloadsAreWhole, jobVars
  <2>2. CASE csv = None
    BY <1>1, <1>3, <2>2 DEF DownloadCsv, Answer, Readable, Data, Error, ExportInv, ExportTypeOK,
                            Stored, Backed, Sourced, DownloadsAreWhole, jobVars
  <2> QED
    BY <2>1, <2>2
<1>4. CASE BeginCsv
  <2>1. Partial(build) \in Stored /\ ~Partial(build).whole
    BY <1>4 DEF BeginCsv, Partial, ExportInv, ExportTypeOK, Stored
  <2> QED
    BY <1>1, <1>4, <2>1 DEF BeginCsv, ExportInv, ExportTypeOK, Stored, Backed,
                            Sourced, DownloadsAreWhole, jobVars
<1>5. CASE ReplaceCsv
  BY <1>1, <1>5 DEF ReplaceCsv, Data, ExportInv, ExportTypeOK, Stored, Backed,
                    Sourced, DownloadsAreWhole, jobVars
<1>6. CASE StopApi
  BY <1>1, <1>6, ExportAssumption DEF StopApi, ExportInv, ExportTypeOK, Stored, Backed,
                                     Sourced, DownloadsAreWhole, jobVars
<1> QED
  BY <1>2, <1>3, <1>4, <1>5, <1>6

LEMMA NextExportInv == ExportInv /\ [ExportNext]_exportVars => ExportInv'
<1>1. ASSUME ExportInv, UNCHANGED exportVars PROVE ExportInv'
  BY <1>1 DEF ExportInv, ExportTypeOK, Stored, Backed, Sourced, DownloadsAreWhole, exportVars,
              apiVars, jobVars
<1> QED
  BY <1>1, ChildStep, ApiStep DEF ExportNext

LEMMA ExportInvHolds == ExportSpec => []ExportInv
  BY InitExportInv, NextExportInv, PTL DEF ExportSpec

\* Whatever children are lost, restarted and still writing, and whenever the API
\* ends, what is downloaded is the whole result of one attempt.
THEOREM DownloadsAreWholeHolds == ExportSpec => []DownloadsAreWhole
<1>1. ExportInv => DownloadsAreWhole
  BY DEF ExportInv
<1> QED
  BY <1>1, ExportInvHolds, PTL

\* Whatever attempts are lost, delivered again and read in the meantime, the CSV of a
\* completed job is of its result, or of an earlier attempt that was read before.
THEOREM OldCsvIsEarlyHolds == ExportSpec => []OldCsvIsEarly
<1>1. ASSUME ExportInv, job = "completed", NEW f \in {csv, build} \ {None}, f # result
      PROVE  f.of < result.of /\ f.of \in early
  <2>1. f.of \in early /\ f.of <= last /\ result.of = last
    BY <1>1 DEF ExportInv, Sourced
  <2>2. {f, result} \subseteq [of : Child, whole : BOOLEAN] /\ f.whole /\ result.whole
    BY <1>1 DEF ExportInv, ExportTypeOK, Stored, DownloadsAreWhole
  <2>3. f.whole = TRUE /\ result.whole = TRUE
    BY <2>2
  <2>4. f = [of |-> f.of, whole |-> TRUE] /\ result = [of |-> result.of, whole |-> TRUE]
    BY <2>2, <2>3
  <2>5. f.of # result.of
    BY <1>1, <2>4
  <2>6. f.of \in Nat /\ result.of \in Nat
    BY <2>2, ExportAssumption
  <2> QED
    BY <2>1, <2>5, <2>6
<1>2. ExportInv => OldCsvIsEarly
  BY <1>1 DEF OldCsvIsEarly
<1> QED
  BY <1>2, ExportInvHolds, PTL

\* The GeoJSON of a completed job can always be downloaded: nobody writes its
\* result any more.
THEOREM CompletedIsServedHolds == ExportSpec => CompletedIsServed
<1>1. ExportInv /\ [ExportNext]_exportVars =>
        [GenerateGeojson /\ job = "completed" => answer' = Data("geojson", result)]_exportVars
  BY DEF ExportInv, GenerateGeojson, Answer, Readable
<1> QED
  BY <1>1, ExportInvHolds, PTL DEF ExportSpec, CompletedIsServed

-----------------------------------------------------------------------------
(* The runners of the migrations *)

LEMMA InitMigInv == MigInit => MigInv
<1> SUFFICES ASSUME MigInit PROVE MigInv
  OBVIOUS
<1>1. MigTypeOK
  BY DEF MigInit, MigTypeOK, Working, Ended
<1>2. \A f \in File : times[f] = 0 /\ history[f] = "none"
  BY DEF MigInit
<1>3. \A r \in Runner : pc[r] = "idle"
  BY DEF MigInit
<1>4. Pending /\ Solitude /\ DoneIsComplete
  BY <1>3 DEF Pending, Solitude, DoneIsComplete, Working
<1> QED
  BY <1>1, <1>2, <1>4 DEF MigInv, OnceAlone

\* What all steps have in common: the type of the state they lead to.
LEMMA TypeStep ==
  ASSUME MigTypeOK, NEW r \in Runner,
         Connect(r) \/ Step(r) \/ Interrupted(r)
  PROVE  MigTypeOK'
<1>1. CASE Connect(r)
  BY <1>1 DEF MigTypeOK, Connect, Go, Alone, Working, Ended
<1>2. CASE ReadHistory(r)
  BY <1>2, MigrationsAssumption DEF MigTypeOK, ReadHistory, Go, Working, Ended
<1>3. CASE NothingLeft(r)
  BY <1>3 DEF MigTypeOK, NothingLeft, Go, Working, Ended
<1>4. ASSUME NEW f \in todo[r], ExecuteMigration(r, f) \/ MigrationFails(r, f)
      PROVE  MigTypeOK'
  <2>1. f \in File
    BY DEF MigTypeOK
  <2> QED
    BY <1>4, <2>1 DEF MigTypeOK, ExecuteMigration, MigrationFails, Go, Working, Ended
<1>5. CASE Commit(r)
  <2>0. \A f \in File : times[f] \in Nat /\ times[f] + 1 \in Nat
    BY DEF MigTypeOK
  <2>1. times' \in [File -> Nat] /\ history' \in [File -> {"none", "success", "failure"}]
    <3>1. times' = [times EXCEPT ![cur[r]] = times[cur[r]] + 1]
      BY <1>5 DEF Commit, Committed
    <3>2. \A f \in File : times'[f] = IF f = cur[r] THEN times[f] + 1 ELSE times[f]
      BY <3>1 DEF MigTypeOK
    <3>3. times' \in [File -> Nat]
      BY <3>1, <3>2, <2>0 DEF MigTypeOK
    <3> QED
      BY <1>5, <3>3 DEF MigTypeOK, Commit, Committed
  <2>2. todo' \in [Runner -> SUBSET File]
    BY <1>5 DEF MigTypeOK, Commit
  <2>3. pc' \in [Runner -> Working \cup Ended]
    BY <1>5 DEF MigTypeOK, Commit, Go, Working, Ended
  <2> QED
    BY <1>5, <2>1, <2>2, <2>3 DEF MigTypeOK, Commit
<1>6. CASE CommitFails(r)
  BY <1>6 DEF MigTypeOK, CommitFails, Go, Working, Ended
<1>7. CASE RecordFailure(r)
  BY <1>7 DEF MigTypeOK, RecordFailure, Go, Working, Ended
<1>8. CASE Interrupted(r)
  BY <1>8 DEF MigTypeOK, Interrupted, Committed, Go, Working, Ended
<1> QED
  BY <1>1, <1>2, <1>3, <1>4, <1>5, <1>6, <1>7, <1>8 DEF Step

\* The step of a runner that brings its transaction to an end, as the COMMIT is
\* answered or as the answer is lost.
LEMMA CommitStep ==
  ASSUME MigInv, MigTypeOK', NEW r \in Runner, pc[r] = "executed", Committed(r),
         UNCHANGED <<cur, starts, overlap>>,
         \/ todo' = [todo EXCEPT ![r] = @ \ {cur[r]}] /\ Go(r, "running")
         \/ UNCHANGED todo /\ Go(r, "failed")
  PROVE  MigInv'
<1> DEFINE f == cur[r]
<1>1. f \in todo[r] /\ f \in File
  BY DEF MigInv, Pending, IsFirstOf, MigTypeOK
<1>2. /\ times' = [times EXCEPT ![f] = @ + 1]
      /\ history' = [history EXCEPT ![f] = "success"]
  BY DEF Committed
<1>3. \A g \in File : times'[g] >= times[g] /\ (times[g] > 0 => times'[g] > 0)
  BY <1>1, <1>2 DEF MigInv, MigTypeOK
<1>4. times'[f] > 0
  BY <1>1, <1>2 DEF MigInv, MigTypeOK
<1>5. (\A g \in File : history[g] = "success" => times[g] > 0)'
  BY <1>1, <1>2, <1>3, <1>4 DEF MigInv, MigTypeOK
<1>6. \A q \in Runner : pc'[q] = IF q = r THEN pc'[r] ELSE pc[q]
  BY DEF Go, MigInv, MigTypeOK
<1>7. pc'[r] \in {"running", "failed"}
  BY DEF Go, MigInv, MigTypeOK
<1>8. \A q \in Runner : Has[q] \subseteq File
  BY MigrationsAssumption
<1>9. Pending'
  <2> SUFFICES ASSUME NEW q \in Runner,
                      pc'[q] \in {"running", "executed", "rolledback"}
               PROVE  /\ \A g \in Has[q] \ todo'[q] : times'[g] > 0
                      /\ pc'[q] \in {"executed", "rolledback"} => IsFirstOf(cur'[q], todo'[q])
    BY DEF Pending, IsFirstOf
  <2>1. CASE q = r
    <3>1. pc'[r] = "running" /\ todo' = [todo EXCEPT ![r] = @ \ {f}]
      BY <2>1, <1>7 DEF Go, MigInv, MigTypeOK
    <3>2. todo'[r] = todo[r] \ {f}
      BY <3>1 DEF MigInv, MigTypeOK
    <3>3. \A g \in Has[r] \ todo[r] : times[g] > 0
      BY DEF MigInv, Pending
    <3> QED
      BY <2>1, <3>1, <3>2, <3>3, <1>3, <1>4, <1>8
  <2>2. CASE q # r
    <3>1. pc'[q] = pc[q] /\ todo'[q] = todo[q] /\ cur'[q] = cur[q]
      BY <2>2, <1>6 DEF MigInv, MigTypeOK
    <3> QED
      BY <3>1, <1>3, <1>8 DEF MigInv, Pending
  <2> QED
    BY <2>1, <2>2
<1>10. Solitude'
  <2> SUFFICES ASSUME ~overlap
               PROVE  /\ \A p, q \in Runner : pc'[p] \in Working /\ pc'[q] \in Working => p = q
                      /\ \A q \in Runner : pc'[q] \in {"running", "executed", "rolledback"} =>
                            \A g \in todo'[q] : times'[g] = 0
    BY DEF Solitude
  <2>1. \A q \in Runner : pc[q] \in Working => q = r
    BY DEF MigInv, Solitude, Working
  <2>2. \A q \in Runner : pc'[q] \in Working => q = r
    BY <2>1, <1>6
  <2>3. ASSUME pc'[r] = "running" PROVE \A g \in todo'[r] : times'[g] = 0
    <3>1. todo'[r] = todo[r] \ {f}
      BY <2>3 DEF Go, MigInv, MigTypeOK
    <3>2. \A g \in todo[r] : times[g] = 0 /\ g \in File
      BY DEF MigInv, Solitude, MigTypeOK
    <3> QED
      BY <3>1, <3>2, <1>2 DEF MigInv, MigTypeOK
  <2> QED
    BY <2>2, <2>3, <1>7 DEF Working
<1>11. DoneIsComplete'
  <2> SUFFICES ASSUME NEW q \in Runner, pc'[q] = "done", NEW g \in Has[q] PROVE times'[g] > 0
    BY DEF DoneIsComplete
  <2> QED
    BY <1>3, <1>6, <1>7, <1>8 DEF MigInv, DoneIsComplete
<1>12. OnceAlone'
  <2> SUFFICES ASSUME ~overlap, NEW g \in File
               PROVE  times'[g] <= 1 /\ (times'[g] = 1 => history'[g] = "success")
    BY DEF OnceAlone
  <2>1. times[f] = 0
    BY <1>1 DEF MigInv, Solitude
  <2>2. CASE g = f
    BY <2>1, <2>2, <1>1, <1>2 DEF MigInv, MigTypeOK
  <2>3. CASE g # f
    BY <2>3, <1>2 DEF MigInv, MigTypeOK, OnceAlone
  <2> QED
    BY <2>2, <2>3
<1> QED
  BY <1>5, <1>9, <1>10, <1>11, <1>12 DEF MigInv

\* A step of the runner r that commits nothing: the others keep what they have, and
\* r's own part of the invariant is left to show.
LEMMA QuietStep ==
  ASSUME MigInv, MigTypeOK', NEW r \in Runner, NEW s, Go(r, s), UNCHANGED times,
         \A f \in File : history'[f] = "success" => history[f] = "success",
         ~overlap' => ~overlap /\ \A f \in File : times[f] = 1 => history'[f] = "success",
         \A q \in Runner \ {r} : todo'[q] = todo[q] /\ cur'[q] = cur[q],
         s \in {"running", "executed", "rolledback"} =>
             \A f \in Has[r] \ todo'[r] : times[f] > 0,
         s \in {"executed", "rolledback"} => IsFirstOf(cur'[r], todo'[r]),
         ~overlap' /\ s \in Working => \A q \in Runner \ {r} : pc[q] \notin Working,
         ~overlap' /\ s \in {"running", "executed", "rolledback"} =>
             \A f \in todo'[r] : times[f] = 0,
         s = "done" => \A f \in Has[r] : times[f] > 0
  PROVE  MigInv'
<1>1. pc'[r] = s /\ \A q \in Runner \ {r} : pc'[q] = pc[q]
  BY DEF Go, MigInv, MigTypeOK
<1>2. Pending'
  <2> SUFFICES ASSUME NEW q \in Runner
               PROVE  /\ pc'[q] \in {"running", "executed", "rolledback"} =>
                            \A g \in Has[q] \ todo'[q] : times'[g] > 0
                      /\ pc'[q] \in {"executed", "rolledback"} => IsFirstOf(cur'[q], todo'[q])
    BY DEF Pending, IsFirstOf
  <2>1. CASE q = r
    BY <2>1, <1>1
  <2>2. CASE q # r
    BY <2>2, <1>1 DEF MigInv, Pending
  <2> QED
    BY <2>1, <2>2
<1>3. Solitude'
  <2> SUFFICES ASSUME ~overlap'
               PROVE  /\ \A p, q \in Runner : pc'[p] \in Working /\ pc'[q] \in Working => p = q
                      /\ \A q \in Runner : pc'[q] \in {"running", "executed", "rolledback"} =>
                            \A g \in todo'[q] : times'[g] = 0
    BY DEF Solitude
  <2>1. \A p, q \in Runner : pc[p] \in Working /\ pc[q] \in Working => p = q
    BY DEF MigInv, Solitude
  <2>2. \A p, q \in Runner : pc'[p] \in Working /\ pc'[q] \in Working => p = q
    BY <2>1, <1>1
  <2>3. ASSUME NEW q \in Runner, pc'[q] \in {"running", "executed", "rolledback"}
        PROVE  \A g \in todo'[q] : times'[g] = 0
    <3>1. CASE q = r
      BY <2>3, <3>1, <1>1
    <3>2. CASE q # r
      BY <2>3, <3>2, <1>1 DEF MigInv, Solitude
    <3> QED
      BY <3>1, <3>2
  <2> QED
    BY <2>2, <2>3
<1>4. DoneIsComplete'
  BY <1>1 DEF MigInv, DoneIsComplete
<1>5. OnceAlone'
  BY DEF MigInv, OnceAlone
<1>6. (\A f \in File : history[f] = "success" => times[f] > 0)'
  BY DEF MigInv
<1> QED
  BY <1>2, <1>3, <1>4, <1>5, <1>6 DEF MigInv

\* What the invariant says of a runner whose transaction is over and failed, or is
\* still to be committed.
LEMMA AtFile ==
  ASSUME MigInv, NEW r \in Runner, pc[r] \in {"executed", "rolledback"}
  PROVE  /\ cur[r] \in File /\ IsFirstOf(cur[r], todo[r])
         /\ \A f \in Has[r] \ todo[r] : times[f] > 0
         /\ ~overlap => /\ \A f \in todo[r] : times[f] = 0
                        /\ \A q \in Runner \ {r} : pc[q] \notin Working
<1>1. IsFirstOf(cur[r], todo[r]) /\ todo[r] \subseteq File
  BY DEF MigInv, Pending, MigTypeOK
<1> QED
  BY <1>1 DEF MigInv, Pending, Solitude, Working, IsFirstOf

LEMMA StepMigInv ==
  ASSUME MigInv, NEW r \in Runner, Connect(r) \/ Step(r) \/ Interrupted(r)
  PROVE  MigInv'
<1>t. MigTypeOK'
  BY TypeStep DEF MigInv
<1>o. ~overlap => \A f \in File : times[f] = 1 => history[f] = "success"
  BY DEF MigInv, OnceAlone
<1>h. Has[r] \subseteq File
  BY MigrationsAssumption
<1>1. CASE Connect(r)
  <2>1. ~overlap' => ~overlap /\ \A q \in Runner \ {r} : pc[q] \notin Working
    BY <1>1 DEF Connect, Alone
  <2> QED
    BY <1>1, <1>t, <1>o, <2>1, QuietStep DEF Connect
<1>2. CASE ReadHistory(r)
  <2>1. todo'[r] = {f \in Has[r] : history[f] # "success"}
    BY <1>2 DEF ReadHistory, MigInv, MigTypeOK
  <2>2. \A q \in Runner \ {r} : todo'[q] = todo[q]
    BY <1>2 DEF ReadHistory, MigInv, MigTypeOK
  <2>3. \A f \in Has[r] \ todo'[r] : times[f] > 0
    BY <2>1, <1>h DEF MigInv
  <2>4. ~overlap => \A f \in todo'[r] : times[f] = 0
    BY <2>1, <1>h DEF MigInv, OnceAlone, MigTypeOK
  <2>5. ~overlap => \A q \in Runner \ {r} : pc[q] \notin Working
    BY <1>2 DEF ReadHistory, MigInv, Solitude, Working
  <2> QED
    BY <1>2, <1>t, <1>o, <2>2, <2>3, <2>4, <2>5, QuietStep DEF ReadHistory
<1>3. CASE NothingLeft(r)
  <2>1. \A f \in Has[r] : times[f] > 0
    BY <1>3 DEF NothingLeft, MigInv, Pending
  <2> QED
    BY <1>3, <1>t, <1>o, <2>1, QuietStep DEF NothingLeft, Working
<1>4. ASSUME NEW f \in todo[r], ExecuteMigration(r, f) \/ MigrationFails(r, f)
      PROVE  MigInv'
  <2>1. /\ pc[r] = "running" /\ IsFirstOf(f, todo[r])
        /\ cur' = [cur EXCEPT ![r] = f]
        /\ UNCHANGED <<times, history, todo, starts, overlap>>
    BY <1>4 DEF ExecuteMigration, MigrationFails
  <2>2. cur'[r] = f /\ \A q \in Runner \ {r} : cur'[q] = cur[q]
    BY <2>1 DEF MigInv, MigTypeOK
  <2>3. IsFirstOf(cur'[r], todo'[r])
    BY <2>1, <2>2
  <2>4. \A g \in Has[r] \ todo[r] : times[g] > 0
    BY <2>1 DEF MigInv, Pending
  <2>5. ~overlap => /\ \A g \in todo[r] : times[g] = 0
                   /\ \A q \in Runner \ {r} : pc[q] \notin Working
    BY <2>1 DEF MigInv, Solitude, Working
  <2>6. PICK s \in {"executed", "rolledback"} : Go(r, s)
    BY <1>4 DEF ExecuteMigration, MigrationFails
  <2> QED
    BY <1>t, <1>o, <2>1, <2>2, <2>3, <2>4, <2>5, <2>6, QuietStep
<1>5. CASE Commit(r)
  BY <1>5, <1>t, CommitStep DEF Commit
<1>6. CASE CommitFails(r)
  <2>1. pc[r] = "executed"
    BY <1>6 DEF CommitFails
  <2> QED
    BY <1>6, <1>t, <1>o, <2>1, AtFile, QuietStep DEF CommitFails
<1>7. CASE RecordFailure(r)
  <2>1. cur[r] \in todo[r] /\ cur[r] \in File
    BY <1>7, AtFile DEF RecordFailure, IsFirstOf
  <2>2. history' = history \/ history' = [history EXCEPT ![cur[r]] = "failure"]
    BY <1>7 DEF RecordFailure
  <2>3. \A g \in File : history'[g] = "success" => history[g] = "success"
    BY <2>1, <2>2 DEF MigInv, MigTypeOK
  <2>4. ~overlap => times[cur[r]] = 0
    BY <1>7, <2>1, AtFile DEF RecordFailure
  <2>5. ~overlap => \A g \in File : times[g] = 1 => history'[g] = "success"
    BY <1>o, <2>1, <2>2, <2>4 DEF MigInv, MigTypeOK
  <2> QED
    BY <1>7, <1>t, <2>3, <2>5, QuietStep DEF RecordFailure, Working
<1>8. CASE Interrupted(r)
  <2>1. CASE pc[r] = "executed" /\ Committed(r)
    BY <1>8, <2>1, <1>t, CommitStep DEF Interrupted
  <2>2. CASE UNCHANGED <<times, history>>
    BY <1>8, <2>2, <1>t, <1>o, QuietStep DEF Interrupted, Working
  <2> QED
    BY <1>8, <2>1, <2>2 DEF Interrupted
<1> QED
  BY <1>1, <1>2, <1>3, <1>4, <1>5, <1>6, <1>7, <1>8 DEF Step

LEMMA NextMigInv == MigInv /\ [MigNext]_migVars => MigInv'
<1> SUFFICES ASSUME MigInv, [MigNext]_migVars PROVE MigInv'
  OBVIOUS
<1>1. CASE MigNext
  BY <1>1, StepMigInv DEF MigNext
<1>2. CASE UNCHANGED migVars
  BY <1>2 DEF migVars, MigInv, MigTypeOK, Pending, Solitude, DoneIsComplete, OnceAlone
<1> QED
  BY <1>1, <1>2

-----------------------------------------------------------------------------

\* The inductive invariant holds of every run of the deployments: what is recorded
\* as successful has taken effect, and what a runner has left behind it too.
THEOREM MigInvHolds == MigSpec => []MigInv
  BY InitMigInv, NextMigInv, PTL DEF MigSpec

\* A runner that ends well leaves all files of its version applied, also when other
\* runners work, fail and are started again beside it.
THEOREM DoneIsCompleteHolds == MigSpec => []DoneIsComplete
<1>1. MigInv => DoneIsComplete
  BY DEF MigInv
<1> QED
  BY <1>1, MigInvHolds, PTL

\* Runners that come one after the other carry out no file twice, however often
\* they fail or are stopped.
THEOREM OnceAloneHolds == MigSpec => []OnceAlone
<1>1. MigInv => OnceAlone
  BY DEF MigInv
<1> QED
  BY <1>1, MigInvHolds, PTL

\* A file takes effect only after all those before it in its version.
THEOREM EarlierFirstHolds == MigSpec => EarlierFirst
<1>1. ASSUME MigInv, NEW r \in Runner, Commit(r), NEW f \in Has[r], f < cur[r]
      PROVE  times[f] > 0
  <2>1. IsFirstOf(cur[r], todo[r]) /\ cur[r] \in File
    BY <1>1, AtFile DEF Commit
  <2>n. f \in Nat /\ cur[r] \in Nat
    BY <1>1, <2>1, MigrationsAssumption
  <2>2. f \notin todo[r]
    <3> SUFFICES ASSUME f \in todo[r] PROVE FALSE
      OBVIOUS
    <3>1. cur[r] <= f /\ f < cur[r]
      BY <1>1, <2>1 DEF IsFirstOf
    <3> QED
      BY <3>1, <2>n
  <2> QED
    BY <1>1, <2>2, AtFile DEF Commit
<1>2. MigInv => [\A r \in Runner : Commit(r) => \A f \in Has[r] : f < cur[r] => times[f] > 0]_migVars
  BY <1>1
<1> QED
  BY <1>2, MigInvHolds, PTL DEF EarlierFirst

-----------------------------------------------------------------------------
(* A worker's calls of the database *)

\* The bounds are numbers, and None is neither a number nor a pool.
SyncConstants ==
    /\ MaxCalls \in Nat /\ MaxFaults \in Nat
    /\ None \notin Nat /\ None \notin [loop : Nat, live : BOOLEAN]

\* What SyncInv needs to hold through a step: a pool comes with a loop; an effect
\* before the last answer of a call means that an answer was lost; and what a repeated
\* call finds is as new as its loop.
SyncInd ==
    /\ SyncInv
    /\ pool \in [loop : 1..loops, live : BOOLEAN] \cup {None}
    /\ loop = None => pool = None /\ stage = "new"
    /\ applied \in Nat
    /\ stage \in {"connect", "first"} => applied = 0
    /\ stage \in {"reset", "reconnect", "second"} => applied <= 1 /\ (applied = 1 => ~spared)
    /\ stage = "reconnect" => pool = None
    /\ stage = "second" /\ spared => pool.live

LEMMA SyncInitInd == ASSUME SyncConstants PROVE SyncInit => SyncInd
BY DEF SyncConstants, SyncInit, SyncInd, SyncInv, SyncTypeOK, PoolOfItsLoop, EffectIsBounded,
       StalePoolHeals, SyncStage, Calling

LEMMA PoolIsSome ==
  ASSUME SyncConstants
  PROVE  \A l \in Nat, b \in BOOLEAN : [loop |-> l, live |-> b] # None
<1> TAKE l \in Nat, b \in BOOLEAN
<1>1. [loop |-> l, live |-> b] \in [loop : Nat, live : BOOLEAN]
  OBVIOUS
<1> QED
  BY <1>1 DEF SyncConstants

LEMMA EnsurePoolInd ==
  ASSUME SyncConstants, SyncInd, EnsurePool
  PROVE  SyncInd'
<1> USE DEF SyncConstants, SyncInd, SyncInv, SyncTypeOK, PoolOfItsLoop, EffectIsBounded,
            StalePoolHeals, SyncStage, Calling
<1>1. /\ stage \in {"connect", "reconnect"} /\ loop \in 1..loops
      /\ UNCHANGED <<up, loops, loop, calls, applied, spared, dbFaults>>
  BY DEF EnsurePool, GoOn
<1>2. CASE pool # None
  BY <1>1, <1>2 DEF EnsurePool, GoOn
<1>3. CASE pool = None /\ up
  <2>1. /\ pool' = [loop |-> loop, live |-> TRUE]
        /\ stage' = IF stage = "connect" THEN "first" ELSE "second"
    BY <1>3 DEF EnsurePool, GoOn
  <2>2. loop \in Nat /\ TRUE \in BOOLEAN
    BY <1>1
  <2>n. pool' # None
    BY <2>1, <2>2, PoolIsSome, Zenon
  <2>3. pool' \in [loop : 1..loops, live : BOOLEAN] /\ pool'.loop = loop /\ pool'.live
    BY <1>1, <2>1
  <2> QED
    BY <1>1, <2>1, <2>n, <2>3
<1>4. CASE pool = None /\ ~up
  BY <1>1, <1>4 DEF EnsurePool, GoOn, AfterNoPool
<1> QED
  BY <1>2, <1>3, <1>4

LEMMA GoesDownInd ==
  ASSUME SyncConstants, SyncInd, GoesDown
  PROVE  SyncInd'
<1> USE DEF SyncConstants, SyncInd, SyncInv, SyncTypeOK, PoolOfItsLoop, EffectIsBounded,
            StalePoolHeals, SyncStage, Calling
<1>1. /\ up' = FALSE /\ dbFaults' \in 0..MaxFaults /\ spared' = FALSE
      /\ UNCHANGED <<loops, loop, stage, calls, applied>>
  BY DEF GoesDown
<1>2. CASE pool = None
  <2>1. pool' = None
    BY <1>2 DEF GoesDown
  <2> QED
    BY <1>1, <1>2, <2>1
<1>3. CASE pool # None
  <2>1. pool' = [pool EXCEPT !.live = FALSE]
    BY <1>3 DEF GoesDown
  <2>2. PICK l \in 1..loops, b \in BOOLEAN : pool = [loop |-> l, live |-> b]
    BY <1>3
  <2>3. pool' = [loop |-> l, live |-> FALSE]
    BY <2>1, <2>2
  <2>4. l \in Nat /\ FALSE \in BOOLEAN
    OBVIOUS
  <2>n. pool' # None
    BY <2>3, <2>4, PoolIsSome, Zenon
  <2>5. pool' \in [loop : 1..loops, live : BOOLEAN]
    BY <2>3
  <2> QED
    BY <1>1, <1>3, <2>2, <2>3, <2>n, <2>5
<1> QED
  BY <1>2, <1>3

LEMMA ExecuteInd ==
  ASSUME SyncConstants, SyncInd, Execute
  PROVE  SyncInd'
<1> USE DEF SyncConstants, SyncInd, SyncInv, SyncTypeOK, PoolOfItsLoop, EffectIsBounded,
            StalePoolHeals, SyncStage, Calling
<1>1. /\ stage \in {"first", "second"} /\ UNCHANGED <<up, loops, loop, pool, calls>>
      /\ applied' = applied + 1
  BY DEF Execute, local
<1>2. CASE stage' = "returned" /\ UNCHANGED <<dbFaults, spared>>
  <2>1. applied' <= 2 /\ (applied' = 2 => ~spared')
    BY <1>1, <1>2
  <2>2. SyncInv'
    BY <1>1, <1>2, <2>1
  <2> QED
    BY <1>1, <1>2, <2>2
<1>3. CASE /\ dbFaults < MaxFaults /\ dbFaults' = dbFaults + 1 /\ spared' = FALSE
           /\ stage' = AfterException
  <2>1. dbFaults' \in 0..MaxFaults
    BY <1>3
  <2>2. applied' \in Nat /\ applied' <= 2 /\ (stage = "first" => applied' = 1)
    BY <1>1
  <2>3. stage' = (IF stage = "first" THEN "reset" ELSE "raised") /\ spared' = FALSE
    BY <1>3 DEF AfterException
  <2>4. SyncInv'
    BY <1>1, <2>1, <2>2, <2>3
  <2>5. loop # None
    BY <1>1
  <2> QED
    BY <1>1, <2>2, <2>3, <2>4, <2>5
<1>4. \/ stage' = "returned" /\ UNCHANGED <<dbFaults, spared>>
      \/ /\ dbFaults < MaxFaults /\ dbFaults' = dbFaults + 1 /\ spared' = FALSE
         /\ stage' = AfterException
  BY DEF Execute
<1> QED
  BY <1>2, <1>3, <1>4

LEMMA SyncNextInd ==
  ASSUME SyncConstants, SyncInd, [SyncNext]_syncVars
  PROVE  SyncInd'
<1> USE DEF SyncConstants, SyncInd, SyncInv, SyncTypeOK, PoolOfItsLoop, EffectIsBounded,
            StalePoolHeals, SyncStage, Calling
<1>1. CASE Call
  BY <1>1 DEF Call, WorkerLoop, Idle
<1>2. CASE ExecuteFails
  BY <1>2 DEF ExecuteFails, AfterException, Usable, local
<1>3. CASE Reset
  BY <1>3 DEF Reset, DropPool
<1>4. CASE ComesUp
  BY <1>4 DEF ComesUp, local
<1>5. CASE UNCHANGED syncVars
  BY <1>5 DEF syncVars, local
<1> QED
  BY <1>1, <1>2, <1>3, <1>4, <1>5, EnsurePoolInd, ExecuteInd, GoesDownInd
     DEF SyncNext, Process, Attempt

\* Of run_sync, which gives the worker its one retry: a call that returns has taken effect;
\* no call takes effect more than twice, and twice only if an answer was lost; the pool that
\* a call uses belongs to the loop that the process keeps; and a call during which the
\* database was up, and no answer was lost, does not fail, whatever state earlier faults
\* have left the pool in.
THEOREM SyncInvHolds == ASSUME SyncConstants PROVE SyncSpec => []SyncInv
<1>1. SyncInit => SyncInd
  BY SyncInitInd
<1>2. SyncInd /\ [SyncNext]_syncVars => SyncInd'
  BY SyncNextInd
<1>3. SyncInd => SyncInv
  BY DEF SyncInd, SyncInv
<1> QED
  BY <1>1, <1>2, <1>3, PTL DEF SyncSpec

=============================================================================
