---------------------------- MODULE ApiKeysProofs ----------------------------
(***************************************************************************)
(* Theorems about ApiKeys, for every set of users, keys, requests and       *)
(* changes, and about RateLimiter, which counts the calls of one key, for   *)
(* every window, limit and clock.                                           *)
(***************************************************************************)
EXTENDS ApiKeys, RateLimiter, Integers, TLAPS

LEMMA Owners ==
    /\ Temp \in Owner
    /\ \A r \in Request : Asker[r] \in Owner
    /\ \A c \in Change : Changer[c] \in Owner /\ Changer[c] # Temp
    /\ NoKey \notin Key
  BY KeysAssumption DEF Owner

LEMMA KeysInitInv == KeysInit => KeysInv
  BY Owners DEF KeysInit, KeysInv, KeysTypeOK, KeysAreUnique, CachedIsOwn, HeldIsOwn,
     StaleNeedsRace, Hit, RequestStep, ChangeStep

\* A step that writes neither rows nor expiry dates leaves the keys as they are.
LEMMA SameKeys ==
    ASSUME UNCHANGED <<active, revoked, replaced, age>>
    PROVE  /\ Minted' = Minted
           /\ \A k : Dead(k)' <=> Dead(k)
           /\ \A k : Accepted(k)' <=> Accepted(k)
  BY DEF Minted, Dead, Accepted

\* What a lookup finds is an accepted key of its owner.
LEMMA LookupFacts ==
    ASSUME KeysTypeOK, NEW o \in Owner
    PROVE  /\ Lookup(o) \in Key \cup {NoKey}
           /\ Lookup(o) # NoKey =>
                 /\ active[o] = Lookup(o) /\ Lookup(o) \in Minted
                 /\ ~Dead(Lookup(o))
  BY Owners DEF KeysTypeOK, Lookup, Minted, Dead

\* An active key belongs to one owner: a new key is fresh.
LEMMA StoreFacts ==
    ASSUME KeysTypeOK, NEW o \in Owner, NEW k \in Key, Store(o, k)
    PROVE  /\ cache' \in [Owner -> Key \cup {NoKey}]
           /\ \A p \in Owner :
                 cache'[p] = cache[p] \/ (p = o /\ cache'[p] = k /\ age[k] = "young")
<1>1. CASE age[k] = "young"
  BY <1>1 DEF KeysTypeOK, Store
<1>2. CASE age[k] # "young"
  BY <1>2 DEF KeysTypeOK, Store
<1> QED
  BY <1>1, <1>2

-----------------------------------------------------------------------------
(* A dead key stays dead *)

LEMMA NextKeepsDead ==
    ASSUME KeysTypeOK, KeysNext, NEW k \in Key, Dead(k)
    PROVE  Dead(k)'
<1>1. ASSUME UNCHANGED <<active, revoked, replaced, age>>
      PROVE  Dead(k)'
  BY <1>1, SameKeys
<1>2. ASSUME NEW o \in Owner, NEW new \in Key, Fresh(new),
             active' = [active EXCEPT ![o] = new],
             active[o] \in {NoKey} \cup revoked' \cup replaced',
             revoked \subseteq revoked', replaced \subseteq replaced',
             UNCHANGED age
      PROVE  Dead(k)'
  <2>1. k \in Minted /\ k # new
    BY <1>2 DEF Dead, Fresh
  <2>2. \A p \in Owner : active'[p] = k => active[p] = k
    BY <1>2, <2>1 DEF KeysTypeOK
  <2>3. \A p \in Owner : active[p] = k => active'[p] = k \/ k \in revoked' \cup replaced'
    BY <1>2, Owners DEF KeysTypeOK
  <2>4. k \in Minted'
    BY <1>2, <2>1, <2>3 DEF Minted
  <2> QED
    BY <1>2, <2>2, <2>4 DEF Dead, Accepted
<1>3. ASSUME NEW r \in Request, RequestNext(r)
      PROVE  Dead(k)'
  <2>1. CASE UpsertTemp(r)
    <3>1. PICK new \in Key : Fresh(new) /\ active' = [active EXCEPT ![Temp] = new]
      BY <2>1 DEF UpsertTemp
    <3>2. /\ active[Temp] \in {NoKey} \cup revoked' \cup replaced'
          /\ revoked \subseteq revoked' /\ replaced \subseteq replaced'
          /\ UNCHANGED age
      BY <2>1 DEF UpsertTemp
    <3> QED
      BY <1>2, <3>1, <3>2, Owners
  <2>2. CASE ~UpsertTemp(r)
    BY <1>1, <1>3, <2>2 DEF RequestNext, StartRequest, QueryUser, TakeUserKey,
       QueryTemp, TakeTempKey, CheckKey, RequestFails, dbVars
  <2> QED
    BY <2>1, <2>2
<1>4. ASSUME NEW c \in Change, ChangeNext(c)
      PROVE  Dead(k)'
  <2>1. CASE CommitCreate(c)
    <3>1. CASE active[Changer[c]] \in {seen[c], NoKey}
      <4>1. PICK new \in Key :
               Fresh(new) /\ active' = [active EXCEPT ![Changer[c]] = new]
        BY <2>1, <3>1 DEF CommitCreate
      <4>2. /\ active[Changer[c]] \in {NoKey} \cup revoked' \cup replaced'
            /\ revoked \subseteq revoked' /\ replaced \subseteq replaced'
            /\ UNCHANGED age
        BY <2>1, <3>1 DEF CommitCreate
      <4> QED
        BY <1>2, <4>1, <4>2, Owners
    <3>2. CASE active[Changer[c]] \notin {seen[c], NoKey}
      BY <1>1, <2>1, <3>2 DEF CommitCreate
    <3> QED
      BY <3>1, <3>2
  <2>2. CASE DeleteKey(c)
    <3>1. /\ \A p \in Owner : active'[p] = k => active[p] = k
          /\ \A p \in Owner : active[p] = k => active'[p] = k \/ k \in revoked'
          /\ revoked \subseteq revoked' /\ UNCHANGED <<replaced, age>>
      BY <2>2, Owners DEF DeleteKey, KeysTypeOK
    <3> QED
      BY <3>1 DEF Dead, Accepted, Minted
  <2>3. CASE ~(CommitCreate(c) \/ DeleteKey(c))
    BY <1>1, <1>4, <2>3 DEF ChangeNext, CheckLogin, BeginCreate, Invalidate,
       LoseAnswer, dbVars
  <2> QED
    BY <2>1, <2>2, <2>3
<1>5. ASSUME NEW j \in Key, Age(j)
      PROVE  Dead(k)'
  <2>1. age[k] = "expired" => age'[k] = "expired"
    BY <1>5 DEF Age, KeysTypeOK
  <2> QED
    BY <1>5, <2>1 DEF Age, dbVars, Dead, Accepted, Minted
<1>6. ASSUME RestartApp
      PROVE  Dead(k)'
  BY <1>1, <1>6 DEF RestartApp, dbVars
<1> QED
  BY <1>3, <1>4, <1>5, <1>6 DEF KeysNext

-----------------------------------------------------------------------------
(* The inductive invariant *)

\* Steps that change neither rows nor dates.
LEMMA QuietInv ==
    ASSUME KeysInv, KeysTypeOK',
           UNCHANGED <<active, revoked, replaced, age>>, raced \subseteq raced',
           \A o \in Owner :
              \/ cache'[o] \in {cache[o], NoKey}
              \/ \E r \in Request :
                    /\ request[r] \in {"gotUser", "gotTemp"}
                    /\ held[r] # NoKey /\ cache'[o] = held[r]
                    /\ o = For(r),
           \A r \in Request :
              request'[r] \in {"gotUser", "gotTemp"} =>
                 \/ request'[r] = request[r] /\ held'[r] = held[r]
                 \/ /\ request'[r] = "gotUser" => held'[r] = Lookup(Asker[r])
                    /\ request'[r] = "gotTemp"
                          => held'[r] = Lookup(Temp) /\ held'[r] # NoKey,
           \A c \in Change : change[c] = "committed" =>
              \/ change'[c] = "committed"
              \/ cache'[Changer[c]] = NoKey
              \/ cache'[Changer[c]] \in raced'
    PROVE  KeysInv'
<1>1. /\ KeysTypeOK /\ KeysAreUnique /\ CachedIsOwn /\ HeldIsOwn
      /\ StaleNeedsRace
  BY DEF KeysInv
<1>2. /\ Minted' = Minted
      /\ \A k : Dead(k)' <=> Dead(k)
  BY SameKeys
<1>3. ASSUME NEW o \in Owner, cache'[o] # NoKey
      PROVE  /\ cache'[o] \in Minted
             /\ \A p \in Owner : active[p] = cache'[o] => p = o
  BY <1>1, <1>3 DEF CachedIsOwn, HeldIsOwn
<1>4. CachedIsOwn' /\ KeysAreUnique'
  BY <1>1, <1>2, <1>3 DEF CachedIsOwn, KeysAreUnique
<1>5. HeldIsOwn'
  <2> SUFFICES ASSUME NEW r \in Request, request'[r] \in {"gotUser", "gotTemp"}
               PROVE  /\ request'[r] = "gotTemp" => held'[r] # NoKey
                      /\ held'[r] # NoKey =>
                            /\ held'[r] \in Minted
                            /\ \A p \in Owner : active[p] = held'[r] => p = For(r)'
                            /\ age[held'[r]] = "young" /\ Dead(held'[r])
                                 => held'[r] \in raced'
    BY <1>2 DEF HeldIsOwn
  <2>1. CASE request'[r] = request[r] /\ held'[r] = held[r]
    BY <1>1, <2>1 DEF HeldIsOwn, For
  <2>2. ASSUME NEW o \in Owner, held'[r] = Lookup(o), held'[r] # NoKey
        PROVE  /\ held'[r] \in Minted /\ ~Dead(held'[r])
               /\ \A p \in Owner : active[p] = held'[r] => p = o
    BY <1>1, <2>2, LookupFacts DEF KeysAreUnique
  <2>3. CASE request'[r] = "gotUser" /\ held'[r] = Lookup(Asker[r])
    <3>1. For(r)' = Asker[r] /\ Asker[r] \in Owner
      BY <2>3, Owners DEF For
    <3> QED
      BY <2>2, <2>3, <3>1
  <2>4. CASE request'[r] = "gotTemp" /\ held'[r] = Lookup(Temp) /\ held'[r] # NoKey
    <3>1. For(r)' = Temp /\ Temp \in Owner
      BY <2>4, Owners DEF For
    <3> QED
      BY <2>2, <2>4, <3>1
  <2> QED
    BY <2>1, <2>3, <2>4
<1>6. StaleNeedsRace'
  <2> SUFFICES ASSUME NEW o \in Owner, Hit(o)', Dead(cache'[o])
               PROVE  \/ cache'[o] \in raced'
                      \/ \E c \in Change : Changer[c] = o /\ change'[c] = "committed"
    BY <1>2 DEF StaleNeedsRace
  <2>1. cache'[o] # NoKey /\ age[cache'[o]] = "young"
    BY DEF Hit
  <2>2. CASE cache'[o] = cache[o]
    <3>1. Hit(o) /\ Dead(cache[o])
      BY <2>1, <2>2 DEF Hit
    <3> QED
      BY <1>1, <2>1, <2>2, <3>1 DEF StaleNeedsRace
  <2>3. ASSUME NEW r \in Request, request[r] \in {"gotUser", "gotTemp"},
               held[r] # NoKey, cache'[o] = held[r]
        PROVE  cache'[o] \in raced'
    BY <1>1, <2>1, <2>3 DEF HeldIsOwn
  <2> QED
    BY <2>1, <2>2, <2>3
<1> QED
  BY <1>1, <1>4, <1>5, <1>6 DEF KeysInv

LEMMA RequestQuiet ==
    ASSUME KeysInv, NEW r \in Request, RequestNext(r), ~UpsertTemp(r)
    PROVE  KeysInv'
<1>1. KeysTypeOK /\ HeldIsOwn
  BY DEF KeysInv
<1>2. Asker[r] \in Owner /\ Temp \in Owner /\ NoKey \notin Key
  BY Owners
<1>3. /\ UNCHANGED <<active, revoked, replaced, age, raced, change, seen>>
      /\ request' = [request EXCEPT ![r] = request'[r]]
      /\ held' = [held EXCEPT ![r] = held'[r]]
      /\ request'[r] \in RequestStep
  BY <1>1 DEF KeysTypeOK, RequestNext, StartRequest, QueryUser, TakeUserKey,
     QueryTemp, TakeTempKey, CheckKey, RequestFails, UseOrAsk, Send, dbVars,
     requestVars, changeVars, RequestStep
<1>4. Lookup(Temp) \in Key \cup {NoKey} /\ Lookup(Asker[r]) \in Key \cup {NoKey}
  BY <1>1, <1>2, LookupFacts
<1>5. held'[r] \in Key \cup {NoKey}
  BY <1>1, <1>2, <1>4 DEF KeysTypeOK, RequestNext, StartRequest, QueryUser, TakeUserKey,
     QueryTemp, TakeTempKey, CheckKey, RequestFails, UseOrAsk, Send, Hit,
     requestVars
<1>6. /\ request'[r] = "gotUser" => held'[r] = Lookup(Asker[r])
      /\ request'[r] = "gotTemp" => held'[r] = Lookup(Temp) /\ held'[r] # NoKey
  BY <1>1 DEF KeysTypeOK, RequestNext, StartRequest, QueryUser, TakeUserKey,
     QueryTemp, TakeTempKey, CheckKey, RequestFails, UseOrAsk, Send
<1>7. /\ cache' \in [Owner -> Key \cup {NoKey}]
      /\ \A o \in Owner :
            \/ cache'[o] = cache[o]
            \/ /\ request[r] \in {"gotUser", "gotTemp"}
               /\ held[r] # NoKey /\ cache'[o] = held[r]
               /\ o = For(r)
  <2>1. CASE TakeUserKey(r) /\ held[r] # NoKey
    <3>1. held[r] \in Key /\ Store(Asker[r], held[r]) /\ For(r) = Asker[r]
      BY <1>1, <2>1 DEF TakeUserKey, KeysTypeOK, For
    <3> QED
      BY <1>1, <1>2, <2>1, <3>1, StoreFacts DEF TakeUserKey
  <2>2. CASE TakeTempKey(r)
    <3>1. /\ held[r] \in Key /\ held[r] # NoKey
          /\ Store(Temp, held[r]) /\ For(r) = Temp
      BY <1>1, <1>2, <2>2 DEF TakeTempKey, KeysTypeOK, For, HeldIsOwn
    <3> QED
      BY <1>1, <1>2, <2>2, <3>1, StoreFacts DEF TakeTempKey
  <2>3. CASE ~TakeTempKey(r) /\ ~(TakeUserKey(r) /\ held[r] # NoKey)
    <3>1. UNCHANGED cache
      BY <2>3 DEF RequestNext, StartRequest, QueryUser, TakeUserKey,
         QueryTemp, CheckKey, RequestFails
    <3> QED
      BY <1>1, <3>1 DEF KeysTypeOK
  <2> QED
    BY <2>1, <2>2, <2>3
<1>8. KeysTypeOK'
  BY <1>1, <1>3, <1>5, <1>7 DEF KeysTypeOK
<1>9. \A q \in Request : q # r => request'[q] = request[q] /\ held'[q] = held[q]
  BY <1>1, <1>3 DEF KeysTypeOK
<1> QED
  BY <1>3, <1>6, <1>7, <1>8, <1>9, QuietInv

\* The row of o gets a new key, or is revoked.  A fetch that holds the key it
\* loses has raced, and so have the caches that nobody is about to clear.
LEMMA RowInv ==
    ASSUME KeysInv, KeysTypeOK', NEW o \in Owner, NEW new \in Key \cup {NoKey},
           new # NoKey => Fresh(new),
           active' = [active EXCEPT ![o] = new],
           revoked' \cup replaced' = revoked \cup replaced \cup ({active[o]} \ {NoKey}),
           UNCHANGED <<age, cache>>, raced \subseteq raced',
           \A q \in Request : request'[q] \in {"gotUser", "gotTemp"} =>
              \/ request'[q] = request[q] /\ held'[q] = held[q]
              \/ held'[q] = new /\ new # NoKey /\ For(q)' = o,
           active[o] # NoKey =>
              /\ InFlight(active[o]) => active[o] \in raced'
              /\ \/ active[o] \in raced'
                 \/ \E c \in Change : Changer[c] = o /\ change'[c] = "committed",
           \A c \in Change : change[c] = "committed" => change'[c] = "committed"
    PROVE  KeysInv'
<1>1. /\ KeysTypeOK /\ KeysAreUnique /\ CachedIsOwn /\ HeldIsOwn
      /\ StaleNeedsRace
  BY DEF KeysInv
<1>2. NoKey \notin Key
  BY Owners
<1>3. \A p \in Owner : active'[p] = IF p = o THEN new ELSE active[p]
  BY <1>1 DEF KeysTypeOK
<1>4. new # NoKey => new \in Key /\ new \notin Minted /\ \A p \in Owner : active[p] # new
  BY DEF Fresh, Minted
<1>5. \A k \in Minted : k \in Key /\ k # NoKey /\ k # new
  BY <1>1, <1>2, <1>4 DEF Minted, KeysTypeOK
<1>6. \A k \in Minted : k \in Minted'
  <2> SUFFICES ASSUME NEW k \in Minted
               PROVE  k \in Minted'
    OBVIOUS
  <2>1. CASE k \in revoked \cup replaced
    BY <2>1 DEF Minted
  <2>2. CASE k \notin revoked \cup replaced
    <3>1. PICK p \in Owner : active[p] = k
      BY <2>2 DEF Minted
    <3>2. CASE p = o
      BY <1>5, <3>1, <3>2 DEF Minted
    <3>3. CASE p # o
      BY <1>3, <1>5, <3>1, <3>3 DEF Minted
    <3> QED
      BY <3>2, <3>3
  <2> QED
    BY <2>1, <2>2
<1>7. \A k \in Minted : Dead(k)' => Dead(k) \/ k = active[o]
  <2> SUFFICES ASSUME NEW k \in Minted, Dead(k)', ~Dead(k)
               PROVE  k = active[o]
    OBVIOUS
  <2>1. PICK p \in Owner : active[p] = k
    BY DEF Dead, Accepted
  <2>2. age[k] # "expired"
    BY DEF Dead, Accepted
  <2>3. active'[p] # k
    BY <2>2 DEF Dead, Accepted
  <2> QED
    BY <1>3, <2>1, <2>3
<1>8. new # NoKey => new \in Minted' /\ (age[new] = "young" => ~Dead(new)')
  <2> SUFFICES ASSUME new # NoKey
               PROVE  new \in Minted' /\ (age[new] = "young" => ~Dead(new)')
    OBVIOUS
  <2>1. active'[o] = new /\ new \in Key
    BY <1>3
  <2>2. new \in Minted'
    BY <2>1 DEF Minted
  <2>3. age[new] = "young" => ~Dead(new)'
    BY <2>1 DEF Dead, Accepted
  <2> QED
    BY <2>2, <2>3
<1>9. KeysAreUnique'
  BY <1>1, <1>3, <1>4 DEF KeysAreUnique
<1>10. CachedIsOwn'
  <2> SUFFICES ASSUME NEW p \in Owner, cache[p] # NoKey
               PROVE  /\ cache[p] \in Minted'
                      /\ \A q \in Owner : active'[q] = cache[p] => q = p
    BY DEF CachedIsOwn
  <2>1. cache[p] \in Minted /\ \A q \in Owner : active[q] = cache[p] => q = p
    BY <1>1 DEF CachedIsOwn
  <2> QED
    BY <1>3, <1>5, <1>6, <2>1
<1>11. HeldIsOwn'
  <2> SUFFICES ASSUME NEW q \in Request, request'[q] \in {"gotUser", "gotTemp"}
               PROVE  /\ request'[q] = "gotTemp" => held'[q] # NoKey
                      /\ held'[q] # NoKey =>
                            /\ held'[q] \in Minted'
                            /\ \A p \in Owner : active'[p] = held'[q] => p = For(q)'
                            /\ age[held'[q]] = "young" /\ Dead(held[q])'
                                 => held'[q] \in raced'
    BY DEF HeldIsOwn
  <2>1. CASE held'[q] = new /\ new # NoKey /\ For(q)' = o
    BY <1>3, <1>4, <1>8, <2>1
  <2>2. CASE request'[q] = request[q] /\ held'[q] = held[q]
    <3>1. For(q)' = For(q)
      BY <2>2 DEF For
    <3>2. request[q] = "gotTemp" => held[q] # NoKey
      BY <1>1 DEF HeldIsOwn
    <3>3. CASE held[q] # NoKey
      <4>1. /\ held[q] \in Minted
            /\ \A p \in Owner : active[p] = held[q] => p = For(q)
            /\ age[held[q]] = "young" /\ Dead(held[q]) => held[q] \in raced
        BY <1>1, <2>2, <3>3 DEF HeldIsOwn
      <4>2. held[q] = active[o] => held[q] \in raced'
        BY <2>2, <3>3 DEF InFlight
      <4>3. \A p \in Owner : active'[p] = held[q] => p = For(q)
        BY <1>3, <1>5, <4>1
      <4> QED
        BY <1>6, <1>7, <2>2, <3>1, <3>2, <4>1, <4>2, <4>3
    <3> QED
      BY <2>2, <3>2, <3>3
  <2> QED
    BY <2>1, <2>2
<1>12. StaleNeedsRace'
  <2> SUFFICES ASSUME NEW p \in Owner, Hit(p), Dead(cache[p])'
               PROVE  \/ cache[p] \in raced'
                      \/ \E c \in Change : Changer[c] = p /\ change'[c] = "committed"
    BY DEF StaleNeedsRace, Hit
  <2>1. /\ cache[p] \in Minted /\ cache[p] # NoKey
        /\ \A q \in Owner : active[q] = cache[p] => q = p
    BY <1>1 DEF Hit, CachedIsOwn
  <2>2. CASE Dead(cache[p])
    BY <1>1, <2>2 DEF StaleNeedsRace
  <2>3. CASE ~Dead(cache[p])
    <3>1. cache[p] = active[o] /\ p = o
      BY <1>7, <2>1, <2>3
    <3> QED
      BY <2>1, <3>1
  <2> QED
    BY <2>2, <2>3
<1> QED
  BY <1>9, <1>10, <1>11, <1>12 DEF KeysInv

\* A new temporary key: the key it replaces has raced.
LEMMA UpsertInv ==
    ASSUME KeysInv, NEW r \in Request, UpsertTemp(r)
    PROVE  KeysInv'
<1>1. KeysTypeOK
  BY DEF KeysInv
<1>2. Temp \in Owner /\ NoKey \notin Key
  BY Owners
<1>3. PICK new \in Key : /\ Fresh(new)
                         /\ active' = [active EXCEPT ![Temp] = new]
                         /\ held' = [held EXCEPT ![r] = new]
  BY DEF UpsertTemp
<1>4. /\ replaced' = replaced \cup ({active[Temp]} \ {NoKey})
      /\ raced' = raced \cup ({active[Temp]} \ {NoKey})
      /\ request' = [request EXCEPT ![r] = "gotTemp"]
      /\ UNCHANGED <<revoked, age, cache, change, seen>>
  BY DEF UpsertTemp, changeVars
<1>5. active[Temp] \in Key \cup {NoKey}
  BY <1>1, <1>2 DEF KeysTypeOK
<1>6. KeysTypeOK'
  BY <1>1, <1>2, <1>3, <1>4, <1>5 DEF KeysTypeOK, RequestStep
<1>7. \A q \in Request :
         IF q = r THEN request'[q] = "gotTemp" /\ held'[q] = new
                  ELSE request'[q] = request[q] /\ held'[q] = held[q]
  BY <1>1, <1>3, <1>4 DEF KeysTypeOK
<1>8. \A q \in Request : request'[q] \in {"gotUser", "gotTemp"} =>
         \/ request'[q] = request[q] /\ held'[q] = held[q]
         \/ held'[q] = new /\ new # NoKey /\ For(q)' = Temp
  BY <1>2, <1>7 DEF For
<1>9. /\ active[Temp] # NoKey => active[Temp] \in raced'
      /\ raced \subseteq raced'
      /\ revoked' \cup replaced' = revoked \cup replaced \cup ({active[Temp]} \ {NoKey})
      /\ UNCHANGED <<age, cache>>
      /\ \A c \in Change : change[c] = "committed" => change'[c] = "committed"
  BY <1>4
<1> QED
  BY <1>2, <1>3, <1>6, <1>8, <1>9, RowInv

\* The commit of a creation or of a deletion: the key that loses its row has
\* raced, or else the change is about to clear the cache of it.
LEMMA CommitInv ==
    ASSUME KeysInv, NEW c \in Change, CommitCreate(c) \/ DeleteKey(c)
    PROVE  KeysInv'
<1> DEFINE u == Changer[c]
<1>1. KeysTypeOK
  BY DEF KeysInv
<1>2. u \in Owner /\ NoKey \notin Key
  BY Owners
<1>3. active[u] \in Key \cup {NoKey}
  BY <1>1, <1>2 DEF KeysTypeOK
<1>4. ASSUME NEW new \in Key \cup {NoKey}, new # NoKey => Fresh(new),
             active' = [active EXCEPT ![u] = new],
             revoked' = revoked \cup ({active[u]} \ {NoKey}),
             raced' = raced \cup Races(c, active[u]),
             change' = [change EXCEPT ![c] =
                          IF Kind[c] = "login" THEN "done" ELSE "committed"],
             change[c] # "committed",
             UNCHANGED <<replaced, age, cache, request, held, seen>>
      PROVE  KeysInv'
  <2>1. raced \subseteq raced' /\ raced' \subseteq Key
    BY <1>1, <1>3, <1>4 DEF Races, KeysTypeOK
  <2>2. KeysTypeOK'
    <3>1. active' \in [Owner -> Key \cup {NoKey}]
      BY <1>1, <1>2, <1>4 DEF KeysTypeOK
    <3>2. revoked' \subseteq Key
      BY <1>1, <1>3, <1>4 DEF KeysTypeOK
    <3>3. change' \in [Change -> ChangeStep]
      BY <1>1, <1>4 DEF KeysTypeOK, ChangeStep
    <3> QED
      BY <1>1, <1>4, <2>1, <3>1, <3>2, <3>3 DEF KeysTypeOK
  <2>3. \A d \in Change : change[d] = "committed" => change'[d] = "committed"
    BY <1>1, <1>4 DEF KeysTypeOK
  <2>4. Kind[c] # "login" => change'[c] = "committed"
    BY <1>1, <1>4 DEF KeysTypeOK
  <2>5. active[u] # NoKey =>
           /\ InFlight(active[u]) => active[u] \in raced'
           /\ \/ active[u] \in raced'
              \/ \E d \in Change : Changer[d] = u /\ change'[d] = "committed"
    BY <1>4, <2>4 DEF Races
  <2>6. revoked' \cup replaced' = revoked \cup replaced \cup ({active[u]} \ {NoKey})
    BY <1>4
  <2>7. \A q \in Request : request'[q] = request[q] /\ held'[q] = held[q]
    BY <1>4
  <2> QED
    BY <1>2, <1>4, <2>1, <2>2, <2>3, <2>5, <2>6, <2>7, RowInv
<1>5. CASE CommitCreate(c) /\ active[u] \in {seen[c], NoKey}
  <2>1. PICK new \in Key : Fresh(new) /\ active' = [active EXCEPT ![u] = new]
    BY <1>5 DEF CommitCreate
  <2> QED
    BY <1>4, <1>5, <2>1 DEF CommitCreate, To, requestVars
<1>6. CASE CommitCreate(c) /\ active[u] \notin {seen[c], NoKey}
  <2>1. /\ change[c] = "updating"
        /\ change' = [change EXCEPT ![c] = "failed"]
        /\ UNCHANGED <<active, revoked, raced, replaced, age, cache, request, held, seen>>
    BY <1>6 DEF CommitCreate, To, requestVars
  <2>2. KeysTypeOK'
    BY <1>1, <2>1 DEF KeysTypeOK, ChangeStep
  <2>3. \A d \in Change : change[d] = "committed" => change'[d] = "committed"
    BY <1>1, <2>1 DEF KeysTypeOK
  <2> QED
    BY <2>1, <2>2, <2>3, QuietInv
<1>7. CASE DeleteKey(c)
  <2>1. Kind[c] = "delete"
    BY <1>7 DEF DeleteKey
  <2> QED
    BY <1>2, <1>4, <1>7, <2>1 DEF DeleteKey, To, requestVars
<1> QED
  BY <1>5, <1>6, <1>7

\* The other steps of a change.
LEMMA ChangeQuiet ==
    ASSUME KeysInv, NEW c \in Change, ChangeNext(c), ~(CommitCreate(c) \/ DeleteKey(c))
    PROVE  KeysInv'
<1>1. KeysTypeOK
  BY DEF KeysInv
<1>2. /\ Changer[c] \in Owner /\ Temp \in Owner
      /\ active[Changer[c]] \in Key \cup {NoKey} /\ cache[Changer[c]] \in Key \cup {NoKey}
  BY <1>1, Owners DEF KeysTypeOK
<1>3. /\ UNCHANGED <<active, revoked, replaced, age, request, held>>
      /\ raced \subseteq raced' /\ raced' \subseteq Key
      /\ change' = [change EXCEPT ![c] = change'[c]]
      /\ change'[c] \in ChangeStep
      /\ seen' \in [Change -> Key \cup {NoKey}]
  BY <1>1, <1>2 DEF KeysTypeOK, ChangeNext, CheckLogin, BeginCreate, Invalidate,
     LoseAnswer, To, dbVars, requestVars, changeVars, ChangeStep
<1>4. /\ cache' \in [Owner -> Key \cup {NoKey}]
      /\ \A o \in Owner : cache'[o] \in {cache[o], NoKey}
  BY <1>1, <1>2 DEF KeysTypeOK, ChangeNext, CheckLogin, BeginCreate, Invalidate,
     LoseAnswer
<1>5. KeysTypeOK'
  BY <1>1, <1>3, <1>4 DEF KeysTypeOK
<1>6. change[c] = "committed" =>
         cache'[Changer[c]] = NoKey \/ cache'[Changer[c]] \in raced'
  BY <1>1, <1>2 DEF KeysTypeOK, ChangeNext, CheckLogin, BeginCreate, Invalidate,
     LoseAnswer
<1>7. \A d \in Change : d # c => change'[d] = change[d]
  BY <1>1, <1>3 DEF KeysTypeOK
<1> QED
  BY <1>3, <1>4, <1>5, <1>6, <1>7, QuietInv

\* A key that ages is not young afterwards: no cache is hit with it, no fetch
\* stores it.
LEMMA AgeInv ==
    ASSUME KeysInv, NEW j \in Key, Age(j)
    PROVE  KeysInv'
<1>1. /\ KeysTypeOK /\ KeysAreUnique /\ CachedIsOwn /\ HeldIsOwn
      /\ StaleNeedsRace
  BY DEF KeysInv
<1>2. /\ UNCHANGED <<active, revoked, replaced, cache, request, held, change, seen, raced>>
      /\ age' = [age EXCEPT ![j] = IF @ = "young" THEN "stale" ELSE "expired"]
  BY DEF Age, dbVars, requestVars, changeVars
<1>3. KeysTypeOK'
  BY <1>1, <1>2 DEF KeysTypeOK
<1>4. Minted' = Minted
  BY <1>2 DEF Minted
<1>5. \A k \in Key : age'[k] = "young" => k # j /\ age[k] = "young"
  BY <1>1, <1>2 DEF KeysTypeOK
<1>6. \A k \in Key : age'[k] = "young" /\ Dead(k)' => age[k] = "young" /\ Dead(k)
  BY <1>2, <1>4, <1>5 DEF Dead, Accepted
<1>7. KeysAreUnique' /\ CachedIsOwn'
  BY <1>1, <1>2, <1>4 DEF KeysAreUnique, CachedIsOwn
<1>8. HeldIsOwn'
  <2> SUFFICES ASSUME NEW q \in Request, request[q] \in {"gotUser", "gotTemp"},
                      held[q] # NoKey
               PROVE  /\ held[q] \in Minted'
                      /\ \A p \in Owner : active[p] = held[q] => p = For(q)'
                      /\ age'[held[q]] = "young" /\ Dead(held[q])' => held[q] \in raced
    BY <1>1, <1>2 DEF HeldIsOwn
  <2>1. held[q] \in Key \cup {NoKey} /\ For(q)' = For(q)
    BY <1>1, <1>2 DEF KeysTypeOK, For
  <2> QED
    BY <1>1, <1>2, <1>4, <1>6, <2>1 DEF HeldIsOwn
<1>9. StaleNeedsRace'
  <2> SUFFICES ASSUME NEW o \in Owner, Hit(o)', Dead(cache[o])'
               PROVE  \/ cache[o] \in raced
                      \/ \E c \in Change : Changer[c] = o /\ change[c] = "committed"
    BY <1>2 DEF StaleNeedsRace
  <2>1. cache[o] \in Key /\ cache[o] # NoKey /\ age'[cache[o]] = "young"
    BY <1>1, <1>2 DEF Hit, KeysTypeOK
  <2>2. Hit(o) /\ Dead(cache[o])
    BY <1>2, <1>6, <2>1 DEF Hit
  <2> QED
    BY <1>1, <2>2 DEF StaleNeedsRace
<1> QED
  BY <1>3, <1>7, <1>8, <1>9 DEF KeysInv

LEMMA RestartInv ==
    ASSUME KeysInv, RestartApp
    PROVE  KeysInv'
<1>1. KeysTypeOK
  BY DEF KeysInv
<1>2. /\ UNCHANGED <<active, revoked, replaced, age, held, seen, raced>>
      /\ cache' = [o \in Owner |-> NoKey]
      /\ \A r \in Request : request'[r] \in RequestStep /\ request'[r] \notin {"gotUser", "gotTemp"}
      /\ request' \in [Request -> RequestStep]
      /\ change' \in [Change -> ChangeStep]
  BY <1>1 DEF KeysTypeOK, RestartApp, dbVars, RequestStep, ChangeStep
<1>3. KeysTypeOK'
  BY <1>1, <1>2 DEF KeysTypeOK
<1>4. \A c \in Change : cache'[Changer[c]] = NoKey
  BY <1>2, Owners
<1> QED
  BY <1>2, <1>3, <1>4, QuietInv

LEMMA NextInv ==
    ASSUME KeysInv, [KeysNext]_keysVars
    PROVE  KeysInv'
<1>1. ASSUME NEW r \in Request, RequestNext(r)
      PROVE  KeysInv'
  BY <1>1, RequestQuiet, UpsertInv
<1>2. ASSUME NEW c \in Change, ChangeNext(c)
      PROVE  KeysInv'
  BY <1>2, CommitInv, ChangeQuiet
<1>3. CASE UNCHANGED keysVars
  BY <1>3 DEF keysVars, KeysInv, KeysTypeOK, KeysAreUnique, CachedIsOwn, HeldIsOwn,
     StaleNeedsRace, Hit, Dead, Accepted, Minted, For
<1> QED
  BY <1>1, <1>2, <1>3, AgeInv, RestartInv DEF KeysNext

-----------------------------------------------------------------------------
(* Theorems *)

\* KeysInv holds in every state: a key has one owner, and what the app holds or
\* caches for an owner is a key of that owner, alive unless its calls raced.
THEOREM KeysInvariance == KeysSpec => []KeysInv
<1>1. KeysInit => KeysInv
  BY KeysInitInv
<1>2. KeysInv /\ [KeysNext]_keysVars => KeysInv'
  BY NextInv
<1> QED
  BY <1>1, <1>2, PTL DEF KeysSpec

\* The app uses a dead key only where its calls raced.
THEOREM StaleRaced == KeysSpec => []StaleNeedsRace
<1>1. KeysInv => StaleNeedsRace
  BY DEF KeysInv
<1> QED
  BY <1>1, KeysInvariance, PTL

\* A key that the API has stopped accepting is never accepted again.
THEOREM DeadStays == KeysSpec => DeadStaysDead
<1>1. KeysInv /\ [KeysNext]_keysVars
        => [\A k \in Key : Dead(k) => Dead(k)']_keysVars
  <2>1. ASSUME KeysInv, KeysNext
        PROVE  \A k \in Key : Dead(k) => Dead(k)'
    BY <2>1, NextKeepsDead DEF KeysInv
  <2> QED
    BY <2>1
<1> QED
  BY <1>1, KeysInvariance, PTL DEF KeysSpec, DeadStaysDead

-----------------------------------------------------------------------------
(* The calls of one key *)

\* What rounding up to whole seconds gives, between the span and a second more.
LEMMA RoundedUp ==
    ASSUME NEW a \in Nat \ {0}, NEW s \in Nat \ {0}
    PROVE  LET up == (a + s - 1) \div s IN
           /\ up \in Nat
           /\ up >= 1
           /\ a <= up * s
           /\ up * s < a + s
<1> DEFINE x == a + s - 1
           up == x \div s
           r  == x % s
<1>1. x \in Nat /\ x >= s
  OBVIOUS
<1>2. up \in Int /\ r \in 0..(s - 1) /\ x = s * up + r
  BY <1>1
<1>3. up >= 1
  BY <1>1, <1>2
<1>4. s * up = up * s
  BY <1>2
<1> QED
  BY <1>2, <1>3, <1>4

LEMMA LimiterInitInv == LimiterInit => LimiterInv
  BY LimiterAssumption
  DEF LimiterInit, LimiterInv, LimiterTypeOK, GrantsAreOrdered, WindowIsOpened,
      PreviousWindow, BurstIsBounded, RetryIsHonest, Opened

\* A call let through is the last one, at the present time.
LEMMA GrantFacts ==
    ASSUME LimiterTypeOK, GrantsAreOrdered, Grant, now' = now
    PROVE  /\ granted' \in Seq(Nat)
           /\ Len(granted) \in Nat /\ Len(granted') = Len(granted) + 1
           /\ granted'[Len(granted) + 1] = now
           /\ \A i \in 1..Len(granted) : granted'[i] = granted[i] /\ granted[i] \in Nat
           /\ GrantsAreOrdered'
<1>1. /\ granted' \in Seq(Nat)
      /\ Len(granted) \in Nat /\ Len(granted') = Len(granted) + 1
      /\ granted'[Len(granted) + 1] = now
      /\ \A i \in 1..Len(granted) : granted'[i] = granted[i] /\ granted[i] \in Nat
  BY DEF LimiterTypeOK, Grant
<1>2. now \in Nat
  BY DEF LimiterTypeOK
<1>3. \A i \in 1..(Len(granted) + 1) : granted'[i] <= now
  <2> SUFFICES ASSUME NEW i \in 1..(Len(granted) + 1)
               PROVE  granted'[i] <= now
    OBVIOUS
  <2>1. CASE i \in 1..Len(granted)
    BY <1>1, <2>1 DEF GrantsAreOrdered
  <2>2. CASE i = Len(granted) + 1
    BY <1>1, <1>2, <2>2
  <2> QED
    BY <1>1, <2>1, <2>2
<1>4. ASSUME NEW i \in 1..(Len(granted) + 1), NEW k \in 1..(Len(granted) + 1),
             i <= k
      PROVE  granted'[i] <= granted'[k]
  <2>1. CASE k \in 1..Len(granted)
    <3>1. i \in 1..Len(granted)
      BY <1>1, <1>4, <2>1
    <3> QED
      BY <1>1, <1>4, <2>1, <3>1 DEF GrantsAreOrdered
  <2>2. CASE k = Len(granted) + 1
    BY <1>1, <1>3, <2>2
  <2> QED
    BY <1>1, <2>1, <2>2
<1>5. GrantsAreOrdered'
  BY <1>1, <1>3, <1>4 DEF GrantsAreOrdered
<1> QED
  BY <1>1, <1>5

\* A burst that ends with the call now let through is long enough if the call
\* it starts with is a window ago.
LEMMA BurstExtends ==
    ASSUME NEW n \in Nat, Len(granted) = n, Len(granted') = n + 1,
           granted'[n + 1] = now,
           \A i \in 1..n : granted'[i] = granted[i] /\ granted[i] \in Nat,
           BurstIsBounded,
           \A i \in 1..n : i + 2 * Limit - 1 = n + 1 => granted[i] + Window <= now
    PROVE  BurstIsBounded'
<1> USE LimiterAssumption
<1>1. Limit \in Nat \ {0} /\ 2 * Limit - 1 \in Nat \ {0}
  OBVIOUS
<1> DEFINE d == 2 * Limit - 1
<1>2. \A i \in 1..n : i + d <= n => granted[i] + Window <= granted[i + d]
  BY <1>1 DEF BurstIsBounded
<1>3. \A i \in 1..n : i + d = n + 1 => granted[i] + Window <= now
  BY <1>1
<1>4. d \in Nat \ {0}
  BY <1>1
<1>5. \A i \in 1..(n + 1) : i + d <= n + 1 => granted'[i] + Window <= granted'[i + d]
  <2> HIDE DEF d
  <2> SUFFICES ASSUME NEW i \in 1..(n + 1), i + d <= n + 1
               PROVE  granted'[i] + Window <= granted'[i + d]
    OBVIOUS
  <2>1. i \in 1..n /\ granted'[i] = granted[i]
    BY <1>4
  <2>2. CASE i + d <= n
    <3>1. i + d \in 1..n
      BY <1>4, <2>1, <2>2
    <3> QED
      BY <1>2, <2>1, <2>2, <3>1
  <2>3. CASE i + d = n + 1
    BY <1>3, <2>1, <2>3
  <2> QED
    BY <1>4, <2>1, <2>2, <2>3
<1> QED
  BY <1>1, <1>5 DEF BurstIsBounded

\* A call that opens a window closes the one before, which let through at
\* most Limit calls, the first of them a window ago.
LEMMA OpenInv ==
    ASSUME LimiterInv, OpenWindow
    PROVE  LimiterInv'
<1> DEFINE n == Len(granted)
<1>1. /\ LimiterTypeOK /\ GrantsAreOrdered /\ WindowIsOpened
      /\ PreviousWindow /\ BurstIsBounded
  BY DEF LimiterInv
<1>2. /\ granted' \in Seq(Nat) /\ Len(granted') = n + 1 /\ n \in Nat
      /\ granted'[n + 1] = now
      /\ \A i \in 1..n : granted'[i] = granted[i] /\ granted[i] \in Nat
      /\ GrantsAreOrdered'
  BY <1>1, GrantFacts DEF OpenWindow, LimiterTypeOK
<1>3. /\ count' = 1 /\ resetAt' = now + Window /\ told' = {} /\ now' = now
      /\ resetAt <= now
  BY DEF OpenWindow
<1>4. LimiterTypeOK'
  BY <1>1, <1>2, <1>3, LimiterAssumption DEF LimiterTypeOK
<1>5. Opened' = n + 1
  BY <1>2, <1>3 DEF Opened
<1>6. WindowIsOpened'
  BY <1>2, <1>3, <1>5 DEF WindowIsOpened
<1>7. /\ Limit \in Nat \ {0} /\ now \in Nat /\ resetAt \in Nat /\ Window \in Nat
      /\ count \in Nat /\ count <= Limit
  BY <1>1, LimiterAssumption DEF LimiterTypeOK
<1>8. ASSUME NEW i \in 1..n, i + Limit <= n + 1
      PROVE  granted[i] + Window <= now
  <2>1. count # 0 /\ count <= n
    BY <1>1, <1>2, <1>8 DEF WindowIsOpened
  <2>2. Opened \in 1..n /\ i <= Opened
    BY <1>2, <1>7, <1>8, <2>1 DEF Opened
  <2>3. granted[i] <= granted[Opened]
    BY <1>1, <2>2 DEF GrantsAreOrdered
  <2>4. granted[Opened] + Window = resetAt
    BY <1>1, <2>1 DEF WindowIsOpened
  <2>5. granted[i] \in Nat /\ granted[Opened] \in Nat
    BY <1>2, <2>2
  <2> QED
    BY <1>3, <1>7, <2>3, <2>4, <2>5
<1>9. PreviousWindow'
  <2> SUFFICES ASSUME Opened' > Limit
               PROVE  granted'[Opened' - Limit] + Window <= granted'[Opened']
    BY DEF PreviousWindow
  <2>1. /\ n + 1 - Limit \in 1..n /\ n + 1 - Limit + Limit <= n + 1
        /\ Opened' - Limit = n + 1 - Limit
    BY <1>2, <1>5, <1>7
  <2>2. granted[n + 1 - Limit] + Window <= now
    BY <1>8, <2>1
  <2>3. granted'[n + 1 - Limit] = granted[n + 1 - Limit] /\ granted'[Opened'] = now
    BY <1>2, <1>5, <2>1
  <2> QED
    BY <2>1, <2>2, <2>3
<1>10. BurstIsBounded'
  <2>1. ASSUME NEW i \in 1..n, i + 2 * Limit - 1 = n + 1
        PROVE  granted[i] + Window <= now
    <3>1. i + Limit <= n + 1
      BY <1>2, <1>7, <2>1
    <3> QED
      BY <1>8, <3>1
  <2> QED
    BY <1>1, <1>2, <2>1, BurstExtends
<1>11. RetryIsHonest'
  BY <1>3 DEF RetryIsHonest
<1> QED
  BY <1>2, <1>4, <1>6, <1>9, <1>10, <1>11 DEF LimiterInv

\* A call of an open window is Limit calls away from the previous window's
\* first one, at least.
LEMMA AdmitInv ==
    ASSUME LimiterInv, Admit
    PROVE  LimiterInv'
<1> DEFINE n == Len(granted)
<1>1. /\ LimiterTypeOK /\ GrantsAreOrdered /\ WindowIsOpened
      /\ PreviousWindow /\ BurstIsBounded /\ RetryIsHonest
  BY DEF LimiterInv
<1>2. /\ granted' \in Seq(Nat) /\ Len(granted') = n + 1 /\ n \in Nat
      /\ granted'[n + 1] = now
      /\ \A i \in 1..n : granted'[i] = granted[i] /\ granted[i] \in Nat
      /\ GrantsAreOrdered'
  BY <1>1, GrantFacts DEF Admit, LimiterTypeOK
<1>3. /\ count' = count + 1 /\ count < Limit /\ resetAt > now
      /\ UNCHANGED <<now, resetAt, told>>
  BY DEF Admit
<1>4. LimiterTypeOK'
  BY <1>1, <1>2, <1>3, LimiterAssumption DEF LimiterTypeOK
<1>5. /\ Limit \in Nat \ {0} /\ now \in Nat /\ resetAt \in Nat /\ Window \in Nat
      /\ count \in Nat
  BY <1>1, LimiterAssumption DEF LimiterTypeOK
<1>6. count # 0 /\ count <= n /\ resetAt = granted[Opened] + Window
  BY <1>1, <1>3, <1>5 DEF WindowIsOpened
<1>7. Opened' = Opened /\ Opened \in 1..n /\ Opened = n - count + 1
  BY <1>2, <1>3, <1>5, <1>6 DEF Opened
<1>8. WindowIsOpened'
  <2>1. count' # 0 /\ Len(granted') # 0 /\ count' <= Len(granted')
    BY <1>2, <1>3, <1>5, <1>6
  <2>2. resetAt' = granted'[Opened'] + Window
    BY <1>2, <1>3, <1>6, <1>7
  <2> QED
    BY <2>1, <2>2 DEF WindowIsOpened
<1>9. PreviousWindow'
  <2> SUFFICES ASSUME Opened > Limit
               PROVE  granted'[Opened - Limit] + Window <= granted'[Opened]
    BY <1>7 DEF PreviousWindow
  <2>1. Opened - Limit \in 1..n
    BY <1>2, <1>5, <1>7
  <2>2. granted[Opened - Limit] + Window <= granted[Opened]
    BY <1>1, <1>6 DEF PreviousWindow
  <2> QED
    BY <1>2, <1>7, <2>1, <2>2
<1>10. BurstIsBounded'
  <2>1. ASSUME NEW i \in 1..n, i + 2 * Limit - 1 = n + 1
        PROVE  granted[i] + Window <= now
    <3>1. i <= Opened - Limit /\ Opened - Limit \in 1..n /\ Opened > Limit
      <4>1. i + Limit + Limit = n + 2 /\ count + 1 <= Limit
        BY <1>2, <1>3, <1>5, <2>1
      <4>2. i + Limit <= Opened
        BY <1>2, <1>5, <1>7, <4>1
      <4> QED
        BY <1>2, <1>5, <1>7, <4>2
    <3>2. granted[i] <= granted[Opened - Limit]
      BY <1>1, <3>1 DEF GrantsAreOrdered
    <3>3. granted[Opened - Limit] + Window <= granted[Opened]
      BY <1>1, <1>6, <3>1 DEF PreviousWindow
    <3>4. granted[Opened] <= now
      BY <1>1, <1>7 DEF GrantsAreOrdered
    <3>5. /\ granted[i] \in Nat /\ granted[Opened] \in Nat
          /\ granted[Opened - Limit] \in Nat
      BY <1>2, <1>7, <3>1
    <3> QED
      BY <1>5, <3>2, <3>3, <3>4, <3>5
  <2> QED
    BY <1>1, <1>2, <2>1, BurstExtends
<1>11. RetryIsHonest'
  BY <1>1, <1>3 DEF RetryIsHonest
<1> QED
  BY <1>2, <1>4, <1>8, <1>9, <1>10, <1>11 DEF LimiterInv

LEMMA RejectInv ==
    ASSUME LimiterInv, Reject
    PROVE  LimiterInv'
<1> USE LimiterAssumption
<1>1. LimiterTypeOK /\ RetryIsHonest /\ resetAt > now
  BY DEF LimiterInv, Reject
<1>2. resetAt - now \in Nat \ {0}
  BY <1>1 DEF LimiterTypeOK
<1>3. /\ RetryAfter \in Nat
      /\ resetAt - now <= RetryAfter * Second
      /\ RetryAfter * Second < resetAt - now + Second
  <2>1. LET up == (resetAt - now + Second - 1) \div Second IN
        /\ up \in Nat
        /\ up >= 1
        /\ resetAt - now <= up * Second
        /\ up * Second < resetAt - now + Second
    BY <1>2, RoundedUp
  <2>2. RetryAfter = (resetAt - now + Second - 1) \div Second
    BY <2>1 DEF RetryAfter
  <2> QED
    BY <2>1, <2>2
<1>4. /\ now + RetryAfter * Second \in Nat
      /\ resetAt <= now + RetryAfter * Second
      /\ now + RetryAfter * Second < resetAt + Second
  <2>1. RetryAfter * Second \in Nat
    BY <1>3
  <2> QED
    BY <1>1, <1>3, <2>1 DEF LimiterTypeOK
<1>5. /\ told' = told \cup {now + RetryAfter * Second}
      /\ UNCHANGED <<now, count, resetAt, granted>>
  BY DEF Reject
<1>6. LimiterTypeOK' /\ RetryIsHonest'
  BY <1>1, <1>4, <1>5 DEF LimiterTypeOK, RetryIsHonest
<1>7. GrantsAreOrdered' /\ WindowIsOpened' /\ PreviousWindow' /\ BurstIsBounded'
  BY <1>5 DEF LimiterInv, GrantsAreOrdered, WindowIsOpened, PreviousWindow,
              BurstIsBounded, Opened
<1> QED
  BY <1>6, <1>7 DEF LimiterInv

LEMMA TickInv ==
    ASSUME LimiterInv, Tick
    PROVE  LimiterInv'
<1>1. /\ now' = now + 1
      /\ UNCHANGED <<count, resetAt, granted, told>>
  BY DEF Tick
<1>2. LimiterTypeOK' /\ GrantsAreOrdered'
  BY <1>1 DEF LimiterInv, LimiterTypeOK, GrantsAreOrdered
<1>3. WindowIsOpened' /\ PreviousWindow' /\ BurstIsBounded' /\ RetryIsHonest'
  BY <1>1 DEF LimiterInv, WindowIsOpened, PreviousWindow, BurstIsBounded,
              RetryIsHonest, Opened
<1> QED
  BY <1>2, <1>3 DEF LimiterInv

\* The inductive invariant of the rate limiter.
THEOREM LimiterInvariance == LimiterSpec => []LimiterInv
<1>1. LimiterInit => LimiterInv
  BY LimiterInitInv
<1>2. LimiterInv /\ [LimiterNext]_limiterVars => LimiterInv'
  <2> SUFFICES ASSUME LimiterInv, [LimiterNext]_limiterVars
               PROVE  LimiterInv'
    OBVIOUS
  <2>1. CASE UNCHANGED limiterVars
    BY <2>1 DEF limiterVars, LimiterInv, LimiterTypeOK, GrantsAreOrdered,
       WindowIsOpened, PreviousWindow, BurstIsBounded, RetryIsHonest, Opened
  <2> QED
    BY <2>1, OpenInv, AdmitInv, RejectInv, TickInv DEF LimiterNext
<1> QED
  BY <1>1, <1>2, PTL DEF LimiterSpec

\* No stretch of time of one window lets twice the limit through.
THEOREM BurstBounded == LimiterSpec => []BurstIsBounded
<1>1. LimiterInv => BurstIsBounded
  BY DEF LimiterInv
<1> QED
  BY <1>1, LimiterInvariance, PTL

\* "Try again in {0} seconds." is long enough and not a second too long.
THEOREM RetryHonest == LimiterSpec => []RetryIsHonest
<1>1. LimiterInv => RetryIsHonest
  BY DEF LimiterInv
<1> QED
  BY <1>1, LimiterInvariance, PTL
=============================================================================
