---------------------------- MODULE PagesProofs -----------------------------
(***************************************************************************)
(* Proofs about the pages of a signed-in user, for any users, names,       *)
(* passwords, documents and numbers of calls on their way: the session of  *)
(* a document and the keys that its page displays, the documents that      *)
(* administrators edit, the settings of an account, and the list of the    *)
(* jobs.  The pages share no state; those with names of their own are      *)
(* instances.                                                              *)
(***************************************************************************)
EXTENDS AccountPages, ListsProofs, FiniteSetTheorems, TLAPS

-----------------------------------------------------------------------------
(* The page of the key *)

\* The page and the database agree on the key.
Agrees == ~isLoading /\ loadedKey = works /\ revealed \in {None, works}

\* One call waits at most.  A creation without a question is of the first key.
Orderly ==
    \/ /\ Len(keyCalls) = 1 /\ Head(keyCalls).op = "load"
       /\ isLoading /\ revealed = None /\ Keys!NoWindow /\ ~keyBusy
    \/ keyCalls = <<>> /\ Agrees
    \/ /\ Len(keyCalls) = 1 /\ Head(keyCalls).op \in {"create", "delete"}
       /\ keyBusy /\ Keys!NoWindow /\ Agrees
       /\ Head(keyCalls).op = "create" /\ ~Head(keyCalls).asked => works = None

KeysInd ==
    /\ made \in Nat
    /\ keyCalls \in Seq([op : {"load", "create", "delete"}, asked : BOOLEAN])
    /\ ~keyDoubt => Orderly

LEMMA KeysInitInd ==
  ASSUME Keys!Init
  PROVE  KeysInd
<1> DEFINE c == Keys!Call("load", FALSE)
<1>1. keyCalls = <<c>> /\ isLoading /\ revealed = None /\ ~keyBusy /\ Keys!NoWindow /\ made \in Nat
  BY DEF Keys!Init, Keys!NoWindow
<1>2. c \in [op : {"load", "create", "delete"}, asked : BOOLEAN] /\ c.op = "load"
  BY DEF Keys!Call
<1> HIDE DEF c
<1>3. /\ Len(keyCalls) = 1 /\ Head(keyCalls).op = "load"
      /\ keyCalls \in Seq([op : {"load", "create", "delete"}, asked : BOOLEAN])
  BY <1>1, <1>2
<1> QED
  BY <1>1, <1>3 DEF KeysInd, Orderly

\* The calls that the page makes.
LEMMA KeysAskInd ==
  ASSUME KeysInd, NEW op \in {"create", "delete"}, NEW confirmed \in BOOLEAN, Keys!Ask(op, confirmed),
         ~keyDoubt => keyCalls = <<>>,
         ~keyDoubt /\ op = "create" /\ ~confirmed => works = None
  PROVE  KeysInd'
<1> DEFINE c == Keys!Call(op, confirmed)
<1>1. c.op = op /\ (c.asked <=> confirmed)
      /\ c \in [op : {"load", "create", "delete"}, asked : BOOLEAN]
  BY DEF Keys!Call
<1>2. /\ keyCalls' = Append(keyCalls, c) /\ Keys!NoWindow' /\ keyBusy'
      /\ UNCHANGED <<made, works, keyDoubt, loadedKey, isLoading, revealed>>
  BY DEF Keys!Ask, Keys!NoWindow, Keys!server
<1> HIDE DEF c
<1>3. made' \in Nat /\ keyCalls' \in Seq([op : {"load", "create", "delete"}, asked : BOOLEAN])
  BY <1>1, <1>2 DEF KeysInd
<1>4. ASSUME ~keyDoubt
      PROVE  Orderly'
  <2>1. keyCalls = <<>> /\ Agrees
    BY <1>4 DEF KeysInd, Orderly
  <2>2. Len(keyCalls') = 1 /\ Head(keyCalls') = c /\ Agrees'
    BY <1>1, <1>2, <2>1 DEF Agrees
  <2> QED
    BY <1>1, <1>2, <1>4, <2>2 DEF Orderly
<1> QED
  BY <1>2, <1>3, <1>4 DEF KeysInd

LEMMA KeysNextInd ==
  ASSUME KeysInd, [Keys!Next]_Keys!vars
  PROVE  KeysInd'
<1>1. made \in Nat /\ keyCalls \in Seq([op : {"load", "create", "delete"}, asked : BOOLEAN])
  BY DEF KeysInd
<1>2. CASE UNCHANGED Keys!vars
  BY <1>2 DEF Keys!vars, Keys!server, Keys!context, Keys!windows, Keys!NoWindow, KeysInd, Orderly, Agrees
\* What answers the call at the head, and what leaves the queue alone.
<1>3. ASSUME keyCalls # <<>>, keyCalls' = Tail(keyCalls), made' \in Nat, ~keyDoubt' => ~keyDoubt /\ Agrees'
      PROVE  KeysInd'
  <2>1. ~keyDoubt => Len(keyCalls) = 1
    BY <1>3 DEF KeysInd, Orderly
  <2>2. keyCalls' \in Seq([op : {"load", "create", "delete"}, asked : BOOLEAN])
    BY <1>1, <1>3
  <2>3. ~keyDoubt => keyCalls' = <<>>
    BY <1>1, <1>3, <2>1
  <2> QED
    BY <1>3, <2>2, <2>3 DEF KeysInd, Orderly
<1>4. ASSUME UNCHANGED <<made, works, keyCalls, keyDoubt, loadedKey, isLoading, revealed, keyBusy>>,
             ~keyDoubt /\ keyCalls # <<>> => (Keys!NoWindow => Keys!NoWindow')
      PROVE  KeysInd'
  BY <1>4 DEF KeysInd, Orderly, Agrees
<1>5. CASE Keys!LoadAnswered
  BY <1>3, <1>5, <1>1 DEF Keys!LoadAnswered, Keys!IsNext, Keys!server, Keys!windows, Agrees, KeysInd, Orderly
<1>6. CASE Keys!LoadFailed
  BY <1>3, <1>6, <1>1 DEF Keys!LoadFailed, Keys!IsNext, Keys!server
<1>7. CASE Keys!ClearError
  BY <1>4, <1>7 DEF Keys!ClearError, Keys!server, Keys!windows, Keys!NoWindow
<1>8. CASE Keys!PressRegenerate \/ Keys!PressRevoke \/ Keys!CloseWindows
  <2>1. ~keyDoubt /\ keyCalls # <<>> => isLoading \/ keyBusy
    BY DEF KeysInd, Orderly
  <2>2. UNCHANGED <<made, works, keyCalls, keyDoubt, loadedKey, isLoading, revealed, keyBusy>>
    BY <1>8 DEF Keys!PressRegenerate, Keys!PressRevoke, Keys!CloseWindows, Keys!Windows, Keys!server,
                Keys!context
  <2>3. ~keyDoubt /\ keyCalls # <<>> => (Keys!NoWindow => Keys!NoWindow')
    BY <1>8, <2>1 DEF Keys!PressRegenerate, Keys!PressRevoke, Keys!CloseWindows, Keys!Windows,
                Keys!ShowsKey, Keys!NoWindow
  <2> QED
    BY <1>4, <2>2, <2>3
<1>9. CASE Keys!Generate
  <2>1. Keys!Ask("create", FALSE) /\ ~isLoading /\ loadedKey = None /\ ~keyBusy
    BY <1>9 DEF Keys!Generate, Keys!ShowsEmpty
  <2>2. ~keyDoubt => keyCalls = <<>> /\ works = None
    BY <2>1 DEF KeysInd, Orderly, Agrees
  <2> QED
    BY <2>1, <2>2, KeysAskInd
<1>10. CASE Keys!ConfirmRegen \/ Keys!ConfirmRevoke
  <2>1. ~Keys!NoWindow
    BY <1>10 DEF Keys!ConfirmRegen, Keys!ConfirmRevoke, Keys!NoWindow
  <2>2. ~keyDoubt => keyCalls = <<>>
    BY <2>1 DEF KeysInd, Orderly
  <2>3. Keys!Ask("create", TRUE) \/ Keys!Ask("delete", TRUE)
    BY <1>10 DEF Keys!ConfirmRegen, Keys!ConfirmRevoke
  <2> QED
    BY <2>2, <2>3, KeysAskInd
<1>11. CASE Keys!Created \/ Keys!Revoked \/ Keys!Refused
  <2>1. /\ keyCalls # <<>> /\ keyCalls' = Tail(keyCalls) /\ made' \in Nat
        /\ Head(keyCalls).op # "load" /\ UNCHANGED <<keyDoubt, isLoading>>
        /\ \/ loadedKey' = works' /\ revealed' \in {None, works'}
           \/ UNCHANGED <<works, loadedKey, revealed>>
    BY <1>1, <1>11 DEF Keys!Created, Keys!Revoked, Keys!Refused, Keys!IsNext, Keys!server
  <2>2. ~keyDoubt => Agrees
    BY <2>1 DEF KeysInd, Orderly
  <2>3. ~keyDoubt' => ~keyDoubt /\ Agrees'
    BY <2>1, <2>2 DEF Agrees
  <2> QED
    BY <1>3, <2>1, <2>3
<1>12. CASE Keys!Rejected
  BY <1>1, <1>3, <1>12 DEF Keys!Rejected, Keys!server
<1>13. CASE Keys!Elsewhere
  BY <1>1, <1>13 DEF Keys!Elsewhere, KeysInd
<1> QED
  BY <1>2, <1>5, <1>6, <1>7, <1>8, <1>9, <1>10, <1>11, <1>12, <1>13 DEF Keys!Next

\* The page of the key displays the key that works, if it displays one, and asks
\* before it replaces one that is in use.
THEOREM DisplayedKeyWorks == Keys!Spec => []Keys!DisplayedWorks /\ Keys!ReplacedWhenAsked
<1>1. KeysInd => Keys!DisplayedWorks
  BY DEF KeysInd, Orderly, Agrees, Keys!DisplayedWorks, Keys!ShowsKey, Keys!DisplayKey
<1>2. KeysInd => (Keys!Created /\ works # None /\ ~keyDoubt => Head(keyCalls).asked)
  BY DEF KeysInd, Orderly, Keys!Created, Keys!IsNext
<1>3. Keys!Init => KeysInd
  BY KeysInitInd
<1>4. KeysInd /\ [Keys!Next]_Keys!vars => KeysInd'
  BY KeysNextInd
<1> QED
  BY <1>1, <1>2, <1>3, <1>4, PTL DEF Keys!Spec, Keys!ReplacedWhenAsked

-----------------------------------------------------------------------------
(* The session of a document *)

DocumentConstants == MaxKeys \in Nat /\ MaxVisits \in Nat \ {0} /\ None \notin Nat

Load   == {"first", "again"}
AskRow == [op : {"config", "key", "create", "delete", "login", "logout"}, load : {None}]
CallRow == AskRow \cup [op : {"profile"}, load : Load]

\* Of the calls in a queue, each load of the profile is there once and has its
\* attempts, and one creation at most is there, which has room.
QueueOK(q, attempts, created) ==
    /\ q \in Seq(CallRow)
    /\ \A i \in DOMAIN q : q[i].op = "profile" => attempts[q[i].load] \in 0..2
    /\ \A i \in DOMAIN q : q[i].op = "create" => created < MaxKeys
    /\ \A i, j \in DOMAIN q : q[i] = q[j] /\ q[i].op \in {"profile", "create"} => i = j

\* Calls whose answers show a key.
ShowsLater(q) == \E i \in DOMAIN q : q[i].op \in {"key", "create"}

\* A document that has taken its user for gone has no session behind it.
DocumentInd ==
    /\ TypeOK /\ QueueOK(calls, loads, keys) /\ KeyNeedsUser /\ KeyIsCurrent
    /\ page # "left" /\ ShowsLater(calls) => user \/ ~session

LEMMA QueueServed ==
  ASSUME NEW q, NEW attempts, NEW created, QueueOK(q, attempts, created), q # <<>>
  PROVE  /\ Head(q) \in CallRow /\ Tail(q) \in Seq(CallRow) /\ QueueOK(Tail(q), attempts, created)
         /\ ShowsLater(Tail(q)) => ShowsLater(q)
         /\ Head(q).op = "profile" => attempts[Head(q).load] \in 0..2
         /\ Head(q).op = "create" => created < MaxKeys
         /\ \A i \in DOMAIN Tail(q) : Head(q).op \in {"profile", "create"} => Tail(q)[i] # Head(q)
         /\ Head(q).op \in {"key", "create"} => ShowsLater(q)
<1>1. q \in Seq(CallRow) /\ q # <<>>
  BY DEF QueueOK
<1>2. /\ Head(q) \in CallRow /\ Head(q) = q[1] /\ 1 \in DOMAIN q
      /\ Tail(q) \in Seq(CallRow) /\ Len(Tail(q)) = Len(q) - 1
      /\ \A i \in DOMAIN Tail(q) : i + 1 \in DOMAIN q /\ i \in Nat \ {0} /\ Tail(q)[i] = q[i + 1]
  BY <1>1
<1>3. \A i \in DOMAIN Tail(q) : Head(q).op \in {"profile", "create"} => Tail(q)[i] # Head(q)
  <2> SUFFICES ASSUME NEW i \in DOMAIN Tail(q), Head(q).op \in {"profile", "create"}, Tail(q)[i] = Head(q)
               PROVE  FALSE
    OBVIOUS
  <2>1. q[1] = q[i + 1] /\ i + 1 # 1
    BY <1>2
  <2> QED
    BY <1>2, <2>1 DEF QueueOK
<1>4. QueueOK(Tail(q), attempts, created)
  <2>1. /\ \A i \in DOMAIN Tail(q) : Tail(q)[i].op = "profile" => attempts[Tail(q)[i].load] \in 0..2
        /\ \A i \in DOMAIN Tail(q) : Tail(q)[i].op = "create" => created < MaxKeys
    BY <1>2 DEF QueueOK
  <2>2. ASSUME NEW i \in DOMAIN Tail(q), NEW j \in DOMAIN Tail(q), Tail(q)[i] = Tail(q)[j],
               Tail(q)[i].op \in {"profile", "create"}
        PROVE  i = j
    <3>1. i + 1 = j + 1
      BY <1>2, <2>2 DEF QueueOK
    <3> QED
      BY <1>2, <3>1
  <2> QED
    BY <1>2, <2>1, <2>2 DEF QueueOK
<1>5. ShowsLater(Tail(q)) => ShowsLater(q)
  BY <1>2 DEF ShowsLater
<1>6. /\ Head(q).op = "profile" => attempts[Head(q).load] \in 0..2
      /\ Head(q).op = "create" => created < MaxKeys
      /\ Head(q).op \in {"key", "create"} => ShowsLater(q)
  BY <1>2 DEF QueueOK, ShowsLater
<1> QED
  BY <1>2, <1>3, <1>4, <1>5, <1>6

LEMMA QueueJoined ==
  ASSUME NEW q, NEW attempts, NEW created, QueueOK(q, attempts, created), NEW c \in CallRow,
         c.op = "profile" => attempts[c.load] \in 0..2,
         c.op = "create" => created < MaxKeys,
         c.op \in {"profile", "create"} => \A i \in DOMAIN q : q[i] # c
  PROVE  /\ QueueOK(Append(q, c), attempts, created)
         /\ ShowsLater(Append(q, c)) => ShowsLater(q) \/ c.op \in {"key", "create"}
<1>1. q \in Seq(CallRow)
  BY DEF QueueOK
<1>2. /\ Append(q, c) \in Seq(CallRow) /\ DOMAIN Append(q, c) = DOMAIN q \cup {Len(q) + 1}
      /\ Append(q, c)[Len(q) + 1] = c /\ \A i \in DOMAIN q : Append(q, c)[i] = q[i]
  BY <1>1
<1> DEFINE r == Append(q, c)
<1> HIDE DEF r
<1>3. /\ \A i \in DOMAIN r : r[i].op = "profile" => attempts[r[i].load] \in 0..2
      /\ \A i \in DOMAIN r : r[i].op = "create" => created < MaxKeys
      /\ \A i, j \in DOMAIN r : r[i] = r[j] /\ r[i].op \in {"profile", "create"} => i = j
  BY <1>2 DEF QueueOK, r
<1>4. ShowsLater(r) => ShowsLater(q) \/ c.op \in {"key", "create"}
  BY <1>2 DEF ShowsLater, r
<1> QED
  BY <1>2, <1>3, <1>4 DEF QueueOK, r

\* The attempts of a load that is not waiting, and a key, change nothing in the queue.
LEMMA QueueKept ==
  ASSUME NEW q, NEW attempts, NEW created, QueueOK(q, attempts, created), NEW then, NEW later,
         \A i \in DOMAIN q : q[i].op = "profile" =>
             then[q[i].load] = attempts[q[i].load] \/ then[q[i].load] \in 0..2,
         later = created \/ \A i \in DOMAIN q : q[i].op # "create"
  PROVE  QueueOK(q, then, later)
  BY DEF QueueOK

\* Another row with the operation and the load of the head is the head.
LEMMA SameCall ==
  ASSUME NEW c \in CallRow, NEW d \in CallRow, c.op = d.op, c.op = "profile" => c.load = d.load
  PROVE  c = d
<1>1. CASE c.op = "profile"
  <2>1. c \in [op : {"profile"}, load : Load] /\ d \in [op : {"profile"}, load : Load]
    BY <1>1 DEF CallRow, AskRow
  <2> QED
    BY <1>1, <2>1
<1>2. CASE c.op # "profile"
  <2>1. c \in AskRow /\ d \in AskRow
    BY <1>2 DEF CallRow
  <2> QED
    BY <2>1 DEF AskRow
<1> QED
  BY <1>1, <1>2

\* What SetAuth leaves, whatever it is given.
LEMMA AuthSet ==
  ASSUME TypeOK, NEW u \in BOOLEAN, NEW loading \in BOOLEAN, NEW e \in BOOLEAN, NEW rest,
         SetAuth(u, loading, e, rest)
  PROVE  /\ user' = u /\ authLoading' = loading /\ error' = e /\ config' = config
         /\ apiKey' \in {apiKey, None} /\ (~u /\ user /\ ~loading => apiKey' = None)
         /\ calls' = rest \/ (u /\ calls' = Append(rest, Call("key")))
         /\ keyLoading' \in BOOLEAN /\ timedOut' \in BOOLEAN /\ hasInitialized' \in BOOLEAN
         /\ page' \in {"protected", "login", "left"} /\ (page' # "left" => page # "left")
<1>1. user' = u /\ authLoading' = loading /\ error' = e /\ config' = config
  BY DEF SetAuth
<1>2. /\ config \in BOOLEAN /\ user \in BOOLEAN /\ keyLoading \in BOOLEAN /\ hasInitialized \in BOOLEAN
      /\ page \in {"protected", "login", "left"}
  BY DEF TypeOK
<1>3. /\ apiKey' \in {apiKey, None} /\ (~u /\ user /\ ~loading => apiKey' = None)
      /\ calls' = rest \/ (u /\ calls' = Append(rest, Call("key")))
      /\ keyLoading' \in BOOLEAN
  <2>1. LoadApiKey(u, loading, rest)
    BY DEF SetAuth
  <2>2. CASE loading \/ (u = user /\ loading = authLoading)
    BY <1>2, <2>1, <2>2 DEF LoadApiKey, keyState
  <2>3. CASE ~(loading \/ (u = user /\ loading = authLoading))
    <3>1. /\ keyLoading' = u /\ apiKey' = IF u THEN apiKey ELSE None
          /\ calls' = IF u THEN Append(rest, Call("key")) ELSE rest
      BY <2>1, <2>3 DEF LoadApiKey
    <3> QED
      BY <3>1
  <2> QED
    BY <2>2, <2>3
<1>4. Settle
  BY DEF SetAuth
<1>5. timedOut' \in BOOLEAN /\ hasInitialized' \in BOOLEAN
  BY <1>4 DEF Settle, Initialize
<1>6. page' \in {"protected", "login", "left"} /\ (page' # "left" => page # "left")
  BY <1>2, <1>4 DEF Settle, Route
<1> QED
  BY <1>1, <1>3, <1>5, <1>6

\* A step that ends, begins or fails a load of the profile.
LEMMA LoadInd ==
  ASSUME DocumentConstants, DocumentInd, NEW u \in BOOLEAN, NEW loading \in BOOLEAN,
         NEW e \in BOOLEAN, NEW rest, SetAuth(u, loading, e, rest),
         UNCHANGED <<session, keys, key, visits, busy>>, lost' \in {"no", "thrown", "hung"},
         lost' = "no" => lost = "no",
         loads' \in [{"first", "again"} -> 0..2 \cup {None}],
         QueueOK(rest, loads', keys), ShowsLater(rest) => ShowsLater(calls),
         u = user \/ (u = session /\ ~loading)
  PROVE  DocumentInd'
<1>1. /\ TypeOK /\ user \in BOOLEAN /\ session \in BOOLEAN /\ keys \in 0..MaxKeys + 1
      /\ key \in (1..keys) \cup {None} /\ visits \in 1..MaxVisits /\ busy \in BOOLEAN
      /\ apiKey \in (1..keys) \cup {None} /\ config \in BOOLEAN
  BY DEF DocumentInd, TypeOK
<1>2. /\ user' = u /\ authLoading' = loading /\ error' = e /\ config' = config
      /\ apiKey' \in {apiKey, None} /\ (~u /\ user /\ ~loading => apiKey' = None)
      /\ calls' = rest \/ (u /\ calls' = Append(rest, Call("key")))
      /\ keyLoading' \in BOOLEAN /\ timedOut' \in BOOLEAN /\ hasInitialized' \in BOOLEAN
      /\ page' \in {"protected", "login", "left"} /\ (page' # "left" => page # "left")
  BY <1>1, AuthSet
<1>3. TypeOK'
  BY <1>1, <1>2 DEF TypeOK
<1>4. Call("key") \in CallRow /\ Call("key").op = "key"
  BY DEF Call, CallRow, AskRow
<1>5. QueueOK(Append(rest, Call("key")), loads', keys)
  BY <1>4, QueueJoined
<1>6. QueueOK(calls, loads, keys)'
  BY <1>2, <1>5
<1>7. page' # "left" /\ apiKey' # None => user'
  <2> SUFFICES ASSUME page' # "left", apiKey' # None, ~u PROVE FALSE
    BY <1>2
  <2>1. user
    BY <1>2 DEF DocumentInd, KeyNeedsUser
  <2> QED
    BY <1>2, <2>1
<1>8. KeyIsCurrent'
  BY <1>2 DEF DocumentInd, KeyIsCurrent
<1>9. ASSUME page' # "left", ShowsLater(calls)', ~user'
      PROVE  ~session'
  <2>1. ~u /\ page # "left"
    BY <1>2, <1>9
  <2>2. CASE u = session
    BY <2>1, <2>2
  <2>3. CASE u = user
    <3>1. calls' = rest
      BY <1>2, <2>1
    <3>2. ShowsLater(calls)
      BY <1>9, <3>1 DEF ShowsLater
    <3> QED
      BY <2>1, <2>3, <3>2 DEF DocumentInd
  <2> QED
    BY <2>2, <2>3
<1> QED
  BY <1>3, <1>6, <1>7, <1>8, <1>9 DEF DocumentInd, KeyNeedsUser

\* The answer of a call at the head of the queue.
LEMMA AnswerFacts ==
  ASSUME DocumentConstants, DocumentInd, Next1st
  PROVE  /\ page # "left" /\ Head(calls) \in CallRow /\ QueueOK(Rest, loads, keys)
         /\ ShowsLater(Rest) => ShowsLater(calls)
         /\ Head(calls).op = "profile" =>
               /\ Head(calls).load \in Load /\ loads[Head(calls).load] \in 0..2
               /\ \A then : (\E a \in 0..2 \cup {None} : then = [loads EXCEPT ![Head(calls).load] = a]) =>
                     then \in [{"first", "again"} -> 0..2 \cup {None}] /\ QueueOK(Rest, then, keys)
         /\ Head(calls).op = "create" => keys < MaxKeys /\ \A created \in Nat : QueueOK(Rest, loads, created)
         /\ Head(calls).op \in {"key", "create"} => ShowsLater(calls)
<1>1. page # "left" /\ calls # <<>> /\ QueueOK(calls, loads, keys)
      /\ loads \in [{"first", "again"} -> 0..2 \cup {None}]
  BY DEF Next1st, DocumentInd, TypeOK
<1>2. /\ Head(calls) \in CallRow /\ Rest \in Seq(CallRow) /\ QueueOK(Rest, loads, keys)
      /\ ShowsLater(Rest) => ShowsLater(calls)
      /\ Head(calls).op = "profile" => loads[Head(calls).load] \in 0..2
      /\ Head(calls).op = "create" => keys < MaxKeys
      /\ \A i \in DOMAIN Rest : Head(calls).op \in {"profile", "create"} => Rest[i] # Head(calls)
      /\ Head(calls).op \in {"key", "create"} => ShowsLater(calls)
  BY <1>1, QueueServed DEF Rest
<1>3. \A i \in DOMAIN Rest : Rest[i] \in CallRow
  BY <1>2
<1>4. ASSUME Head(calls).op = "profile"
      PROVE  /\ Head(calls).load \in Load
             /\ \A then : (\E a \in 0..2 \cup {None} : then = [loads EXCEPT ![Head(calls).load] = a]) =>
                   then \in [{"first", "again"} -> 0..2 \cup {None}] /\ QueueOK(Rest, then, keys)
  <2>1. Head(calls).load \in Load
    BY <1>2, <1>4 DEF CallRow, AskRow
  <2>2. \A i \in DOMAIN Rest : Rest[i].op = "profile" => Rest[i].load # Head(calls).load
    BY <1>2, <1>3, <1>4, SameCall
  <2>3. \A i \in DOMAIN Rest : Rest[i].op = "profile" => Rest[i].load \in Load
    BY <1>3 DEF CallRow, AskRow
  <2>4. ASSUME NEW then, NEW a \in 0..2 \cup {None}, then = [loads EXCEPT ![Head(calls).load] = a]
        PROVE  then \in [{"first", "again"} -> 0..2 \cup {None}] /\ QueueOK(Rest, then, keys)
    <3>1. then \in [{"first", "again"} -> 0..2 \cup {None}]
      BY <1>1, <2>1, <2>4 DEF Load
    <3>2. \A i \in DOMAIN Rest : Rest[i].op = "profile" => then[Rest[i].load] = loads[Rest[i].load]
      BY <1>1, <2>1, <2>2, <2>3, <2>4 DEF Load
    <3> QED
      BY <1>2, <3>1, <3>2, QueueKept
  <2> QED
    BY <2>1, <2>4
<1>5. ASSUME Head(calls).op = "create"
      PROVE  \A created \in Nat : QueueOK(Rest, loads, created)
  <2>1. \A i \in DOMAIN Rest : Rest[i].op # "create"
    BY <1>2, <1>3, <1>5, SameCall
  <2> QED
    BY <1>2, <2>1, QueueKept
<1> QED
  BY <1>1, <1>2, <1>4, <1>5

LEMMA ProfileInd ==
  ASSUME DocumentConstants, DocumentInd, ProfileAnswered \/ ProfileFailed \/ ProfileRejected
  PROVE  DocumentInd'
<1> DEFINE l == Head(calls).load
<1>1. Next1st /\ Head(calls).op = "profile"
  BY DEF ProfileAnswered, ProfileFailed, ProfileRejected, Op
<1>2. /\ QueueOK(Rest, loads, keys)
      /\ ShowsLater(Rest) => ShowsLater(calls)
      /\ l \in Load /\ loads[l] \in 0..2
      /\ \A then : (\E a \in 0..2 \cup {None} : then = [loads EXCEPT ![l] = a]) =>
            then \in [{"first", "again"} -> 0..2 \cup {None}] /\ QueueOK(Rest, then, keys)
  BY <1>1, AnswerFacts
<1>3. /\ user \in BOOLEAN /\ session \in BOOLEAN /\ error \in BOOLEAN
      /\ lost \in {"no", "thrown", "hung"} /\ loads \in [{"first", "again"} -> 0..2 \cup {None}]
  BY DEF DocumentInd, TypeOK
<1>4. UNCHANGED <<session, keys, key, visits, busy>>
  BY DEF ProfileAnswered, ProfileFailed, ProfileRejected, server
<1>5. ASSUME loads' = [loads EXCEPT ![l] = None]
      PROVE  loads' \in [{"first", "again"} -> 0..2 \cup {None}] /\ QueueOK(Rest, loads', keys)
  BY <1>2, <1>5
<1>6. CASE ProfileAnswered
  <2>1. loads' = [loads EXCEPT ![l] = None] /\ SetAuth(session, FALSE, FALSE, Rest) /\ lost' = lost
    BY <1>6 DEF ProfileAnswered
  <2> QED
    BY <1>2, <1>3, <1>4, <1>5, <2>1, LoadInd
<1>7. CASE ProfileFailed
  <2>1. lost' = lost
    BY <1>7 DEF ProfileFailed
  <2>2. CASE loads[l] < 2
    <3>1. /\ loads' = [loads EXCEPT ![l] = loads[l] + 1] /\ calls' = Rest
          /\ UNCHANGED <<config, user, authLoading, error, keyState, init, page>>
      BY <1>7, <2>2 DEF ProfileFailed
    <3>2. loads[l] + 1 \in 0..2
      BY <1>2, <2>2
    <3>3. loads' \in [{"first", "again"} -> 0..2 \cup {None}] /\ QueueOK(calls, loads, keys)'
      BY <1>2, <1>4, <3>1, <3>2
    <3>4. UNCHANGED <<apiKey, keyLoading, timedOut, hasInitialized>>
      BY <3>1 DEF keyState, init
    <3>5. TypeOK'
      BY <1>4, <2>1, <3>1, <3>3, <3>4 DEF DocumentInd, TypeOK
    <3>6. ShowsLater(calls)' => ShowsLater(calls)
      BY <1>2, <3>1 DEF ShowsLater
    <3> QED
      BY <1>4, <2>1, <3>1, <3>3, <3>4, <3>5, <3>6 DEF DocumentInd, KeyNeedsUser, KeyIsCurrent
  <2>3. CASE ~(loads[l] < 2)
    <3>1. loads' = [loads EXCEPT ![l] = None] /\ SetAuth(user, FALSE, TRUE, Rest)
      BY <1>7, <2>3 DEF ProfileFailed
    <3> QED
      BY <1>2, <1>3, <1>4, <1>5, <2>1, <3>1, LoadInd
  <2> QED
    BY <2>2, <2>3
<1>8. CASE ProfileRejected
  <2> DEFINE stays == l = "again"
  <2>1. /\ loads' = [loads EXCEPT ![l] = None] /\ SetAuth(user, stays, error, Rest)
        /\ lost' = "thrown" /\ stays \in BOOLEAN
    BY <1>8 DEF ProfileRejected
  <2> HIDE DEF stays
  <2> QED
    BY <1>2, <1>3, <1>4, <1>5, <2>1, LoadInd
<1> QED
  BY <1>6, <1>7, <1>8

LEMMA RefreshInd ==
  ASSUME DocumentConstants, DocumentInd, RefreshUser
  PROVE  DocumentInd'
<1> DEFINE rest == Append(calls, Profile("again"))
           then == [loads EXCEPT !["again"] = 0]
<1>1. /\ loads["again"] = None /\ loads' = then /\ SetAuth(user, TRUE, error, rest)
      /\ UNCHANGED <<session, keys, key, lost, visits, busy>>
  BY DEF RefreshUser, server
<1>2. /\ user \in BOOLEAN /\ error \in BOOLEAN /\ lost \in {"no", "thrown", "hung"}
      /\ loads \in [{"first", "again"} -> 0..2 \cup {None}] /\ QueueOK(calls, loads, keys)
  BY DEF DocumentInd, TypeOK
<1>3. calls \in Seq(CallRow) /\ \A i \in DOMAIN calls : calls[i].op = "profile" => calls[i].load # "again"
  BY <1>1, <1>2 DEF QueueOK, DocumentConstants
<1>4. \A i \in DOMAIN calls : calls[i].op = "profile" => calls[i].load \in {"first", "again"}
  <2>1. \A i \in DOMAIN calls : calls[i] \in CallRow
    BY <1>3
  <2> QED
    BY <2>1 DEF CallRow, AskRow, Load
<1>5. then \in [{"first", "again"} -> 0..2 \cup {None}] /\ then["again"] = 0
      /\ \A i \in DOMAIN calls : calls[i].op = "profile" => then[calls[i].load] = loads[calls[i].load]
  BY <1>2, <1>3, <1>4
<1> HIDE DEF then
<1>6. QueueOK(calls, then, keys)
  BY <1>2, <1>5, QueueKept
<1>7. /\ Profile("again") \in CallRow /\ Profile("again").op = "profile"
      /\ Profile("again").load = "again"
  BY DEF Profile, CallRow, Load
<1>8. QueueOK(rest, then, keys) /\ (ShowsLater(rest) => ShowsLater(calls))
  <2>1. \A i \in DOMAIN calls : calls[i] # Profile("again")
    BY <1>3, <1>7
  <2> QED
    BY <1>5, <1>6, <1>7, <2>1, QueueJoined
<1> HIDE DEF rest
<1> QED
  BY <1>1, <1>2, <1>5, <1>8, LoadInd

\* A step that leaves the load of the profile as it is, and may answer a call, add
\* one, or change the key.
LEMMA QuietInd ==
  ASSUME DocumentConstants, DocumentInd, NEW q, QueueOK(q, loads, keys'), calls' = q,
         UNCHANGED <<visits, user, authLoading, loads>>,
         session' \in BOOLEAN, session' => session,
         keys' \in keys..MaxKeys + 1, key' \in (1..keys') \cup {None},
         lost' \in {"no", "thrown", "hung"},
         {config', error', keyLoading', timedOut', hasInitialized', busy'} \subseteq BOOLEAN,
         page' \in {"protected", "login", "left"}, page' # "left" => page # "left",
         apiKey' \in (1..keys') \cup {None},
         page' # "left" /\ ShowsLater(q) => ShowsLater(calls) \/ user,
         apiKey' # None => apiKey' = apiKey \/ user \/ (session /\ ShowsLater(calls)),
         lost' = "no" => apiKey' \in {None, key'}
  PROVE  DocumentInd'
<1>1. /\ TypeOK /\ keys \in 0..MaxKeys + 1 /\ visits \in 1..MaxVisits /\ user \in BOOLEAN
      /\ authLoading \in BOOLEAN /\ loads \in [{"first", "again"} -> 0..2 \cup {None}]
  BY DEF DocumentInd, TypeOK
<1>2. keys' \in 0..MaxKeys + 1
  BY <1>1 DEF DocumentConstants
<1>3. TypeOK'
  BY <1>1, <1>2 DEF TypeOK
<1>4. QueueOK(calls, loads, keys)' /\ KeyIsCurrent'
  BY DEF KeyIsCurrent
<1>5. ASSUME page' # "left", apiKey' # None
      PROVE  user'
  BY <1>5 DEF DocumentInd, KeyNeedsUser
<1>6. ASSUME page' # "left", ShowsLater(calls)'
      PROVE  user' \/ ~session'
  <2>1. ShowsLater(q)
    BY <1>6 DEF ShowsLater
  <2> QED
    BY <1>6, <2>1 DEF DocumentInd
<1> QED
  BY <1>3, <1>4, <1>5, <1>6 DEF DocumentInd, KeyNeedsUser

LEMMA KeyAnswerInd ==
  ASSUME DocumentConstants, DocumentInd,
         \/ KeyAnswered \/ KeyFailed \/ CreateAnswered \/ DeleteAnswered \/ KeyChangeRefused
         \/ CallRejected
  PROVE  DocumentInd'
<1>1. Next1st /\ calls' = Rest
      /\ UNCHANGED <<visits, user, authLoading, loads, config, error, timedOut, hasInitialized, page, busy>>
  BY DEF KeyAnswered, KeyFailed, CreateAnswered, DeleteAnswered, KeyChangeRefused, CallRejected, Op,
         auth, init
<1>2. /\ QueueOK(Rest, loads, keys)
      /\ ShowsLater(Rest) => ShowsLater(calls)
      /\ Head(calls).op = "create" => keys < MaxKeys /\ \A created \in Nat : QueueOK(Rest, loads, created)
      /\ Head(calls).op \in {"key", "create"} => ShowsLater(calls)
  BY <1>1, AnswerFacts
<1>3. /\ session \in BOOLEAN /\ keys \in 0..MaxKeys + 1 /\ key \in (1..keys) \cup {None}
      /\ lost \in {"no", "thrown", "hung"} /\ page \in {"protected", "login", "left"}
      /\ {config, error, keyLoading, timedOut, hasInitialized, busy} \subseteq BOOLEAN
      /\ apiKey \in (1..keys) \cup {None}
      /\ lost = "no" => apiKey \in {None, key}
  BY DEF DocumentInd, TypeOK, KeyIsCurrent
<1>4. {config', error', timedOut', hasInitialized', busy'} \subseteq BOOLEAN
  BY <1>1, <1>3
<1>5. CASE /\ UNCHANGED <<session, keys, key, lost>> /\ keyLoading' \in BOOLEAN
           /\ \/ apiKey' \in {None, apiKey}
              \/ apiKey' = key /\ session /\ ShowsLater(calls)
  BY <1>1, <1>2, <1>3, <1>4, <1>5, QuietInd
<1>6. CASE /\ Head(calls).op = "create" /\ session /\ keyLoading' = keyLoading /\ UNCHANGED session
           /\ keys' = keys + 1 /\ key' = keys + 1
           /\ \/ lost' = lost /\ apiKey' = keys + 1
              \/ lost' = "thrown" /\ apiKey' = apiKey
  <2>1. keys' \in keys..MaxKeys + 1 /\ keys' \in Nat /\ key' \in (1..keys') \cup {None}
        /\ keys + 1 \in 1..keys' /\ apiKey \in (1..keys') \cup {None}
    BY <1>2, <1>3, <1>6 DEF DocumentConstants
  <2>2. QueueOK(Rest, loads, keys')
    BY <1>2, <1>6, <2>1
  <2>3. apiKey' \in (1..keys') \cup {None} /\ (lost' = "no" => apiKey' \in {None, key'})
    BY <1>6, <2>1
  <2>4. apiKey' # None => apiKey' = apiKey \/ user \/ (session /\ ShowsLater(calls))
    BY <1>2, <1>6
  <2>5. lost' \in {"no", "thrown", "hung"} /\ keyLoading' \in BOOLEAN /\ session' \in BOOLEAN /\ (session' => session)
    BY <1>3, <1>6
  <2> QED
    BY <1>1, <1>2, <1>3, <1>4, <2>1, <2>2, <2>3, <2>4, <2>5, QuietInd
<1>7. CASE /\ UNCHANGED <<session, keys, keyLoading>> /\ key' \in {None, key}
           /\ \/ lost' = lost /\ apiKey' = None
              \/ lost' = "thrown" /\ apiKey' = apiKey
  BY <1>1, <1>2, <1>3, <1>4, <1>7, QuietInd
<1>8. CASE KeyAnswered
  BY <1>2, <1>5, <1>8 DEF KeyAnswered, Op, server
<1>9. CASE KeyFailed
  BY <1>5, <1>9 DEF KeyFailed, server
<1>10. CASE CreateAnswered
  BY <1>6, <1>10 DEF CreateAnswered, NewKey, Op
<1>11. CASE DeleteAnswered
  BY <1>7, <1>11 DEF DeleteAnswered
<1>12. CASE KeyChangeRefused
  BY <1>3, <1>5, <1>12 DEF KeyChangeRefused, server, keyState
<1>13. CASE CallRejected
  <2>1. lost' = "thrown" /\ apiKey' = apiKey /\ keyLoading' = keyLoading
        /\ \/ UNCHANGED <<session, keys, key>>
           \/ Head(calls).op = "create" /\ session /\ NewKey
           \/ key' = None /\ UNCHANGED <<session, keys>>
    BY <1>13 DEF CallRejected, server, keyState
  <2> QED
    BY <1>6, <1>7, <2>1 DEF NewKey
<1> QED
  BY <1>8, <1>9, <1>10, <1>11, <1>12, <1>13

LEMMA ConfigInd ==
  ASSUME DocumentConstants, DocumentInd, ConfigAnswered
  PROVE  DocumentInd'
<1>1. /\ Next1st /\ calls' = Rest /\ config' = FALSE /\ Settle
      /\ UNCHANGED <<session, keys, key, lost, visits, user, authLoading, error, loads, apiKey, keyLoading, busy>>
  BY DEF ConfigAnswered, Op, server, auth, keyState
<1>2. /\ QueueOK(Rest, loads, keys)
      /\ ShowsLater(Rest) => ShowsLater(calls)
  BY <1>1, AnswerFacts
<1>3. /\ TypeOK /\ page \in {"protected", "login", "left"} /\ hasInitialized \in BOOLEAN
      /\ lost = "no" => apiKey \in {None, key}
  BY DEF DocumentInd, TypeOK, KeyIsCurrent
<1>4. /\ timedOut' \in BOOLEAN /\ hasInitialized' \in BOOLEAN
      /\ page' \in {"protected", "login", "left"} /\ (page' # "left" => page # "left")
  BY <1>1, <1>3 DEF Settle, Initialize, Route
<1>5. TypeOK'
  BY <1>1, <1>3, <1>4 DEF TypeOK
<1>6. ShowsLater(calls)' => ShowsLater(calls)
  BY <1>1, <1>2 DEF ShowsLater
<1> QED
  BY <1>1, <1>2, <1>3, <1>4, <1>5, <1>6 DEF DocumentInd, KeyNeedsUser, KeyIsCurrent

\* A press of a button, and another attempt at the profile.
LEMMA AskInd ==
  ASSUME DocumentConstants, DocumentInd,
         Logout \/ Login \/ CreateApiKey \/ DeleteApiKey \/ \E l \in {"first", "again"} : Retry(l)
  PROVE  DocumentInd'
<1>1. PICK c \in CallRow :
        /\ calls' = Append(calls, c)
        /\ c.op = "profile" => loads[c.load] \in 0..2
        /\ c.op = "create" => keys < MaxKeys /\ user
        /\ c.op # "key"
        /\ \A i \in DOMAIN calls : calls[i] # c
  <2>1. CASE \E l \in {"first", "again"} : Retry(l)
    <3>1. PICK l \in Load : Retry(l)
      BY <2>1 DEF Load
    <3>2. /\ Profile(l) \in CallRow /\ Profile(l).op = "profile" /\ Profile(l).load = l
      BY DEF Profile, CallRow
    <3> QED
      BY <3>1, <3>2 DEF Retry
  <2>2. CASE Logout \/ Login \/ CreateApiKey \/ DeleteApiKey
    <3>1. PICK op \in {"logout", "login", "create", "delete"} :
            Ask(op) /\ (op = "create" => keys < MaxKeys /\ user)
      BY <2>2 DEF Logout, Login, CreateApiKey, DeleteApiKey
    <3>2. Call(op) \in CallRow /\ Call(op).op = op
      BY DEF Call, CallRow, AskRow
    <3> QED
      BY <3>1, <3>2 DEF Ask
  <2> QED
    BY <2>1, <2>2
<1>2. /\ UNCHANGED <<session, keys, key, lost, visits, config, user, authLoading, loads, apiKey,
                     keyLoading, timedOut, hasInitialized, page>>
      /\ {error', busy'} \subseteq BOOLEAN
  <2>1. CASE Login
    BY <2>1 DEF Login, Ask, server, keyState, init
  <2>2. CASE Logout \/ CreateApiKey \/ DeleteApiKey
    BY <2>2 DEF Logout, CreateApiKey, DeleteApiKey, Ask, server, auth, keyState, init, DocumentInd, TypeOK
  <2>3. CASE \E l \in {"first", "again"} : Retry(l)
    BY <2>3 DEF Retry, server, auth, keyState, init, DocumentInd, TypeOK
  <2> QED
    BY <2>1, <2>2, <2>3
<1>3. /\ QueueOK(Append(calls, c), loads, keys)
      /\ ShowsLater(Append(calls, c)) => ShowsLater(calls) \/ user
  BY <1>1, QueueJoined DEF DocumentInd
<1>4. /\ session \in BOOLEAN /\ keys \in 0..MaxKeys + 1 /\ key \in (1..keys) \cup {None}
      /\ lost \in {"no", "thrown", "hung"} /\ page \in {"protected", "login", "left"}
      /\ {config, keyLoading, timedOut, hasInitialized} \subseteq BOOLEAN
      /\ apiKey \in (1..keys) \cup {None}
      /\ lost = "no" => apiKey \in {None, key}
  BY DEF DocumentInd, TypeOK, KeyIsCurrent
<1>5. keys' \in keys..MaxKeys + 1
  BY <1>2, <1>4 DEF DocumentConstants
<1> DEFINE q == Append(calls, c)
<1> HIDE DEF q
<1>6. /\ calls' = q /\ QueueOK(q, loads, keys')
      /\ page' # "left" /\ ShowsLater(q) => ShowsLater(calls) \/ user
  BY <1>1, <1>2, <1>3 DEF q
<1>7. /\ {config', error', keyLoading', timedOut', hasInitialized', busy'} \subseteq BOOLEAN
      /\ session' \in BOOLEAN /\ (session' => session)
  BY <1>2, <1>4
<1> QED
  BY <1>2, <1>4, <1>5, <1>6, <1>7, QuietInd

\* The calls of a document that is loaded.
LEMMA FreshCalls ==
  ASSUME NEW created
  PROVE  LET q == <<Profile("first"), Call("config")>>
         IN  QueueOK(q, [first |-> 0, again |-> None], created) /\ ~ShowsLater(q)
<1> DEFINE p == Profile("first")
           c == Call("config")
<1>1. p \in CallRow /\ c \in CallRow /\ p.op = "profile" /\ p.load = "first" /\ c.op = "config"
  BY DEF Profile, Call, CallRow, AskRow, Load
<1> HIDE DEF p, c
<1> DEFINE q == <<p, c>>
<1>2. q \in Seq(CallRow) /\ DOMAIN q = {1, 2} /\ q[1] = p /\ q[2] = c
  BY <1>1
<1> HIDE DEF q
<1>3. QueueOK(q, [first |-> 0, again |-> None], created) /\ ~ShowsLater(q)
  BY <1>1, <1>2 DEF QueueOK, ShowsLater
<1> QED
  BY <1>3 DEF q, p, c

\* The document is left, loaded or goes on, and its queue is empty or as it was.
LEMMA BrowserInd ==
  ASSUME DocumentConstants, DocumentInd,
         \/ LogoutAnswered \/ LogoutRefused \/ LoginAnswered \/ LoginRefused
         \/ TimeOut \/ Hang \/ SessionExpires \/ Visit
  PROVE  DocumentInd'
<1>1. TypeOK /\ QueueOK(calls, loads, keys) /\ calls \in Seq(CallRow)
  BY DEF DocumentInd, QueueOK
<1>2. QueueOK(<<>>, loads, keys)
  BY DEF QueueOK
<1>3. CASE LogoutAnswered
  <2>1. /\ UNCHANGED <<keys, key, lost, visits, config, authLoading, loads, apiKey, keyLoading, timedOut,
                       hasInitialized, busy>>
        /\ session' = FALSE /\ page' = "left" /\ user' = FALSE /\ error' = FALSE /\ calls' = <<>>
    BY <1>3 DEF LogoutAnswered, keyState, init
  <2>2. TypeOK'
    BY <1>1, <2>1 DEF TypeOK
  <2> QED
    BY <1>2, <2>1, <2>2 DEF DocumentInd, KeyNeedsUser, KeyIsCurrent
<1>4. CASE LoginAnswered
  <2>1. /\ UNCHANGED <<keys, key, lost, visits, config, authLoading, error, loads, apiKey, keyLoading,
                       timedOut, hasInitialized, busy>>
        /\ session' = TRUE /\ page' = "left" /\ user' = TRUE /\ calls' = <<>>
    BY <1>4 DEF LoginAnswered, keyState, init
  <2>2. TypeOK'
    BY <1>1, <2>1 DEF TypeOK
  <2> QED
    BY <1>2, <2>1, <2>2 DEF DocumentInd, KeyNeedsUser, KeyIsCurrent
<1>5. CASE LoginRefused \/ LogoutRefused
  <2>1. /\ Next1st /\ calls' = Rest /\ error' = TRUE /\ busy' \in BOOLEAN /\ page' \in {page, "left"}
        /\ UNCHANGED <<session, keys, key, lost, visits, config, user, authLoading, loads, apiKey, keyLoading,
                       timedOut, hasInitialized>>
    BY <1>1, <1>5 DEF LoginRefused, LogoutRefused, Op, server, keyState, init, TypeOK
  <2>2. /\ QueueOK(Rest, loads, keys)
        /\ ShowsLater(Rest) => ShowsLater(calls)
    BY <2>1, AnswerFacts
  <2>3. TypeOK'
    BY <1>1, <2>1 DEF TypeOK
  <2>4. ShowsLater(calls)' => ShowsLater(calls)
    BY <2>1, <2>2 DEF ShowsLater
  <2> QED
    BY <2>1, <2>2, <2>3, <2>4 DEF DocumentInd, KeyNeedsUser, KeyIsCurrent
<1>6. CASE TimeOut \/ Hang
  <2>1. /\ UNCHANGED <<session, keys, key, calls, visits, config, user, authLoading, error, loads, apiKey,
                       keyLoading, hasInitialized, page, busy>>
        /\ timedOut' \in BOOLEAN /\ lost' \in {lost, "hung"}
    BY <1>1, <1>6 DEF TimeOut, Hang, server, auth, keyState, init, TypeOK
  <2>2. TypeOK'
    BY <1>1, <2>1 DEF TypeOK
  <2>3. ShowsLater(calls)' => ShowsLater(calls)
    BY <2>1 DEF ShowsLater
  <2> QED
    BY <1>1, <2>1, <2>2, <2>3 DEF DocumentInd, KeyNeedsUser, KeyIsCurrent
<1>7. CASE SessionExpires
  <2>1. /\ UNCHANGED <<keys, key, calls, lost, visits, config, user, authLoading, error, loads, apiKey,
                       keyLoading, timedOut, hasInitialized, page, busy>>
        /\ session' = FALSE
    BY <1>7 DEF SessionExpires, auth, keyState, init
  <2>2. TypeOK'
    BY <1>1, <2>1 DEF TypeOK
  <2> QED
    BY <1>1, <2>1, <2>2 DEF DocumentInd, KeyNeedsUser, KeyIsCurrent
<1>8. CASE Visit
  <2>1. TypeOK' /\ apiKey' = None /\ calls' = <<Profile("first"), Call("config")>>
        /\ loads' = [first |-> 0, again |-> None]
    <3>1. [first |-> 0, again |-> None] \in [{"first", "again"} -> 0..2 \cup {None}]
      OBVIOUS
    <3>2. visits' \in 1..MaxVisits
      BY <1>1, <1>8 DEF Visit, TypeOK, DocumentConstants
    <3> QED
      BY <1>1, <1>8, <3>1, <3>2 DEF Visit, server, TypeOK
  <2>2. QueueOK(calls, loads, keys)' /\ ~ShowsLater(calls)'
    BY <2>1, FreshCalls DEF ShowsLater
  <2> QED
    BY <2>1, <2>2 DEF DocumentInd, KeyNeedsUser, KeyIsCurrent
<1> QED
  BY <1>3, <1>4, <1>5, <1>6, <1>7, <1>8

LEMMA DocumentInitInd ==
  ASSUME DocumentConstants, Init
  PROVE  DocumentInd
<1>1. [first |-> 0, again |-> None] \in [{"first", "again"} -> 0..2 \cup {None}]
  OBVIOUS
<1>2. TypeOK
  <2>1. keys \in 0..MaxKeys + 1 /\ key \in (1..keys) \cup {None} /\ visits \in 1..MaxVisits
    BY DEF Init, DocumentConstants
  <2>2. loads \in [{"first", "again"} -> 0..2 \cup {None}] /\ apiKey \in (1..keys) \cup {None}
    BY <1>1 DEF Init
  <2>3. {config, user, authLoading, error, keyLoading, timedOut, hasInitialized, busy} \subseteq BOOLEAN
    BY DEF Init
  <2> QED
    BY <2>1, <2>2, <2>3 DEF Init, TypeOK
<1>3. calls = <<Profile("first"), Call("config")>> /\ loads = [first |-> 0, again |-> None] /\ apiKey = None
  BY DEF Init
<1>4. QueueOK(calls, loads, keys) /\ ~ShowsLater(calls)
  BY <1>3, FreshCalls
<1> QED
  BY <1>2, <1>3, <1>4 DEF DocumentInd, KeyNeedsUser, KeyIsCurrent

\* Whatever is pressed, answered, refused, lost or never answered, a document
\* shows no key without its user, and the key that it shows is the user's, unless
\* a call was lost; and its state stays what the code takes it to be.
THEOREM SessionInvHolds == ASSUME DocumentConstants PROVE Spec => []SessionInv
<1>1. Init => DocumentInd
  BY DocumentInitInd
<1>2. DocumentInd /\ [Next]_vars => DocumentInd'
  <2> SUFFICES ASSUME DocumentInd, [Next]_vars PROVE DocumentInd'
    OBVIOUS
  <2>1. CASE UNCHANGED vars
    BY <2>1 DEF vars, server, auth, keyState, init, DocumentInd, TypeOK, QueueOK, ShowsLater, KeyNeedsUser,
                KeyIsCurrent
  <2>2. CASE Next
    BY <2>2, ProfileInd, RefreshInd, KeyAnswerInd, ConfigInd, AskInd, BrowserInd DEF Next, Answers
  <2> QED
    BY <2>1, <2>2
<1>3. DocumentInd => SessionInv
  BY DEF DocumentInd, SessionInv
<1> QED
  BY <1>1, <1>2, <1>3, PTL DEF Spec

\* The key on display is the one that works, in a document and on the page of the
\* key; no key is on display without its user, and one in use is replaced only when
\* the window has asked.
THEOREM KeyOnDisplayHolds == ASSUME DocumentConstants PROVE Spec /\ Keys!Spec => KeyOnDisplayWorks
  BY SessionInvHolds, DisplayedKeyWorks, PTL DEF KeyOnDisplayWorks

-----------------------------------------------------------------------------
(* The documents of the administrators *)

Row       == [Field -> Value \cup {None}]
AdminCall == [op : {"load", "create", "update", "delete"}, id : Id \cup {None}, row : Row,
              then : {"nothing", "save", "list", "gone"}]
AdminDoc  ==
    [list : [Id -> Row \cup {None}], mode : {"list", "edit", "create"}, id : Id \cup {None},
     form : Row, readonly : BOOLEAN, loading : BOOLEAN, message : {None, "saved", "error"},
     deleting : Id \cup {None}, calls : Seq(AdminCall),
     base : Row \cup {None}, edited : SUBSET Field, own : BOOLEAN, left : BOOLEAN]

\* A save, or the load that ends it.
IsSave(c) == c.op \in {"create", "update"} \/ (c.op = "load" /\ c.then = "save")

\* One at most is in a queue.
OneSave(q) == \A i, j \in DOMAIN q : IsSave(q[i]) /\ IsSave(q[j]) => i = j

\* What was not edited in a form is as it was.  A form that is being saved is open.
FormOK(s) ==
    /\ s.own => s.mode # "list" /\ ~s.readonly
    /\ s.mode = "list" => s.edited = {}
    /\ s.mode = "edit" =>
           /\ s.id \in Id /\ s.base \in Row /\ s.base # None
           /\ \A f \in Field \ s.edited : s.form[f] = s.base[f]

\* A save is of the form on display, unless that was left, and has what was not edited
\* as it was.
SaveOf(s, c) ==
    /\ s.loading /\ (s.own \/ s.left)
    /\ s.own /\ c.op = "update" =>
           s.mode = "edit" /\ c.id = s.id /\ \A f \in Field \ s.edited : c.row[f] = s.base[f]

AdminOK(s) ==
    /\ s \in AdminDoc /\ FormOK(s) /\ OneSave(s.calls)
    /\ \A i \in DOMAIN s.calls : IsSave(s.calls[i]) => SaveOf(s, s.calls[i])

AdminsInd ==
    /\ table \in [Id -> Row \cup {None}] /\ doc \in [Doc -> AdminDoc]
    /\ \A d \in Doc : AdminOK(doc[d])

LEMMA SaveServed ==
  ASSUME NEW q \in Seq(AdminCall), q # <<>>, OneSave(q)
  PROVE  /\ Head(q) \in AdminCall /\ Head(q) = q[1] /\ 1 \in DOMAIN q
         /\ Tail(q) \in Seq(AdminCall) /\ OneSave(Tail(q))
         /\ \A i \in DOMAIN Tail(q) : \E j \in DOMAIN q : Tail(q)[i] = q[j]
         /\ IsSave(Head(q)) => \A i \in DOMAIN Tail(q) : ~IsSave(Tail(q)[i])
<1>1. /\ Head(q) \in AdminCall /\ Head(q) = q[1] /\ 1 \in DOMAIN q
      /\ Tail(q) \in Seq(AdminCall)
      /\ \A i \in DOMAIN Tail(q) : i + 1 \in DOMAIN q /\ i \in Nat \ {0} /\ Tail(q)[i] = q[i + 1]
  OBVIOUS
<1>2. ASSUME NEW i \in DOMAIN Tail(q), NEW j \in DOMAIN Tail(q), IsSave(Tail(q)[i]), IsSave(Tail(q)[j])
      PROVE  i = j
  <2>1. IsSave(q[i + 1]) /\ IsSave(q[j + 1])
    BY <1>1, <1>2
  <2>2. i + 1 = j + 1
    BY <1>1, <2>1 DEF OneSave
  <2> QED
    BY <1>1, <2>2
<1>3. ASSUME IsSave(Head(q)), NEW i \in DOMAIN Tail(q), IsSave(Tail(q)[i])
      PROVE  FALSE
  <2>1. IsSave(q[1]) /\ IsSave(q[i + 1])
    BY <1>1, <1>3
  <2>2. i + 1 = 1
    BY <1>1, <2>1 DEF OneSave
  <2> QED
    BY <1>1, <2>2
<1> QED
  BY <1>1, <1>2, <1>3 DEF OneSave

LEMMA SaveJoined ==
  ASSUME NEW q \in Seq(AdminCall), NEW c \in AdminCall, OneSave(q),
         IsSave(c) => \A i \in DOMAIN q : ~IsSave(q[i])
  PROVE  /\ Append(q, c) \in Seq(AdminCall) /\ OneSave(Append(q, c))
         /\ \A i \in DOMAIN Append(q, c) : Append(q, c)[i] = c \/ \E j \in DOMAIN q : Append(q, c)[i] = q[j]
<1>1. /\ Append(q, c) \in Seq(AdminCall) /\ DOMAIN Append(q, c) = DOMAIN q \cup {Len(q) + 1}
      /\ Append(q, c)[Len(q) + 1] = c /\ \A i \in DOMAIN q : Append(q, c)[i] = q[i]
  OBVIOUS
<1> DEFINE r == Append(q, c)
<1> HIDE DEF r
<1>2. /\ r \in Seq(AdminCall) /\ DOMAIN r = DOMAIN q \cup {Len(q) + 1}
      /\ r[Len(q) + 1] = c /\ \A i \in DOMAIN q : r[i] = q[i]
  BY <1>1 DEF r
<1>3. ASSUME NEW i \in DOMAIN r, NEW j \in DOMAIN r, IsSave(r[i]), IsSave(r[j])
      PROVE  i = j
  <2>1. CASE i \in DOMAIN q /\ j \in DOMAIN q
    BY <1>2, <1>3, <2>1 DEF OneSave
  <2>2. CASE i = Len(q) + 1 /\ j \in DOMAIN q
    BY <1>2, <1>3, <2>2
  <2>3. CASE i \in DOMAIN q /\ j = Len(q) + 1
    BY <1>2, <1>3, <2>3
  <2> QED
    BY <1>2, <2>1, <2>2, <2>3
<1>4. \A i \in DOMAIN r : r[i] = c \/ \E j \in DOMAIN q : r[i] = q[j]
  BY <1>2
<1> QED
  BY <1>2, <1>3, <1>4 DEF OneSave, r

\* What an administrator does to a form, with no call.
LEMMA AdminActs ==
  ASSUME NEW s, AdminOK(s), NEW t \in AdminDoc, FormOK(t), t.calls = s.calls, t.loading = s.loading,
         s.loading => (s.own \/ s.left => t.own \/ t.left),
         t.own => /\ s.own
                  /\ s.mode = "edit" => /\ t.mode = "edit" /\ t.id = s.id /\ t.base = s.base
                                        /\ s.edited \subseteq t.edited
  PROVE  AdminOK(t)
<1>1. OneSave(t.calls)
  BY DEF AdminOK
<1>2. ASSUME NEW i \in DOMAIN t.calls, IsSave(t.calls[i])
      PROVE  SaveOf(t, t.calls[i])
  <2>1. SaveOf(s, t.calls[i])
    BY <1>2 DEF AdminOK
  <2> QED
    BY <2>1 DEF SaveOf
<1> QED
  BY <1>1, <1>2 DEF AdminOK

LEMMA AdminTo ==
  ASSUME AdminsInd, NEW d \in Doc, NEW t, AdminOK(t), doc' = [doc EXCEPT ![d] = t],
         table' \in [Id -> Row \cup {None}]
  PROVE  AdminsInd'
<1>1. t \in AdminDoc /\ doc \in [Doc -> AdminDoc]
  BY DEF AdminOK, AdminsInd
<1>2. doc' \in [Doc -> AdminDoc] /\ doc'[d] = t /\ \A c \in Doc \ {d} : doc'[c] = doc[c]
  BY <1>1
<1>3. \A c \in Doc : AdminOK(doc'[c])
  BY <1>2 DEF AdminsInd
<1>4. AdminOK(doc[d])' <=> AdminOK(doc'[d])
  BY DEF AdminOK, FormOK, OneSave, SaveOf
<1> QED
  BY <1>2, <1>3 DEF AdminsInd

\* What an administrator does to a form leaves a save on its way as it is.
Acted(s, t) ==
    /\ FormOK(t) /\ t.calls = s.calls /\ t.loading = s.loading
    /\ s.loading => (s.own \/ s.left => t.own \/ t.left)
    /\ t.own => /\ s.own
                /\ s.mode = "edit" => /\ t.mode = "edit" /\ t.id = s.id /\ t.base = s.base
                                      /\ s.edited \subseteq t.edited

\* The list gives way: its calls stay what they are, but for what a deletion ends.
LEMMA GoneAway ==
  ASSUME NEW s, AdminOK(s)
  PROVE  LET a == Admins!Away(s)
         IN  /\ AdminOK(a) /\ a.list = s.list /\ a.mode = s.mode /\ a.id = s.id /\ a.form = s.form
             /\ a.readonly = s.readonly /\ a.loading = s.loading /\ a.message = s.message
             /\ a.base = s.base /\ a.edited = s.edited /\ a.own = s.own /\ a.left = s.left
<1> DEFINE q == [k \in DOMAIN s.calls |-> IF s.calls[k].op = "delete" THEN [s.calls[k] EXCEPT !.then = "gone"]
                                          ELSE s.calls[k]]
           a == [s EXCEPT !.deleting = None, !.calls = q]
<1>1. /\ s \in AdminDoc /\ FormOK(s) /\ OneSave(s.calls) /\ s.calls \in Seq(AdminCall)
      /\ \A k \in DOMAIN s.calls : IsSave(s.calls[k]) => SaveOf(s, s.calls[k])
  BY DEF AdminOK, AdminDoc
<1>2. /\ DOMAIN q = DOMAIN s.calls
      /\ \A k \in DOMAIN s.calls : /\ q[k] \in AdminCall
                                   /\ IsSave(q[k]) => IsSave(s.calls[k]) /\ q[k] = s.calls[k]
  <2> SUFFICES ASSUME NEW k \in DOMAIN s.calls
               PROVE  q[k] \in AdminCall /\ (IsSave(q[k]) => IsSave(s.calls[k]) /\ q[k] = s.calls[k])
    OBVIOUS
  <2>1. s.calls[k] \in AdminCall
    BY <1>1
  <2>2. CASE s.calls[k].op = "delete"
    BY <2>1, <2>2 DEF AdminCall, IsSave
  <2>3. CASE s.calls[k].op # "delete"
    BY <2>1, <2>3
  <2> QED
    BY <2>2, <2>3
<1>3. q \in Seq(AdminCall)
  <2>1. DOMAIN s.calls = 1..Len(s.calls) /\ Len(s.calls) \in Nat
    BY <1>1
  <2>2. q = [k \in 1..Len(s.calls) |-> q[k]] /\ \A k \in 1..Len(s.calls) : q[k] \in AdminCall
    BY <1>2, <2>1
  <2> HIDE DEF q
  <2> QED
    BY <2>1, <2>2
<1> HIDE DEF q
<1>4. /\ a \in AdminDoc /\ a.calls = q /\ a.list = s.list /\ a.mode = s.mode /\ a.id = s.id
      /\ a.form = s.form /\ a.readonly = s.readonly /\ a.loading = s.loading /\ a.message = s.message
      /\ a.base = s.base /\ a.edited = s.edited /\ a.own = s.own /\ a.left = s.left
  BY <1>1, <1>3 DEF AdminDoc
<1> HIDE DEF a
<1>5. FormOK(a) /\ OneSave(q)
  BY <1>1, <1>2, <1>4 DEF FormOK, OneSave
<1>6. \A k \in DOMAIN q : IsSave(q[k]) => SaveOf(a, q[k])
  BY <1>1, <1>2, <1>4 DEF SaveOf
<1>7. AdminOK(a)
  BY <1>4, <1>5, <1>6 DEF AdminOK
<1>8. Admins!Away(s) = a
  BY DEF Admins!Away, a, q
<1> QED
  BY <1>4, <1>7, <1>8

LEMMA FormsInd ==
  ASSUME AdminsInd, None \notin Row, NEW d \in Doc,
         \/ \E i \in Id : \/ Admins!OpenField(d, i, FALSE) \/ Admins!OpenField(d, i, TRUE)
                          \/ Admins!EnterCode(d, i)
         \/ Admins!StartEditing(d) \/ Admins!StartCreate(d)
         \/ \E f \in Field, v \in Value : Admins!UpdateField(d, f, v)
         \/ Admins!Cancel(d) \/ Admins!Escape(d) \/ Admins!CloseMessage(d)
  PROVE  AdminsInd'
<1> DEFINE s == doc[d]
<1>1. /\ table' = table /\ table \in [Id -> Row \cup {None}]
      /\ s \in AdminDoc /\ FormOK(s) /\ AdminOK(s)
  BY DEF AdminsInd, AdminOK, Admins!OpenField, Admins!EnterCode, Admins!StartEditing, Admins!StartCreate,
         Admins!UpdateField, Admins!Cancel, Admins!Escape, Admins!CloseMessage, Admins!To
<1>2. Admins!NoRow \in Row
  BY DEF Admins!NoRow, Row
<1> HIDE DEF s
<1> DEFINE Goal == \E r, t : /\ AdminOK(r) /\ t \in AdminDoc /\ Acted(r, t)
                              /\ doc' = [doc EXCEPT ![d] = t]
<1> SUFFICES Goal
  BY <1>1, AdminActs, AdminTo DEF Acted
<1> DEFINE a == Admins!Away(s)
<1>a. /\ AdminOK(a) /\ a \in AdminDoc /\ a.list = s.list /\ a.mode = s.mode
      /\ a.own = s.own /\ a.edited = s.edited
  BY <1>1, GoneAway DEF AdminOK
<1> HIDE DEF a
<1>3. ASSUME NEW i \in Id, NEW asReadonly \in BOOLEAN, Admins!OpenField(d, i, asReadonly)
      PROVE  Goal
  <2> DEFINE t == [a EXCEPT !.mode = "edit", !.id = i, !.form = s.list[i],
                            !.readonly = asReadonly, !.message = None, !.base = s.list[i]]
  <2>1. s.mode = "list" /\ s.list[i] # None /\ doc' = [doc EXCEPT ![d] = t]
    BY <1>3 DEF Admins!OpenField, Admins!To, s, a
  <2>2. s.list[i] \in Row /\ ~s.own /\ s.edited = {}
    BY <1>1, <2>1 DEF FormOK, AdminDoc
  <2>3. /\ t \in AdminDoc /\ t.mode = "edit" /\ t.id = i /\ t.form = s.list[i] /\ t.base = s.list[i]
        /\ t.calls = a.calls /\ t.loading = a.loading /\ t.own = a.own /\ t.left = a.left
        /\ t.edited = a.edited
    BY <1>a, <2>2 DEF AdminDoc
  <2> HIDE DEF t
  <2>4. Acted(a, t)
    BY <1>a, <2>1, <2>2, <2>3 DEF Acted, FormOK
  <2> QED
    BY <1>a, <2>1, <2>3, <2>4
<1>4. CASE Admins!StartEditing(d)
  <2> DEFINE t == [s EXCEPT !.readonly = FALSE]
  <2>1. s.mode = "edit" /\ doc' = [doc EXCEPT ![d] = t]
    BY <1>4 DEF Admins!StartEditing, Admins!To, s
  <2>2. /\ t \in AdminDoc /\ ~t.readonly /\ t.mode = s.mode /\ t.id = s.id /\ t.form = s.form /\ t.base = s.base
        /\ t.calls = s.calls /\ t.loading = s.loading /\ t.own = s.own /\ t.left = s.left
        /\ t.edited = s.edited
    BY <1>1 DEF AdminDoc
  <2> HIDE DEF t
  <2>3. Acted(s, t)
    BY <1>1, <2>1, <2>2 DEF Acted, FormOK
  <2> QED
    BY <1>1, <2>1, <2>2, <2>3
<1>5. CASE Admins!StartCreate(d)
  <2> DEFINE t == [a EXCEPT !.mode = "create", !.form = Admins!NoRow, !.readonly = FALSE, !.message = None]
  <2>1. s.mode = "list" /\ doc' = [doc EXCEPT ![d] = t]
    BY <1>5 DEF Admins!StartCreate, Admins!To, s, a
  <2>2. ~s.own
    BY <1>1, <2>1 DEF FormOK
  <2>3. /\ t \in AdminDoc /\ t.mode = "create"
        /\ t.calls = a.calls /\ t.loading = a.loading /\ t.own = a.own /\ t.left = a.left
    BY <1>a, <1>2 DEF AdminDoc
  <2> HIDE DEF t
  <2>4. Acted(a, t)
    BY <1>a, <2>2, <2>3 DEF Acted, FormOK
  <2> QED
    BY <1>a, <2>1, <2>3, <2>4
<1>6. ASSUME NEW i \in Id, Admins!EnterCode(d, i)
      PROVE  Goal
  <2> DEFINE t == [s EXCEPT !.id = i]
  <2>1. s.mode = "create" /\ doc' = [doc EXCEPT ![d] = t]
    BY <1>6 DEF Admins!EnterCode, Admins!To, s
  <2>2. /\ t \in AdminDoc /\ t.mode = s.mode /\ t.readonly = s.readonly
        /\ t.calls = s.calls /\ t.loading = s.loading /\ t.own = s.own /\ t.left = s.left
    BY <1>1 DEF AdminDoc
  <2> HIDE DEF t
  <2>3. Acted(s, t)
    BY <1>1, <2>1, <2>2 DEF Acted, FormOK
  <2> QED
    BY <1>1, <2>1, <2>2, <2>3
<1>7. ASSUME NEW f \in Field, NEW v \in Value, Admins!UpdateField(d, f, v)
      PROVE  Goal
  <2> DEFINE form == [s.form EXCEPT ![f] = v]
             t == [s EXCEPT !.form = form, !.edited = s.edited \cup {f}]
  <2>1. s.mode # "list" /\ ~s.readonly /\ doc' = [doc EXCEPT ![d] = t]
    BY <1>7 DEF Admins!UpdateField, Admins!Patched, Admins!To, s
  <2>2. s.form \in Row /\ form \in Row /\ \A g \in Field \ {f} : form[g] = s.form[g]
    BY <1>1 DEF AdminDoc, Row
  <2> HIDE DEF form
  <2>3. /\ t \in AdminDoc /\ t.mode = s.mode /\ t.id = s.id /\ t.form = form /\ t.base = s.base
        /\ t.calls = s.calls /\ t.loading = s.loading /\ t.own = s.own /\ t.left = s.left
        /\ t.readonly = s.readonly /\ t.edited = s.edited \cup {f}
    BY <1>1, <2>2 DEF AdminDoc
  <2> HIDE DEF t
  <2>4. Acted(s, t)
    BY <1>1, <2>1, <2>2, <2>3 DEF Acted, FormOK
  <2> QED
    BY <1>1, <2>1, <2>3, <2>4
<1>8. CASE Admins!Cancel(d) \/ Admins!Escape(d)
  <2>1. PICK now \in BOOLEAN :
          /\ doc' = [doc EXCEPT ![d] = [Admins!Closed(s) EXCEPT !.left = now]]
          /\ \/ now = s.left /\ (s.readonly \/ ~s.loading)
             \/ now = (s.left \/ s.loading)
    <3>1. s.left \in BOOLEAN /\ s.loading \in BOOLEAN
      BY <1>1 DEF AdminDoc
    <3>2. Admins!Closed(s) = [Admins!Closed(s) EXCEPT !.left = s.left] /\ Admins!Closed(s).left = s.left
      BY <1>1 DEF AdminDoc, Admins!Closed
    <3>3. CASE Admins!Cancel(d)
      BY <3>1, <3>2, <3>3 DEF Admins!Cancel, Admins!CanCancel, Admins!To, s
    <3>4. CASE Admins!Escape(d)
      BY <3>1, <3>2, <3>4 DEF Admins!Escape, Admins!To, s
    <3> QED
      BY <1>8, <3>3, <3>4
  <2> DEFINE t == [Admins!Closed(s) EXCEPT !.left = now]
  <2>2. /\ t \in AdminDoc /\ t.mode = "list" /\ t.edited = {} /\ ~t.own /\ t.left = now
        /\ t.calls = s.calls /\ t.loading = s.loading
    BY <1>1, <1>2 DEF AdminDoc, Admins!Closed
  <2> HIDE DEF t
  <2>3. s.loading => (s.own \/ s.left => now)
    BY <1>1, <2>1 DEF FormOK
  <2>4. Acted(s, t)
    BY <2>2, <2>3 DEF Acted, FormOK
  <2> QED
    BY <1>1, <2>1, <2>2, <2>4 DEF t
<1>9. CASE Admins!CloseMessage(d)
  <2> DEFINE t == [s EXCEPT !.message = None]
  <2>1. doc' = [doc EXCEPT ![d] = t]
    BY <1>9 DEF Admins!CloseMessage, Admins!To, s
  <2>2. /\ t \in AdminDoc /\ t.readonly = s.readonly /\ t.mode = s.mode /\ t.id = s.id /\ t.form = s.form
        /\ t.base = s.base /\ t.edited = s.edited
        /\ t.calls = s.calls /\ t.loading = s.loading /\ t.own = s.own /\ t.left = s.left
    BY <1>1 DEF AdminDoc
  <2> HIDE DEF t
  <2>3. Acted(s, t)
    BY <1>1, <2>2 DEF Acted, FormOK
  <2> QED
    BY <1>1, <2>1, <2>2, <2>3
<1> QED
  BY <1>3, <1>4, <1>5, <1>6, <1>7, <1>8, <1>9

LEMMA AdminAsksInd ==
  ASSUME AdminsInd, None \notin Row, NEW d \in Doc,
         Admins!HandleSave(d) \/ \E i \in Id : Admins!HandleDelete(d, i)
  PROVE  AdminsInd'
<1> DEFINE s == doc[d]
<1>1. /\ table' = table /\ table \in [Id -> Row \cup {None}]
      /\ s \in AdminDoc /\ FormOK(s) /\ AdminOK(s) /\ OneSave(s.calls) /\ s.calls \in Seq(AdminCall)
      /\ s.mode \in {"list", "edit", "create"}
      /\ \A i \in DOMAIN s.calls : IsSave(s.calls[i]) => SaveOf(s, s.calls[i])
  BY DEF AdminsInd, AdminOK, AdminDoc, Admins!HandleSave, Admins!HandleDelete, Admins!To
<1>2. Admins!NoRow \in Row
  BY DEF Admins!NoRow, Row
<1>3. CASE Admins!HandleSave(d)
  <2>1. /\ s.mode # "list" /\ ~s.readonly /\ ~s.loading
    BY <1>3 DEF Admins!HandleSave
  <2>2. CASE s.mode = "create" /\ s.id = None
    <3> DEFINE t == [s EXCEPT !.message = "error"]
    <3>1. doc' = [doc EXCEPT ![d] = t]
      BY <1>3, <2>2 DEF Admins!HandleSave, Admins!To
    <3> HIDE DEF s
    <3>2. /\ t \in AdminDoc /\ t.readonly = s.readonly /\ t.mode = s.mode /\ t.id = s.id /\ t.form = s.form
          /\ t.base = s.base /\ t.edited = s.edited
          /\ t.calls = s.calls /\ t.loading = s.loading /\ t.own = s.own /\ t.left = s.left
      BY <1>1 DEF AdminDoc
    <3> HIDE DEF t
    <3>3. FormOK(t)
      BY <1>1, <3>2 DEF FormOK
    <3>4. AdminOK(t)
      BY <1>1, <3>2, <3>3, AdminActs
    <3> QED
      BY <1>1, <3>1, <3>4, AdminTo
  <2>3. CASE ~(s.mode = "create" /\ s.id = None)
    <3> DEFINE c == Admins!Call(IF s.mode = "create" THEN "create" ELSE "update", s.id, s.form, "nothing")
               q == Append(s.calls, c)
               t == [s EXCEPT !.loading = TRUE, !.message = None, !.own = TRUE, !.calls = q]
    <3>1. doc' = [doc EXCEPT ![d] = t]
      BY <1>3, <2>3 DEF Admins!HandleSave, Admins!To
    <3> HIDE DEF s
    <3>2. /\ c \in AdminCall /\ c.id = s.id /\ c.row = s.form
          /\ c.op = IF s.mode = "create" THEN "create" ELSE "update"
      BY <1>1 DEF Admins!Call, AdminCall, AdminDoc
    <3> HIDE DEF c
    <3>3. \A i \in DOMAIN s.calls : ~IsSave(s.calls[i])
      BY <1>1, <2>1 DEF SaveOf
    <3>4. /\ q \in Seq(AdminCall) /\ OneSave(q)
          /\ \A i \in DOMAIN q : q[i] = c \/ \E j \in DOMAIN s.calls : q[i] = s.calls[j]
      BY <1>1, <3>2, <3>3, SaveJoined
    <3> HIDE DEF q
    <3>5. /\ t \in AdminDoc /\ t.readonly = s.readonly /\ t.mode = s.mode /\ t.id = s.id /\ t.form = s.form
          /\ t.base = s.base /\ t.edited = s.edited /\ t.calls = q /\ t.loading /\ t.own
      BY <1>1, <3>4 DEF AdminDoc
    <3> HIDE DEF t
    <3>6. FormOK(t)
      BY <1>1, <2>1, <3>5 DEF FormOK
    <3>7. SaveOf(t, c)
      BY <1>1, <2>1, <3>2, <3>5 DEF FormOK, SaveOf
    <3>8. \A i \in DOMAIN t.calls : IsSave(t.calls[i]) => SaveOf(t, t.calls[i])
      BY <3>3, <3>4, <3>5, <3>7
    <3>9. AdminOK(t)
      BY <3>4, <3>5, <3>6, <3>8 DEF AdminOK
    <3> QED
      BY <1>1, <3>1, <3>9, AdminTo
  <2> QED
    BY <2>2, <2>3
<1>4. ASSUME NEW i \in Id, Admins!HandleDelete(d, i)
      PROVE  AdminsInd'
  <2> DEFINE c == Admins!Call("delete", i, Admins!NoRow, "nothing")
             q == Append(s.calls, c)
             t == [s EXCEPT !.deleting = i, !.calls = q]
  <2>1. doc' = [doc EXCEPT ![d] = t]
    BY <1>4 DEF Admins!HandleDelete, Admins!To
  <2> HIDE DEF s
  <2>2. c \in AdminCall /\ c.op = "delete"
    BY <1>2 DEF Admins!Call, AdminCall
  <2> HIDE DEF c
  <2>3. ~IsSave(c)
    BY <2>2 DEF IsSave
  <2>4. /\ q \in Seq(AdminCall) /\ OneSave(q)
        /\ \A k \in DOMAIN q : q[k] = c \/ \E j \in DOMAIN s.calls : q[k] = s.calls[j]
    BY <1>1, <2>2, <2>3, SaveJoined
  <2> HIDE DEF q
  <2>5. /\ t \in AdminDoc /\ t.readonly = s.readonly /\ t.mode = s.mode /\ t.id = s.id /\ t.form = s.form
        /\ t.base = s.base /\ t.edited = s.edited /\ t.calls = q /\ t.loading = s.loading
        /\ t.own = s.own /\ t.left = s.left
    BY <1>1, <2>4 DEF AdminDoc
  <2> HIDE DEF t
  <2>6. FormOK(t)
    BY <1>1, <2>5 DEF FormOK
  <2>7. \A k \in DOMAIN t.calls : IsSave(t.calls[k]) => SaveOf(t, t.calls[k])
    BY <1>1, <2>3, <2>4, <2>5 DEF SaveOf
  <2>8. AdminOK(t)
    BY <2>4, <2>5, <2>6, <2>7 DEF AdminOK
  <2> QED
    BY <1>1, <2>1, <2>8, AdminTo
<1> QED
  BY <1>3, <1>4

\* A call is answered, and a load may follow.
LEMMA AdminHears ==
  ASSUME NEW s, AdminOK(s), s.calls # <<>>, NEW t \in AdminDoc, FormOK(t),
         \/ t.calls = Tail(s.calls)
         \/ \E then \in {"save", "list"} :
               /\ t.calls = Append(Tail(s.calls), Admins!LoadThen(then))
               /\ then = "save" => /\ IsSave(Head(s.calls)) /\ t.loading = s.loading
                                   /\ t.own = s.own /\ t.left = s.left,
         ~IsSave(Head(s.calls)) => /\ t.mode = s.mode /\ t.id = s.id /\ t.base = s.base /\ t.edited = s.edited
                                   /\ t.loading = s.loading /\ t.own = s.own /\ t.left = s.left
  PROVE  AdminOK(t)
<1>1. /\ s.calls \in Seq(AdminCall) /\ OneSave(s.calls)
      /\ \A i \in DOMAIN s.calls : IsSave(s.calls[i]) => SaveOf(s, s.calls[i])
  BY DEF AdminOK, AdminDoc
<1> DEFINE rest == Tail(s.calls)
<1>2. /\ Head(s.calls) = s.calls[1] /\ 1 \in DOMAIN s.calls
      /\ rest \in Seq(AdminCall) /\ OneSave(rest)
      /\ \A i \in DOMAIN rest : \E j \in DOMAIN s.calls : rest[i] = s.calls[j]
      /\ IsSave(Head(s.calls)) => \A i \in DOMAIN rest : ~IsSave(rest[i])
  BY <1>1, SaveServed
<1> HIDE DEF rest
<1>3. \A i \in DOMAIN rest : IsSave(rest[i]) => SaveOf(t, rest[i])
  <2> SUFFICES ASSUME NEW i \in DOMAIN rest, IsSave(rest[i])
               PROVE  SaveOf(t, rest[i])
    OBVIOUS
  <2>1. ~IsSave(Head(s.calls)) /\ SaveOf(s, rest[i])
    BY <1>1, <1>2
  <2> QED
    BY <2>1 DEF SaveOf
<1>4. CASE t.calls = rest
  BY <1>2, <1>3, <1>4 DEF AdminOK
<1>5. ASSUME NEW then \in {"save", "list"}, t.calls = Append(rest, Admins!LoadThen(then)),
             then = "save" => /\ IsSave(Head(s.calls)) /\ t.loading = s.loading
                              /\ t.own = s.own /\ t.left = s.left
      PROVE  AdminOK(t)
  <2> DEFINE c == Admins!LoadThen(then)
             q == Append(rest, c)
  <2>1. c \in AdminCall /\ c.op = "load" /\ c.then = then
    BY DEF Admins!LoadThen, Admins!Call, Admins!NoRow, AdminCall, Row
  <2> HIDE DEF c
  <2>2. IsSave(c) => then = "save" /\ IsSave(Head(s.calls))
    BY <1>5, <2>1 DEF IsSave
  <2>3. /\ q \in Seq(AdminCall) /\ OneSave(q)
        /\ \A i \in DOMAIN q : q[i] = c \/ \E j \in DOMAIN rest : q[i] = rest[j]
    BY <1>2, <2>1, <2>2, SaveJoined
  <2> HIDE DEF q
  <2>4. IsSave(c) => SaveOf(t, c)
    <3> SUFFICES ASSUME IsSave(c) PROVE SaveOf(t, c)
      OBVIOUS
    <3>1. SaveOf(s, Head(s.calls))
      BY <1>1, <1>2, <2>2
    <3> QED
      BY <1>5, <2>1, <2>2, <3>1 DEF SaveOf
  <2>5. t.calls = q
    BY <1>5 DEF q, c
  <2> QED
    BY <1>3, <2>3, <2>4, <2>5 DEF AdminOK
<1> QED
  BY <1>4, <1>5 DEF rest

\* What the answer of a call that is no save leaves.
Heard(s, x, l, m, q) == [s EXCEPT !.deleting = x, !.list = l, !.message = m, !.calls = q]

LEMMA AdminAnswerInd ==
  ASSUME AdminsInd, None \notin Row, NEW d \in Doc, Admins!Answer(d)
  PROVE  AdminsInd'
<1> DEFINE s == doc[d]
           c == Head(s.calls)
           rest == Tail(s.calls)
<1>1. /\ table \in [Id -> Row \cup {None}] /\ doc \in [Doc -> AdminDoc]
      /\ s \in AdminDoc /\ FormOK(s) /\ AdminOK(s) /\ s.calls \in Seq(AdminCall)
  BY DEF AdminsInd, AdminOK, AdminDoc
<1>2. s.calls # <<>>
  BY DEF Admins!Answer, Admins!Saved, Admins!NotSaved, Admins!Deleted, Admins!NotDeleted, Admins!Loaded,
         Admins!LoadLost, Admins!Next1
<1>3. c \in AdminCall /\ rest \in Seq(AdminCall)
  BY <1>1, <1>2
<1>4. /\ c.op \in {"create", "update"} => IsSave(c)
      /\ c.op = "delete" => ~IsSave(c)
      /\ c.op = "load" => (IsSave(c) <=> c.then = "save")
  BY DEF IsSave
<1>5. Admins!Written(c) \in [Id -> Row \cup {None}]
  BY <1>1, <1>3 DEF Admins!Written, AdminCall
<1>6. \A then \in {"save", "list"} : Append(rest, Admins!LoadThen(then)) \in Seq(AdminCall)
  <2>1. \A then \in {"save", "list"} : Admins!LoadThen(then) \in AdminCall
    BY DEF Admins!LoadThen, Admins!Call, Admins!NoRow, AdminCall, Row
  <2> QED
    BY <1>3, <2>1
<1>7. CASE Admins!Saved(d)
  <2> DEFINE q == Append(rest, Admins!LoadThen("save"))
             t == [[s EXCEPT !.message = "saved"] EXCEPT !.calls = q]
  <2>1. table' = Admins!Written(c) /\ c.op \in {"create", "update"}
        /\ doc' = [doc EXCEPT ![d].message = "saved", ![d].calls = q]
    BY <1>7 DEF Admins!Saved, Admins!Served, Admins!Next1
  <2>2. doc' = [doc EXCEPT ![d] = t]
    BY <1>1, <2>1
  <2>3. q \in Seq(AdminCall)
    BY <1>6
  <2> HIDE DEF s
  <2>4. /\ t \in AdminDoc /\ t.readonly = s.readonly /\ t.mode = s.mode /\ t.id = s.id /\ t.form = s.form
        /\ t.base = s.base /\ t.edited = s.edited /\ t.calls = q /\ t.loading = s.loading
        /\ t.own = s.own /\ t.left = s.left
    BY <1>1, <2>3 DEF AdminDoc
  <2> HIDE DEF t
  <2>5. FormOK(t)
    BY <1>1, <2>4 DEF FormOK
  <2>6. AdminOK(t)
    BY <1>1, <1>2, <1>4, <2>1, <2>4, <2>5, AdminHears
  <2> QED
    BY <1>1, <1>5, <2>1, <2>2, <2>6, AdminTo
<1>8. CASE Admins!NotSaved(d) \/ (Admins!LoadLost(d) /\ c.then = "save")
  <2> DEFINE t == [[[s EXCEPT !.message = "error"] EXCEPT !.loading = FALSE] EXCEPT !.calls = rest]
  <2>1. /\ table' \in [Id -> Row \cup {None}] /\ IsSave(c)
        /\ \/ doc' = [doc EXCEPT ![d].message = "error", ![d].loading = FALSE, ![d].calls = rest]
           \/ doc' = [doc EXCEPT ![d] = [[s EXCEPT !.calls = rest]
                                            EXCEPT !.message = "error", !.loading = FALSE]]
    BY <1>1, <1>4, <1>5, <1>8 DEF Admins!NotSaved, Admins!LoadLost, Admins!Next1, Admins!To
  <2>2. doc' = [doc EXCEPT ![d] = t]
    <3>1. [[s EXCEPT !.calls = rest] EXCEPT !.message = "error", !.loading = FALSE] = t
      BY <1>1 DEF AdminDoc
    <3> QED
      BY <1>1, <2>1, <3>1
  <2> HIDE DEF s
  <2>3. /\ t \in AdminDoc /\ t.readonly = s.readonly /\ t.mode = s.mode /\ t.id = s.id /\ t.form = s.form
        /\ t.base = s.base /\ t.edited = s.edited /\ t.calls = rest /\ t.own = s.own
    BY <1>1, <1>3 DEF AdminDoc
  <2> HIDE DEF t
  <2>4. FormOK(t)
    BY <1>1, <2>3 DEF FormOK
  <2>5. AdminOK(t)
    BY <1>1, <1>2, <2>1, <2>3, <2>4, AdminHears
  <2> QED
    BY <1>1, <2>1, <2>2, <2>5, AdminTo
\* The answer of a call that is no save.
<1>9. ASSUME NEW x \in Id \cup {None}, NEW l \in [Id -> Row \cup {None}], NEW m \in {None, "saved", "error"},
             NEW q \in {rest, Append(rest, Admins!LoadThen("list"))}, ~IsSave(c),
             table' \in [Id -> Row \cup {None}],
             doc' = [doc EXCEPT ![d] = Heard(s, x, l, m, q)]
      PROVE  AdminsInd'
  <2> DEFINE t == [s EXCEPT !.deleting = x, !.list = l, !.message = m, !.calls = q]
  <2>1. q \in Seq(AdminCall)
    BY <1>3, <1>6
  <2>2. doc' = [doc EXCEPT ![d] = t]
    BY <1>9 DEF Heard
  <2> HIDE DEF s
  <2>3. /\ t \in AdminDoc /\ t.readonly = s.readonly /\ t.mode = s.mode /\ t.id = s.id /\ t.form = s.form
        /\ t.base = s.base /\ t.edited = s.edited /\ t.calls = q /\ t.loading = s.loading
        /\ t.own = s.own /\ t.left = s.left
    BY <1>1, <2>1 DEF AdminDoc
  <2> HIDE DEF t
  <2>4. FormOK(t)
    BY <1>1, <2>3 DEF FormOK
  <2>5. AdminOK(t)
    BY <1>1, <1>2, <1>9, <2>3, <2>4, AdminHears
  <2> QED
    BY <1>9, <2>2, <2>5, AdminTo
<1>10. /\ s.deleting \in Id \cup {None} /\ s.list \in [Id -> Row \cup {None}]
       /\ s.message \in {None, "saved", "error"}
  BY <1>1 DEF AdminDoc
<1> DEFINE x == Admins!StillDeleting(d)
<1>x. x \in {None, s.deleting}
  BY DEF Admins!StillDeleting
<1> HIDE DEF x
<1>11. CASE Admins!Deleted(d)
  <2> DEFINE q == Append(rest, Admins!LoadThen("list"))
  <2>1. /\ table' \in [Id -> Row \cup {None}] /\ ~IsSave(c)
        /\ doc' = [doc EXCEPT ![d].deleting = x, ![d].calls = q]
    BY <1>4, <1>5, <1>11 DEF Admins!Deleted, Admins!Next1, Admins!Served, x
  <2> HIDE DEF q
  <2>2. doc' = [doc EXCEPT ![d] = Heard(s, x, s.list, s.message, q)]
    <3>1. Heard(s, x, s.list, s.message, q) = [[s EXCEPT !.deleting = x] EXCEPT !.calls = q]
      BY <1>1 DEF AdminDoc, Heard
    <3> QED
      BY <1>1, <2>1, <3>1
  <2> QED
    BY <1>9, <1>10, <1>x, <2>1, <2>2 DEF q
<1>12. CASE Admins!NotDeleted(d)
  <2>1. /\ table' \in [Id -> Row \cup {None}] /\ ~IsSave(c)
        /\ \/ doc' = [doc EXCEPT ![d].deleting = x, ![d].calls = rest]
           \/ doc' = [doc EXCEPT ![d].calls = rest]
    BY <1>1, <1>4, <1>5, <1>12 DEF Admins!NotDeleted, Admins!Next1, x
  <2>2. \E y \in {None, s.deleting} :
            doc' = [doc EXCEPT ![d] = Heard(s, y, s.list, s.message, rest)]
    <3>1. /\ Heard(s, x, s.list, s.message, rest) = [[s EXCEPT !.deleting = x] EXCEPT !.calls = rest]
          /\ Heard(s, s.deleting, s.list, s.message, rest) = [s EXCEPT !.calls = rest]
      BY <1>1 DEF AdminDoc, Heard
    <3> QED
      BY <1>1, <1>x, <2>1, <3>1
  <2> QED
    BY <1>9, <1>10, <2>1, <2>2
<1>13. CASE Admins!LoadLost(d) /\ c.then # "save"
  <2>1. ~IsSave(c) /\ table' = table /\ doc' = [doc EXCEPT ![d] = [s EXCEPT !.calls = rest]]
    BY <1>4, <1>13 DEF Admins!LoadLost, Admins!Next1, Admins!To
  <2>2. doc' = [doc EXCEPT ![d] = Heard(s, s.deleting, s.list, s.message, rest)]
    <3>1. Heard(s, s.deleting, s.list, s.message, rest) = [s EXCEPT !.calls = rest]
      BY <1>1 DEF AdminDoc, Heard
    <3> QED
      BY <2>1, <3>1
  <2> QED
    BY <1>1, <1>9, <1>10, <2>1, <2>2
<1>14. ASSUME NEW ok \in BOOLEAN, Admins!Loaded(d, ok)
       PROVE  AdminsInd'
  <2> DEFINE l == IF ok THEN table ELSE s.list
             m == IF ok THEN s.message ELSE "error"
             u == [s EXCEPT !.calls = rest, !.list = l, !.message = m]
  <2>1. /\ table' = table /\ c.op = "load"
        /\ doc' = [doc EXCEPT ![d] = IF c.then = "save" THEN Admins!Finished(u) ELSE u]
    BY <1>14 DEF Admins!Loaded, Admins!Next1, Admins!To
  <2>2. l \in [Id -> Row \cup {None}] /\ m \in {None, "saved", "error"}
    BY <1>1, <1>10
  <2> HIDE DEF l, m
  <2>3. CASE c.then # "save"
    <3>1. Heard(s, s.deleting, l, m, rest) = u
      BY <1>1 DEF AdminDoc, Heard
    <3> QED
      BY <1>1, <1>4, <1>9, <1>10, <2>1, <2>2, <2>3, <3>1
  <2>4. CASE c.then = "save"
    <3> HIDE DEF s
    <3>1. /\ u \in AdminDoc /\ u.calls = rest
      BY <1>1, <1>3, <2>2 DEF AdminDoc
    <3> HIDE DEF u
    <3> DEFINE t == Admins!Finished(u)
    <3>2. Admins!NoRow \in Row
      BY DEF Admins!NoRow, Row
    <3>3. t \in AdminDoc /\ t.calls = rest /\ t.mode = "list" /\ t.edited = {} /\ ~t.own
      BY <3>1, <3>2 DEF AdminDoc, Admins!Finished, Admins!Closed
    <3>4. IsSave(c) /\ doc' = [doc EXCEPT ![d] = t]
      BY <1>4, <2>1, <2>4
    <3> HIDE DEF t
    <3>5. FormOK(t)
      BY <3>3 DEF FormOK
    <3>6. AdminOK(t)
      BY <1>1, <1>2, <3>3, <3>4, <3>5, AdminHears
    <3> QED
      BY <1>1, <2>1, <3>4, <3>6, AdminTo
  <2> QED
    BY <2>3, <2>4
<1> QED
  BY <1>7, <1>8, <1>11, <1>12, <1>13, <1>14 DEF Admins!Answer

LEMMA AdminsNextInd ==
  ASSUME AdminsInd, None \notin Row, [Admins!Next]_Admins!vars
  PROVE  AdminsInd'
<1>1. CASE UNCHANGED Admins!vars
  BY <1>1 DEF Admins!vars, AdminsInd, AdminOK, FormOK, OneSave, SaveOf
<1>2. CASE Admins!Next
  <2>1. PICK d \in Doc :
          \/ \E i \in Id : \/ Admins!OpenField(d, i, FALSE) \/ Admins!OpenField(d, i, TRUE)
                           \/ Admins!EnterCode(d, i) \/ Admins!HandleDelete(d, i)
          \/ Admins!StartEditing(d) \/ Admins!StartCreate(d)
          \/ \E f \in Field, v \in Value : Admins!UpdateField(d, f, v)
          \/ Admins!HandleSave(d) \/ Admins!Cancel(d) \/ Admins!Escape(d) \/ Admins!CloseMessage(d)
          \/ Admins!Answer(d)
    BY <1>2 DEF Admins!Next
  <2> QED
    BY <2>1, FormsInd, AdminAsksInd, AdminAnswerInd
<1> QED
  BY <1>1, <1>2

LEMMA AdminsInitInd ==
  ASSUME Admins!Init
  PROVE  AdminsInd
<1> DEFINE t == Admins!Opened
           q == <<Admins!LoadThen("nothing")>>
<1>1. Admins!NoRow \in Row
  BY DEF Admins!NoRow, Row
<1>2. Admins!LoadThen("nothing") \in AdminCall /\ ~IsSave(Admins!LoadThen("nothing"))
  BY <1>1 DEF Admins!LoadThen, Admins!Call, AdminCall, IsSave
<1>3. q \in Seq(AdminCall) /\ \A i \in DOMAIN q : ~IsSave(q[i])
  BY <1>2
<1> HIDE DEF q
<1>4. t \in AdminDoc /\ t.calls = q /\ t.mode = "list" /\ t.edited = {} /\ ~t.own
  BY <1>1, <1>3 DEF AdminDoc, Admins!Opened, q
<1> HIDE DEF t
<1>5. AdminOK(t)
  BY <1>3, <1>4 DEF AdminOK, FormOK, OneSave
<1>6. table \in [Id -> Row \cup {None}]
  BY <1>1 DEF Admins!Init
<1>7. doc = [d \in Doc |-> t]
  BY DEF Admins!Init, t
<1> QED
  BY <1>4, <1>5, <1>6, <1>7 DEF AdminsInd

\* The end of a save closes the form that was saved and no other, unless that form
\* was left by Escape while it was being saved.
LEMMA FormsStay ==
  ASSUME AdminsInd, NEW d \in DOMAIN doc, Admins!Loaded(d, TRUE) \/ Admins!Loaded(d, FALSE),
         doc[d].mode # "list", doc'[d].mode = "list"
  PROVE  doc[d].own \/ doc[d].left
<1> DEFINE s == doc[d]
           c == Head(s.calls)
<1>1. /\ d \in Doc /\ doc \in [Doc -> AdminDoc] /\ s \in AdminDoc /\ s.calls \in Seq(AdminCall)
      /\ \A i \in DOMAIN s.calls : IsSave(s.calls[i]) => SaveOf(s, s.calls[i])
  BY DEF AdminsInd, AdminOK, AdminDoc
<1>2. PICK ok \in BOOLEAN : Admins!Loaded(d, ok)
  OBVIOUS
<1>3. s.calls # <<>> /\ c.op = "load"
  BY <1>2 DEF Admins!Loaded, Admins!Next1
<1>4. c.then = "save"
  <2> SUFFICES ASSUME c.then # "save" PROVE FALSE
    OBVIOUS
  <2> DEFINE l == IF ok THEN table ELSE s.list
             m == IF ok THEN s.message ELSE "error"
             u == [s EXCEPT !.calls = Tail(s.calls), !.list = l, !.message = m]
  <2>1. doc' = [doc EXCEPT ![d] = u]
    BY <1>2 DEF Admins!Loaded, Admins!To
  <2> HIDE DEF l, m
  <2>2. u.mode = s.mode
    BY <1>1 DEF AdminDoc
  <2> QED
    BY <1>1, <2>1, <2>2
<1>5. SaveOf(s, s.calls[1])
  BY <1>1, <1>3, <1>4 DEF IsSave
<1> QED
  BY <1>5 DEF SaveOf

\* A save leaves the fields that were not edited as they were in the row that was opened.
LEMMA OthersKept ==
  ASSUME AdminsInd, None \notin Row, NEW d \in DOMAIN doc, Admins!Saved(d), Admins!Next1(d, "update"), doc[d].own,
         doc[d].base = table[doc[d].id], NEW f \in Field \ doc[d].edited
  PROVE  table'[doc[d].id][f] = doc[d].base[f]
<1> DEFINE s == doc[d]
           c == Head(s.calls)
<1>1. /\ d \in Doc /\ s \in AdminDoc /\ s.calls \in Seq(AdminCall) /\ FormOK(s)
      /\ \A i \in DOMAIN s.calls : IsSave(s.calls[i]) => SaveOf(s, s.calls[i])
      /\ table \in [Id -> Row \cup {None}]
  BY DEF AdminsInd, AdminOK, AdminDoc
<1>2. s.calls # <<>> /\ c.op = "update" /\ table' = Admins!Written(c)
  BY DEF Admins!Next1, Admins!Saved
<1>3. SaveOf(s, c)
  BY <1>1, <1>2 DEF IsSave
<1>4. s.mode = "edit" /\ c.id = s.id /\ c.row[f] = s.base[f] /\ s.id \in Id /\ s.base # None
  BY <1>1, <1>2, <1>3 DEF SaveOf, FormOK
<1>5. table' = [table EXCEPT ![s.id] = c.row]
  BY <1>2, <1>4 DEF Admins!Written
<1> QED
  BY <1>1, <1>4, <1>5

\* Two administrators who list, edit, create and delete rows, whatever is refused,
\* lost or left: no form is closed by the end of another form's save, and a save
\* changes no field that was not edited, in a row that is still as it was opened.
THEOREM FormsKept == ASSUME None \notin Row PROVE Admins!Spec => FormsAreKept
<1>1. AdminsInd => \A d \in DOMAIN doc :
          /\ Admins!Loaded(d, TRUE) \/ Admins!Loaded(d, FALSE)
          /\ doc[d].mode # "list" /\ doc'[d].mode = "list"
          => doc[d].own \/ doc[d].left
  BY FormsStay
<1>2. AdminsInd => \A d \in DOMAIN doc :
          LET s == doc[d] IN
          Admins!Saved(d) /\ Admins!Next1(d, "update") /\ s.own /\ s.base = table[s.id] =>
             \A f \in Field \ s.edited : table'[s.id][f] = s.base[f]
  BY OthersKept
<1>3. Admins!Init => AdminsInd
  BY AdminsInitInd
<1>4. AdminsInd /\ [Admins!Next]_Admins!vars => AdminsInd'
  BY AdminsNextInd
<1> QED
  BY <1>1, <1>2, <1>3, <1>4, PTL DEF Admins!Spec, FormsAreKept, Admins!FormsAreKept, Admins!FormStays,
      Admins!OthersAreKept

-----------------------------------------------------------------------------
(* The settings of an account *)

Typed       == [{"current", "new", "confirm"} -> Passwords \cup {None}]
Account     == [name : Names, password : Passwords \cup {None}]
SettingCall ==
    [op : {"save"}, arg : Names] \cup [op : {"password"}, arg : Typed]
        \cup [op : {"subscribe"}, arg : BOOLEAN] \cup [op : {"delete"}, arg : Passwords]
        \cup [op : {"status", "profile", "logout"}, arg : {None}]

SettingsConstants == None \notin Passwords /\ None \notin Account

ProfileForm  == [name : Names, busy : BOOLEAN, error : BOOLEAN, saved : BOOLEAN]
PasswordForm == [open : BOOLEAN, typed : Typed, busy : BOOLEAN,
                 errors : SUBSET {"current", "new", "confirm", "general"}]
DeletionForm == [open : BOOLEAN, password : Passwords \cup {None}, confirmed : BOOLEAN,
                 busy : BOOLEAN, errors : SUBSET {"password", "general"}]

PasswordOK(p) == p \in PasswordForm /\ (~p.open => p.typed = Settings!NoPassword)

DeletionOK(w) == w \in DeletionForm /\ (~w.open => w.password = None /\ ~w.confirmed)

SettingsTypeOK ==
    /\ account \in Account \cup {None} /\ subscribed \in BOOLEAN /\ name \in Names
    /\ asked \in Seq(SettingCall) /\ rejected \in BOOLEAN /\ reading \in BOOLEAN /\ left \in BOOLEAN
    /\ enabled \in BOOLEAN /\ doubt \in {"none", "unread", "early"}
    /\ profile \in ProfileForm /\ PasswordOK(password) /\ DeletionOK(deletion)

\* Nothing but the sign-out follows the reading of the profile, or precedes that of
\* the status; one profile at most is saved; and the sign-out of a user who is gone
\* is not behind the status.
InOrder(q, down, saving, who) ==
    /\ \A i \in DOMAIN q : q[i].op = "profile" =>
           down /\ \A j \in DOMAIN q : j > i => q[j].op = "logout"
    /\ \A i \in DOMAIN q : q[i].op = "save" =>
           saving /\ ~down /\ \A j \in DOMAIN q : q[j].op = "save" => j = i
    /\ \A i \in DOMAIN q : q[i].op = "status" => \A j \in DOMAIN q : j < i => q[j].op = "logout"
    /\ who = None => \E i \in DOMAIN q : /\ q[i].op = "logout"
                                         /\ \A j \in DOMAIN q : j < i => q[j].op # "status"

OfSwitch(c) == c.op \in {"status", "subscribe"}

\* One call of the switch waits at most: it turns what is stored into what is shown, or
\* reads what is stored, and without it the two are the same.
Honest(q, shown, stored) ==
    /\ \A i, j \in DOMAIN q : OfSwitch(q[i]) /\ OfSwitch(q[j]) => i = j
    /\ \A i \in DOMAIN q : q[i].op = "subscribe" => q[i].arg = shown /\ shown # stored
    /\ (\A i \in DOMAIN q : ~OfSwitch(q[i])) => shown = stored

SettingsInd ==
    /\ SettingsTypeOK
    /\ ~rejected /\ ~left =>
           /\ InOrder(asked, reading, profile.busy, account)
           /\ ~reading /\ doubt = "none" => Honest(asked, enabled, subscribed)

LEMMA SettingServed ==
  ASSUME NEW q \in Seq(SettingCall), q # <<>>
  PROVE  /\ Head(q) \in SettingCall /\ Head(q) = q[1] /\ 1 \in DOMAIN q
         /\ Tail(q) \in Seq(SettingCall)
         /\ \A i \in DOMAIN Tail(q) : i \in Nat \ {0} /\ i + 1 \in DOMAIN q /\ Tail(q)[i] = q[i + 1]
         /\ \A i \in DOMAIN q : i = 1 \/ (i - 1 \in DOMAIN Tail(q) /\ i \in Nat /\ Tail(q)[i - 1] = q[i])
  OBVIOUS

\* The call at the head goes.
LEMMA OrderServed ==
  ASSUME NEW q \in Seq(SettingCall), q # <<>>, NEW down, NEW saving, NEW who,
         InOrder(q, down, saving, who), Head(q).op # "logout"
  PROVE  /\ InOrder(Tail(q), down, saving, who)
         /\ Head(q).op = "profile" => \A i \in DOMAIN Tail(q) : Tail(q)[i].op = "logout"
         /\ Head(q).op = "save" => saving /\ ~down /\ \A i \in DOMAIN Tail(q) : Tail(q)[i].op # "save"
<1> DEFINE r == Tail(q)
<1>1. /\ Head(q) = q[1] /\ 1 \in DOMAIN q
      /\ \A i \in DOMAIN r : i \in Nat \ {0} /\ i + 1 \in DOMAIN q /\ r[i] = q[i + 1]
      /\ \A i \in DOMAIN q : i = 1 \/ (i - 1 \in DOMAIN r /\ i \in Nat /\ r[i - 1] = q[i])
  BY SettingServed
<1> HIDE DEF r
<1>2. ASSUME NEW i \in DOMAIN r, r[i].op = "profile"
      PROVE  down /\ \A j \in DOMAIN r : j > i => r[j].op = "logout"
  <2>1. q[i + 1].op = "profile" /\ i + 1 \in DOMAIN q
    BY <1>1, <1>2
  <2>2. down /\ \A j \in DOMAIN q : j > i + 1 => q[j].op = "logout"
    BY <2>1 DEF InOrder
  <2> QED
    BY <1>1, <2>2
<1>3. ASSUME NEW i \in DOMAIN r, r[i].op = "save"
      PROVE  saving /\ ~down /\ \A j \in DOMAIN r : r[j].op = "save" => j = i
  <2>1. q[i + 1].op = "save" /\ i + 1 \in DOMAIN q
    BY <1>1, <1>3
  <2>2. saving /\ ~down /\ \A j \in DOMAIN q : q[j].op = "save" => j = i + 1
    BY <2>1 DEF InOrder
  <2> QED
    BY <1>1, <2>2
<1>4. ASSUME NEW i \in DOMAIN r, r[i].op = "status"
      PROVE  \A j \in DOMAIN r : j < i => r[j].op = "logout"
  <2>1. q[i + 1].op = "status" /\ i + 1 \in DOMAIN q
    BY <1>1, <1>4
  <2>2. \A j \in DOMAIN q : j < i + 1 => q[j].op = "logout"
    BY <2>1 DEF InOrder
  <2> QED
    BY <1>1, <2>2
<1>5. ASSUME who = None
      PROVE  \E i \in DOMAIN r : r[i].op = "logout" /\ \A j \in DOMAIN r : j < i => r[j].op # "status"
  <2>1. PICK i \in DOMAIN q : q[i].op = "logout" /\ \A j \in DOMAIN q : j < i => q[j].op # "status"
    BY <1>5 DEF InOrder
  <2>2. i # 1
    BY <1>1, <2>1
  <2>3. i - 1 \in DOMAIN r /\ r[i - 1].op = "logout" /\ i \in Nat
    BY <1>1, <2>1, <2>2
  <2>4. \A j \in DOMAIN r : j < i - 1 => r[j].op # "status"
    BY <1>1, <2>1, <2>3
  <2> QED
    BY <2>3, <2>4
<1>6. InOrder(r, down, saving, who)
  BY <1>2, <1>3, <1>4, <1>5 DEF InOrder
<1>7. ASSUME Head(q).op = "profile"
      PROVE  \A i \in DOMAIN r : r[i].op = "logout"
  <2>1. \A j \in DOMAIN q : j > 1 => q[j].op = "logout"
    BY <1>1, <1>7 DEF InOrder
  <2> QED
    BY <1>1, <2>1
<1>8. ASSUME Head(q).op = "save"
      PROVE  saving /\ ~down /\ \A i \in DOMAIN r : r[i].op # "save"
  <2>1. saving /\ ~down /\ \A j \in DOMAIN q : q[j].op = "save" => j = 1
    BY <1>1, <1>8 DEF InOrder
  <2> QED
    BY <1>1, <2>1
<1> QED
  BY <1>6, <1>7, <1>8 DEF r

\* A call joins the queue.
LEMMA OrderJoined ==
  ASSUME NEW q \in Seq(SettingCall), NEW c \in SettingCall, NEW down, NEW saving, NEW who,
         InOrder(q, down, saving, who),
         c.op = "profile" => down /\ \A i \in DOMAIN q : q[i].op # "profile",
         c.op = "save" => saving /\ ~down /\ \A i \in DOMAIN q : q[i].op # "save",
         c.op = "status" => \A i \in DOMAIN q : q[i].op = "logout",
         c.op = "logout" \/ \A i \in DOMAIN q : q[i].op # "profile"
  PROVE  Append(q, c) \in Seq(SettingCall) /\ InOrder(Append(q, c), down, saving, who)
<1> DEFINE r == Append(q, c)
<1>1. /\ r \in Seq(SettingCall) /\ DOMAIN r = DOMAIN q \cup {Len(q) + 1}
      /\ r[Len(q) + 1] = c /\ \A i \in DOMAIN q : r[i] = q[i] /\ i \in Nat /\ i < Len(q) + 1
      /\ Len(q) \in Nat
  OBVIOUS
<1> HIDE DEF r
<1>2. ASSUME NEW i \in DOMAIN r, r[i].op = "profile"
      PROVE  down /\ \A j \in DOMAIN r : j > i => r[j].op = "logout"
  <2>1. CASE i \in DOMAIN q
    BY <1>1, <1>2, <2>1 DEF InOrder
  <2>2. CASE i = Len(q) + 1
    BY <1>1, <1>2, <2>2
  <2> QED
    BY <1>1, <2>1, <2>2
<1>3. ASSUME NEW i \in DOMAIN r, r[i].op = "save"
      PROVE  saving /\ ~down /\ \A j \in DOMAIN r : r[j].op = "save" => j = i
  <2>1. CASE i \in DOMAIN q
    BY <1>1, <1>3, <2>1 DEF InOrder
  <2>2. CASE i = Len(q) + 1
    BY <1>1, <1>3, <2>2
  <2> QED
    BY <1>1, <2>1, <2>2
<1>4. ASSUME NEW i \in DOMAIN r, r[i].op = "status"
      PROVE  \A j \in DOMAIN r : j < i => r[j].op = "logout"
  <2>1. CASE i \in DOMAIN q
    BY <1>1, <1>4, <2>1 DEF InOrder
  <2>2. CASE i = Len(q) + 1
    BY <1>1, <1>4, <2>2
  <2> QED
    BY <1>1, <2>1, <2>2
<1>5. ASSUME who = None
      PROVE  \E i \in DOMAIN r : r[i].op = "logout" /\ \A j \in DOMAIN r : j < i => r[j].op # "status"
  <2>1. PICK i \in DOMAIN q : q[i].op = "logout" /\ \A j \in DOMAIN q : j < i => q[j].op # "status"
    BY <1>5 DEF InOrder
  <2>2. i \in DOMAIN r /\ r[i].op = "logout"
    BY <1>1, <2>1
  <2>3. \A j \in DOMAIN r : j < i => r[j].op # "status"
    BY <1>1, <2>1
  <2> QED
    BY <2>2, <2>3
<1> QED
  BY <1>1, <1>2, <1>3, <1>4, <1>5 DEF InOrder, r

\* The switch is as honest with a call more or less that is not the switch's.
LEMMA HonestServed ==
  ASSUME NEW q \in Seq(SettingCall), q # <<>>, NEW shown, NEW stored, Honest(q, shown, stored),
         ~OfSwitch(Head(q))
  PROVE  Honest(Tail(q), shown, stored)
<1> DEFINE r == Tail(q)
<1>1. /\ Head(q) = q[1] /\ 1 \in DOMAIN q
      /\ \A i \in DOMAIN r : i \in Nat \ {0} /\ i + 1 \in DOMAIN q /\ r[i] = q[i + 1]
      /\ \A i \in DOMAIN q : i = 1 \/ (i - 1 \in DOMAIN r /\ i \in Nat /\ r[i - 1] = q[i])
  BY SettingServed
<1> HIDE DEF r
<1>2. ASSUME NEW i \in DOMAIN r, NEW j \in DOMAIN r, OfSwitch(r[i]), OfSwitch(r[j])
      PROVE  i = j
  <2>1. i + 1 = j + 1
    BY <1>1, <1>2 DEF Honest
  <2> QED
    BY <1>1, <2>1
<1>3. \A i \in DOMAIN r : r[i].op = "subscribe" => r[i].arg = shown /\ shown # stored
  BY <1>1 DEF Honest
<1>4. (\A i \in DOMAIN r : ~OfSwitch(r[i])) => shown = stored
  BY <1>1 DEF Honest
<1> QED
  BY <1>2, <1>3, <1>4 DEF Honest, r

LEMMA HonestJoined ==
  ASSUME NEW q \in Seq(SettingCall), NEW c \in SettingCall, NEW shown, NEW stored, Honest(q, shown, stored),
         ~OfSwitch(c)
  PROVE  Honest(Append(q, c), shown, stored)
<1> DEFINE r == Append(q, c)
<1>1. /\ DOMAIN r = DOMAIN q \cup {Len(q) + 1} /\ r[Len(q) + 1] = c /\ \A i \in DOMAIN q : r[i] = q[i]
  OBVIOUS
<1> HIDE DEF r
<1>2. c.op # "subscribe"
  BY DEF OfSwitch
<1> QED
  BY <1>1, <1>2 DEF Honest, r

LEMMA NoPasswordTyped ==
  /\ Settings!NoPassword \in Typed /\ DOMAIN Settings!NoPassword = {"current", "new", "confirm"}
  /\ Settings!ClosedPassword \in PasswordForm /\ ~Settings!ClosedPassword.open
  /\ Settings!ClosedPassword.typed = Settings!NoPassword
  /\ Settings!ClosedDeletion \in DeletionForm /\ ~Settings!ClosedDeletion.open
  /\ Settings!ClosedDeletion.password = None /\ ~Settings!ClosedDeletion.confirmed
<1>1. Settings!NoPassword \in Typed /\ DOMAIN Settings!NoPassword = {"current", "new", "confirm"}
  BY DEF Settings!NoPassword, Typed
<1>2. /\ Settings!ClosedPassword \in PasswordForm /\ ~Settings!ClosedPassword.open
      /\ Settings!ClosedPassword.typed = Settings!NoPassword
  BY <1>1 DEF Settings!ClosedPassword, PasswordForm
<1>3. /\ Settings!ClosedDeletion \in DeletionForm /\ ~Settings!ClosedDeletion.open
      /\ Settings!ClosedDeletion.password = None /\ ~Settings!ClosedDeletion.confirmed
  BY DEF Settings!ClosedDeletion, DeletionForm
<1> QED
  BY <1>1, <1>2, <1>3

\* A form changes and nothing is asked.
LEMMA FormChange ==
  ASSUME SettingsInd,
         UNCHANGED <<account, subscribed, name, asked, rejected, reading, left, enabled, doubt>>,
         profile' \in ProfileForm, profile'.busy = profile.busy, PasswordOK(password'), DeletionOK(deletion')
  PROVE  SettingsInd'
<1>1. SettingsTypeOK'
  BY DEF SettingsInd, SettingsTypeOK, PasswordOK, DeletionOK
<1> QED
  BY <1>1 DEF SettingsInd, InOrder, Honest, OfSwitch

LEMMA SettingsFormsInd ==
  ASSUME SettingsConstants, SettingsInd,
         \/ \E n \in Names : Settings!TypeName(n)
         \/ Settings!ToggleOpen
         \/ \E f \in DOMAIN Settings!NoPassword, p \in Passwords : Settings!TypePassword(f, p)
         \/ Settings!OpenDeletion \/ Settings!CloseDeletion
         \/ \E p \in Passwords \cup {None}, c \in BOOLEAN : Settings!TypeDeletion(p, c)
  PROVE  SettingsInd'
<1>1. /\ UNCHANGED <<account, subscribed, name, asked, rejected, reading, left, enabled, doubt>>
      /\ profile \in ProfileForm /\ PasswordOK(password) /\ DeletionOK(deletion)
  BY DEF SettingsInd, SettingsTypeOK, Settings!TypeName, Settings!ToggleOpen, Settings!TypePassword,
         Settings!OpenDeletion, Settings!CloseDeletion, Settings!TypeDeletion, Settings!PasswordTo,
         Settings!DeletionTo, Settings!server, Settings!shared, Settings!switch, Settings!counts
<1>2. ASSUME NEW n \in Names, Settings!TypeName(n)
      PROVE  SettingsInd'
  <2>1. /\ profile' = [profile EXCEPT !.name = n, !.error = FALSE, !.saved = FALSE]
        /\ UNCHANGED <<password, deletion>>
    BY <1>2 DEF Settings!TypeName
  <2>2. profile' \in ProfileForm /\ profile'.busy = profile.busy
    BY <1>1, <2>1 DEF ProfileForm
  <2> QED
    BY <1>1, <2>1, <2>2, FormChange
<1>3. ASSUME UNCHANGED <<profile, deletion>>, PasswordOK(password')
      PROVE  SettingsInd'
  BY <1>1, <1>3, FormChange
<1>4. ASSUME UNCHANGED <<profile, password>>, DeletionOK(deletion')
      PROVE  SettingsInd'
  BY <1>1, <1>4, FormChange
<1>5. CASE Settings!ToggleOpen
  <2>1. /\ UNCHANGED <<profile, deletion>>
        /\ password' = [password EXCEPT !.open = ~password.open, !.errors = {},
                                        !.typed = IF password.open THEN Settings!NoPassword ELSE password.typed]
    BY <1>5 DEF Settings!ToggleOpen, Settings!PasswordTo
  <2>2. password' \in PasswordForm
    BY <1>1, <2>1, NoPasswordTyped DEF PasswordOK, PasswordForm
  <2>3. /\ password'.open <=> ~password.open
        /\ password.open => password'.typed = Settings!NoPassword
    BY <1>1, <2>1 DEF PasswordOK, PasswordForm
  <2> QED
    BY <1>3, <2>1, <2>2, <2>3 DEF PasswordOK
<1>6. ASSUME NEW f \in DOMAIN Settings!NoPassword, NEW p \in Passwords, Settings!TypePassword(f, p)
      PROVE  SettingsInd'
  <2> DEFINE typed == [password.typed EXCEPT ![f] = p]
  <2>1. /\ UNCHANGED <<profile, deletion>> /\ password.open
        /\ password' = [password EXCEPT !.typed = typed, !.errors = password.errors \ {f}]
    BY <1>1, <1>6 DEF Settings!TypePassword, Settings!PasswordTo, PasswordOK, PasswordForm
  <2>2. typed \in Typed
    BY <1>1 DEF PasswordOK, PasswordForm, Typed
  <2> HIDE DEF typed
  <2>3. password' \in PasswordForm /\ password'.open
    BY <1>1, <2>1, <2>2 DEF PasswordOK, PasswordForm
  <2> QED
    BY <1>3, <2>1, <2>3 DEF PasswordOK
<1>7. CASE Settings!OpenDeletion
  <2>1. UNCHANGED <<profile, password>> /\ deletion' = [deletion EXCEPT !.open = TRUE]
    BY <1>7 DEF Settings!OpenDeletion, Settings!DeletionTo
  <2>2. deletion' \in DeletionForm /\ deletion'.open
    BY <1>1, <2>1 DEF DeletionOK, DeletionForm
  <2> QED
    BY <1>4, <2>1, <2>2 DEF DeletionOK
<1>8. CASE Settings!CloseDeletion
  <2>1. UNCHANGED <<profile, password>> /\ deletion' = [Settings!ClosedDeletion EXCEPT !.busy = deletion.busy]
    BY <1>8 DEF Settings!CloseDeletion, Settings!DeletionTo
  <2>2. deletion' \in DeletionForm /\ deletion'.password = None /\ ~deletion'.confirmed
    BY <1>1, <2>1, NoPasswordTyped DEF DeletionOK, DeletionForm
  <2> QED
    BY <1>4, <2>1, <2>2 DEF DeletionOK
<1>9. ASSUME NEW p \in Passwords \cup {None}, NEW c \in BOOLEAN, Settings!TypeDeletion(p, c)
      PROVE  SettingsInd'
  <2>1. /\ UNCHANGED <<profile, password>> /\ deletion.open
        /\ deletion' = [deletion EXCEPT !.password = p, !.confirmed = c, !.errors = {}]
    BY <1>9 DEF Settings!TypeDeletion, Settings!DeletionTo
  <2>2. deletion' \in DeletionForm /\ deletion'.open
    BY <1>1, <2>1 DEF DeletionOK, DeletionForm
  <2> QED
    BY <1>4, <2>1, <2>2 DEF DeletionOK
<1> QED
  BY <1>2, <1>5, <1>6, <1>7, <1>8, <1>9


\* A form asks for something.
LEMMA SettingAsked ==
  ASSUME SettingsInd, NEW c \in SettingCall, ~reading, ~left, c.op \in {"save", "password", "delete"},
         asked' = Append(asked, c),
         UNCHANGED <<account, subscribed, name, rejected, reading, left, enabled, doubt>>,
         profile' \in ProfileForm, c.op = "save" => ~profile.busy /\ profile'.busy,
         c.op # "save" => profile'.busy = profile.busy, PasswordOK(password'), DeletionOK(deletion')
  PROVE  SettingsInd'
<1>1. asked \in Seq(SettingCall) /\ asked' \in Seq(SettingCall)
  BY DEF SettingsInd, SettingsTypeOK
<1>2. SettingsTypeOK'
  BY <1>1 DEF SettingsInd, SettingsTypeOK, PasswordOK, DeletionOK
<1>3. ASSUME ~rejected
      PROVE  InOrder(asked', reading, profile'.busy, account)
  <2>1. InOrder(asked, reading, profile.busy, account)
    BY <1>3 DEF SettingsInd
  <2>2. \A i \in DOMAIN asked : asked[i].op # "profile"
    BY <2>1 DEF InOrder
  <2>3. c.op = "save" => \A i \in DOMAIN asked : asked[i].op # "save"
    BY <2>1 DEF InOrder
  <2>4. InOrder(asked, reading, profile'.busy, account)
    BY <2>1, <2>3 DEF InOrder
  <2> QED
    BY <1>1, <2>2, <2>3, <2>4, OrderJoined
<1>4. ASSUME ~rejected, doubt = "none"
      PROVE  Honest(asked', enabled, subscribed)
  <2>1. Honest(asked, enabled, subscribed) /\ ~OfSwitch(c)
    BY <1>4 DEF SettingsInd, OfSwitch
  <2> QED
    BY <1>1, <2>1, HonestJoined
<1>5. /\ rejected' = rejected /\ left' = left /\ reading' = reading /\ account' = account
      /\ enabled' = enabled /\ doubt' = doubt /\ subscribed' = subscribed
  OBVIOUS
<1> QED
  BY <1>2, <1>3, <1>4, <1>5 DEF SettingsInd

LEMMA FormsAskInd ==
  ASSUME SettingsConstants, SettingsInd,
         Settings!SaveProfile \/ Settings!SavePassword \/ Settings!ConfirmDelete
  PROVE  SettingsInd'
<1>1. /\ UNCHANGED <<account, subscribed, name, rejected, reading, left, enabled, doubt>>
      /\ profile \in ProfileForm /\ PasswordOK(password) /\ DeletionOK(deletion)
      /\ ~reading /\ ~left /\ asked \in Seq(SettingCall)
  BY DEF SettingsInd, SettingsTypeOK, Settings!SaveProfile, Settings!SavePassword,
         Settings!ConfirmDelete, Settings!PasswordTo, Settings!At,
         Settings!DeletionTo, Settings!server, Settings!shared, Settings!switch, Settings!counts
<1>2. CASE Settings!SaveProfile
  <2> DEFINE c == Settings!Call("save", profile.name)
  <2>1. /\ asked' = Append(asked, c) /\ ~profile.busy /\ UNCHANGED <<password, deletion>>
        /\ profile' = [profile EXCEPT !.busy = TRUE, !.error = FALSE, !.saved = FALSE]
    BY <1>2 DEF Settings!SaveProfile, Settings!CanSave
  <2>2. c \in SettingCall /\ c.op = "save"
    BY <1>1 DEF Settings!Call, SettingCall, ProfileForm
  <2>3. profile' \in ProfileForm /\ profile'.busy
    BY <1>1, <2>1 DEF ProfileForm
  <2>4. PasswordOK(password') /\ DeletionOK(deletion')
    BY <1>1, <2>1
  <2> HIDE DEF c
  <2> QED
    BY <1>1, <2>1, <2>2, <2>3, <2>4, SettingAsked
<1>3. CASE Settings!SavePassword
  <2> DEFINE wrong == Settings!WrongFields(password.typed)
             c     == Settings!Call("password", password.typed)
  <2>1. /\ UNCHANGED <<profile, deletion>> /\ password.open
        /\ \/ /\ password' = [password EXCEPT !.errors = wrong] /\ asked' = asked
           \/ /\ password' = [password EXCEPT !.errors = {}, !.busy = TRUE]
              /\ asked' = Append(asked, c)
    BY <1>3 DEF Settings!SavePassword, Settings!PasswordTo
  <2>2. wrong \subseteq {"current", "new", "confirm"}
    BY <1>1 DEF Settings!WrongFields, PasswordOK, PasswordForm, Typed
  <2>3. c \in SettingCall /\ c.op = "password"
    BY <1>1 DEF Settings!Call, SettingCall, PasswordOK, PasswordForm
  <2> HIDE DEF wrong, c
  <2>4. password' \in PasswordForm /\ password'.open
    BY <1>1, <2>1, <2>2 DEF PasswordOK, PasswordForm
  <2>5. PasswordOK(password') /\ DeletionOK(deletion') /\ profile' \in ProfileForm
        /\ profile'.busy = profile.busy
    BY <1>1, <2>1, <2>4 DEF PasswordOK
  <2>6. CASE asked' = asked
    BY <1>1, <2>5, <2>6, FormChange
  <2>7. CASE asked' = Append(asked, c)
    BY <1>1, <2>3, <2>5, <2>7, SettingAsked
  <2> QED
    BY <2>1, <2>6, <2>7
<1>4. CASE Settings!ConfirmDelete
  <2> DEFINE c == Settings!Call("delete", deletion.password)
  <2>1. /\ UNCHANGED <<profile, password>> /\ deletion.open
        /\ \/ /\ deletion' = [deletion EXCEPT !.errors = {"password"}] /\ asked' = asked
           \/ /\ deletion' = [deletion EXCEPT !.errors = {}, !.busy = TRUE]
              /\ asked' = Append(asked, c) /\ deletion.password # None
    BY <1>4 DEF Settings!ConfirmDelete, Settings!CanConfirm, Settings!DeletionTo
  <2>2. deletion.password # None => c \in SettingCall /\ c.op = "delete"
    BY <1>1 DEF Settings!Call, SettingCall, DeletionOK, DeletionForm
  <2> HIDE DEF c
  <2>3. deletion' \in DeletionForm /\ deletion'.open
    BY <1>1, <2>1 DEF DeletionOK, DeletionForm
  <2>4. PasswordOK(password') /\ DeletionOK(deletion') /\ profile' \in ProfileForm
        /\ profile'.busy = profile.busy
    BY <1>1, <2>1, <2>3 DEF DeletionOK
  <2>5. CASE asked' = asked
    BY <1>1, <2>4, <2>5, FormChange
  <2>6. CASE asked' = Append(asked, c) /\ deletion.password # None
    BY <1>1, <2>2, <2>4, <2>6, SettingAsked
  <2> QED
    BY <2>1, <2>5, <2>6
<1> QED
  BY <1>2, <1>3, <1>4

\* The switch is turned: without doubt none of its calls waited.
LEMMA ToggleInd ==
  ASSUME SettingsInd, Settings!Toggle
  PROVE  SettingsInd'
<1> DEFINE c == Settings!Call("subscribe", ~enabled)
<1>1. /\ UNCHANGED <<account, subscribed, name, rejected, reading, left, profile, password, deletion>>
      /\ ~reading /\ ~left /\ asked \in Seq(SettingCall) /\ enabled \in BOOLEAN /\ subscribed \in BOOLEAN
      /\ asked' = Append(asked, c) /\ enabled' = ~enabled
      /\ doubt' = IF doubt = "none" /\ (Settings!Waits("subscribe") \/ Settings!Waits("status"))
                     THEN "early" ELSE doubt
  BY DEF SettingsInd, SettingsTypeOK, Settings!Toggle, Settings!At, Settings!server
<1>2. c \in SettingCall /\ c.op = "subscribe" /\ c.arg = ~enabled
  BY <1>1 DEF Settings!Call, SettingCall
<1> HIDE DEF c
<1>3. asked' \in Seq(SettingCall) /\ Len(asked) \in Nat
      /\ DOMAIN asked' = DOMAIN asked \cup {Len(asked) + 1} /\ asked'[Len(asked) + 1] = c
      /\ \A i \in DOMAIN asked : asked'[i] = asked[i]
  BY <1>1, <1>2
<1>4. SettingsTypeOK'
  BY <1>1, <1>3 DEF SettingsInd, SettingsTypeOK, PasswordOK, DeletionOK
<1>5. ASSUME ~rejected
      PROVE  InOrder(asked', reading, profile.busy, account)
  <2>1. InOrder(asked, reading, profile.busy, account)
    BY <1>1, <1>5 DEF SettingsInd
  <2>2. \A i \in DOMAIN asked : asked[i].op # "profile"
    BY <1>1, <2>1 DEF InOrder
  <2> QED
    BY <1>1, <1>2, <2>1, <2>2, OrderJoined
<1>6. ASSUME ~rejected, doubt' = "none"
      PROVE  Honest(asked', enabled', subscribed)
  <2>1. doubt = "none" /\ ~Settings!Waits("subscribe") /\ ~Settings!Waits("status")
    BY <1>1, <1>6
  <2>2. \A i \in DOMAIN asked : ~OfSwitch(asked[i]) /\ asked[i].op # "subscribe"
    BY <2>1 DEF Settings!Waits, OfSwitch
  <2>3. enabled = subscribed
    BY <1>1, <1>6, <2>1, <2>2 DEF SettingsInd, Honest
  <2>4. enabled' # subscribed /\ c.arg = enabled'
    BY <1>1, <1>2, <2>3
  <2>5. \A i \in DOMAIN asked' : i \notin DOMAIN asked => i = Len(asked) + 1
    BY <1>3
  <2>6. \A i \in DOMAIN asked' : i \in DOMAIN asked => ~OfSwitch(asked'[i]) /\ asked'[i].op # "subscribe"
    BY <1>3, <2>2
  <2>7. OfSwitch(asked'[Len(asked) + 1]) /\ Len(asked) + 1 \in DOMAIN asked'
    BY <1>2, <1>3 DEF OfSwitch
  <2> QED
    BY <1>3, <2>4, <2>5, <2>6, <2>7 DEF Honest
<1>7. rejected' = rejected /\ left' = left /\ reading' = reading /\ account' = account /\ profile' = profile
      /\ subscribed' = subscribed
  BY <1>1
<1> QED
  BY <1>4, <1>5, <1>6, <1>7 DEF SettingsInd


\* An answer to the form of the profile, of the password or of the deletion.
LEMMA FormAnswered ==
  ASSUME SettingsConstants, SettingsInd, asked # <<>>, ~left, asked' = Tail(asked),
         Head(asked).op \in {"save", "password", "delete"},
         UNCHANGED <<subscribed, name, rejected, reading, left, enabled, doubt>>,
         account' \in Account \/ account' = account, profile' \in ProfileForm,
         Head(asked).op = "save" \/ profile'.busy = profile.busy,
         PasswordOK(password'), DeletionOK(deletion')
  PROVE  SettingsInd'
<1>1. asked \in Seq(SettingCall) /\ Tail(asked) \in Seq(SettingCall)
  BY DEF SettingsInd, SettingsTypeOK
<1>2. SettingsTypeOK'
  BY <1>1 DEF SettingsInd, SettingsTypeOK, PasswordOK, DeletionOK
<1>3. ASSUME ~rejected
      PROVE  InOrder(asked', reading, profile'.busy, account')
  <2>1. InOrder(asked, reading, profile.busy, account)
    BY <1>3 DEF SettingsInd
  <2>2. /\ InOrder(Tail(asked), reading, profile.busy, account)
        /\ Head(asked).op = "save" => \A i \in DOMAIN Tail(asked) : Tail(asked)[i].op # "save"
    BY <1>1, <2>1, OrderServed
  <2>3. account' = None => account = None
    BY DEF SettingsConstants
  <2> QED
    BY <2>2, <2>3 DEF InOrder
<1>4. ASSUME ~rejected, ~reading, doubt = "none"
      PROVE  Honest(asked', enabled, subscribed)
  <2>1. Honest(asked, enabled, subscribed) /\ ~OfSwitch(Head(asked))
    BY <1>4 DEF SettingsInd, OfSwitch
  <2> QED
    BY <1>1, <2>1, HonestServed
<1>5. /\ rejected' = rejected /\ left' = left /\ reading' = reading
      /\ enabled' = enabled /\ doubt' = doubt /\ subscribed' = subscribed
  OBVIOUS
<1> QED
  BY <1>2, <1>3, <1>4, <1>5 DEF SettingsInd

LEMMA FormAnswersInd ==
  ASSUME SettingsConstants, SettingsInd,
         \/ Settings!ProfileRefused \/ Settings!PasswordChanged \/ Settings!PasswordRefused
         \/ Settings!DeletionRefused
  PROVE  SettingsInd'
<1>1. /\ UNCHANGED <<subscribed, name, rejected, reading, left, enabled, doubt>>
      /\ profile \in ProfileForm /\ PasswordOK(password) /\ DeletionOK(deletion)
      /\ asked # <<>> /\ ~left /\ asked' = Tail(asked) /\ asked \in Seq(SettingCall)
      /\ account \in Account \cup {None}
  BY DEF SettingsInd, SettingsTypeOK, Settings!ProfileRefused, Settings!PasswordChanged,
         Settings!PasswordRefused, Settings!DeletionRefused, Settings!PasswordTo, Settings!DeletionTo,
         Settings!Op, Settings!Rest, Settings!server, Settings!shared, Settings!switch, Settings!counts
<1>2. Head(asked) \in SettingCall
  BY <1>1, SettingServed
<1>3. CASE Settings!ProfileRefused
  <2>1. /\ profile' = [profile EXCEPT !.busy = FALSE, !.error = TRUE] /\ Head(asked).op = "save"
        /\ UNCHANGED <<account, password, deletion>>
    BY <1>3 DEF Settings!ProfileRefused, Settings!Op, Settings!server
  <2>2. profile' \in ProfileForm
    BY <1>1, <2>1 DEF ProfileForm
  <2>3. PasswordOK(password') /\ DeletionOK(deletion')
    BY <1>1, <2>1
  <2> QED
    BY <1>1, <2>1, <2>2, <2>3, FormAnswered
<1>4. CASE Settings!PasswordChanged
  <2> DEFINE typed == Head(asked).arg
  <2>1. /\ Head(asked).op = "password" /\ account # None /\ Settings!IsValid(typed.new)
        /\ account' = [account EXCEPT !.password = typed.new] /\ UNCHANGED <<profile, deletion>>
        /\ password' = IF password.busy THEN Settings!ClosedPassword ELSE password
    BY <1>4 DEF Settings!PasswordChanged, Settings!Op, Settings!Arg, Settings!Verified, Settings!ChangedTo
  <2>2. typed \in Typed
    BY <1>2, <2>1 DEF SettingCall
  <2> HIDE DEF typed
  <2>3. account' \in Account
    BY <1>1, <2>1, <2>2 DEF Account, Typed
  <2>4. PasswordOK(password') /\ DeletionOK(deletion') /\ profile' \in ProfileForm
        /\ profile'.busy = profile.busy
    BY <1>1, <2>1, NoPasswordTyped DEF PasswordOK
  <2> QED
    BY <1>1, <2>1, <2>3, <2>4, FormAnswered
<1>5. CASE Settings!PasswordRefused
  <2>1. PICK wrong \in {"current", "new", "general"} :
           password' = IF password.busy THEN [password EXCEPT !.errors = {wrong}, !.busy = FALSE]
                                        ELSE password
    BY <1>5 DEF Settings!PasswordRefused, Settings!PasswordTo
  <2>2. Head(asked).op = "password" /\ UNCHANGED <<account, profile, deletion>>
    BY <1>5 DEF Settings!PasswordRefused, Settings!PasswordTo, Settings!Op, Settings!server
  <2>3. password' \in PasswordForm /\ password'.open = password.open /\ password'.typed = password.typed
    BY <1>1, <2>1 DEF PasswordOK, PasswordForm
  <2>4. PasswordOK(password') /\ DeletionOK(deletion') /\ profile' \in ProfileForm
        /\ profile'.busy = profile.busy
    BY <1>1, <2>2, <2>3 DEF PasswordOK
  <2> QED
    BY <1>1, <2>2, <2>4, FormAnswered
<1>6. CASE Settings!DeletionRefused
  <2>1. PICK wrong \in {"password", "general"} :
           deletion' = IF deletion.busy THEN [deletion EXCEPT !.errors = {wrong}, !.busy = FALSE]
                                        ELSE deletion
    BY <1>6 DEF Settings!DeletionRefused, Settings!DeletionTo
  <2>2. Head(asked).op = "delete" /\ UNCHANGED <<account, profile, password>>
    BY <1>6 DEF Settings!DeletionRefused, Settings!DeletionTo, Settings!Op, Settings!server
  <2>3. /\ deletion' \in DeletionForm /\ deletion'.open = deletion.open
        /\ deletion'.password = deletion.password /\ deletion'.confirmed = deletion.confirmed
    BY <1>1, <2>1 DEF DeletionOK, DeletionForm
  <2>4. PasswordOK(password') /\ DeletionOK(deletion') /\ profile' \in ProfileForm
        /\ profile'.busy = profile.busy
    BY <1>1, <2>2, <2>3 DEF DeletionOK
  <2> QED
    BY <1>1, <2>2, <2>4, FormAnswered
<1> QED
  BY <1>3, <1>4, <1>5, <1>6

\* The page goes down: what waits is neither a save nor a reading of the profile.
LEMMA ProfileSavedInd ==
  ASSUME SettingsConstants, SettingsInd, Settings!ProfileSaved
  PROVE  SettingsInd'
<1> DEFINE c == Settings!Call("profile", None)
<1>1. /\ asked # <<>> /\ ~left /\ Head(asked).op = "save" /\ account # None
      /\ account' = [account EXCEPT !.name = Head(asked).arg]
      /\ reading' = TRUE /\ asked' = Append(Tail(asked), c)
      /\ UNCHANGED <<subscribed, name, rejected, left, profile, password, enabled, doubt, deletion>>
  BY DEF Settings!ProfileSaved, Settings!Op, Settings!Arg, Settings!Rest, Settings!Renamed, Settings!switch
<1>2. c \in SettingCall /\ c.op = "profile"
  BY DEF Settings!Call, SettingCall
<1> HIDE DEF c
<1>3. asked \in Seq(SettingCall) /\ account \in Account
  BY <1>1 DEF SettingsInd, SettingsTypeOK
<1>4. Head(asked) \in SettingCall /\ Tail(asked) \in Seq(SettingCall)
  BY <1>1, <1>3, SettingServed
<1>5. account' \in Account
  <2>1. Head(asked).arg \in Names
    BY <1>1, <1>4 DEF SettingCall
  <2> QED
    BY <1>1, <1>3, <2>1 DEF Account
<1>6. asked' \in Seq(SettingCall)
  BY <1>1, <1>2, <1>4
<1>7. SettingsTypeOK'
  BY <1>1, <1>5, <1>6 DEF SettingsInd, SettingsTypeOK, PasswordOK, DeletionOK
<1>8. ASSUME ~rejected
      PROVE  InOrder(asked', reading', profile'.busy, account')
  <2>1. InOrder(asked, reading, profile.busy, account)
    BY <1>1, <1>8 DEF SettingsInd
  <2>2. /\ InOrder(Tail(asked), reading, profile.busy, account) /\ ~reading
        /\ \A i \in DOMAIN Tail(asked) : Tail(asked)[i].op # "save"
    BY <1>1, <1>3, <2>1, OrderServed
  <2>3. \A i \in DOMAIN Tail(asked) : Tail(asked)[i].op # "profile"
    BY <2>2 DEF InOrder
  <2>4. account' # None
    BY <1>5 DEF SettingsConstants
  <2>5. InOrder(Tail(asked), reading', profile'.busy, account') /\ reading'
    BY <1>1, <2>2, <2>3, <2>4 DEF InOrder
  <2> QED
    BY <1>1, <1>2, <1>4, <2>3, <2>5, OrderJoined
<1>9. (rejected' <=> rejected) /\ reading'
  BY <1>1
<1> QED
  BY <1>7, <1>8, <1>9 DEF SettingsInd

\* The page comes back: what waits is the sign-out, and then the status.
LEMMA MountInd ==
  ASSUME SettingsConstants, SettingsInd, Settings!ProfileRead \/ Settings!ProfileUnread
  PROVE  SettingsInd'
<1> DEFINE c == Settings!Call("status", None)
<1>1. /\ asked # <<>> /\ ~left /\ Head(asked).op = "profile" /\ asked' = Append(Tail(asked), c)
      /\ reading' = FALSE /\ password' = Settings!ClosedPassword /\ deletion' = Settings!ClosedDeletion
      /\ enabled' = FALSE /\ doubt' = "none"
      /\ UNCHANGED <<account, subscribed, rejected, left>>
  BY DEF Settings!ProfileRead, Settings!ProfileUnread, Settings!Op, Settings!Rest, Settings!Mount,
         Settings!server
<1>2. name' \in Names /\ profile' = Settings!FreshProfile(name')
  <2>1. name \in Names /\ account \in Account \cup {None}
    BY DEF SettingsInd, SettingsTypeOK
  <2>2. CASE Settings!ProfileRead
    BY <2>1, <2>2 DEF Settings!ProfileRead, Settings!Mount, Account
  <2>3. CASE Settings!ProfileUnread
    BY <2>1, <2>3 DEF Settings!ProfileUnread, Settings!Mount
  <2> QED
    BY <2>2, <2>3
<1>3. profile' \in ProfileForm /\ profile'.busy = FALSE
  BY <1>2 DEF Settings!FreshProfile, ProfileForm
<1>4. c \in SettingCall /\ c.op = "status"
  BY DEF Settings!Call, SettingCall
<1> HIDE DEF c
<1>5. asked \in Seq(SettingCall) /\ Tail(asked) \in Seq(SettingCall)
  BY <1>1, SettingServed DEF SettingsInd, SettingsTypeOK
<1>6. PasswordOK(password') /\ DeletionOK(deletion')
  BY <1>1, NoPasswordTyped DEF PasswordOK, DeletionOK
<1>7. SettingsTypeOK'
  <2>1. asked' \in Seq(SettingCall)
    BY <1>1, <1>4, <1>5
  <2> QED
    BY <1>1, <1>2, <1>3, <1>6, <2>1 DEF SettingsInd, SettingsTypeOK, PasswordOK, DeletionOK
<1>8. ASSUME ~rejected
      PROVE  InOrder(asked', reading', profile'.busy, account) /\ Honest(asked', enabled', subscribed)
  <2> DEFINE r == Tail(asked)
  <2>1. InOrder(asked, reading, profile.busy, account)
    BY <1>1, <1>8 DEF SettingsInd
  <2>2. InOrder(r, reading, profile.busy, account) /\ \A i \in DOMAIN r : r[i].op = "logout"
    BY <1>1, <1>5, <2>1, OrderServed
  <2>3. /\ DOMAIN asked' = DOMAIN r \cup {Len(r) + 1} /\ asked'[Len(r) + 1] = c
        /\ \A i \in DOMAIN r : asked'[i] = r[i]
    BY <1>1, <1>4, <1>5
  <2>4. r \in Seq(SettingCall) /\ asked' = Append(r, c)
    BY <1>1, <1>5
  <2> HIDE DEF r
  <2>5. InOrder(r, reading', profile'.busy, account)
    BY <1>1, <1>3, <2>2 DEF InOrder
  <2>6. InOrder(asked', reading', profile'.busy, account)
    BY <1>4, <2>2, <2>4, <2>5, OrderJoined
  <2>7. \A i \in DOMAIN r : ~OfSwitch(asked'[i]) /\ asked'[i].op # "subscribe"
    BY <2>2, <2>3 DEF OfSwitch
  <2>8. OfSwitch(asked'[Len(r) + 1]) /\ asked'[Len(r) + 1].op # "subscribe"
    BY <1>4, <2>3 DEF OfSwitch
  <2>9. Honest(asked', enabled', subscribed)
    BY <2>3, <2>7, <2>8 DEF Honest
  <2> QED
    BY <2>6, <2>9
<1>9. rejected' = rejected /\ left' = left /\ account' = account /\ subscribed' = subscribed
  BY <1>1
<1> QED
  BY <1>1, <1>3, <1>7, <1>8, <1>9 DEF SettingsInd

\* The document is being left, or an answer is lost.
LEMMA EndsInd ==
  ASSUME SettingsConstants, SettingsInd,
         Settings!ProfileGone \/ Settings!LogoutAnswered \/ Settings!Rejected
  PROVE  SettingsInd'
<1>1. /\ UNCHANGED <<account, subscribed, name, reading, profile, password, enabled, doubt, deletion>>
      /\ \/ left' = TRUE /\ asked' = <<>> /\ rejected' = rejected
         \/ rejected' = TRUE /\ asked # <<>> /\ asked' = Tail(asked) /\ left' = left
  BY DEF Settings!ProfileGone, Settings!LogoutAnswered, Settings!Rejected, Settings!Rest,
         Settings!server, Settings!switch
<1>2. asked' \in Seq(SettingCall)
  <2>1. asked \in Seq(SettingCall)
    BY DEF SettingsInd, SettingsTypeOK
  <2>2. <<>> \in Seq(SettingCall)
    OBVIOUS
  <2> QED
    BY <1>1, <2>1, <2>2, SettingServed
<1>3. SettingsTypeOK'
  BY <1>1, <1>2 DEF SettingsInd, SettingsTypeOK, PasswordOK, DeletionOK
<1> QED
  BY <1>1, <1>3 DEF SettingsInd


\* What a call of the switch finds at its answer.
LEMMA SwitchServed ==
  ASSUME SettingsInd, asked # <<>>, ~left, ~rejected, OfSwitch(Head(asked))
  PROVE  /\ InOrder(Tail(asked), reading, profile.busy, account)
         /\ Head(asked).op = "status" => account # None
         /\ ~reading /\ doubt = "none" => /\ \A i \in DOMAIN Tail(asked) : ~OfSwitch(Tail(asked)[i])
                                          /\ Head(asked).op = "subscribe" => /\ Head(asked).arg = enabled
                                                                             /\ enabled # subscribed
<1> DEFINE r == Tail(asked)
<1>1. asked \in Seq(SettingCall)
  BY DEF SettingsInd, SettingsTypeOK
<1>2. /\ Head(asked) = asked[1] /\ 1 \in DOMAIN asked
      /\ \A i \in DOMAIN r : i \in Nat \ {0} /\ i + 1 \in DOMAIN asked /\ r[i] = asked[i + 1]
      /\ \A i \in DOMAIN asked : i = 1 \/ (i - 1 \in DOMAIN r /\ i \in Nat /\ r[i - 1] = asked[i])
  BY <1>1, SettingServed
<1>3. InOrder(asked, reading, profile.busy, account)
  BY DEF SettingsInd
<1>4. InOrder(r, reading, profile.busy, account)
  BY <1>1, <1>3, OrderServed DEF OfSwitch
<1> HIDE DEF r
<1>5. ASSUME Head(asked).op = "status"
      PROVE  account # None
  <2>1. SUFFICES ASSUME account = None
                 PROVE  FALSE
    OBVIOUS
  <2>2. PICK i \in DOMAIN asked : asked[i].op = "logout" /\ \A j \in DOMAIN asked : j < i => asked[j].op # "status"
    BY <1>3, <2>1 DEF InOrder
  <2>3. i # 1
    BY <1>2, <1>5, <2>2
  <2>4. 1 < i
    BY <1>2, <2>2, <2>3
  <2> QED
    BY <1>2, <1>5, <2>2, <2>4
<1>6. ASSUME ~reading, doubt = "none"
      PROVE  /\ \A i \in DOMAIN r : ~OfSwitch(r[i])
             /\ Head(asked).op = "subscribe" => Head(asked).arg = enabled /\ enabled # subscribed
  <2>1. Honest(asked, enabled, subscribed)
    BY <1>6 DEF SettingsInd
  <2>2. \A i \in DOMAIN asked : OfSwitch(asked[i]) => i = 1
    BY <1>2, <2>1 DEF Honest
  <2>3. \A i \in DOMAIN r : i + 1 # 1
    BY <1>2
  <2>4. \A i \in DOMAIN r : ~OfSwitch(r[i])
    BY <1>2, <2>2, <2>3
  <2> QED
    BY <1>2, <2>1, <2>4 DEF Honest
<1> QED
  BY <1>4, <1>5, <1>6 DEF r

\* The switch shows what is stored, once its call is answered.
LEMMA SwitchAnswersInd ==
  ASSUME SettingsInd,
         \/ Settings!StatusAnswered \/ Settings!StatusRefused
         \/ Settings!SubscriptionSet \/ Settings!SubscriptionRefused
  PROVE  SettingsInd'
<1>1. /\ asked # <<>> /\ ~left /\ OfSwitch(Head(asked)) /\ asked' = Tail(asked)
      /\ UNCHANGED <<account, name, rejected, reading, left, profile, password, deletion>>
  BY DEF Settings!StatusAnswered, Settings!StatusRefused, Settings!SubscriptionSet,
         Settings!SubscriptionRefused, Settings!Op, Settings!Rest, OfSwitch,
         Settings!server, Settings!shared, Settings!counts
<1>2. asked \in Seq(SettingCall) /\ enabled \in BOOLEAN /\ subscribed \in BOOLEAN
      /\ doubt \in {"none", "unread", "early"}
  BY DEF SettingsInd, SettingsTypeOK
<1>3. Head(asked) \in SettingCall /\ Tail(asked) \in Seq(SettingCall)
  BY <1>1, <1>2, SettingServed
<1>4. Head(asked).op = "subscribe" => Head(asked).arg \in BOOLEAN
  BY <1>3 DEF SettingCall
<1>5. /\ enabled' \in BOOLEAN /\ subscribed' \in BOOLEAN /\ doubt' \in {"none", "unread", "early"}
      /\ doubt' = "none" => doubt = "none"
  <2>1. CASE Settings!StatusAnswered
    BY <1>2, <2>1 DEF Settings!StatusAnswered, Settings!switch, Settings!server
  <2>2. CASE Settings!StatusRefused
    BY <1>2, <2>2 DEF Settings!StatusRefused, Settings!server
  <2>3. CASE Settings!SubscriptionSet
    BY <1>2, <1>4, <2>3 DEF Settings!SubscriptionSet, Settings!switch, Settings!Op, Settings!Arg
  <2>4. CASE Settings!SubscriptionRefused
    BY <1>2, <1>4, <2>4 DEF Settings!SubscriptionRefused, Settings!server, Settings!Op, Settings!Arg
  <2> QED
    BY <2>1, <2>2, <2>3, <2>4
<1>6. SettingsTypeOK'
  BY <1>1, <1>3, <1>5 DEF SettingsInd, SettingsTypeOK, PasswordOK, DeletionOK
<1>7. ASSUME ~rejected
      PROVE  InOrder(asked', reading', profile'.busy, account')
  <2>1. InOrder(asked', reading, profile.busy, account)
    BY <1>1, <1>7, SwitchServed
  <2> QED
    BY <1>1, <2>1
<1>8. ASSUME ~rejected, ~reading, doubt' = "none"
      PROVE  Honest(asked', enabled', subscribed')
  <2>1. /\ \A i \in DOMAIN asked' : ~OfSwitch(asked'[i])
        /\ Head(asked).op = "subscribe" => Head(asked).arg = enabled /\ enabled # subscribed
        /\ Head(asked).op = "status" => account # None
    BY <1>1, <1>5, <1>8, SwitchServed
  <2>2. enabled' = subscribed'
    <3>1. CASE Settings!StatusAnswered
      BY <2>1, <3>1 DEF Settings!StatusAnswered, Settings!Op, Settings!server
    <3>2. CASE Settings!StatusRefused
      BY <1>8, <3>2 DEF Settings!StatusRefused
    <3>3. CASE Settings!SubscriptionSet
      BY <2>1, <3>3 DEF Settings!SubscriptionSet, Settings!Op, Settings!Arg, Settings!switch
    <3>4. CASE Settings!SubscriptionRefused
      <4>1. Head(asked).op = "subscribe" /\ enabled' = ~Head(asked).arg /\ subscribed' = subscribed
        BY <1>8, <3>4 DEF Settings!SubscriptionRefused, Settings!Op, Settings!Arg, Settings!server
      <4> QED
        BY <1>2, <2>1, <4>1
    <3> QED
      BY <3>1, <3>2, <3>3, <3>4
  <2>3. \A i \in DOMAIN asked' : asked'[i].op # "subscribe"
    BY <2>1 DEF OfSwitch
  <2> QED
    BY <2>1, <2>2, <2>3 DEF Honest
<1>9. (rejected' <=> rejected) /\ (reading' <=> reading)
  BY <1>1
<1> QED
  BY <1>6, <1>7, <1>8, <1>9 DEF SettingsInd

\* The sign-out follows, and no status is before it.
LEMMA AccountDeletedInd ==
  ASSUME SettingsConstants, SettingsInd, Settings!AccountDeleted
  PROVE  SettingsInd'
<1> DEFINE r == Tail(asked)
           c == Settings!Call("logout", None)
<1>1. /\ asked # <<>> /\ ~left /\ Head(asked).op = "delete" /\ account' = None
      /\ asked' = Append(r, c)
      /\ UNCHANGED <<subscribed, name, rejected, reading, left, profile, password, enabled, doubt, deletion>>
  BY DEF Settings!AccountDeleted, Settings!Op, Settings!Rest, Settings!DeleteUser,
         Settings!shared, Settings!switch, Settings!counts
<1>2. c \in SettingCall /\ c.op = "logout"
  BY DEF Settings!Call, SettingCall
<1>3. asked \in Seq(SettingCall) /\ r \in Seq(SettingCall)
  BY <1>1, SettingServed DEF SettingsInd, SettingsTypeOK
<1>4. /\ Head(asked) = asked[1] /\ 1 \in DOMAIN asked
      /\ \A i \in DOMAIN r : i \in Nat \ {0} /\ i + 1 \in DOMAIN asked /\ r[i] = asked[i + 1]
  BY <1>1, <1>3, SettingServed
<1> HIDE DEF c
<1>5. /\ asked' \in Seq(SettingCall) /\ DOMAIN asked' = DOMAIN r \cup {Len(r) + 1}
      /\ asked'[Len(r) + 1] = c /\ \A i \in DOMAIN r : asked'[i] = r[i]
      /\ \A i \in DOMAIN asked' : i < Len(r) + 1 => i \in DOMAIN r
  BY <1>1, <1>2, <1>3
<1>6. SettingsTypeOK'
  BY <1>1, <1>5 DEF SettingsInd, SettingsTypeOK, PasswordOK, DeletionOK
<1>7. ASSUME ~rejected
      PROVE  InOrder(asked', reading, profile.busy, None)
  <2>1. InOrder(asked, reading, profile.busy, account)
    BY <1>1, <1>7 DEF SettingsInd
  <2>2. InOrder(r, reading, profile.busy, account)
    BY <1>1, <1>3, <2>1, OrderServed
  <2>3. \A i \in DOMAIN r : r[i].op # "status"
    <3>1. SUFFICES ASSUME NEW i \in DOMAIN r, r[i].op = "status"
                   PROVE  FALSE
      OBVIOUS
    <3>2. i + 1 \in DOMAIN asked /\ asked[i + 1].op = "status" /\ 1 < i + 1
      BY <1>4, <3>1
    <3>3. asked[1].op = "logout"
      BY <1>4, <2>1, <3>2 DEF InOrder
    <3> QED
      BY <1>1, <1>4, <3>3
  <2> HIDE DEF r
  <2>4. InOrder(asked', reading, profile.busy, account)
    BY <1>1, <1>2, <1>3, <2>2, OrderJoined
  <2>5. /\ Len(r) + 1 \in DOMAIN asked' /\ asked'[Len(r) + 1].op = "logout"
        /\ \A j \in DOMAIN asked' : j < Len(r) + 1 => asked'[j].op # "status"
    BY <1>2, <1>5, <2>3
  <2> QED
    BY <2>4, <2>5 DEF InOrder
<1>8. ASSUME ~rejected, ~reading, doubt = "none"
      PROVE  Honest(asked', enabled, subscribed)
  <2>1. Honest(asked, enabled, subscribed) /\ ~OfSwitch(Head(asked)) /\ ~OfSwitch(c)
    BY <1>1, <1>2, <1>8 DEF SettingsInd, OfSwitch
  <2>2. Honest(r, enabled, subscribed)
    BY <1>1, <1>3, <2>1, HonestServed
  <2> QED
    BY <1>1, <1>2, <1>3, <2>1, <2>2, HonestJoined
<1>9. rejected' = rejected /\ left' = left /\ reading' = reading /\ profile' = profile
      /\ enabled' = enabled /\ doubt' = doubt /\ subscribed' = subscribed
  BY <1>1
<1> QED
  BY <1>1, <1>6, <1>7, <1>8, <1>9 DEF SettingsInd

LEMMA SettingsNextInd ==
  ASSUME SettingsConstants
  PROVE  SettingsInd /\ [Settings!Next]_Settings!vars => SettingsInd'
<1> SUFFICES ASSUME SettingsInd, [Settings!Next]_Settings!vars
             PROVE  SettingsInd'
  OBVIOUS
<1>1. CASE Settings!Answers
  BY <1>1, FormAnswersInd, ProfileSavedInd, MountInd, EndsInd, SwitchAnswersInd, AccountDeletedInd
     DEF Settings!Answers
<1>2. CASE Settings!SaveProfile \/ Settings!SavePassword \/ Settings!ConfirmDelete
  BY <1>2, FormsAskInd
<1>3. CASE Settings!Toggle
  BY <1>3, ToggleInd
<1>4. CASE \/ \E n \in Names : Settings!TypeName(n)
           \/ Settings!ToggleOpen
           \/ \E f \in DOMAIN Settings!NoPassword, p \in Passwords : Settings!TypePassword(f, p)
           \/ Settings!OpenDeletion \/ Settings!CloseDeletion
           \/ \E p \in Passwords \cup {None}, c \in BOOLEAN : Settings!TypeDeletion(p, c)
  BY <1>4, SettingsFormsInd
<1>5. CASE UNCHANGED Settings!vars
  <2>1. /\ UNCHANGED <<account, subscribed, name, asked, rejected, reading, left, enabled, doubt>>
        /\ UNCHANGED <<profile, password, deletion>>
    BY <1>5 DEF Settings!vars, Settings!server, Settings!shared, Settings!switch
  <2>2. profile \in ProfileForm /\ PasswordOK(password) /\ DeletionOK(deletion)
    BY DEF SettingsInd, SettingsTypeOK
  <2> QED
    BY <2>1, <2>2, FormChange
<1> QED
  BY <1>1, <1>2, <1>3, <1>4, <1>5 DEF Settings!Next

LEMMA SettingsInitInd ==
  ASSUME SettingsConstants, Settings!Init
  PROVE  SettingsInd
<1> DEFINE c == Settings!Call("status", None)
<1>1. PICK n \in Names, p \in Passwords \ Weak :
         account = [name |-> n, password |-> p] /\ name = n /\ profile = Settings!FreshProfile(n)
  BY DEF Settings!Init
<1>2. /\ subscribed \in BOOLEAN /\ rejected = FALSE /\ reading = FALSE /\ left = FALSE
      /\ password = Settings!ClosedPassword /\ enabled = FALSE /\ doubt = "none"
      /\ deletion = Settings!ClosedDeletion /\ asked = <<c>>
  BY DEF Settings!Init
<1>3. account \in Account /\ account # None
  BY <1>1 DEF Account, SettingsConstants
<1>4. profile \in ProfileForm
  BY <1>1 DEF Settings!FreshProfile, ProfileForm
<1>5. c \in SettingCall /\ c.op = "status"
  BY DEF Settings!Call, SettingCall
<1> HIDE DEF c
<1>6. asked \in Seq(SettingCall) /\ DOMAIN asked = {1} /\ asked[1] = c
  BY <1>2, <1>5
<1>7. PasswordOK(password) /\ DeletionOK(deletion)
  BY <1>2, NoPasswordTyped DEF PasswordOK, DeletionOK
<1>8. SettingsTypeOK
  BY <1>1, <1>2, <1>3, <1>4, <1>6, <1>7 DEF SettingsTypeOK
<1>9. InOrder(asked, reading, profile.busy, account)
  BY <1>3, <1>5, <1>6 DEF InOrder
<1>10. Honest(asked, enabled, subscribed)
  <2>1. OfSwitch(asked[1]) /\ asked[1].op # "subscribe"
    BY <1>5, <1>6 DEF OfSwitch
  <2> QED
    BY <1>6, <2>1 DEF Honest
<1> QED
  BY <1>8, <1>9, <1>10 DEF SettingsInd

\* Of the settings of an account: the form of the password and the window of the deletion
\* have forgotten the passwords whenever they are closed, whatever was cancelled, answered
\* late or taken down; and a switch of the notifications whose status was read, and that is
\* turned only when none of its calls waits, shows what the database holds.
THEOREM SettingsInvHolds == ASSUME SettingsConstants PROVE Settings!Spec => []SettingsInv
<1>1. Settings!Init => SettingsInd
  BY SettingsInitInd
<1>2. SettingsInd /\ [Settings!Next]_Settings!vars => SettingsInd'
  BY SettingsNextInd
<1>3. SettingsInd => SettingsInv
  <2>1. ASSUME SettingsInd
        PROVE  Settings!PasswordsForgotten
    BY <2>1 DEF SettingsInd, SettingsTypeOK, PasswordOK, DeletionOK, Settings!PasswordsForgotten
  <2>2. ASSUME SettingsInd
        PROVE  Settings!SwitchIsHonest
    <3>1. ASSUME Settings!Quiet, doubt = "none"
          PROVE  enabled = subscribed
      <4>1. Honest(asked, enabled, subscribed)
        BY <2>2, <3>1 DEF SettingsInd, Settings!Quiet
      <4>2. \A i \in DOMAIN asked : ~OfSwitch(asked[i])
        BY <3>1 DEF Settings!Quiet, Settings!Waits, OfSwitch
      <4> QED
        BY <4>1, <4>2 DEF Honest
    <3> QED
      BY <3>1 DEF Settings!SwitchIsHonest
  <2> QED
    BY <2>1, <2>2 DEF SettingsInv, Settings!SettingsInv
<1> QED
  BY <1>1, <1>2, <1>3, PTL DEF Settings!Spec

-----------------------------------------------------------------------------
(* The list of the jobs *)

JobsConstants ==
    /\ MaxJobs \in Nat /\ Limit \in Nat
    /\ PageSizes \subseteq Nat \ {0} /\ Durations \subseteq Nat
    /\ Outcomes \subseteq Jobs!Ended

JobRow == [id : Nat, status : Jobs!Status]

\* What has ended stays as it ended, and no job goes.
Later(first, second) ==
    /\ first \in Seq(Jobs!Status) /\ second \in Seq(Jobs!Status)
    /\ Len(first) <= Len(second)
    /\ \A j \in 1..Len(first) : first[j] \in Jobs!Ended => second[j] = first[j]

Showing(rows, s) == {i \in DOMAIN rows : rows[i].status = s}

\* The numbers of a report are not ahead of its list.
Fits(report) ==
    /\ report.recentJobs \in Seq(JobRow)
    /\ Len(report.recentJobs) < Limit =>
           /\ report.summary.total <= Len(report.recentJobs)
           /\ \A s \in Jobs!Ended \cap Jobs!StatusOrder :
                  report.summary.counts[s] <= Cardinality(Showing(report.recentJobs, s))

JobsInd ==
    /\ jobs \in Seq(Jobs!Status)
    /\ stage = "counted" => Later(seen, jobs)
    /\ stage = "read" => Fits(answer)
    /\ stats # None => Fits(stats)
    /\ jobsPage \in Nat \ {0} /\ rowsPerPage \in Nat \ {0}
    /\ expandedError # None => expandedError.took \in Nat

\* The instance has a cardinality of its own.
LEMMA SameCardinality == \A S : Jobs!Cardinality(S) = Cardinality(S)
  BY Zenon DEF Jobs!Cardinality, Cardinality

\* The newest jobs, each at its place from the end.
LEMMA RecentRows ==
  ASSUME NEW js \in Seq(Jobs!Status), Limit \in Nat
  PROVE  /\ Jobs!RecentJobs(js) \in Seq(JobRow)
         /\ Len(Jobs!RecentJobs(js)) < Limit =>
                /\ Len(Jobs!RecentJobs(js)) = Len(js)
                /\ \A j \in 1..Len(js) : Jobs!RecentJobs(js)[Len(js) - j + 1].status = js[j]
<1> DEFINE n == Len(js)
           listed == [j \in DOMAIN js |-> [id |-> j, status |-> js[j]]]
           rows == Jobs!Reverse(listed)
           most == IF Len(rows) > Limit THEN Limit ELSE Len(rows)
<1>1. n \in Nat /\ DOMAIN js = 1..n /\ \A j \in 1..n : js[j] \in Jobs!Status
  OBVIOUS
<1>2. listed = [j \in 1..n |-> [id |-> j, status |-> js[j]]]
  BY <1>1
<1>3. listed \in Seq(JobRow) /\ Len(listed) = n
  BY <1>1, <1>2 DEF JobRow
<1>4. rows = [i \in 1..n |-> listed[(n - i) + 1]]
  BY <1>3 DEF Jobs!Reverse
<1>5. \A i \in 1..n : (n - i) + 1 \in 1..n /\ (n - ((n - i) + 1)) + 1 = i
  BY <1>1
<1>6. \A j \in 1..n : listed[j] \in JobRow /\ listed[j].status = js[j]
  BY <1>1, <1>2 DEF JobRow
<1>7. Jobs!RecentJobs(js) = SubSeq(rows, 1, most)
  BY DEF Jobs!RecentJobs
<1> HIDE DEF listed, rows, n
<1>8. rows \in Seq(JobRow) /\ Len(rows) = n
  BY <1>1, <1>4, <1>5, <1>6
<1>9. \A j \in 1..n : rows[(n - j) + 1].status = js[j]
  <2> SUFFICES ASSUME NEW j \in 1..n PROVE rows[(n - j) + 1].status = js[j]
    OBVIOUS
  <2>1. rows[(n - j) + 1] = listed[(n - ((n - j) + 1)) + 1]
    BY <1>4, <1>5
  <2> QED
    BY <2>1, <1>5, <1>6
<1>10. most \in 0..Len(rows) /\ (most < Limit => most = Len(rows))
  BY <1>1, <1>8
<1> HIDE DEF most
<1>11. /\ SubSeq(rows, 1, most) \in Seq(JobRow) /\ Len(SubSeq(rows, 1, most)) = most
       /\ \A i \in 1..most : SubSeq(rows, 1, most)[i] = rows[i]
  BY <1>1, <1>8, <1>10
<1> DEFINE recent == SubSeq(rows, 1, most)
<1> HIDE DEF recent
<1>12. recent \in Seq(JobRow) /\ Len(recent) = most /\ \A i \in 1..most : recent[i] = rows[i]
  BY <1>11 DEF recent
<1>13. most < Limit => most = n
  BY <1>8, <1>10
<1>14. \A j \in 1..n : (n - j) + 1 \in 1..n
  BY <1>5
<1>15. ASSUME most < Limit, NEW j \in 1..n PROVE recent[(n - j) + 1].status = js[j]
  BY <1>9, <1>12, <1>13, <1>14, <1>15
<1>16. Jobs!RecentJobs(js) = recent
  BY <1>7 DEF recent
<1> QED
  BY <1>12, <1>13, <1>15, <1>16 DEF n

\* The jobs that had ended are still among those that are listed so.
LEMMA ReportFits ==
  ASSUME NEW first, NEW second, Later(first, second), Limit \in Nat
  PROVE  Fits(Jobs!Report(first, second))
<1> DEFINE rows == Jobs!RecentJobs(second)
           n == Len(second)
<1>1. /\ first \in Seq(Jobs!Status) /\ second \in Seq(Jobs!Status)
      /\ Len(first) <= n /\ n \in Nat /\ Len(first) \in Nat
  BY DEF Later
<1>2. /\ rows \in Seq(JobRow)
      /\ Len(rows) < Limit => Len(rows) = n /\ \A j \in 1..n : rows[(n - j) + 1].status = second[j]
  BY <1>1, RecentRows
<1>3. /\ Jobs!Report(first, second).recentJobs = rows
      /\ Jobs!Report(first, second).summary = Jobs!Summary(first)
      /\ Jobs!Summary(first).total = Len(first)
      /\ \A s \in Jobs!StatusOrder : Jobs!Summary(first).counts[s] = Jobs!Count(first, s)
  BY DEF Jobs!Report, Jobs!Summary
<1> HIDE DEF rows, n
<1>4. ASSUME Len(rows) < Limit, NEW s \in Jobs!Ended
      PROVE  Jobs!Count(first, s) <= Cardinality(Showing(rows, s))
  <2> DEFINE counted == {j \in DOMAIN first : first[j] = s}
             at == [j \in counted |-> (n - j) + 1]
  <2>1. DOMAIN rows = 1..n /\ DOMAIN first = 1..Len(first)
    BY <1>1, <1>2, <1>4
  <2>2. \A j \in counted : j \in 1..n /\ second[j] = s
    BY <1>1, <2>1, <1>4 DEF Later, n
  <2>3. \A j \in counted : (n - j) + 1 \in Showing(rows, s)
    BY <1>1, <1>2, <1>4, <2>1, <2>2 DEF Showing
  <2>5. at \in Injection(counted, Showing(rows, s))
    <3>1. at \in [counted -> Showing(rows, s)]
      BY <2>3
    <3>2. \A j, k \in counted : at[j] = at[k] => j = k
      BY <1>1, <2>2
    <3> HIDE DEF at, counted
    <3> QED
      BY <3>1, <3>2 DEF Injection, IsInjective
  <2>6. IsFiniteSet(Showing(rows, s))
    <3>1. IsFiniteSet(1..n)
      BY <1>1, FS_Interval
    <3> QED
      BY <2>1, <3>1, FS_Subset DEF Showing
  <2>7. Cardinality(counted) <= Cardinality(Showing(rows, s))
    <3> HIDE DEF at, counted
    <3> QED
      BY <2>5, <2>6, FS_Injection
  <2> QED
    BY <2>7, SameCardinality DEF Jobs!Count
<1> QED
  BY <1>1, <1>2, <1>3, <1>4 DEF Fits

LEMMA FilteredRows ==
  ASSUME JobsInd
  PROVE  Jobs!FilteredJobs \in Seq(JobRow) /\ Jobs!TotalPages \in Nat \ {0}
<1>1. Jobs!FilteredJobs \in Seq(JobRow)
  <2>1. CASE stats = None
    BY <2>1 DEF Jobs!FilteredJobs
  <2>2. CASE stats # None
    <3> DEFINE kept == {j \in Jobs!ToSet(stats.recentJobs) :
                          (filter # "all" => j.status = filter) /\ j.id \in search}
    <3>1. stats.recentJobs \in Seq(JobRow)
      BY <2>2 DEF JobsInd, Fits
    <3>2. Jobs!FilteredJobs = Jobs!Selection(stats.recentJobs, kept)
      BY <2>2 DEF Jobs!FilteredJobs
    <3> HIDE DEF kept
    <3>3. Jobs!Selection(stats.recentJobs, kept) = Selection(stats.recentJobs, kept)
      BY Zenon DEF Jobs!Selection, Selection
    <3> QED
      BY <3>1, <3>2, <3>3, SelectionPicks
  <2> QED
    BY <2>1, <2>2
<1>2. Jobs!FilteredJobs # <<>> => Len(Jobs!FilteredJobs) \in Nat \ {0}
  BY <1>1
<1>3. Jobs!FilteredJobs # <<>> => Jobs!TotalPages \in Nat \ {0}
  BY <1>2, PagesOfRows DEF JobsInd, Jobs!TotalPages
<1>4. Jobs!FilteredJobs = <<>> => Jobs!TotalPages = 1
  BY DEF Jobs!TotalPages
<1> QED
  BY <1>1, <1>3, <1>4

LEMMA JobsInitInd == ASSUME JobsConstants, Jobs!Init PROVE JobsInd
  BY DEF JobsConstants, Jobs!Init, JobsInd

\* A job that goes on had not ended.
LEMMA GoesOn ==
  ASSUME JobsConstants, jobs \in Seq(Jobs!Status),
         Jobs!Submit \/ \E j \in DOMAIN jobs : Jobs!GoOn(j)
  PROVE  jobs' \in Seq(Jobs!Status) /\ \A first : Later(first, jobs) => Later(first, jobs')
<1>1. CASE Jobs!Submit
  <2>1. jobs' = Append(jobs, "queued") /\ "queued" \in Jobs!Status
    BY <1>1 DEF Jobs!Submit, Jobs!Status
  <2> QED
    BY <2>1 DEF Later
<1>2. ASSUME NEW j \in DOMAIN jobs, Jobs!GoOn(j)
      PROVE  jobs' \in Seq(Jobs!Status) /\ \A first : Later(first, jobs) => Later(first, jobs')
  <2>1. PICK s \in {"processing"} \cup Outcomes : jobs' = [jobs EXCEPT ![j] = s]
    BY <1>2 DEF Jobs!GoOn
  <2>2. s \in Jobs!Status
    BY DEF JobsConstants, Jobs!Status
  <2>3. jobs' \in Seq(Jobs!Status) /\ Len(jobs') = Len(jobs)
    BY <2>1, <2>2
  <2>4. \A k \in 1..Len(jobs) : jobs[k] \in Jobs!Ended => jobs'[k] = jobs[k]
    BY <1>2, <2>1 DEF Jobs!GoOn
  <2>5. ASSUME NEW first, Later(first, jobs) PROVE Later(first, jobs')
    <3>1. first \in Seq(Jobs!Status) /\ Len(first) <= Len(jobs)
      BY <2>5 DEF Later
    <3>2. \A k \in 1..Len(first) : k \in 1..Len(jobs)
      BY <3>1
    <3> QED
      BY <2>3, <2>4, <2>5, <3>1, <3>2 DEF Later
  <2> QED
    BY <2>3, <2>5
<1> QED
  BY <1>1, <1>2

LEMMA JobsNextInd ==
  ASSUME JobsConstants, JobsInd, [Jobs!Next]_Jobs!vars
  PROVE  JobsInd'
<1> USE DEF Jobs!server, Jobs!list
<1>1. CASE UNCHANGED Jobs!vars
  BY <1>1 DEF Jobs!vars, JobsInd, Fits, Later
<1>2. CASE Jobs!Submit \/ \E j \in DOMAIN jobs : Jobs!GoOn(j)
  <2>1. UNCHANGED <<stage, seen, answer, stats, jobsPage, rowsPerPage, expandedError>>
    BY <1>2 DEF Jobs!Submit, Jobs!GoOn
  <2>2. jobs' \in Seq(Jobs!Status) /\ \A first : Later(first, jobs) => Later(first, jobs')
    BY <1>2, GoesOn DEF JobsInd
  <2>3. stage' = "counted" => Later(seen', jobs')
    BY <2>1, <2>2 DEF JobsInd
  <2> QED
    BY <2>1, <2>2, <2>3 DEF JobsInd, Fits
<1>3. CASE Jobs!CountJobs
  <2>1. stage' = "counted" /\ seen' = jobs
        /\ UNCHANGED <<jobs, answer, stats, jobsPage, rowsPerPage, expandedError>>
    BY <1>3 DEF Jobs!CountJobs
  <2>2. Later(jobs, jobs)
    BY DEF JobsInd, Later
  <2> QED
    BY <2>1, <2>2 DEF JobsInd, Fits, Later
<1>4. CASE Jobs!ReadRecent
  <2>1. stage = "counted" /\ stage' = "read" /\ answer' = Jobs!Report(seen, jobs)
        /\ UNCHANGED <<jobs, stats, jobsPage, rowsPerPage, expandedError>>
    BY <1>4 DEF Jobs!ReadRecent
  <2>2. Fits(Jobs!Report(seen, jobs))
    BY <2>1, ReportFits DEF JobsInd, JobsConstants
  <2>3. Fits(answer')
    BY <2>1, <2>2
  <2> QED
    BY <2>1, <2>3 DEF JobsInd, Fits
<1>5. CASE Jobs!Answer
  <2>1. stage = "read" /\ stage' = "idle" /\ stats' = answer
        /\ UNCHANGED <<jobs, jobsPage, rowsPerPage, expandedError>>
    BY <1>5 DEF Jobs!Answer
  <2>2. Fits(stats')
    BY <2>1 DEF JobsInd
  <2> QED
    BY <2>1, <2>2 DEF JobsInd
<1>6. CASE Jobs!Refuse \/ Jobs!Lose \/ Jobs!RefreshStats
  <2>1. stage' \in {"idle", "lost", "asked"}
        /\ UNCHANGED <<jobs, stats, jobsPage, rowsPerPage, expandedError>>
    BY <1>6 DEF Jobs!Refuse, Jobs!Lose, Jobs!RefreshStats
  <2> QED
    BY <2>1 DEF JobsInd, Fits
\* The list, its pages and the window of the error.
<1>7. ASSUME UNCHANGED <<jobs, stage, seen, answer, stats>>,
             jobsPage' \in Nat \ {0}, rowsPerPage' \in Nat \ {0},
             expandedError' # None => expandedError'.took \in Nat
      PROVE  JobsInd'
  BY <1>7 DEF JobsInd, Fits, Later
<1>8. ASSUME NEW f, NEW s, NEW n \in Nat \ {0}, Jobs!Arrange(f, s, n)
      PROVE  JobsInd'
  BY <1>7, <1>8 DEF Jobs!Arrange, JobsInd
<1>9. CASE \/ \E f \in Filters : Jobs!HandleFilter(f)
           \/ \E s \in Searches : Jobs!Search(s)
           \/ \E n \in PageSizes : Jobs!ChangeRowsPerPage(n)
  BY <1>8, <1>9 DEF Jobs!HandleFilter, Jobs!Search, Jobs!ChangeRowsPerPage, JobsConstants, JobsInd
<1>10. CASE Jobs!PreviousPage \/ Jobs!NextPage
  <2>1. Jobs!TotalPages \in Nat \ {0} /\ jobsPage \in Nat \ {0}
    BY FilteredRows DEF JobsInd
  <2>2. jobsPage' \in Nat \ {0}
        /\ UNCHANGED <<jobs, stage, seen, answer, stats, rowsPerPage, expandedError>>
    BY <1>10, <2>1 DEF Jobs!PreviousPage, Jobs!NextPage, Jobs!Turn
  <2> QED
    BY <1>7, <2>2 DEF JobsInd
<1>11. CASE \E i \in DOMAIN Jobs!PageJobs : Jobs!ShowError(Jobs!PageJobs[i])
  <2>1. PICK job : Jobs!ShowError(job)
    BY <1>11
  <2>2. PICK d \in Durations : expandedError' = [job |-> job, took |-> d]
    BY <2>1 DEF Jobs!ShowError
  <2>3. expandedError'.took \in Nat
        /\ UNCHANGED <<jobs, stage, seen, answer, stats, jobsPage, rowsPerPage>>
    BY <2>1, <2>2 DEF Jobs!ShowError, JobsConstants
  <2> QED
    BY <1>7, <2>3 DEF JobsInd
<1>12. CASE Jobs!CloseError
  BY <1>7, <1>12 DEF Jobs!CloseError, JobsInd
<1> QED
  BY <1>1, <1>2, <1>3, <1>4, <1>5, <1>6, <1>9, <1>10, <1>11, <1>12 DEF Jobs!Next

\* The page that is shown begins in the list and ends after its beginning.
LEMMA PageInRows == ASSUME JobsInd PROVE Jobs!PageHasRows
<1> SUFFICES ASSUME Jobs!FilteredJobs # <<>> PROVE Jobs!PageJobs # <<>>
  BY DEF Jobs!PageHasRows
<1> DEFINE listed == Jobs!FilteredJobs
           n == Len(listed)
           c == Jobs!CurrentPage
           r == rowsPerPage
           from == (c - 1) * r + 1
           to == IF c * r > n THEN n ELSE c * r
<1>1. listed \in Seq(JobRow) /\ n \in Nat \ {0} /\ r \in Nat \ {0} /\ jobsPage \in Nat \ {0}
  BY FilteredRows DEF JobsInd
<1>2. Jobs!TotalPages = (n + r - 1) \div r /\ Jobs!TotalPages \in Nat \ {0}
  BY FilteredRows DEF Jobs!TotalPages
<1>3. c \in Nat \ {0} /\ c <= (n + r - 1) \div r
  BY <1>1, <1>2 DEF Jobs!CurrentPage
<1>4. Jobs!PageJobs = SubSeq(listed, from, to)
  BY DEF Jobs!PageJobs
<1>5. from = (c - 1) * r + 1 /\ to = IF c * r > n THEN n ELSE c * r
  OBVIOUS
<1> HIDE DEF listed, n, c, r, from, to
<1>6. from \in 1..n /\ to \in from..n
  BY <1>1, <1>3, <1>5, PageRange
<1>7. SubSeq(listed, from, to) # <<>>
  BY <1>1, <1>6, RangeHasRows DEF n
<1> QED
  BY <1>4, <1>7

\* Of the page that lists the jobs, for any number of them, any pages and any filters: the
\* numbers at the top are never ahead of the list below, although the server counts and
\* lists the jobs in two queries while they go on; a page of the list that is not empty has
\* rows, also when the list shrank under it; and the label of a duration is right up to half
\* a second.
THEOREM JobsInvHolds == ASSUME JobsConstants PROVE Jobs!Spec => []JobsInv
<1>1. Jobs!Init => JobsInd
  BY JobsInitInd
<1>2. JobsInd /\ [Jobs!Next]_Jobs!vars => JobsInd'
  BY JobsNextInd
<1>3. JobsInd => JobsInv
  <2>1. ASSUME JobsInd PROVE Jobs!CountsAreNotAhead
    BY <2>1, SameCardinality DEF Jobs!CountsAreNotAhead, JobsInd, Fits, Showing
  <2>2. ASSUME JobsInd PROVE Jobs!LabelIsClose
    <3> SUFFICES ASSUME expandedError # None
                 PROVE  Jobs!FormatDuration(expandedError.took) * 100 - expandedError.took \in -500..500
      BY DEF Jobs!LabelIsClose
    <3> DEFINE ms == expandedError.took
    <3>1. ms \in Nat
      BY <2>2 DEF JobsInd
    <3> HIDE DEF ms
    <3>2. Jobs!FormatDuration(ms) * 100 - ms \in -500..500
      BY <3>1, Z3 DEF Jobs!FormatDuration
    <3> QED
      BY <3>2 DEF ms
  <2> QED
    BY <2>1, <2>2, PageInRows DEF JobsInv, Jobs!JobsInv
<1> QED
  BY <1>1, <1>2, <1>3, PTL DEF Jobs!Spec
=============================================================================
