------------------------------- MODULE ApiKeys -------------------------------
(***************************************************************************)
(* The API keys: their rows in the database, the functions that create,     *)
(* replace and revoke them, the cache of keys in the app process, and the   *)
(* API that accepts or refuses a key.                                       *)
(*                                                                          *)
(* The app fetches a key, waits for the database, and stores the answer in  *)
(* its cache; a user who creates or deletes a key changes the database,     *)
(* waits, and clears the cache.  Both are cut at these waits.               *)
(***************************************************************************)
EXTENDS Naturals, FiniteSets

CONSTANTS
    User,       \* users that may have a key of their own
    Temp,       \* the system user, whose key serves everybody else
    Key,        \* the UUIDs that may be generated
    Request,    \* calls of apiFetch
    Change,     \* calls of createUserApiKey, deleteUserApiKey, SSO callback
    Asker,      \* Asker[r]: the user signed in, or Temp if nobody is
    Changer,    \* Changer[c]: the user signed in
    Kind,       \* Kind[c]: create, delete or login
    NoKey       \* no row, or nothing in the cache

Owner == User \cup {Temp}

ASSUME KeysAssumption ==
    /\ Temp \notin User
    /\ NoKey \notin Key
    /\ Asker \in [Request -> Owner]
    /\ Changer \in [Change -> User]
    /\ Kind \in [Change -> {"create", "delete", "login"}]

VARIABLES
    active,     \* active[o]: the key of the one row of o with revoked = FALSE
    revoked,    \* the keys of the rows with revoked = TRUE
    replaced,   \* history: the keys that were in a row and are in none now
    age,        \* young, stale: within a minute of the expires_at that the key
                \* was created with, expired
    cache,      \* cache[o]: the key cached for o
    request,    \* progress of a request
    held,       \* the key a request has been given
    change,     \* progress of a change
    seen,       \* the row that the UPDATE of a creation has locked
    raced       \* history: keys a race may leave in the cache, see Races

dbVars      == <<active, revoked, replaced>>
requestVars == <<request, held>>
changeVars  == <<change, seen>>
keysVars == <<active, revoked, replaced, age, cache, request, held, change,
              seen, raced>>

RequestStep == {"idle", "askUser", "gotUser", "askTemp", "upserting",
                "gotTemp", "sent", "accepted", "refused", "failed"}
ChangeStep  == {"idle", "granted", "updating", "committed", "done", "failed"}

KeysInit ==
    /\ active   = [o \in Owner |-> NoKey]
    /\ revoked  = {}
    /\ replaced = {}
    /\ age      = [k \in Key |-> "young"]
    /\ cache    = [o \in Owner |-> NoKey]
    /\ request  = [r \in Request |-> "idle"]
    /\ held     = [r \in Request |-> NoKey]
    /\ change   = [c \in Change |-> "idle"]
    /\ seen     = [c \in Change |-> NoKey]
    /\ raced    = {}

-----------------------------------------------------------------------------
(* Keys *)

Minted == {k \in Key : \E o \in Owner : active[o] = k} \cup revoked \cup replaced

\* uuid_generate_v4, randomUUID: never the same twice
Fresh(k) == k \notin Minted

\* find_api_key: the row is not revoked and has not expired.
Accepted(k) == age[k] # "expired" /\ \E o \in Owner : active[o] = k

Dead(k) == k \in Minted /\ ~Accepted(k)

\* Mutant: the cache keeps a key whatever its validUntil.
HitForEver(o) == cache[o] # NoKey

\* A cached key is used until a minute before it expires.
Hit(o) == cache[o] # NoKey /\ age[cache[o]] = "young"

\* cache.set, unless the key is about to expire
Store(o, k) ==
    cache' = IF age[k] = "young" THEN [cache EXCEPT ![o] = k] ELSE cache

\* getApiKeyByUser, and the SELECT of get_temp_api_key
Lookup(o) ==
    IF active[o] # NoKey /\ Accepted(active[o]) THEN active[o] ELSE NoKey

Age(k) ==
    /\ k \in Minted /\ age[k] # "expired"
    /\ age' = [age EXCEPT ![k] = IF @ = "young" THEN "stale" ELSE "expired"]
    /\ UNCHANGED <<dbVars, cache, requestVars, changeVars, raced>>

-----------------------------------------------------------------------------
(* apiFetch: resolveApiKey, and the answer of the API *)

Send(r, k) ==
    /\ request' = [request EXCEPT ![r] = "sent"]
    /\ held' = [held EXCEPT ![r] = k]

\* cachedApiKey: the cached key, or else a query
UseOrAsk(r, o, query) ==
    IF Hit(o) THEN Send(r, cache[o])
    ELSE request' = [request EXCEPT ![r] = query] /\ UNCHANGED held

StartRequest(r) ==
    /\ request[r] = "idle"
    /\ IF Asker[r] = Temp THEN UseOrAsk(r, Temp, "askTemp")
       ELSE UseOrAsk(r, Asker[r], "askUser")
    /\ UNCHANGED <<dbVars, age, cache, changeVars, raced>>

QueryUser(r) ==
    /\ request[r] = "askUser"
    /\ request' = [request EXCEPT ![r] = "gotUser"]
    /\ held' = [held EXCEPT ![r] = Lookup(Asker[r])]
    /\ UNCHANGED <<dbVars, age, cache, changeVars, raced>>

\* Mutant: one entry of the cache for everybody.
TakeUserKeyForAll(r) ==
    /\ request[r] = "gotUser"
    /\ IF held[r] # NoKey
       THEN Store(Temp, held[r]) /\ Send(r, held[r])
       ELSE UseOrAsk(r, Temp, "askTemp") /\ UNCHANGED cache
    /\ UNCHANGED <<dbVars, age, changeVars, raced>>

\* The user's key is stored and used; without one, the temporary key is.
TakeUserKey(r) ==
    /\ request[r] = "gotUser"
    /\ IF held[r] # NoKey
       THEN Store(Asker[r], held[r]) /\ Send(r, held[r])
       ELSE UseOrAsk(r, Temp, "askTemp") /\ UNCHANGED cache
    /\ UNCHANGED <<dbVars, age, changeVars, raced>>

\* get_temp_api_key, its first statement
QueryTemp(r) ==
    /\ request[r] = "askTemp"
    /\ held' = [held EXCEPT ![r] = Lookup(Temp)]
    /\ request' = [request EXCEPT ![r] =
          IF Lookup(Temp) # NoKey THEN "gotTemp" ELSE "upserting"]
    /\ UNCHANGED <<dbVars, age, cache, changeVars, raced>>

\* Mutant: the renewal extends an expired key instead of replacing it.
UpsertExtends(r) ==
    /\ request[r] = "upserting"
    /\ \E k \in Key :
          /\ IF active[Temp] = NoKey THEN Fresh(k) ELSE k = active[Temp]
          /\ active' = [active EXCEPT ![Temp] = k]
          /\ age' = [age EXCEPT ![k] = "young"]
          /\ held' = [held EXCEPT ![r] = k]
    /\ request' = [request EXCEPT ![r] = "gotTemp"]
    /\ UNCHANGED <<revoked, replaced, raced, cache, changeVars>>

\* Its second statement: a new row, or a new key in the row that is there by
\* now, expired or not.
UpsertTemp(r) ==
    /\ request[r] = "upserting"
    /\ \E k \in Key :
          /\ Fresh(k)
          /\ active' = [active EXCEPT ![Temp] = k]
          /\ held' = [held EXCEPT ![r] = k]
    /\ replaced' = replaced \cup ({active[Temp]} \ {NoKey})
    /\ raced' = raced \cup ({active[Temp]} \ {NoKey})
    /\ request' = [request EXCEPT ![r] = "gotTemp"]
    /\ UNCHANGED <<revoked, age, cache, changeVars>>

TakeTempKey(r) ==
    /\ request[r] = "gotTemp"
    /\ Store(Temp, held[r])
    /\ Send(r, held[r])
    /\ UNCHANGED <<dbVars, age, changeVars, raced>>

\* api_key_dependency
CheckKey(r) ==
    /\ request[r] = "sent"
    /\ request' = [request EXCEPT ![r] =
          IF Accepted(held[r]) THEN "accepted" ELSE "refused"]
    /\ UNCHANGED <<dbVars, age, cache, held, changeVars, raced>>

RequestFails(r) ==
    /\ request[r] \in {"askUser", "askTemp", "upserting", "sent"}
    /\ request' = [request EXCEPT ![r] = "failed"]
    /\ UNCHANGED <<dbVars, age, cache, held, changeVars, raced>>

RequestNext(r) ==
    \/ StartRequest(r) \/ QueryUser(r) \/ TakeUserKey(r) \/ QueryTemp(r)
    \/ UpsertTemp(r) \/ TakeTempKey(r) \/ CheckKey(r) \/ RequestFails(r)

-----------------------------------------------------------------------------
(* createUserApiKey, deleteUserApiKey and the SSO callback *)

To(c, step) == change' = [change EXCEPT ![c] = step]

\* Some request has read k and has not stored it yet.
InFlight(k) == \E r \in Request : request[r] \in {"gotUser", "gotTemp"} /\ held[r] = k

\* The keys that lose their row as c commits, if nothing will clear the cache
\* of them afterwards.
Races(c, k) ==
    IF k # NoKey /\ (InFlight(k) \/ Kind[c] = "login") THEN {k} ELSE {}

\* The SSO callback creates a key for a user who has none.
CheckLogin(c) ==
    /\ change[c] = "idle" /\ Kind[c] = "login"
    /\ To(c, IF Lookup(Changer[c]) # NoKey THEN "done" ELSE "granted")
    /\ UNCHANGED <<dbVars, age, cache, requestVars, seen, raced>>

\* create_or_replace_api_key: the UPDATE finds the row to revoke; a second
\* call waits for it, and finds that row revoked.
BeginCreate(c) ==
    /\ \/ change[c] = "idle" /\ Kind[c] = "create"
       \/ change[c] = "granted"
    /\ seen' = [seen EXCEPT ![c] = active[Changer[c]]]
    /\ To(c, "updating")
    /\ UNCHANGED <<dbVars, age, cache, requestVars, raced>>

\* The INSERT and the commit.  The unique index on the active keys of a user
\* refuses the row of a call that was overtaken by another creation.
CommitCreate(c) ==
    LET u == Changer[c] IN
    /\ change[c] = "updating"
    /\ IF active[u] \in {seen[c], NoKey}
       THEN /\ \E k \in Key :
                  Fresh(k) /\ active' = [active EXCEPT ![u] = k]
            /\ revoked' = revoked \cup ({active[u]} \ {NoKey})
            /\ raced' = raced \cup Races(c, active[u])
            /\ To(c, IF Kind[c] = "login" THEN "done" ELSE "committed")
       ELSE /\ To(c, "failed")
            /\ UNCHANGED <<active, revoked, raced>>
    /\ UNCHANGED <<replaced, age, cache, requestVars, seen>>

DeleteKey(c) ==
    LET u == Changer[c] IN
    /\ change[c] = "idle" /\ Kind[c] = "delete"
    /\ active' = [active EXCEPT ![u] = NoKey]
    /\ revoked' = revoked \cup ({active[u]} \ {NoKey})
    /\ raced' = raced \cup Races(c, active[u])
    /\ To(c, "committed")
    /\ UNCHANGED <<replaced, age, cache, requestVars, seen>>

\* Mutant: invalidateApiKeyCache clears the temporary key only.
InvalidateTemp(c) ==
    /\ change[c] = "committed"
    /\ cache' = [cache EXCEPT ![Temp] = NoKey]
    /\ To(c, "done")
    /\ UNCHANGED <<dbVars, age, requestVars, seen, raced>>

\* invalidateApiKeyCache
Invalidate(c) ==
    /\ change[c] = "committed"
    /\ cache' = [cache EXCEPT ![Changer[c]] = NoKey, ![Temp] = NoKey]
    /\ To(c, "done")
    /\ UNCHANGED <<dbVars, age, requestVars, seen, raced>>

\* The answer of the database is lost after the commit: the call raises, and
\* nothing clears the cache.
LoseAnswer(c) ==
    /\ change[c] = "committed"
    /\ raced' = raced \cup ({cache[Changer[c]]} \ {NoKey})
    /\ To(c, "failed")
    /\ UNCHANGED <<dbVars, age, cache, requestVars, seen>>

ChangeNext(c) ==
    \/ CheckLogin(c) \/ BeginCreate(c) \/ CommitCreate(c) \/ DeleteKey(c)
    \/ Invalidate(c) \/ LoseAnswer(c)

-----------------------------------------------------------------------------
\* The app process dies with its cache and the calls it serves.
RestartApp ==
    /\ cache' = [o \in Owner |-> NoKey]
    /\ request' = [r \in Request |->
          IF request[r] \in {"idle", "accepted", "refused"} THEN request[r] ELSE "failed"]
    /\ change' = [c \in Change |->
          IF change[c] \in {"idle", "done"} THEN change[c] ELSE "failed"]
    /\ UNCHANGED <<dbVars, age, held, seen, raced>>

KeysNext ==
    \/ \E r \in Request : RequestNext(r)
    \/ \E c \in Change : ChangeNext(c)
    \/ \E k \in Key : Age(k)
    \/ RestartApp

KeysSpec == KeysInit /\ [][KeysNext]_keysVars

\* Time passes, nothing else need happen.
KeysFairSpec == KeysSpec /\ \A k \in Key : WF_keysVars(Age(k))

-----------------------------------------------------------------------------
KeysTypeOK ==
    /\ active \in [Owner -> Key \cup {NoKey}]
    /\ revoked \subseteq Key
    /\ replaced \subseteq Key
    /\ age \in [Key -> {"young", "stale", "expired"}]
    /\ cache \in [Owner -> Key \cup {NoKey}]
    /\ request \in [Request -> RequestStep]
    /\ held \in [Request -> Key \cup {NoKey}]
    /\ change \in [Change -> ChangeStep]
    /\ seen \in [Change -> Key \cup {NoKey}]
    /\ raced \subseteq Key

\* A key that the API has stopped accepting is never accepted again, whatever
\* is created, replaced or overtaken afterwards.
DeadStaysDead == [][\A k \in Key : Dead(k) => Dead(k)']_keysVars

\* The app goes on using a dead key only where its calls raced: a fetch that
\* had read the key before it was revoked and stored it afterwards, an SSO
\* callback that replaced a key created meanwhile, two renewals of the
\* temporary key, or the lost answer of a change.  Otherwise the change that
\* killed the key is about to clear the cache.
StaleNeedsRace ==
    \A o \in Owner :
        Hit(o) /\ Dead(cache[o])
            => \/ cache[o] \in raced
               \/ \E c \in Change : Changer[c] = o /\ change[c] = "committed"

\* The inductive invariant behind StaleNeedsRace.  What is cached for an owner,
\* or held by a request, has been a key of that owner and of nobody else; a key
\* that died in flight has raced.
For(r) == IF request[r] = "gotTemp" THEN Temp ELSE Asker[r]

KeysAreUnique ==
    \A o, p \in Owner : active[o] # NoKey /\ active[o] = active[p] => o = p

CachedIsOwn ==
    \A o \in Owner : cache[o] # NoKey =>
        /\ cache[o] \in Minted
        /\ \A p \in Owner : active[p] = cache[o] => p = o

HeldIsOwn ==
    \A r \in Request :
        /\ request[r] = "gotTemp" => held[r] # NoKey
        /\ request[r] \in {"gotUser", "gotTemp"} /\ held[r] # NoKey =>
              /\ held[r] \in Minted
              /\ \A p \in Owner : active[p] = held[r] => p = For(r)
              /\ age[held[r]] = "young" /\ Dead(held[r]) => held[r] \in raced

KeysInv ==
    KeysTypeOK /\ KeysAreUnique /\ CachedIsOwn /\ HeldIsOwn /\ StaleNeedsRace

\* No race lasts: whatever is left in the cache, the app stops using a dead
\* key for good once that key would have expired by itself.
DeadIsForgotten ==
    \A k \in Key :
        Dead(k) ~> [](\A o \in Owner : ~(Hit(o) /\ cache[o] = k))
=============================================================================
