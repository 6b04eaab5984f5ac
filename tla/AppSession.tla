----------------------------- MODULE AppSession -----------------------------
(***************************************************************************)
(* One document of the app in a browser: who it takes the user to be, the  *)
(* API key it shows, and what it shows until it knows.  Its calls to the   *)
(* server are server actions, which are sent one at a time in the order in *)
(* which they were made; each is answered, refused, lost on its way there  *)
(* or back (it rejects), or never answered.                                *)
(*                                                                         *)
(* The effects of React are part of the action that changes what they      *)
(* depend on.  The user signs in from this document only.                  *)
(***************************************************************************)
EXTENDS Integers, Sequences

CONSTANTS
    MaxKeys,    \* a bound on the keys created
    MaxCalls,   \* a bound on the calls that wait
    MaxVisits,  \* a bound on the documents loaded
    None

VARIABLES
    session,    \* whether the cookies hold a session
    keys,       \* the API keys created so far
    key,        \* the user's key, or None
    calls,      \* the calls that wait for an answer
    lost,       \* no, thrown: a call has rejected, hung: one is not answered
    visits,
    config,     \* whether the configuration is still loading
    user,       \* whether the document has a user
    authLoading, error,
    loads,      \* the attempts of the two loads of the profile, or None
    apiKey, keyLoading,
    timedOut, hasInitialized,
    page,       \* protected, login, or left when another document is loading
    busy        \* the form of the login page

server   == <<session, keys, key>>
auth     == <<user, authLoading, error, loads>>
keyState == <<apiKey, keyLoading>>
init     == <<timedOut, hasInitialized>>
vars     == <<server, calls, lost, visits, config, auth, keyState, init, page, busy>>

Call(op) == [op |-> op, load |-> None]
Profile(l) == [op |-> "profile", load |-> l]

-----------------------------------------------------------------------------
(* ContextsInitializer, ProtectedRoute and the login form: what follows from *)
(* the rest, once React has settled.                                         *)

Loading  == authLoading \/ config
HasError == error \/ timedOut

\* Mutant: the time out is only an error.
ShownUntilLoaded ==
    IF ~hasInitialized /\ Loading THEN "spinner"
    ELSE IF ~hasInitialized /\ HasError THEN "errors" ELSE "children"

Shown ==
    IF ~hasInitialized /\ Loading /\ ~timedOut THEN "spinner"
    ELSE IF ~hasInitialized /\ HasError THEN "errors" ELSE "children"

Initialize ==
    /\ timedOut' = (Loading' /\ timedOut)
    /\ hasInitialized' = (hasInitialized \/ (~Loading' /\ ~HasError'))

Route ==
    page' = IF Shown' = "children" /\ ~authLoading'
               THEN IF page = "protected" /\ ~user' THEN "login"
                    ELSE IF page = "login" /\ user' THEN "left" ELSE page
               ELSE page

Settle == Initialize /\ Route

-----------------------------------------------------------------------------
(* ApiKeyProvider: its effect on isAuthenticated and authLoading *)

\* Mutant: the key is loaded for a user, and left alone without one.
KeepKey(u, loading, rest) ==
    IF u /\ ~loading /\ (u # user \/ loading # authLoading)
       THEN /\ keyLoading' = TRUE /\ apiKey' = apiKey
            /\ calls' = Append(rest, Call("key"))
       ELSE calls' = rest /\ UNCHANGED keyState

LoadApiKey(u, loading, rest) ==
    IF loading \/ (u = user /\ loading = authLoading)
       THEN calls' = rest /\ UNCHANGED keyState
       ELSE /\ keyLoading' = u
            /\ apiKey'  = IF u THEN apiKey ELSE None
            /\ calls'   = IF u THEN Append(rest, Call("key")) ELSE rest

\* The user, the loading flag and the error become these, and rest waits.
SetAuth(u, loading, e, rest) ==
    /\ user' = u /\ authLoading' = loading /\ error' = e /\ config' = config
    /\ LoadApiKey(u, loading, rest)
    /\ Settle

Init ==
    /\ session \in BOOLEAN /\ keys \in {0, 1} /\ key = (IF keys = 0 THEN None ELSE keys)
    /\ calls = <<Profile("first"), Call("config")>>
    /\ lost = "no" /\ visits = 1 /\ config = TRUE
    /\ user = FALSE /\ authLoading = TRUE /\ error = FALSE
    /\ loads = [first |-> 0, again |-> None]
    /\ apiKey = None /\ keyLoading = TRUE
    /\ timedOut = FALSE /\ hasInitialized = FALSE
    /\ page \in {"protected", "login"} /\ busy = FALSE

\* A document in which the user may act, and a call to be answered.
Live    == page # "left" /\ Shown = "children" /\ Len(calls) < MaxCalls
Next1st == page # "left" /\ calls # <<>> /\ lost # "hung"
Op(op)  == Next1st /\ Head(calls).op = op
Rest    == Tail(calls)

-----------------------------------------------------------------------------
(* AuthProvider *)

\* The profile of the session, or none, is an answer too.
ProfileAnswered ==
    /\ Op("profile")
    /\ loads' = [loads EXCEPT ![Head(calls).load] = None]
    /\ SetAuth(session, FALSE, FALSE, Rest)
    /\ UNCHANGED <<server, lost, visits, busy>>

\* Mutant: the last attempt that fails leaves the document loading.
GivesUpQuietly ==
    /\ Op("profile")
    /\ LET l == Head(calls).load IN
       IF loads[l] < 2
          THEN loads' = [loads EXCEPT ![l] = @ + 1] /\ UNCHANGED <<user, authLoading, error>>
          ELSE loads' = [loads EXCEPT ![l] = None] /\ error' = TRUE /\ UNCHANGED <<user, authLoading>>
    /\ calls' = Rest
    /\ UNCHANGED <<server, lost, visits, config, keyState, busy>>
    /\ Settle

\* Two more attempts, each after a pause.
ProfileFailed ==
    /\ Op("profile")
    /\ LET l == Head(calls).load IN
       IF loads[l] < 2
          THEN /\ loads' = [loads EXCEPT ![l] = @ + 1]
               /\ calls' = Rest
               /\ UNCHANGED <<config, user, authLoading, error, keyState, init, page>>
          ELSE /\ loads' = [loads EXCEPT ![l] = None]
               /\ SetAuth(user, FALSE, TRUE, Rest)
    /\ UNCHANGED <<server, lost, visits, busy>>

\* The first load ends loading all the same; refreshUser does not.
ProfileRejected ==
    /\ Op("profile")
    /\ lost' = "thrown"
    /\ loads' = [loads EXCEPT ![Head(calls).load] = None]
    /\ SetAuth(user, Head(calls).load = "again", error, Rest)
    /\ UNCHANGED <<server, visits, busy>>

Retry(l) ==
    /\ page # "left" /\ loads[l] \in {1, 2}
    /\ \A i \in DOMAIN calls : calls[i] # Profile(l)
    /\ calls' = Append(calls, Profile(l))
    /\ UNCHANGED <<server, lost, visits, config, auth, keyState, init, page, busy>>

\* After a profile was saved.
RefreshUser ==
    /\ Live /\ page = "protected" /\ user /\ loads["again"] = None /\ ~authLoading
    /\ loads' = [loads EXCEPT !["again"] = 0]
    /\ SetAuth(user, TRUE, error, Append(calls, Profile("again")))
    /\ UNCHANGED <<server, lost, visits, busy>>

\* A press of a button that makes one call.
Ask(op) ==
    /\ Live /\ \A i \in DOMAIN calls : calls[i].op # op
    /\ calls' = Append(calls, Call(op))
    /\ UNCHANGED <<server, lost, visits, config, keyState, init, page>>

Logout == Ask("logout") /\ user /\ UNCHANGED <<auth, busy>>

\* The sign-out of the identity provider follows, in another document.
LogoutAnswered ==
    /\ Op("logout")
    /\ session' = FALSE
    /\ page' = "left" /\ user' = FALSE /\ error' = FALSE
    /\ calls' = <<>>
    /\ UNCHANGED <<keys, key, lost, visits, config, authLoading, loads, keyState, init, busy>>

\* The user stays signed in, with a message.
LogoutRefused ==
    /\ Op("logout")
    /\ calls' = Rest /\ error' = TRUE
    /\ UNCHANGED <<server, lost, visits, config, user, authLoading, loads, keyState, init, page, busy>>

Login ==
    /\ page = "login" /\ ~busy
    /\ Ask("login")
    /\ busy' = TRUE /\ error' = FALSE
    /\ UNCHANGED <<user, authLoading, loads>>

LoginAnswered ==
    /\ Op("login")
    /\ session' = TRUE
    /\ page' = "left" /\ user' = TRUE
    /\ calls' = <<>>
    /\ UNCHANGED <<keys, key, lost, visits, config, authLoading, error, loads, keyState, init, busy>>

\* Wrong credentials, or an account of the identity provider, which is asked.
LoginRefused ==
    /\ Op("login")
    /\ calls' = Rest /\ error' = TRUE
    /\ \/ busy' = FALSE /\ page' = page
       \/ busy' = busy /\ page' = "left"
    /\ UNCHANGED <<server, lost, visits, config, user, authLoading, loads, keyState, init>>

-----------------------------------------------------------------------------
(* ApiKeyProvider *)

KeyAnswered ==
    /\ Op("key")
    /\ calls' = Rest /\ keyLoading' = FALSE
    /\ apiKey' = IF session THEN key ELSE None
    /\ UNCHANGED <<server, lost, visits, config, auth, init, page, busy>>

KeyFailed ==
    /\ Op("key")
    /\ calls' = Rest /\ keyLoading' = FALSE /\ apiKey' = None
    /\ UNCHANGED <<server, lost, visits, config, auth, init, page, busy>>

CreateApiKey ==
    /\ page = "protected" /\ user /\ keys < MaxKeys
    /\ Ask("create") /\ UNCHANGED <<auth, busy>>

DeleteApiKey ==
    /\ page = "protected" /\ user /\ apiKey # None
    /\ Ask("delete") /\ UNCHANGED <<auth, busy>>

NewKey == keys' = keys + 1 /\ key' = keys + 1 /\ session' = session

CreateAnswered ==
    /\ Op("create") /\ session
    /\ NewKey /\ apiKey' = keys + 1
    /\ calls' = Rest
    /\ UNCHANGED <<lost, visits, config, auth, keyLoading, init, page, busy>>

\* Mutant: the key is deleted and still shown.
DeleteUnseen ==
    /\ Op("delete") /\ session
    /\ key' = None
    /\ calls' = Rest
    /\ UNCHANGED <<session, keys, lost, visits, config, auth, keyState, init, page, busy>>

DeleteAnswered ==
    /\ Op("delete") /\ session
    /\ key' = None /\ apiKey' = None
    /\ calls' = Rest
    /\ UNCHANGED <<session, keys, lost, visits, config, auth, keyLoading, init, page, busy>>

\* Without a session, or when the statement fails.
KeyChangeRefused ==
    /\ Op("create") \/ Op("delete")
    /\ calls' = Rest
    /\ UNCHANGED <<server, lost, visits, config, auth, keyState, init, page, busy>>

\* The call is lost on its way there, or its answer on the way back.
CallRejected ==
    /\ Next1st /\ Head(calls).op \in {"key", "create", "delete", "login", "logout"}
    /\ calls' = Rest /\ lost' = "thrown"
    /\ \/ UNCHANGED server
       \/ Head(calls).op = "create" /\ session /\ NewKey
       \/ Head(calls).op = "delete" /\ session /\ key' = None /\ UNCHANGED <<session, keys>>
    /\ UNCHANGED <<visits, config, auth, keyState, init, page, busy>>

-----------------------------------------------------------------------------
(* The configuration, the timer, the network, the browser *)

\* Answered, refused or rejected, which ends loading in each case.
ConfigAnswered ==
    /\ Op("config")
    /\ config' = FALSE /\ calls' = Rest
    /\ UNCHANGED <<server, lost, visits, auth, keyState, busy>>
    /\ Settle

\* INIT_TIMEOUT_MS have passed since loading began.
TimeOut ==
    /\ page # "left" /\ Loading /\ ~timedOut
    /\ timedOut' = TRUE
    /\ UNCHANGED <<server, calls, lost, visits, config, auth, keyState, hasInitialized, page, busy>>

Hang ==
    /\ Next1st
    /\ lost' = "hung"
    /\ UNCHANGED <<server, calls, visits, config, auth, keyState, init, page, busy>>

\* Cookies that are not renewed for seven days expire.
SessionExpires ==
    /\ session /\ session' = FALSE
    /\ UNCHANGED <<keys, key, calls, lost, visits, config, auth, keyState, init, page, busy>>

\* Another document: its target, a reload of the page, or a link.
Visit ==
    /\ visits < MaxVisits
    /\ visits' = visits + 1
    /\ calls' = <<Profile("first"), Call("config")>>
    /\ lost' = "no" /\ config' = TRUE
    /\ user' = FALSE /\ authLoading' = TRUE /\ error' = FALSE
    /\ loads' = [first |-> 0, again |-> None]
    /\ apiKey' = None /\ keyLoading' = TRUE
    /\ timedOut' = FALSE /\ hasInitialized' = FALSE
    /\ page' \in {"protected", "login"} /\ busy' = FALSE
    /\ UNCHANGED server

Answers ==
    \/ ProfileAnswered \/ ProfileFailed \/ ProfileRejected \/ ConfigAnswered
    \/ LogoutAnswered \/ LogoutRefused \/ LoginAnswered \/ LoginRefused
    \/ KeyAnswered \/ KeyFailed \/ CreateAnswered \/ DeleteAnswered
    \/ KeyChangeRefused \/ CallRejected

Next ==
    \/ Answers \/ \E l \in {"first", "again"} : Retry(l)
    \/ RefreshUser \/ Logout \/ Login \/ CreateApiKey \/ DeleteApiKey
    \/ TimeOut \/ Hang \/ SessionExpires \/ Visit

\* Calls are answered unless one hangs; timers run.
Fairness ==
    /\ WF_vars(Answers) /\ WF_vars(TimeOut)
    /\ \A l \in {"first", "again"} : WF_vars(Retry(l))

Spec == Init /\ [][Next]_vars /\ Fairness

-----------------------------------------------------------------------------
(* Properties *)

TypeOK ==
    /\ session \in BOOLEAN /\ keys \in 0..MaxKeys + 1 /\ key \in (1..keys) \cup {None}
    /\ lost \in {"no", "thrown", "hung"} /\ visits \in 1..MaxVisits
    /\ {config, user, authLoading, error, keyLoading, timedOut, hasInitialized, busy}
           \subseteq BOOLEAN
    /\ loads \in [{"first", "again"} -> 0..2 \cup {None}]
    /\ apiKey \in (1..keys) \cup {None}
    /\ page \in {"protected", "login", "left"}

\* However the loads of the profile and of the key, sign-outs and expiries
\* fall together, a document without a user shows no key.
KeyNeedsUser == page # "left" /\ apiKey # None => user

\* However the creation, the deletion and the loads of a key overlap, the key that
\* is shown is the user's key, unless a call was lost.
KeyIsCurrent == lost = "no" => apiKey \in {None, key}

\* The spinner of the first load goes, whatever becomes of the calls.
SpinnerEnds == (Shown = "spinner") ~> (Shown # "spinner")

\* A document ends loading, unless a call is lost, and the errors of one that
\* took too long go with it.
LoadingEnds ==
    (Loading \/ timedOut) ~> (lost # "no" \/ page = "left" \/ ~(Loading \/ timedOut))

\* What a document shows of its user and of the key fits together.
SessionInv == TypeOK /\ KeyNeedsUser /\ KeyIsCurrent

\* A document comes to show what it loads.
SessionSettles == SpinnerEnds /\ LoadingEnds

=============================================================================
