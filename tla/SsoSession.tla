----------------------------- MODULE SsoSession -----------------------------
(***************************************************************************)
(* The cookies of one browser, and the requests that read and set them:    *)
(* the login by Keycloak, the login by password, the two halves of a       *)
(* sign-out, the server actions, and the submissions by geo id, for which  *)
(* the app asks Keycloak for a token in the name of the user.              *)
(*                                                                         *)
(* A request carries the cookies that the browser had when it was sent;    *)
(* what its answer sets reaches the browser later, or never.               *)
(***************************************************************************)
EXTENDS NoValue, Integers, Sequences

CONSTANTS
    SsoUser, LocalUser, \* the users of Keycloak, and those with a password
    Slot,               \* requests on their way at one time
    MaxLogins,          \* a bound on the logins started
    MaxTokens,          \* a bound on the refresh tokens issued
    Rotates             \* whether Keycloak replaces a refresh token by its use

User == SsoUser \cup LocalUser

VARIABLES
    jar,        \* user: of the cookie refreshToken; fresh: whether the cookie
                \* token is there; kc: the kc_refresh_token; state: the sso_state
    call,       \* call[s]: the request in slot s, or None
    leaving,    \* whether the sign-out has yet to visit /auth/sso/logout
    logins,     \* the logins started: n has the state n and its verifier
    asked,      \* asked[n]: the user who has authenticated for login n, or None
    exchanged,  \* the logins whose code Keycloak has exchanged
    owner,      \* owner[t]: the user of the refresh token t
    valid,      \* the refresh tokens that Keycloak takes
    cache,      \* tokenCache: for a user, whose access token it is, or None
    faults      \* history: what went wrong or overlapped

keycloak == <<asked, exchanged, owner, valid>>
ssoVars  == <<jar, call, leaving, logins, keycloak, cache, faults>>

SsoInit ==
    /\ jar = [user |-> None, fresh |-> FALSE, kc |-> None, state |-> None]
    /\ call = [s \in Slot |-> None]
    /\ leaving = FALSE /\ logins = 0
    /\ asked = [n \in 1..MaxLogins |-> None] /\ exchanged = {}
    /\ owner = <<>> /\ valid = {}
    /\ cache = [u \in User |-> None]
    /\ faults = {}

-----------------------------------------------------------------------------
(* Requests and answers *)

NoChange == [f \in {} |-> None]

Overlaps(s) == \E r \in Slot \ {s} : call[r] # None /\ (call[r].jar.kc # None \/ jar.kc # None)

Send(s, kind, who) ==
    /\ call[s] = None
    /\ call' = [call EXCEPT ![s] =
                  [kind |-> kind, who |-> who, jar |-> jar, step |-> "sent",
                   sets |-> NoChange, as |-> None]]
    /\ faults' = faults \cup {f \in {"overlap"} : Overlaps(s)}

Reached(s, kind, step) == call[s] # None /\ call[s].kind = kind /\ call[s].step = step

\* The server answers s: the cookies it sets, and the token it has used.
Answer(s, sets, as) ==
    call' = [call EXCEPT ![s].step = "answered", ![s].sets = sets, ![s].as = as]

SignedIn(u)       == [user |-> u, fresh |-> TRUE]
SignedOut         == [user |-> None, fresh |-> FALSE]
TokenSet(t)       == [kc |-> t]
StateCleared      == [state |-> None]
Established(u, t) == [user |-> u, fresh |-> TRUE, kc |-> t, state |-> None]
Cleared           == [user |-> None, fresh |-> FALSE, kc |-> None]

\* The cookies j with those that an answer sets.
Receive(j, sets) == [c \in DOMAIN j |-> IF c \in DOMAIN sets THEN sets[c] ELSE j[c]]

\* An answer to one user reaches the browser when it has another, or none.
\* The callback sets all cookies and needs no care.
Late(s) ==
    call[s].kind # "callback" /\ call[s].jar.user # jar.user /\ call[s].sets # NoChange

Deliver(s) ==
    /\ call[s] # None /\ call[s].step = "answered"
    /\ jar' = Receive(jar, call[s].sets)
    /\ leaving' = CASE call[s].kind = "signout" -> TRUE
                    [] call[s].kind = "logout"  -> FALSE
                    [] OTHER -> leaving
    /\ faults' = faults \cup {f \in {"lapsed"} : Late(s)}
    /\ call' = [call EXCEPT ![s] = None]
    /\ UNCHANGED <<logins, keycloak, cache>>

\* The browser goes away, or the answer is an error that sets no cookie.
Lost(s) ==
    /\ call[s] # None /\ call[s].step = "answered"
    /\ faults' = faults \cup (IF call[s].kind = "logout" THEN {"lost", "lapsed"} ELSE {"lost"})
    /\ leaving' = (leaving /\ call[s].kind # "logout")
    /\ call' = [call EXCEPT ![s] = None]
    /\ UNCHANGED <<jar, logins, keycloak, cache>>

-----------------------------------------------------------------------------
(* /auth/sso/login, register and callback *)

\* It reads no cookie, and the redirection to Keycloak carries the new one.
SetSsoState ==
    /\ logins < MaxLogins /\ ~leaving
    /\ logins' = logins + 1
    /\ jar' = [jar EXCEPT !.state = logins + 1]
    /\ UNCHANGED <<call, leaving, keycloak, cache, faults>>

StartLogin        == SetSsoState
StartRegistration == SetSsoState

\* Keycloak gives tokens for a code once.
Exchanges(n) == n \notin exchanged

\* Keycloak sends the browser back; a page may also be loaded again.
Authenticate(s, n, u) ==
    /\ n <= logins /\ asked[n] \in {None, u}
    /\ asked' = [asked EXCEPT ![n] = u]
    /\ Send(s, "callback", n)
    /\ UNCHANGED <<jar, leaving, logins, exchanged, owner, valid, cache>>

\* Keycloak issues tokens for the code of login n.
CodeExchanged(n) ==
    /\ Len(owner) < MaxTokens
    /\ exchanged' = exchanged \cup {n}
    /\ owner' = Append(owner, asked[n]) /\ valid' = valid \cup {Len(owner) + 1}

\* The state is the one saved, and the code has not been exchanged before;
\* the verifier is of the same login as the state.  What fails once the cookies are
\* set changes only where the browser is sent.
CallbackAccepted(s) ==
    /\ Reached(s, "callback", "sent")
    /\ LET n == call[s].who
           t == Len(owner) + 1
       IN /\ call[s].jar.state = n /\ Exchanges(n) /\ CodeExchanged(n)
          /\ Answer(s, Established(asked[n], t), None)
    /\ UNCHANGED <<jar, leaving, logins, asked, cache, faults>>

\* The exchange, or what follows on it before the first cookie is set, fails: the id
\* token is not good, or a statement fails.
CallbackFailed(s) ==
    /\ Reached(s, "callback", "sent")
    /\ call[s].jar.state = call[s].who /\ Exchanges(call[s].who)
    /\ \/ UNCHANGED <<exchanged, owner, valid>>
       \/ CodeExchanged(call[s].who)
    /\ Answer(s, StateCleared, None)
    /\ UNCHANGED <<jar, leaving, logins, asked, cache, faults>>

CallbackRefused(s) ==
    /\ Reached(s, "callback", "sent")
    /\ call[s].jar.state # call[s].who \/ ~Exchanges(call[s].who)
    /\ Answer(s, StateCleared, None)
    /\ UNCHANGED <<jar, leaving, logins, keycloak, cache, faults>>

-----------------------------------------------------------------------------
(* The server actions *)

SendAction(s) == ~leaving /\ Send(s, "action", None)
                 /\ UNCHANGED <<jar, leaving, logins, keycloak, cache>>

\* getAuthUserWithRefresh: both tokens again, if only the refresh token holds.
HandleAction(s) ==
    /\ Reached(s, "action", "sent")
    /\ LET j == call[s].jar IN
       Answer(s, IF ~j.fresh /\ j.user # None THEN SignedIn(j.user) ELSE NoChange, None)
    /\ UNCHANGED <<jar, leaving, logins, keycloak, cache, faults>>

\* The form shows itself to nobody who is signed in.
SendLogin(s, u) ==
    /\ u \in LocalUser /\ jar.user = None /\ ~leaving
    /\ Send(s, "signin", u)
    /\ UNCHANGED <<jar, leaving, logins, keycloak, cache>>

HandleLogin(s) ==
    /\ Reached(s, "signin", "sent")
    /\ Answer(s, SignedIn(call[s].who), None)
    /\ UNCHANGED <<jar, leaving, logins, keycloak, cache, faults>>

LogoutUser(s) ==
    /\ jar.user # None /\ ~leaving
    /\ Send(s, "signout", None)
    /\ UNCHANGED <<jar, leaving, logins, keycloak, cache>>

HandleLogout(s) ==
    /\ Reached(s, "signout", "sent")
    /\ Answer(s, SignedOut, None)
    /\ UNCHANGED <<jar, leaving, logins, keycloak, cache, faults>>

-----------------------------------------------------------------------------
(* /auth/sso/logout, where the browser goes after logoutUser *)

VisitLogout(s) ==
    /\ leaving /\ \A r \in Slot : ~(call[r] # None /\ call[r].kind = "logout")
    /\ Send(s, "logout", None)
    /\ UNCHANGED <<jar, leaving, logins, keycloak, cache>>

\* Mutant: only the cookies of the app are cleared.
HalfLogout(s) ==
    /\ Reached(s, "logout", "sent")
    /\ cache' = [u \in User |-> None]
    /\ Answer(s, SignedOut, None)
    /\ UNCHANGED <<jar, leaving, logins, keycloak, faults>>

SsoLogout(s) ==
    /\ Reached(s, "logout", "sent")
    /\ cache' = [u \in User |-> None]
    /\ Answer(s, Cleared, None)
    /\ UNCHANGED <<jar, leaving, logins, keycloak, faults>>

\* The browser is closed between the two halves.
Abandon ==
    /\ leaving /\ leaving' = FALSE
    /\ \A r \in Slot : ~(call[r] # None /\ call[r].kind = "logout")
    /\ faults' = faults \cup {"lapsed"}
    /\ UNCHANGED <<jar, call, logins, keycloak, cache>>

-----------------------------------------------------------------------------
(* apiFetch of a submission by geo id *)

SendSubmit(s) == ~leaving /\ Send(s, "submit", None)
             /\ UNCHANGED <<jar, leaving, logins, keycloak, cache>>

\* getAuthUser reads the access token only.
AuthUser(j) == IF j.fresh THEN j.user ELSE None

\* No user, no token of Keycloak, or a token in the cache.
ResolveAtOnce(s) ==
    /\ Reached(s, "submit", "sent")
    /\ LET j == call[s].jar
           u == AuthUser(j)
       IN \/ (u = None \/ j.kc = None) /\ Answer(s, NoChange, None)
          \/ u # None /\ j.kc # None /\ cache[u] # None /\ Answer(s, NoChange, cache[u])
    /\ UNCHANGED <<jar, leaving, logins, keycloak, cache, faults>>

\* The cache has no token: Keycloak is asked, and the process waits.
AskKeycloak(s) ==
    /\ Reached(s, "submit", "sent")
    /\ LET u == AuthUser(call[s].jar) IN
       u # None /\ call[s].jar.kc # None /\ cache[u] = None
    /\ call' = [call EXCEPT ![s].step = "refreshing"]
    /\ UNCHANGED <<jar, leaving, logins, keycloak, cache, faults>>

\* The token that replaces t, which Keycloak has used up if it rotates them.
Refreshed(t, new) ==
    IF Rotates THEN /\ new <= MaxTokens
                    /\ owner' = Append(owner, owner[t])
                    /\ valid' = (valid \ {t}) \cup {new}
               ELSE UNCHANGED <<owner, valid>>

\* Mutant: the new refresh token is not kept.
ForgetToken(s) ==
    /\ Reached(s, "submit", "refreshing") /\ call[s].jar.kc \in valid
    /\ LET t == call[s].jar.kc IN
       /\ Refreshed(t, Len(owner) + 1)
       /\ cache' = [cache EXCEPT ![call[s].jar.user] = owner[t]]
       /\ Answer(s, NoChange, owner[t])
    /\ UNCHANGED <<jar, leaving, logins, asked, exchanged, faults>>

RefreshTokens(s) ==
    /\ Reached(s, "submit", "refreshing") /\ call[s].jar.kc \in valid
    /\ LET t   == call[s].jar.kc
           new == Len(owner) + 1
       IN /\ Refreshed(t, new)
          /\ cache' = [cache EXCEPT ![call[s].jar.user] = owner[t]]
          /\ Answer(s, TokenSet(IF Rotates THEN new ELSE t), owner[t])
    /\ UNCHANGED <<jar, leaving, logins, asked, exchanged, faults>>

\* Any failure, of the token or of the way to Keycloak.
RefreshFailed(s) ==
    /\ Reached(s, "submit", "refreshing")
    /\ faults' = faults \cup (IF call[s].jar.kc \in valid THEN {"outage"} ELSE {})
    /\ cache' = [cache EXCEPT ![call[s].jar.user] = None]
    /\ Answer(s, TokenSet(None), None)
    /\ UNCHANGED <<jar, leaving, logins, keycloak>>

-----------------------------------------------------------------------------
(* Time *)

AccessExpires ==
    /\ jar.fresh /\ jar' = [jar EXCEPT !.fresh = FALSE]
    /\ UNCHANGED <<call, leaving, logins, keycloak, cache, faults>>

\* The refresh token of the app lasts a week, that of Keycloak a month.
SessionExpires ==
    /\ jar.user # None /\ ~leaving
    /\ jar' = Receive(jar, SignedOut)
    /\ faults' = faults \cup {"lapsed"}
    /\ UNCHANGED <<call, leaving, logins, keycloak, cache>>

\* The minutes of an access token are over.
CachedTokenExpires(u) ==
    /\ cache[u] # None /\ cache' = [cache EXCEPT ![u] = None]
    /\ UNCHANGED <<jar, call, leaving, logins, keycloak, faults>>

\* Keycloak ends the session of u.
SsoSessionEnds(u) ==
    /\ valid' = {t \in valid : owner[t] # u} /\ valid' # valid
    /\ faults' = faults \cup {"ended"}
    /\ UNCHANGED <<jar, call, leaving, logins, asked, exchanged, owner, cache>>

SsoNext ==
    \/ StartLogin \/ StartRegistration \/ Abandon \/ AccessExpires \/ SessionExpires
    \/ \E s \in Slot :
         \/ Deliver(s) \/ Lost(s)
         \/ CallbackAccepted(s) \/ CallbackFailed(s) \/ CallbackRefused(s)
         \/ SendAction(s) \/ HandleAction(s) \/ HandleLogin(s)
         \/ LogoutUser(s) \/ HandleLogout(s) \/ VisitLogout(s) \/ SsoLogout(s)
         \/ SendSubmit(s) \/ ResolveAtOnce(s) \/ AskKeycloak(s)
         \/ RefreshTokens(s) \/ RefreshFailed(s)
         \/ \E u \in LocalUser : SendLogin(s, u)
         \/ \E n \in 1..MaxLogins, u \in SsoUser : Authenticate(s, n, u)
    \/ \E u \in User : CachedTokenExpires(u)
    \/ \E u \in SsoUser : SsoSessionEnds(u)

SsoSpec == SsoInit /\ [][SsoNext]_ssoVars

-----------------------------------------------------------------------------
(* Properties *)

\* A submission goes out in the name of the user who is signed in, unless a
\* session ended without its sign-out, or with requests on their way.
TokenIsOwn ==
    "lapsed" \notin faults =>
        \A s \in Slot : call[s] # None /\ call[s].as # None => call[s].as = call[s].jar.user

\* When nothing is on its way, and no requests have overlapped or failed, the
\* token that the browser keeps is one that Keycloak takes.
StoredIsCurrent ==
    (\A s \in Slot : call[s] = None) /\ jar.kc # None /\ faults \subseteq {"lapsed"} => jar.kc \in valid

\* Tokens go with their user, and the one that is kept is good.
SsoInv == TokenIsOwn /\ StoredIsCurrent

=============================================================================
