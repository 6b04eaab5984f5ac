----------------------------- MODULE MCApiKeys -----------------------------
(***************************************************************************)
(* Instances for TLC of the API keys and of the rate limit of one of them,  *)
(* which share no state: one of them moves in a behavior.  The keys move    *)
(* with all their requests or with all their changes.                       *)
(***************************************************************************)
EXTENDS ApiKeys, RateLimiter

CONSTANTS u1, temp, k1, k2, k3, r1, r2, c1, c2, c3,
    Parts       \* those that may move

VARIABLE part

OneAnonymous == [r \in Request |-> IF r = r1 THEN u1 ELSE temp]
OneChanger == [c \in Change |-> u1]

\* A creation, a deletion and a single sign-on of the same user.
OneOfEach ==
    [c \in Change |-> IF c = c1 THEN "create" ELSE IF c = c2 THEN "delete" ELSE "login"]

mcVars == <<part, keysVars, limiterVars>>

MCInit ==
    /\ part \in Parts
    /\ part # "limit" => now = 1
    /\ KeysInit /\ LimiterInit

\* Without the single sign-on and the third key, or without the second request.
Bounded ==
    /\ part = "requests" => change[c3] = "idle" /\ k3 \notin Minted
    /\ part = "changes" => request[r2] = "idle"

InKeys  == part # "limit" /\ UNCHANGED <<part, limiterVars>> /\ KeysNext /\ Bounded'
InLimit == part = "limit" /\ LimiterNext /\ UNCHANGED <<part, keysVars>>

MCSpec ==
    /\ MCInit /\ [][InKeys \/ InLimit]_mcVars
    /\ \A k \in Key : WF_keysVars(Age(k))
=============================================================================
