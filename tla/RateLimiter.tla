----------------------------- MODULE RateLimiter -----------------------------
(***************************************************************************)
(* The fixed window of check_rate_limit for one API key: an entry of the    *)
(* _store of the API process, which counts the calls of a window that opens *)
(* with the first call after the last window ended.  The dependency runs on *)
(* the event loop and does not await between the clock and the store, so a  *)
(* call is one step.                                                        *)
(***************************************************************************)
EXTENDS Naturals, Sequences

CONSTANTS
    Window,     \* rate_limit_window_ms
    Limit,      \* rate_limit_max_requests
    Second,     \* the milliseconds of a second
    MaxTime     \* bound: the clock of the model stops here

ASSUME LimiterAssumption ==
    /\ Window \in Nat \ {0}
    /\ Limit \in Nat \ {0}
    /\ Second \in Nat \ {0}
    /\ MaxTime \in Nat

VARIABLES
    now,        \* the clock
    count,      \* the calls let through in the window
    resetAt,    \* the end of the window, 0 before the first
    granted,    \* history: the times of the calls let through
    told        \* history: when the callers turned away may come back

limiterVars == <<now, count, resetAt, granted, told>>

LimiterInit ==
    /\ now \in 1..MaxTime
    /\ count = 0
    /\ resetAt = 0
    /\ granted = <<>>
    /\ told = {}

\* Mutant: the seconds are rounded down.
RetryAfterFloor ==
    LET down == (resetAt - now) \div Second IN
    IF down > 1 THEN down ELSE 1

\* max(1, ceil((reset_at - now) / 1000)), in seconds
RetryAfter ==
    LET up == (resetAt - now + Second - 1) \div Second IN
    IF up > 1 THEN up ELSE 1

Grant == granted' = Append(granted, now)

\* Mutant: the call that opens the window is not counted.
OpenUncounted ==
    /\ resetAt <= now
    /\ count' = 0
    /\ resetAt' = now + Window
    /\ told' = {}
    /\ Grant
    /\ UNCHANGED now

\* No window is open: the call opens one.
OpenWindow ==
    /\ resetAt <= now
    /\ count' = 1
    /\ resetAt' = now + Window
    /\ told' = {}
    /\ Grant
    /\ UNCHANGED now

Admit ==
    /\ resetAt > now
    /\ count < Limit
    /\ count' = count + 1
    /\ Grant
    /\ UNCHANGED <<now, resetAt, told>>

Reject ==
    /\ resetAt > now
    /\ count >= Limit
    /\ told' = told \cup {now + RetryAfter * Second}
    /\ UNCHANGED <<now, count, resetAt, granted>>

Tick ==
    /\ now < MaxTime
    /\ now' = now + 1
    /\ UNCHANGED <<count, resetAt, granted, told>>

LimiterNext == OpenWindow \/ Admit \/ Reject \/ Tick

LimiterSpec == LimiterInit /\ [][LimiterNext]_limiterVars

-----------------------------------------------------------------------------
LimiterTypeOK ==
    /\ now \in Nat
    /\ count \in 0..Limit
    /\ resetAt \in Nat
    /\ granted \in Seq(Nat)
    /\ told \subseteq Nat

\* A fixed window lets more than the limit through around its boundary, but
\* never twice the limit: any 2 * Limit consecutive calls take a whole window
\* at least.
BurstIsBounded ==
    \A i \in 1..Len(granted) :
        i + 2 * Limit - 1 <= Len(granted)
            => granted[i] + Window <= granted[i + 2 * Limit - 1]

\* "Try again in {0} seconds.": whoever waits as long as it is told finds the
\* window over, and does not wait a second more than needed.
RetryIsHonest ==
    \A t \in told : resetAt <= t /\ t < resetAt + Second

-----------------------------------------------------------------------------
(* The inductive invariant behind BurstIsBounded *)

\* The calls of the window are the last ones granted; before the window is
\* opened there are none.
Opened == Len(granted) - count + 1

GrantsAreOrdered ==
    /\ \A i, k \in 1..Len(granted) : i <= k => granted[i] <= granted[k]
    /\ \A i \in 1..Len(granted) : granted[i] <= now

WindowIsOpened ==
    /\ count <= Len(granted)
    /\ count = 0 <=> Len(granted) = 0
    /\ count = 0 => resetAt = 0
    /\ count # 0 => resetAt = granted[Opened] + Window

\* The call Limit places before the window's first one was at least a window
\* earlier: the previous window let through no more than Limit calls.
PreviousWindow ==
    count # 0 /\ Opened > Limit
        => granted[Opened - Limit] + Window <= granted[Opened]

LimiterInv ==
    /\ LimiterTypeOK
    /\ GrantsAreOrdered
    /\ WindowIsOpened
    /\ PreviousWindow
    /\ BurstIsBounded
    /\ RetryIsHonest
=============================================================================
