------------------------------ MODULE KeysPage ------------------------------
(***************************************************************************)
(* The page of a user's API key: the key that the context of the document  *)
(* has loaded, the key that was just made and is revealed once, and the    *)
(* windows that confirm what cannot be undone.  Keys are numbers, in the   *)
(* order of their creation; the user has the last one, or none.            *)
(***************************************************************************)
EXTENDS Integers, Sequences

CONSTANTS
    MaxKeys,    \* a bound on the keys created
    None

VARIABLES
    keys,       \* the keys created so far
    key,        \* the user's key in the database, or None
    calls,      \* the calls that wait, answered in their order: what each
                \* does, and whether the window asked before it
    doubt,      \* whether the load failed, a call was lost, or another tab
                \* changed the key
    apiKey, isLoading, error,        \* of the context
    revealed, regenOpen, revokeOpen, busy

server  == <<keys, key>>
context == <<apiKey, isLoading, error>>
windows == <<regenOpen, revokeOpen>>
vars    == <<server, calls, doubt, context, revealed, windows, busy>>

-----------------------------------------------------------------------------
(* What the page shows *)

\* Mutant: what is not loaded is not there.
EmptyUntilLoaded == apiKey = None /\ revealed = None

ShowsEmpty == ~isLoading /\ apiKey = None /\ revealed = None

ShowsKey == ~isLoading /\ (apiKey # None \/ revealed # None)

\* The key in full once, and masked from then on.
DisplayKey ==
    IF revealed # None THEN [key |-> revealed, masked |-> FALSE]
    ELSE [key |-> apiKey, masked |-> TRUE]

NoWindow == ~regenOpen /\ ~revokeOpen

Call(op, asked) == [op |-> op, asked |-> asked]

IsNext(op) == calls # <<>> /\ Head(calls).op = op

Init ==
    /\ keys \in {0, 1} /\ key = IF keys = 1 THEN 1 ELSE None
    /\ calls = <<Call("load", FALSE)>> /\ doubt = FALSE
    /\ apiKey = None /\ isLoading = TRUE /\ error = FALSE
    /\ revealed = None /\ regenOpen = FALSE /\ revokeOpen = FALSE /\ busy = FALSE

-----------------------------------------------------------------------------
(* The context *)

LoadAnswered ==
    /\ IsNext("load")
    /\ apiKey' = key /\ isLoading' = FALSE
    /\ calls' = Tail(calls)
    /\ UNCHANGED <<server, doubt, error, revealed, windows, busy>>

\* A key that could not be read is shown as none.
LoadFailed ==
    /\ IsNext("load")
    /\ apiKey' = None /\ isLoading' = FALSE /\ error' = TRUE
    /\ calls' = Tail(calls) /\ doubt' = TRUE
    /\ UNCHANGED <<server, revealed, windows, busy>>

ClearError ==
    /\ error /\ error' = FALSE
    /\ UNCHANGED <<server, calls, doubt, apiKey, isLoading, revealed, windows, busy>>

-----------------------------------------------------------------------------
(* The page *)

Windows(regen, revoke) ==
    /\ regenOpen' = regen /\ revokeOpen' = revoke
    /\ UNCHANGED <<server, calls, doubt, context, revealed, busy>>

PressRegenerate == ShowsKey /\ NoWindow /\ ~busy /\ Windows(TRUE, FALSE)
PressRevoke     == ShowsKey /\ NoWindow /\ ~busy /\ Windows(FALSE, TRUE)
CloseWindows    == ~NoWindow /\ Windows(FALSE, FALSE)

\* What both handlers do first.
Ask(op, asked) ==
    /\ regenOpen' = FALSE /\ revokeOpen' = FALSE
    /\ busy' = TRUE /\ error' = FALSE
    /\ calls' = Append(calls, Call(op, asked))
    /\ UNCHANGED <<server, doubt, apiKey, isLoading, revealed>>

Generate      == ShowsEmpty /\ NoWindow /\ ~busy /\ keys < MaxKeys /\ Ask("create", FALSE)
ConfirmRegen  == regenOpen /\ keys < MaxKeys /\ Ask("create", TRUE)
ConfirmRevoke == revokeOpen /\ Ask("delete", TRUE)

Created ==
    /\ IsNext("create")
    /\ keys' = keys + 1 /\ key' = keys + 1
    /\ apiKey' = keys + 1 /\ revealed' = keys + 1
    /\ busy' = FALSE /\ calls' = Tail(calls)
    /\ UNCHANGED <<doubt, isLoading, error, windows>>

\* Mutant: the key that was revealed stays.
RevokedAndRevealed ==
    /\ IsNext("delete")
    /\ key' = None /\ apiKey' = None
    /\ busy' = FALSE /\ calls' = Tail(calls)
    /\ UNCHANGED <<keys, doubt, isLoading, error, revealed, windows>>

Revoked ==
    /\ IsNext("delete")
    /\ key' = None /\ apiKey' = None /\ revealed' = None
    /\ busy' = FALSE /\ calls' = Tail(calls)
    /\ UNCHANGED <<keys, doubt, isLoading, error, windows>>

Refused ==
    /\ IsNext("create") \/ IsNext("delete")
    /\ busy' = FALSE /\ error' = TRUE /\ calls' = Tail(calls)
    /\ UNCHANGED <<server, doubt, apiKey, isLoading, revealed, windows>>

\* The call or its answer is lost: nothing catches that, and busy stays.
Rejected ==
    /\ calls # <<>>
    /\ calls' = Tail(calls) /\ doubt' = TRUE
    /\ \/ UNCHANGED server
       \/ IsNext("create") /\ keys' = keys + 1 /\ key' = keys + 1
       \/ IsNext("delete") /\ key' = None /\ keys' = keys
    /\ UNCHANGED <<context, revealed, windows, busy>>

\* The key is changed in another tab.
Elsewhere ==
    /\ doubt' = TRUE
    /\ \/ keys < MaxKeys /\ keys' = keys + 1 /\ key' = keys + 1
       \/ key' = None /\ keys' = keys
    /\ UNCHANGED <<calls, context, revealed, windows, busy>>

Next ==
    \/ LoadAnswered \/ LoadFailed \/ ClearError
    \/ PressRegenerate \/ PressRevoke \/ CloseWindows
    \/ Generate \/ ConfirmRegen \/ ConfirmRevoke
    \/ Created \/ Revoked \/ Refused \/ Rejected \/ Elsewhere

Spec == Init /\ [][Next]_vars

-----------------------------------------------------------------------------
(* Properties *)

\* A key that the page displays, revealed or masked, is the one that works,
\* and it is revealed only if it is the last one made here.
DisplayedWorks == ShowsKey /\ ~doubt => DisplayKey.key = key

\* Without a failure or another tab, a key that is in use is replaced only
\* after the window has asked.
ReplacedWhenAsked ==
    [][Created /\ key # None /\ ~doubt => Head(calls).asked]_vars

=============================================================================
