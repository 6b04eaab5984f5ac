---------------------------- MODULE AccountPage -----------------------------
(***************************************************************************)
(* The settings of a local account: its profile, its password, its         *)
(* notifications and its deletion.  All of them call the server through    *)
(* the one queue of the document, and a saved profile is read again, which *)
(* takes the whole page down and puts up a new one.                        *)
(*                                                                         *)
(* Passwords are never equal to text that was not typed: the empty text is *)
(* None.  The three attempts to read the profile are one call here.        *)
(***************************************************************************)
EXTENDS Integers, Sequences, FiniteSets

CONSTANTS
    Names,      \* what a user may be called
    Passwords, Weak,
    Sections,   \* the sections that are used
    MaxSaves,   \* a bound on the profiles saved
    MaxToggles, \* a bound on the turns of the switch
    MaxCalls,   \* a bound on the calls that wait
    None

VARIABLES
    account,    \* the row of users: its name and password, or None
    subscribed, \* the row of notification_subscriptions
    user,       \* the name that the document knows
    calls,      \* the calls that wait for an answer
    lost,       \* whether a call has rejected
    reading,    \* whether the profile is read again: the page is down
    left,       \* whether the document is being left
    saves, toggles, \* counts, for the bounds
    profile,    \* name, busy, error and saved of useProfile
    password,   \* the state of usePassword
    enabled,    \* the switch of useNotifications
    doubt,      \* none, unread: the status was refused, early: the switch was
                \* turned while one of its calls waited
    deletion    \* the state of useDeleteAccount

server  == <<account, subscribed>>
counts  == <<saves, toggles>>
switch  == <<enabled, doubt>>
shared  == <<user, lost, reading, left, counts>>
vars    == <<server, shared, calls, profile, password, switch, deletion>>

FreshProfile(n) == [name |-> n, busy |-> FALSE, error |-> FALSE, saved |-> FALSE]
NoPassword      == [current |-> None, new |-> None, confirm |-> None]
ClosedPassword  == [open |-> FALSE, typed |-> NoPassword, errors |-> {}, busy |-> FALSE]
ClosedDeletion  == [open |-> FALSE, password |-> None, confirmed |-> FALSE,
                    errors |-> {}, busy |-> FALSE]

Call(op, arg)   == [op |-> op, arg |-> arg]
Waits(op)       == \E i \in DOMAIN calls : calls[i].op = op

\* A fresh page asks for the status of the notifications.
Mount(n, rest) ==
    /\ profile' = FreshProfile(n) /\ password' = ClosedPassword
    /\ enabled' = FALSE /\ doubt' = "none" /\ deletion' = ClosedDeletion
    /\ calls' = Append(rest, Call("status", None))

Init ==
    /\ \E n \in Names, p \in Passwords \ Weak :
           /\ account = [name |-> n, password |-> p]
           /\ user = n /\ profile = FreshProfile(n)
    /\ subscribed \in BOOLEAN
    /\ lost = FALSE /\ reading = FALSE /\ left = FALSE
    /\ saves = 0 /\ toggles = 0
    /\ password = ClosedPassword /\ enabled = FALSE /\ doubt = "none"
    /\ deletion = ClosedDeletion
    /\ calls = <<Call("status", None)>>

\* A user at the page; and a call of the queue that is answered.
At(section) == section \in Sections /\ ~reading /\ ~left /\ Len(calls) < MaxCalls
Op(op)      == ~left /\ calls # <<>> /\ Head(calls).op = op
Arg         == Head(calls).arg
Rest        == Tail(calls)

-----------------------------------------------------------------------------
(* The statements on users *)

Renamed(n)       == [account EXCEPT !.name = n]
Verified(p)      == account # None /\ account.password = p
ChangedTo(typed) == [account EXCEPT !.password = typed.new]

\* The jobs lose their user and the row goes, but not its subscription.
DeleteUser == account' = None /\ UNCHANGED subscribed

-----------------------------------------------------------------------------
(* Profile *)

TypeName(n) ==
    /\ At("profile") /\ n # profile.name
    /\ profile' = [profile EXCEPT !.name = n, !.error = FALSE, !.saved = FALSE]
    /\ UNCHANGED <<server, shared, calls, password, switch, deletion>>

CanSave == ~profile.busy /\ profile.name # user

SaveProfile ==
    /\ At("profile") /\ saves < MaxSaves
    /\ CanSave
    /\ profile' = [profile EXCEPT !.busy = TRUE, !.error = FALSE, !.saved = FALSE]
    /\ calls' = Append(calls, Call("save", profile.name))
    /\ saves' = saves + 1
    /\ UNCHANGED <<server, user, lost, reading, left, toggles, password, switch, deletion>>

\* refreshUser: the guard of the route takes the page down, and what follows
\* in the form, setSaved and setBusy, is for the form that is gone.
ProfileSaved ==
    /\ Op("save") /\ account # None
    /\ account' = Renamed(Arg)
    /\ reading' = TRUE
    /\ calls' = Append(Rest, Call("profile", None))
    /\ UNCHANGED <<subscribed, user, lost, left, counts, profile, password, switch, deletion>>

ProfileRefused ==
    /\ Op("save")
    /\ profile' = [profile EXCEPT !.busy = FALSE, !.error = TRUE]
    /\ calls' = Rest
    /\ UNCHANGED <<server, shared, password, switch, deletion>>

\* Without an account there is no profile, and the page is left for the login.
ProfileRead ==
    /\ Op("profile") /\ account # None
    /\ reading' = FALSE /\ user' = account.name
    /\ Mount(account.name, Rest)
    /\ UNCHANGED <<server, lost, left, counts>>

ProfileGone ==
    /\ Op("profile") /\ account = None
    /\ left' = TRUE /\ calls' = <<>>
    /\ UNCHANGED <<server, user, lost, reading, counts, profile, password, switch, deletion>>

\* The attempts have failed: the page comes back with what was known.
ProfileUnread ==
    /\ Op("profile")
    /\ reading' = FALSE
    /\ Mount(user, Rest)
    /\ UNCHANGED <<server, user, lost, left, counts>>

-----------------------------------------------------------------------------
(* Password *)

PasswordTo(new) ==
    /\ password' = new
    /\ UNCHANGED <<server, shared, profile, switch, deletion>>

ToggleOpen ==
    /\ At("password")
    /\ PasswordTo([password EXCEPT !.open = ~@, !.errors = {},
                                   !.typed = IF password.open THEN NoPassword ELSE @])
    /\ UNCHANGED calls

TypePassword(field, p) ==
    /\ At("password") /\ password.open
    /\ PasswordTo([password EXCEPT !.typed[field] = p, !.errors = @ \ {field}])
    /\ UNCHANGED calls

IsValid(p) == p \notin Weak \cup {None}

\* The fields that are wrong before anything is asked.
WrongFields(typed) ==
    {f \in DOMAIN typed :
        \/ f = "current" /\ typed.current = None
        \/ f = "new" /\ ~IsValid(typed.new)
        \/ f = "confirm" /\ typed.confirm # typed.new}

SavePassword ==
    /\ At("password") /\ password.open /\ ~password.busy
    /\ LET wrong == WrongFields(password.typed) IN
       IF wrong # {}
          THEN PasswordTo([password EXCEPT !.errors = wrong]) /\ UNCHANGED calls
          ELSE /\ PasswordTo([password EXCEPT !.errors = {}, !.busy = TRUE])
               /\ calls' = Append(calls, Call("password", password.typed))

\* Mutant: the form is closed with what was typed.
PasswordClosed ==
    /\ Op("password") /\ Verified(Arg.current) /\ IsValid(Arg.new)
    /\ account' = ChangedTo(Arg)
    /\ password' = [password EXCEPT !.open = FALSE, !.busy = FALSE]
    /\ calls' = Rest
    /\ UNCHANGED <<subscribed, shared, profile, switch, deletion>>

\* The answer is for the page that asked, which may be down or another by now.
PasswordChanged ==
    /\ Op("password") /\ Verified(Arg.current) /\ IsValid(Arg.new)
    /\ account' = ChangedTo(Arg)
    /\ password' = IF password.busy THEN ClosedPassword ELSE password
    /\ calls' = Rest
    /\ UNCHANGED <<subscribed, shared, profile, switch, deletion>>

\* Mutant: a refusal shows its error only.
PasswordRefusedBusy ==
    /\ Op("password")
    /\ PasswordTo([password EXCEPT !.errors = {"general"}])
    /\ calls' = Rest

PasswordRefused ==
    /\ Op("password")
    /\ \E wrong \in {"current", "new", "general"} :
           PasswordTo(IF password.busy
                         THEN [password EXCEPT !.errors = {wrong}, !.busy = FALSE]
                         ELSE password)
    /\ calls' = Rest

-----------------------------------------------------------------------------
(* Notifications *)

StatusAnswered ==
    /\ Op("status")
    /\ IF account # None THEN enabled' = subscribed /\ UNCHANGED doubt ELSE UNCHANGED switch
    /\ calls' = Rest
    /\ UNCHANGED <<server, shared, profile, password, deletion>>

StatusRefused ==
    /\ Op("status")
    /\ doubt' = "unread" /\ UNCHANGED enabled
    /\ calls' = Rest
    /\ UNCHANGED <<server, shared, profile, password, deletion>>

Toggle ==
    /\ At("notifications") /\ toggles < MaxToggles
    /\ enabled' = ~enabled /\ toggles' = toggles + 1
    /\ doubt' = IF doubt = "none" /\ (Waits("subscribe") \/ Waits("status"))
                   THEN "early" ELSE doubt
    /\ calls' = Append(calls, Call("subscribe", ~enabled))
    /\ UNCHANGED <<server, user, lost, reading, left, saves, profile, password, deletion>>

SubscriptionSet ==
    /\ Op("subscribe") /\ account # None
    /\ subscribed' = Arg
    /\ calls' = Rest
    /\ UNCHANGED <<account, shared, profile, password, switch, deletion>>

\* Mutant: the switch stays as it was turned.
SwitchStays ==
    /\ Op("subscribe")
    /\ calls' = Rest
    /\ UNCHANGED <<server, shared, profile, password, switch, deletion>>

\* The switch is turned back; a page that is down has none.
SubscriptionRefused ==
    /\ Op("subscribe")
    /\ enabled' = IF reading THEN enabled ELSE ~Arg
    /\ calls' = Rest
    /\ UNCHANGED <<server, shared, profile, password, doubt, deletion>>

-----------------------------------------------------------------------------
(* Deletion *)

DeletionTo(new) ==
    /\ deletion' = new
    /\ UNCHANGED <<server, shared, profile, password, switch>>

OpenDeletion ==
    /\ At("delete") /\ ~deletion.open
    /\ DeletionTo([deletion EXCEPT !.open = TRUE]) /\ UNCHANGED calls

\* Mutant: the window is closed with what was typed.
CloseWindow ==
    /\ At("delete") /\ deletion.open
    /\ DeletionTo([deletion EXCEPT !.open = FALSE]) /\ UNCHANGED calls

CloseDeletion ==
    /\ At("delete") /\ deletion.open
    /\ DeletionTo([ClosedDeletion EXCEPT !.busy = deletion.busy]) /\ UNCHANGED calls

TypeDeletion(p, delete) ==
    /\ At("delete") /\ deletion.open
    /\ DeletionTo([deletion EXCEPT !.password = p, !.confirmed = delete, !.errors = {}])
    /\ UNCHANGED calls

CanConfirm == deletion.open /\ deletion.confirmed /\ ~deletion.busy

ConfirmDelete ==
    /\ At("delete") /\ CanConfirm
    /\ IF deletion.password = None
          THEN DeletionTo([deletion EXCEPT !.errors = {"password"}]) /\ UNCHANGED calls
          ELSE /\ DeletionTo([deletion EXCEPT !.errors = {}, !.busy = TRUE])
               /\ calls' = Append(calls, Call("delete", deletion.password))

\* Mutant: the deleted user stays signed in.
DeletedQuietly ==
    /\ Op("delete") /\ Verified(Arg)
    /\ DeleteUser /\ calls' = Rest
    /\ UNCHANGED <<shared, profile, password, switch, deletion>>

\* deleteUser, which leaves the subscription, and then logout.
AccountDeleted ==
    /\ Op("delete") /\ Verified(Arg)
    /\ DeleteUser
    /\ calls' = Append(Rest, Call("logout", None))
    /\ UNCHANGED <<shared, profile, password, switch, deletion>>

\* Mutant: a refusal shows its error only.
RefusedBusy ==
    /\ Op("delete")
    /\ DeletionTo([deletion EXCEPT !.errors = {"general"}])
    /\ calls' = Rest

DeletionRefused ==
    /\ Op("delete")
    /\ \E wrong \in {"password", "general"} :
           DeletionTo(IF deletion.busy
                         THEN [deletion EXCEPT !.errors = {wrong}, !.busy = FALSE]
                         ELSE deletion)
    /\ calls' = Rest

LogoutAnswered ==
    /\ Op("logout")
    /\ left' = TRUE /\ calls' = <<>>
    /\ UNCHANGED <<server, user, lost, reading, counts, profile, password, switch, deletion>>

-----------------------------------------------------------------------------

\* The answer to a call is lost, or the call is: nothing catches that.
Rejected ==
    /\ ~left /\ calls # <<>>
    /\ lost' = TRUE /\ calls' = Rest
    /\ UNCHANGED <<server, user, reading, left, counts, profile, password, switch, deletion>>

Answers ==
    \/ ProfileSaved \/ ProfileRefused \/ ProfileRead \/ ProfileGone \/ ProfileUnread
    \/ PasswordChanged \/ PasswordRefused
    \/ StatusAnswered \/ StatusRefused \/ SubscriptionSet \/ SubscriptionRefused
    \/ AccountDeleted \/ DeletionRefused \/ LogoutAnswered
    \/ Rejected

Next ==
    \/ Answers
    \/ \E n \in Names : TypeName(n)
    \/ SaveProfile \/ ToggleOpen \/ SavePassword
    \/ \E f \in DOMAIN NoPassword, p \in Passwords : TypePassword(f, p)
    \/ Toggle
    \/ OpenDeletion \/ CloseDeletion \/ ConfirmDelete
    \/ \E p \in Passwords \cup {None}, c \in BOOLEAN : TypeDeletion(p, c)

Spec == Init /\ [][Next]_vars /\ WF_vars(Answers)

-----------------------------------------------------------------------------
(* Properties *)

\* Whatever is cancelled, answered late or taken down in between, a form that
\* is closed has forgotten the passwords that were typed.
PasswordsForgotten ==
    /\ ~password.open => password.typed = NoPassword
    /\ ~deletion.open => deletion.password = None /\ ~deletion.confirmed

Quiet == ~Waits("status") /\ ~Waits("subscribe") /\ ~reading /\ ~left /\ ~lost

\* A switch whose status was read, and that is turned only when nothing waits,
\* shows what is stored, whatever is refused.
SwitchIsHonest == Quiet /\ doubt = "none" => enabled = subscribed

\* The user of an account that is gone leaves the page, unless a call is lost.
DeletedLeaves == (account = None) ~> (left \/ lost)

\* A form that waits for its answer gets it, unless a call is lost.
BusyEnds ==
    /\ profile.busy ~> (~profile.busy \/ left \/ lost \/ reading)
    /\ password.busy ~> (~password.busy \/ left \/ lost \/ reading)
    /\ deletion.busy ~> (~deletion.busy \/ left \/ lost \/ reading)

\* The forms forget what is secret, and the switch shows what is so.
SettingsInv == PasswordsForgotten /\ SwitchIsHonest

\* Whatever the settings ask for comes to an end.
SettingsEnd == DeletedLeaves /\ BusyEnds

=============================================================================
