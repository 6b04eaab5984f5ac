------------------------------ MODULE Accounts ------------------------------
(***************************************************************************)
(* The accounts with a password: registration and its link, the login, the *)
(* forgotten password and its link, the linking to the single sign-on, and *)
(* the deletion, as the pages ask for them and the database does them.     *)
(*                                                                         *)
(* A handler is cut at its statements, between which others run; a         *)
(* statement that fails ends it with an error, and keeps what came before. *)
(***************************************************************************)
EXTENDS NoValue, Integers, Sequences, FiniteSets

CONSTANTS
    Email,          \* addresses in their normal form
    Password,       \* passwords that meet the rules
    Weak,           \* one that does not
    Doc,            \* pages open at one time
    Pages,          \* which pages are opened: what an instance looks at
    MaxAttempts,    \* registrations of an address in ten minutes
    MaxIds, MaxLinks, MaxVisits  \* bounds on the users and links made, and the pages opened

VARIABLES
    user,       \* user[e]: the row of e, or None
    nextId,     \* the id of the next row
    verify,     \* the rows of email_verification_tokens, and, as history, the
                \* password that was registered with each
    reset,      \* the rows of password_reset_tokens
    mailed,     \* the links that were mailed: <<"verify" or "reset", token>>
    subscribed, \* addresses in notification_subscriptions
    attempts,   \* emailAttemptCache
    jobs,       \* the user_ids found in analysis_jobs
    doc,        \* doc[d]: the page in d and how far its request is, or None
    visits,
    overlap     \* history: requests that ran between each other's statements

links       == <<verify, reset, mailed>>
accountVars == <<user, nextId, links, subscribed, attempts, jobs, doc, visits, overlap>>

Row(id, p, verified, sso) == [id |-> id, password |-> p, verified |-> verified, sso |-> sso]

\* An account may be there from before.
AccountsInit ==
    /\ \E old \in {{}} \cup {{e} : e \in Email}, p \in Password :
        /\ user = [e \in Email |-> IF e \in old THEN Row(1, p, TRUE, FALSE) ELSE None]
        /\ nextId = 1 + Cardinality(old)
    /\ verify = <<>> /\ reset = <<>> /\ mailed = {}
    /\ subscribed = {} /\ attempts = [e \in Email |-> 0]
    /\ jobs = {} /\ doc = [d \in Doc |-> None] /\ visits = 0 /\ overlap = {}

-----------------------------------------------------------------------------
(* Pages *)

\* typed: whether the address was typed in its normal form.
Page(page, e, typed, p, t) ==
    [page |-> page, step |-> "form", email |-> e, typed |-> typed, password |-> p, token |-> t, seen |-> {}]

On(d, page, step) == doc[d] # None /\ doc[d].page = page /\ doc[d].step = step

To(d, step) == doc' = [doc EXCEPT ![d].step = step]

Open(d, page) ==
    /\ doc[d] = None /\ visits < MaxVisits /\ page.page \in Pages
    /\ visits' = visits + 1
    /\ doc' = [doc EXCEPT ![d] = page]
    /\ UNCHANGED <<user, nextId, links, subscribed, attempts, jobs, overlap>>

OpenForm(d) ==
    \E page \in {"register", "login", "forgot", "delete"}, e \in Email, typed \in BOOLEAN,
       p \in Password \cup {Weak} :
        /\ page \in {"login", "forgot"} \/ typed
        /\ page \in {"register", "login", "delete"} \/ p = Weak
        /\ Open(d, Page(page, e, typed, p, None))

\* A link of a mail opens its page with its token.
OpenLink(d) ==
    \E m \in mailed, p \in Password :
        \/ m[1] = "verify" /\ Open(d, Page("verify", None, TRUE, Weak, m[2]))
        \/ m[1] = "reset" /\ Open(d, Page("reset", None, TRUE, p, m[2]))

Ended(d) == doc[d] # None /\ doc[d].step \in {"done", "error"}

LeavePage(d) ==
    /\ Ended(d)
    /\ doc' = [doc EXCEPT ![d] = None]
    /\ UNCHANGED <<user, nextId, links, subscribed, attempts, jobs, visits, overlap>>

\* A statement, a mail or the check of a domain fails.
Fails(d) ==
    /\ doc[d] # None /\ doc[d].step \notin {"form", "done", "error"}
    /\ To(d, "error")
    /\ UNCHANGED <<user, nextId, links, subscribed, attempts, jobs, visits, overlap>>

-----------------------------------------------------------------------------
(* registerUser *)

\* Six times in ten minutes is once too often.
Attempt(d) ==
    /\ On(d, "register", "form")
    /\ LET e == doc[d].email IN
       IF attempts[e] >= MaxAttempts THEN To(d, "error") /\ UNCHANGED attempts
       ELSE /\ attempts' = [attempts EXCEPT ![e] = @ + 1]
            /\ To(d, IF doc[d].password = Weak THEN "error" ELSE "checked")
    /\ UNCHANGED <<user, nextId, links, subscribed, jobs, visits, overlap>>

WindowPasses(e) ==
    /\ attempts[e] > 0 /\ attempts' = [attempts EXCEPT ![e] = 0]
    /\ UNCHANGED <<user, nextId, links, subscribed, jobs, doc, visits, overlap>>

\* A token that is in use no longer: deleted, revoked or an hour old.
Without(rows, toks) == [t \in DOMAIN rows |-> IF t \in toks THEN [rows[t] EXCEPT !.live = FALSE] ELSE rows[t]]

TokensOf(rows, id) == {t \in DOMAIN rows : rows[t].id = id}

Registering(e) == {d \in Doc : On(d, "register", "registered") /\ doc[d].email = e}

\* Mutant: the links of an earlier registration stay.
NoLinks(id) == {}

OldLinks(id) == TokensOf(verify, id)

\* An account that is not verified is registered again, and its links end.
RegisterUser(d) ==
    /\ On(d, "register", "checked")
    /\ LET e == doc[d].email IN
       \/ /\ user[e] # None /\ user[e].verified
          /\ To(d, "error") /\ UNCHANGED <<user, nextId, verify, overlap>>
       \/ /\ user[e] # None => ~user[e].verified
          /\ \/ /\ user[e] # None
                /\ user' = [user EXCEPT ![e].password = doc[d].password]
                /\ verify' = Without(verify, OldLinks(user[e].id))
                /\ UNCHANGED nextId
             \/ /\ user[e] = None /\ nextId <= MaxIds
                /\ user' = [user EXCEPT ![e] = Row(nextId, doc[d].password, FALSE, FALSE)]
                /\ nextId' = nextId + 1
                /\ UNCHANGED verify
          /\ overlap' = overlap \cup {f \in {"register"} : Registering(e) # {}}
          /\ To(d, "registered")
    /\ UNCHANGED <<reset, mailed, subscribed, attempts, jobs, visits>>

InsertVerificationToken(d) ==
    /\ On(d, "register", "registered") /\ Len(verify) < MaxLinks
    /\ LET e == doc[d].email IN
       IF user[e] = None THEN To(d, "error") /\ UNCHANGED verify
       ELSE /\ verify' = Append(verify, [id |-> user[e].id, live |-> TRUE,
                                         registered |-> doc[d].password])
            /\ doc' = [doc EXCEPT ![d].step = "tokened", ![d].token = Len(verify) + 1]
    /\ UNCHANGED <<user, nextId, reset, mailed, subscribed, attempts, jobs, visits, overlap>>

SendVerificationEmail(d) ==
    /\ On(d, "register", "tokened")
    /\ mailed' = mailed \cup {<<"verify", doc[d].token>>}
    /\ To(d, "mailed")
    /\ UNCHANGED <<user, nextId, verify, reset, subscribed, attempts, jobs, visits, overlap>>

\* Last, and if the box was ticked.
Subscribe(d) ==
    /\ On(d, "register", "mailed")
    /\ subscribed' \in {subscribed, subscribed \cup {doc[d].email}}
    /\ To(d, "done")
    /\ UNCHANGED <<user, nextId, links, attempts, jobs, visits, overlap>>

\* The page of the link asks at once, and only once.
VerifyEmail(d) ==
    /\ On(d, "verify", "form")
    /\ LET t == doc[d].token
           whose == {e \in Email : user[e] # None /\ user[e].id = verify[t].id}
       IN IF verify[t].live /\ whose # {}
             THEN /\ user' = [e \in Email |-> IF e \in whose THEN [user[e] EXCEPT !.verified = TRUE]
                                              ELSE user[e]]
                  /\ verify' = Without(verify, {t})
                  /\ To(d, "done")
             ELSE To(d, "error") /\ UNCHANGED <<user, verify>>
    /\ UNCHANGED <<nextId, reset, mailed, subscribed, attempts, jobs, visits, overlap>>

-----------------------------------------------------------------------------
(* loginUser, and findOrCreateSsoUser of the callback *)

LoginUser(d) ==
    /\ On(d, "login", "form")
    /\ LET u == user[doc[d].email] IN
       To(d, IF u # None /\ ~u.sso /\ u.password = doc[d].password /\ u.verified
                THEN "done" ELSE "error")
    /\ UNCHANGED <<user, nextId, links, subscribed, attempts, jobs, visits, overlap>>

FindOrCreateSsoUser(e) ==
    /\ \/ /\ user[e] = None /\ nextId <= MaxIds
          /\ user' = [user EXCEPT ![e] = Row(nextId, None, TRUE, TRUE)]
          /\ nextId' = nextId + 1
       \/ /\ user[e] # None /\ ~user[e].sso
          /\ user' = [user EXCEPT ![e].sso = TRUE, ![e].verified = TRUE]
          /\ UNCHANGED nextId
    /\ UNCHANGED <<links, subscribed, attempts, jobs, doc, visits, overlap>>

-----------------------------------------------------------------------------
(* forgotPassword and resetPassword *)

\* Mutant: no link is revoked.
NoReset(id) == {}

LiveReset(id) == {t \in TokensOf(reset, id) : reset[t].live}

\* The address is looked up as it was typed.  The tokens to revoke are those
\* found now; they end when the new one is committed.
ForgotPassword(d) ==
    /\ On(d, "forgot", "form")
    /\ LET u == user[doc[d].email] IN
       IF u = None \/ ~doc[d].typed THEN To(d, "done")
       ELSE doc' = [doc EXCEPT ![d].step = "revoking",
                               ![d].seen = LiveReset(u.id)]
    /\ UNCHANGED <<user, nextId, links, subscribed, attempts, jobs, visits, overlap>>

CreatePasswordResetToken(d) ==
    /\ On(d, "forgot", "revoking") /\ Len(reset) < MaxLinks
    /\ LET u == user[doc[d].email] IN
       IF u = None THEN To(d, "error") /\ UNCHANGED <<reset, overlap>>
       ELSE /\ reset' = Append(Without(reset, doc[d].seen), [id |-> u.id, live |-> TRUE])
            /\ overlap' = overlap \cup {f \in {"forgot"} :
                              LiveReset(u.id) # doc[d].seen}
            /\ doc' = [doc EXCEPT ![d].step = "tokened", ![d].token = Len(reset) + 1, ![d].seen = {}]
    /\ UNCHANGED <<user, nextId, verify, mailed, subscribed, attempts, jobs, visits>>

SendPasswordResetEmail(d) ==
    /\ On(d, "forgot", "tokened")
    /\ mailed' = mailed \cup {<<"reset", doc[d].token>>}
    /\ To(d, "done")
    /\ UNCHANGED <<user, nextId, verify, reset, subscribed, attempts, jobs, visits, overlap>>

\* The page has checked the password, which may be typed again after an error.
ResetPassword(d) ==
    /\ On(d, "reset", "form")
    /\ To(d, IF reset[doc[d].token].live THEN "found" ELSE "error")
    /\ UNCHANGED <<user, nextId, links, subscribed, attempts, jobs, visits, overlap>>

\* The token was found live, and is not looked at again.
ResetPasswordWithToken(d) ==
    /\ On(d, "reset", "found")
    /\ LET t == doc[d].token IN
       /\ user' = [e \in Email |-> IF user[e] # None /\ user[e].id = reset[t].id
                                      THEN [user[e] EXCEPT !.password = doc[d].password] ELSE user[e]]
       /\ reset' = Without(reset, {t})
    /\ overlap' = overlap \cup {"reset"}
    /\ To(d, "done")
    /\ UNCHANGED <<nextId, verify, mailed, subscribed, attempts, jobs, visits>>

\* An hour after it was made.
TokenExpires ==
    /\ \/ \E t \in DOMAIN verify : verify[t].live /\ verify' = Without(verify, {t}) /\ UNCHANGED reset
       \/ \E t \in DOMAIN reset : reset[t].live /\ reset' = Without(reset, {t}) /\ UNCHANGED verify
    /\ UNCHANGED <<user, nextId, mailed, subscribed, attempts, jobs, doc, visits, overlap>>

-----------------------------------------------------------------------------
(* Jobs and the deletion of the account *)

\* The API has found the user of the key; the row of the job comes later.
Submit(d, e) ==
    /\ user[e] # None /\ user[e].verified
    /\ Open(d, [Page("submit", e, TRUE, Weak, user[e].id) EXCEPT !.step = "keyed"])

InsertJob(d) ==
    /\ On(d, "submit", "keyed")
    /\ jobs' = jobs \cup {doc[d].token}
    /\ overlap' = overlap \cup {f \in {"submit"} :
                      (\E e \in Email : user[e] # None /\ user[e].id = doc[d].token) =>
                      \E c \in Doc : On(c, "delete", "anonymised") /\ doc[c].token = doc[d].token}
    /\ To(d, "done")
    /\ UNCHANGED <<user, nextId, links, subscribed, attempts, visits>>

\* Of a signed-in user, by the password.
DeleteUserAccount(d) ==
    /\ On(d, "delete", "form")
    /\ LET u == user[doc[d].email] IN
       doc' = IF u # None /\ u.password = doc[d].password
                 THEN [doc EXCEPT ![d].step = "confirmed", ![d].token = u.id]
                 ELSE [doc EXCEPT ![d].step = "error"]
    /\ UNCHANGED <<user, nextId, links, subscribed, attempts, jobs, visits, overlap>>

\* Mutant: the user is gone before the jobs are looked for.
DeleteFirst(d) ==
    /\ On(d, "delete", "confirmed")
    /\ user' = [e \in Email |-> IF user[e] # None /\ user[e].id = doc[d].token THEN None ELSE user[e]]
    /\ To(d, "anonymised")
    /\ UNCHANGED <<nextId, links, subscribed, attempts, jobs, visits, overlap>>

AnonymiseJobs(d) ==
    /\ On(d, "delete", "confirmed")
    /\ jobs' = jobs \ {doc[d].token} /\ To(d, "anonymised")
    /\ UNCHANGED <<user, nextId, links, subscribed, attempts, visits, overlap>>

\* The tokens of the user go with the row.
DeleteUser(d) ==
    /\ On(d, "delete", "anonymised")
    /\ user' = [e \in Email |-> IF user[e] # None /\ user[e].id = doc[d].token THEN None ELSE user[e]]
    /\ verify' = Without(verify, TokensOf(verify, doc[d].token))
    /\ reset' = Without(reset, TokensOf(reset, doc[d].token))
    /\ To(d, "done")
    /\ UNCHANGED <<nextId, mailed, subscribed, attempts, jobs, visits, overlap>>

AccountsNext ==
    \/ \E d \in Doc :
         \/ OpenForm(d) \/ OpenLink(d) \/ LeavePage(d) \/ Fails(d)
         \/ Attempt(d) \/ RegisterUser(d) \/ InsertVerificationToken(d)
         \/ SendVerificationEmail(d) \/ Subscribe(d) \/ VerifyEmail(d)
         \/ LoginUser(d) \/ ForgotPassword(d) \/ CreatePasswordResetToken(d)
         \/ SendPasswordResetEmail(d) \/ ResetPassword(d) \/ ResetPasswordWithToken(d)
         \/ InsertJob(d) \/ DeleteUserAccount(d) \/ AnonymiseJobs(d) \/ DeleteUser(d)
         \/ \E e \in Email : Submit(d, e)
    \/ \E e \in Email : WindowPasses(e) \/ FindOrCreateSsoUser(e)
    \/ TokenExpires

AccountsSpec == AccountsInit /\ [][AccountsNext]_accountVars

-----------------------------------------------------------------------------
(* Properties *)

\* A link verifies the password that was registered with it, unless two
\* registrations ran into each other or the password was reset.
LinkMatchesPassword ==
    [][\A d \in Doc : VerifyEmail(d) /\ verify[doc[d].token].live /\ overlap \cap {"register", "reset"} = {}
         => \A e \in Email : user[e] # None /\ user[e].id = verify[doc[d].token].id /\ ~user[e].sso
              => user[e].password = verify[doc[d].token].registered]_accountVars

\* A user has one link to reset the password, unless two were asked for at once.
OneResetLink ==
    "forgot" \notin overlap =>
        \A s, t \in DOMAIN reset : s # t /\ reset[s].live /\ reset[t].live => reset[s].id # reset[t].id

\* No job names a user who is gone, unless it was inserted during or after
\* the deletion.
DeletedLeaveNoJobs ==
    "submit" \notin overlap => \A id \in jobs : \E e \in Email : user[e] # None /\ user[e].id = id

\* Links and jobs belong to the user as it is now.
AccountsSafe == LinkMatchesPassword /\ [](OneResetLink /\ DeletedLeaveNoJobs)

=============================================================================
