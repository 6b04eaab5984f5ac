--------------------------- MODULE AccountsProofs ---------------------------
(***************************************************************************)
(* Proofs about the two ways into the app.  First the accounts with a      *)
(* password, for any addresses, any passwords, any number of pages open at *)
(* one time, and any bounds.  Then the cookies of a browser and the tokens *)
(* of Keycloak, for any users, any number of requests on their way, and    *)
(* any number of logins and tokens, whether Keycloak rotates or not.       *)
(***************************************************************************)
EXTENDS Accounts, SsoSession, FiniteSetTheorems, TLAPS

Kind     == {"register", "verify", "login", "forgot", "reset", "submit", "delete"}
Step     == {"form", "checked", "registered", "tokened", "mailed", "revoking", "found", "keyed",
             "confirmed", "anonymised", "done", "error"}
Typed    == Password \cup {Weak}
UserRow  == [id : Nat, password : Typed \cup {None}, verified : BOOLEAN, sso : BOOLEAN]
LinkRow  == [id : Nat, live : BOOLEAN, registered : Typed]
ResetRow == [id : Nat, live : BOOLEAN]
PageRow  == [page : Kind, step : Step, email : Email \cup {None}, typed : BOOLEAN,
             password : Typed, token : Nat \cup {None}, seen : SUBSET Nat]

\* None is no row, no page and no address.
AccountsConstants == None \notin UserRow /\ None \notin PageRow /\ None \notin Email

-----------------------------------------------------------------------------
(* The invariant *)

AccountsTypeOK ==
    /\ user \in [Email -> UserRow \cup {None}] /\ nextId \in Nat \ {0}
    /\ verify \in Seq(LinkRow) /\ reset \in Seq(ResetRow)
    /\ doc \in [Doc -> PageRow \cup {None}]
    /\ mailed \subseteq {"verify", "reset"} \X (Nat \cup {None})

\* An id is given once.
IdsOK ==
    /\ \A e \in Email : user[e] # None =>
           /\ user[e].id < nextId
           /\ \A f \in Email : user[f] # None /\ user[f].id = user[e].id => f = e
    /\ \A t \in DOMAIN verify : verify[t].id < nextId

\* What a page names is there.
PageOK(p) ==
    /\ p.page \in {"register", "forgot", "delete"} => p.email \in Email
    /\ p.page = "verify" \/ (p.page = "register" /\ p.step = "tokened") => p.token \in DOMAIN verify

PagesOK ==
    /\ \A d \in Doc : doc[d] # None => PageOK(doc[d])
    /\ \A m \in mailed : m[1] = "verify" => m[2] \in DOMAIN verify

\* A link that works has the password of its user, who has the one that was
\* registered last, until its link is there.
PasswordsOK ==
    overlap \cap {"register", "reset"} = {} =>
        /\ \A t \in DOMAIN verify, e \in Email :
               verify[t].live /\ user[e] # None /\ user[e].id = verify[t].id /\ ~user[e].sso
                   => user[e].password = verify[t].registered
        /\ \A d \in Doc : On(d, "register", "registered") =>
               LET u == user[doc[d].email] IN u # None /\ ~u.sso => u.password = doc[d].password

\* A user who is about to be deleted has no jobs.
JobsAreGone ==
    "submit" \notin overlap => \A d \in Doc : On(d, "delete", "anonymised") => doc[d].token \notin jobs

AccountsInd ==
    /\ AccountsTypeOK /\ IdsOK /\ PagesOK /\ PasswordsOK /\ JobsAreGone
    /\ OneResetLink /\ DeletedLeaveNoJobs

-----------------------------------------------------------------------------
(* Rows and pages *)

LEMMA WithoutLinks ==
  ASSUME NEW rows \in Seq(LinkRow), NEW toks
  PROVE  /\ Without(rows, toks) \in Seq(LinkRow) /\ DOMAIN Without(rows, toks) = DOMAIN rows
         /\ \A t \in DOMAIN rows :
               /\ Without(rows, toks)[t].id = rows[t].id
               /\ Without(rows, toks)[t].registered = rows[t].registered
               /\ Without(rows, toks)[t].live => rows[t].live /\ t \notin toks
<1>1. \A t \in DOMAIN rows : rows[t] \in LinkRow
  OBVIOUS
<1>2. DOMAIN Without(rows, toks) = DOMAIN rows
  BY DEF Without
<1>3. \A t \in DOMAIN rows :
         /\ Without(rows, toks)[t] \in LinkRow
         /\ Without(rows, toks)[t].id = rows[t].id
         /\ Without(rows, toks)[t].registered = rows[t].registered
         /\ Without(rows, toks)[t].live => rows[t].live /\ t \notin toks
  BY <1>1 DEF Without, LinkRow
<1>4. Without(rows, toks) \in [1..Len(rows) -> LinkRow]
  BY <1>3 DEF Without
<1>5. Without(rows, toks) \in Seq(LinkRow)
  BY <1>4
<1> QED
  BY <1>2, <1>3, <1>5

LEMMA WithoutResets ==
  ASSUME NEW rows \in Seq(ResetRow), NEW toks
  PROVE  /\ Without(rows, toks) \in Seq(ResetRow) /\ DOMAIN Without(rows, toks) = DOMAIN rows
         /\ \A t \in DOMAIN rows :
               /\ Without(rows, toks)[t].id = rows[t].id
               /\ Without(rows, toks)[t].live => rows[t].live /\ t \notin toks
<1>1. \A t \in DOMAIN rows : rows[t] \in ResetRow
  OBVIOUS
<1>2. DOMAIN Without(rows, toks) = DOMAIN rows
  BY DEF Without
<1>3. \A t \in DOMAIN rows :
         /\ Without(rows, toks)[t] \in ResetRow
         /\ Without(rows, toks)[t].id = rows[t].id
         /\ Without(rows, toks)[t].live => rows[t].live /\ t \notin toks
  BY <1>1 DEF Without, ResetRow
<1>4. Without(rows, toks) \in [1..Len(rows) -> ResetRow]
  BY <1>3 DEF Without
<1>5. Without(rows, toks) \in Seq(ResetRow)
  BY <1>4
<1> QED
  BY <1>2, <1>3, <1>5

LEMMA ToFacts ==
  ASSUME AccountsConstants, AccountsTypeOK, NEW d \in Doc, doc[d] # None, NEW step \in Step, To(d, step)
  PROVE  /\ doc' \in [Doc -> PageRow \cup {None}] /\ doc'[d] # None
         /\ doc'[d].page = doc[d].page /\ doc'[d].step = step /\ doc'[d].email = doc[d].email
         /\ doc'[d].password = doc[d].password /\ doc'[d].token = doc[d].token
         /\ \A c \in Doc \ {d} : doc'[c] = doc[c]
<1>1. doc[d] \in PageRow /\ doc' = [doc EXCEPT ![d].step = step]
  BY DEF AccountsTypeOK, To
<1>2. [doc[d] EXCEPT !.step = step] \in PageRow
  BY <1>1 DEF PageRow
<1>3. doc' = [doc EXCEPT ![d] = [doc[d] EXCEPT !.step = step]]
  BY <1>1
<1>4. /\ doc'[d] = [doc[d] EXCEPT !.step = step] /\ doc'[d] \in PageRow
      /\ \A c \in Doc \ {d} : doc'[c] = doc[c]
      /\ doc' \in [Doc -> PageRow \cup {None}]
  BY <1>2, <1>3 DEF AccountsTypeOK
<1>5. /\ doc'[d].page = doc[d].page /\ doc'[d].step = step /\ doc'[d].email = doc[d].email
      /\ doc'[d].password = doc[d].password /\ doc'[d].token = doc[d].token
  BY <1>1, <1>4 DEF PageRow
<1> QED
  BY <1>4, <1>5 DEF AccountsConstants

LEMMA AccountsInitInd ==
  ASSUME AccountsConstants
  PROVE  AccountsInit => AccountsInd
<1> SUFFICES ASSUME AccountsInit PROVE AccountsInd
  OBVIOUS
<1>1. PICK old \in {{}} \cup {{e} : e \in Email}, p \in Password :
        /\ user = [e \in Email |-> IF e \in old THEN Row(1, p, TRUE, FALSE) ELSE None]
        /\ nextId = 1 + Cardinality(old)
  BY DEF AccountsInit
<1>2. /\ nextId \in Nat \ {0} /\ (old # {} => 1 < nextId)
      /\ \A e, f \in Email : e \in old /\ f \in old => e = f
  <2>1. CASE old = {}
    BY <1>1, <2>1, FS_EmptySet
  <2>2. ASSUME NEW g \in Email, old = {g}
        PROVE  /\ nextId \in Nat \ {0} /\ (old # {} => 1 < nextId)
               /\ \A e, f \in Email : e \in old /\ f \in old => e = f
    <3>1. Cardinality({g}) = 1
      BY FS_Singleton
    <3> QED
      BY <1>1, <2>2, <3>1
  <2> QED
    BY <2>1, <2>2
<1>3. Row(1, p, TRUE, FALSE) \in UserRow /\ Row(1, p, TRUE, FALSE).id = 1
  BY DEF Row, UserRow, Typed
<1>4. AccountsTypeOK
  <2>1. user \in [Email -> UserRow \cup {None}]
    BY <1>1, <1>3
  <2>2. verify \in Seq(LinkRow) /\ reset \in Seq(ResetRow) /\ mailed = {}
    BY DEF AccountsInit
  <2>3. doc \in [Doc -> PageRow \cup {None}]
    BY DEF AccountsInit
  <2> QED
    BY <1>2, <2>1, <2>2, <2>3 DEF AccountsTypeOK
<1>5. IdsOK
  <2>1. \A e \in Email : user[e] # None => e \in old /\ user[e].id = 1
    BY <1>1, <1>3
  <2>2. DOMAIN verify = {}
    BY DEF AccountsInit
  <2> QED
    BY <1>2, <2>1, <2>2 DEF IdsOK
<1>6. PagesOK /\ PasswordsOK /\ JobsAreGone /\ OneResetLink /\ DeletedLeaveNoJobs
  BY DEF AccountsInit, PagesOK, PasswordsOK, JobsAreGone, OneResetLink, DeletedLeaveNoJobs, On
<1> QED
  BY <1>4, <1>5, <1>6 DEF AccountsInd

-----------------------------------------------------------------------------
(* Pages that go on, and leave the tables alone *)

LEMMA PagesKept ==
  ASSUME AccountsInd, \A c \in Doc : doc'[c] = doc[c] \/ (doc[c] # None => PageOK(doc[c]))',
         DOMAIN verify \subseteq DOMAIN verify',
         \A m \in mailed' : m \in mailed \/ (m[1] = "verify" => m[2] \in DOMAIN verify)
  PROVE  PagesOK'
<1>1. \A c \in Doc : (doc[c] # None => PageOK(doc[c]))'
  <2> SUFFICES ASSUME NEW c \in Doc, doc'[c] = doc[c] PROVE (doc[c] # None => PageOK(doc[c]))'
    OBVIOUS
  <2> QED
    BY DEF AccountsInd, PagesOK, PageOK
<1>2. (\A m \in mailed : m[1] = "verify" => m[2] \in DOMAIN verify)'
  BY DEF AccountsInd, PagesOK
<1> QED
  BY <1>1, <1>2 DEF PagesOK

\* A page that neither has registered nor is about to delete.
LEMMA PageInd ==
  ASSUME AccountsConstants, AccountsInd, NEW d \in Doc,
         doc' \in [Doc -> PageRow \cup {None}], \A c \in Doc \ {d} : doc'[c] = doc[c],
         (doc[d] # None => PageOK(doc[d]))',
         ~On(d, "register", "registered")', ~On(d, "delete", "anonymised")',
         mailed' \subseteq {"verify", "reset"} \X (Nat \cup {None}),
         \A m \in mailed' : m \in mailed \/ (m[1] = "verify" => m[2] \in DOMAIN verify),
         UNCHANGED <<user, nextId, verify, reset, jobs, overlap>>
  PROVE  AccountsInd'
<1>1. AccountsTypeOK' /\ IdsOK' /\ OneResetLink' /\ DeletedLeaveNoJobs'
  BY DEF AccountsInd, AccountsTypeOK, IdsOK, OneResetLink, LiveReset, TokensOf, DeletedLeaveNoJobs
<1>2. PagesOK'
  BY PagesKept
<1>3. \A c \in Doc : /\ On(c, "register", "registered")' => c # d
                     /\ On(c, "delete", "anonymised")' => c # d
  OBVIOUS
<1>4. PasswordsOK'
  BY <1>3 DEF AccountsInd, PasswordsOK, On
<1>5. JobsAreGone'
  BY <1>3 DEF AccountsInd, JobsAreGone, On
<1> QED
  BY <1>1, <1>2, <1>4, <1>5 DEF AccountsInd

\* The same, when a page goes to a step.
LEMMA StepInd ==
  ASSUME AccountsConstants, AccountsInd, NEW d \in Doc, doc[d] # None, NEW step \in Step, To(d, step),
         step \notin {"registered", "tokened", "anonymised"},
         mailed' \subseteq {"verify", "reset"} \X (Nat \cup {None}),
         \A m \in mailed' : m \in mailed \/ (m[1] = "verify" => m[2] \in DOMAIN verify),
         UNCHANGED <<user, nextId, verify, reset, jobs, overlap>>
  PROVE  AccountsInd'
<1>1. /\ doc' \in [Doc -> PageRow \cup {None}] /\ doc'[d] # None
      /\ doc'[d].page = doc[d].page /\ doc'[d].step = step /\ doc'[d].email = doc[d].email
      /\ doc'[d].password = doc[d].password /\ doc'[d].token = doc[d].token
      /\ \A c \in Doc \ {d} : doc'[c] = doc[c]
  BY ToFacts DEF AccountsInd
<1>2. PageOK(doc[d])
  BY DEF AccountsInd, PagesOK
<1>3. PageOK(doc[d])'
  BY <1>1, <1>2 DEF PageOK
<1>4. ~On(d, "register", "registered")' /\ ~On(d, "delete", "anonymised")'
  BY <1>1 DEF On
<1> QED
  BY <1>1, <1>3, <1>4, PageInd

LEMMA OpenInd ==
  ASSUME AccountsConstants, AccountsInd, NEW d \in Doc, NEW page, Open(d, page),
         page \in PageRow, PageOK(page), page.step \in {"form", "keyed"}
  PROVE  AccountsInd'
<1>1. /\ doc' \in [Doc -> PageRow \cup {None}] /\ doc'[d] = page
      /\ \A c \in Doc \ {d} : doc'[c] = doc[c]
      /\ UNCHANGED <<user, nextId, verify, reset, mailed, jobs, overlap>>
  BY DEF Open, links, AccountsInd, AccountsTypeOK
<1>2. (doc[d] # None => PageOK(doc[d]))'
  BY <1>1 DEF PageOK
<1>3. ~On(d, "register", "registered")' /\ ~On(d, "delete", "anonymised")'
  BY <1>1 DEF On
<1> QED
  BY <1>1, <1>2, <1>3, PageInd DEF AccountsInd, AccountsTypeOK

LEMMA OpensInd ==
  ASSUME AccountsConstants, AccountsInd, NEW d \in Doc,
         OpenForm(d) \/ OpenLink(d) \/ \E e \in Email : Submit(d, e)
  PROVE  AccountsInd'
<1>1. CASE OpenForm(d)
  <2>1. PICK page \in {"register", "login", "forgot", "delete"}, e \in Email, typed \in BOOLEAN,
             p \in Password \cup {Weak} : Open(d, Page(page, e, typed, p, None))
    BY <1>1 DEF OpenForm
  <2> DEFINE new == Page(page, e, typed, p, None)
  <2>2. new \in PageRow /\ PageOK(new) /\ new.step \in {"form", "keyed"}
    <3>1. /\ new \in PageRow /\ new.page = page /\ new.step = "form" /\ new.email = e
      <4>1. page \in Kind /\ e \in Email \cup {None} /\ p \in Typed /\ None \in Nat \cup {None}
        BY DEF Kind, Typed
      <4> QED
        BY <4>1 DEF Page, PageRow, Step
    <3> QED
      BY <3>1 DEF PageOK
  <2> QED
    BY <2>1, <2>2, OpenInd
<1>2. CASE OpenLink(d)
  <2>1. PICK m \in mailed, p \in Password :
          \/ m[1] = "verify" /\ Open(d, Page("verify", None, TRUE, Weak, m[2]))
          \/ m[1] = "reset" /\ Open(d, Page("reset", None, TRUE, p, m[2]))
    BY <1>2 DEF OpenLink
  <2>2. m[2] \in Nat \cup {None} /\ (m[1] = "verify" => m[2] \in DOMAIN verify)
    BY DEF AccountsInd, AccountsTypeOK, PagesOK
  <2>3. CASE m[1] = "verify" /\ Open(d, Page("verify", None, TRUE, Weak, m[2]))
    <3>1. PICK new : new = Page("verify", None, TRUE, Weak, m[2]) /\ Open(d, new)
      BY <2>3
    <3>2. new \in PageRow /\ new.page = "verify" /\ new.step = "form" /\ new.token = m[2]
      <4>1. "verify" \in Kind /\ None \in Email \cup {None} /\ Weak \in Typed
        BY DEF Kind, Typed
      <4> QED
        BY <2>2, <3>1, <4>1 DEF Page, PageRow, Step
    <3>3. PageOK(new)
      BY <2>2, <2>3, <3>2 DEF PageOK
    <3> QED
      BY <3>1, <3>2, <3>3, OpenInd
  <2>4. CASE m[1] = "reset" /\ Open(d, Page("reset", None, TRUE, p, m[2]))
    <3>1. PICK new : new = Page("reset", None, TRUE, p, m[2]) /\ Open(d, new)
      BY <2>4
    <3>2. new \in PageRow /\ new.page = "reset" /\ new.step = "form"
      <4>1. "reset" \in Kind /\ None \in Email \cup {None} /\ p \in Typed
        BY DEF Kind, Typed
      <4> QED
        BY <2>2, <3>1, <4>1 DEF Page, PageRow, Step
    <3>3. PageOK(new)
      BY <3>2 DEF PageOK
    <3> QED
      BY <3>1, <3>2, <3>3, OpenInd
  <2> QED
    BY <2>1, <2>3, <2>4
<1>3. ASSUME NEW e \in Email, Submit(d, e) PROVE AccountsInd'
  <2>1. PICK new : /\ new = [Page("submit", e, TRUE, Weak, user[e].id) EXCEPT !.step = "keyed"]
                   /\ Open(d, new) /\ user[e] # None
    BY <1>3 DEF Submit
  <2>2. user[e].id \in Nat
    BY <2>1 DEF AccountsInd, AccountsTypeOK, UserRow
  <2>3. new \in PageRow /\ PageOK(new) /\ new.step \in {"form", "keyed"}
    <3> DEFINE form == Page("submit", e, TRUE, Weak, user[e].id)
    <3>1. form \in PageRow /\ form.page = "submit"
      <4>1. "submit" \in Kind /\ Weak \in Typed
        BY DEF Kind, Typed
      <4> QED
        BY <2>2, <4>1 DEF Page, PageRow, Step
    <3>2. [form EXCEPT !.step = "keyed"] \in PageRow
      BY <3>1 DEF PageRow, Step
    <3>3. [form EXCEPT !.step = "keyed"].page = "submit" /\ [form EXCEPT !.step = "keyed"].step = "keyed"
      BY <3>1 DEF PageRow, Step
    <3> QED
      BY <2>1, <3>2, <3>3 DEF PageOK
  <2> QED
    BY <2>1, <2>3, OpenInd
<1> QED
  BY <1>1, <1>2, <1>3

LEMMA QuietInd ==
  ASSUME AccountsConstants, AccountsInd, NEW d \in Doc,
         \/ LeavePage(d) \/ Fails(d) \/ Attempt(d) \/ Subscribe(d) \/ SendVerificationEmail(d)
         \/ LoginUser(d) \/ ForgotPassword(d) \/ SendPasswordResetEmail(d) \/ ResetPassword(d)
         \/ DeleteUserAccount(d)
  PROVE  AccountsInd'
<1>1. /\ "done" \in Step /\ "error" \in Step /\ "checked" \in Step /\ "mailed" \in Step
      /\ "found" \in Step /\ "confirmed" \in Step /\ "revoking" \in Step
  BY DEF Step
<1>2. /\ mailed \subseteq {"verify", "reset"} \X (Nat \cup {None})
      /\ doc \in [Doc -> PageRow \cup {None}]
  BY DEF AccountsInd, AccountsTypeOK
<1>3. CASE LeavePage(d)
  <2>1. /\ doc' = [doc EXCEPT ![d] = None]
        /\ UNCHANGED <<user, nextId, verify, reset, mailed, jobs, overlap>>
    BY <1>3 DEF LeavePage, links
  <2>2. /\ doc' \in [Doc -> PageRow \cup {None}] /\ \A c \in Doc \ {d} : doc'[c] = doc[c]
        /\ doc'[d] = None
    BY <1>2, <2>1
  <2>3. /\ (doc[d] # None => PageOK(doc[d]))'
        /\ ~On(d, "register", "registered")' /\ ~On(d, "delete", "anonymised")'
    BY <2>2 DEF On
  <2> QED
    BY <1>2, <2>1, <2>2, <2>3, PageInd
<1>4. CASE Fails(d)
  BY <1>1, <1>2, <1>4, StepInd DEF Fails, links
<1>5. CASE Attempt(d)
  <2>1. doc[d] # None /\ UNCHANGED <<user, nextId, verify, reset, mailed, jobs, overlap>>
    BY <1>5 DEF Attempt, On, links
  <2>2. To(d, "error") \/ To(d, "checked")
    BY <1>5 DEF Attempt
  <2> QED
    BY <1>1, <1>2, <2>1, <2>2, StepInd
<1>6. CASE Subscribe(d)
  BY <1>1, <1>2, <1>6, StepInd DEF Subscribe, On, links
<1>7. CASE SendVerificationEmail(d)
  <2>1. /\ doc[d] # None /\ doc[d].page = "register" /\ doc[d].step = "tokened"
        /\ UNCHANGED <<user, nextId, verify, reset, jobs, overlap>>
        /\ mailed' = mailed \cup {<<"verify", doc[d].token>>} /\ To(d, "mailed")
    BY <1>7 DEF SendVerificationEmail, On
  <2>2. doc[d].token \in DOMAIN verify /\ doc[d].token \in Nat \cup {None}
    BY <1>2, <2>1 DEF AccountsInd, PagesOK, PageOK, PageRow
  <2>3. /\ mailed' \subseteq {"verify", "reset"} \X (Nat \cup {None})
        /\ \A m \in mailed' : m \in mailed \/ (m[1] = "verify" => m[2] \in DOMAIN verify)
    BY <1>2, <2>1, <2>2
  <2> QED
    BY <1>1, <2>1, <2>3, StepInd
<1>8. CASE LoginUser(d)
  <2>1. doc[d] # None /\ UNCHANGED <<user, nextId, verify, reset, mailed, jobs, overlap>>
    BY <1>8 DEF LoginUser, On, links
  <2>2. To(d, "error") \/ To(d, "done")
    BY <1>8 DEF LoginUser
  <2> QED
    BY <1>1, <1>2, <2>1, <2>2, StepInd
<1>9. CASE ForgotPassword(d)
  <2>1. /\ doc[d] # None /\ doc[d].page = "forgot"
        /\ UNCHANGED <<user, nextId, verify, reset, mailed, jobs, overlap>>
    BY <1>9 DEF ForgotPassword, On, links
  <2>2. CASE To(d, "done")
    BY <1>1, <1>2, <2>1, <2>2, StepInd
  <2>3. ASSUME NEW seen \in SUBSET Nat, doc' = [doc EXCEPT ![d].step = "revoking", ![d].seen = seen]
        PROVE  AccountsInd'
    <3>1. doc[d] \in PageRow
      BY <1>2, <2>1
    <3>2. [[doc[d] EXCEPT !.step = "revoking"] EXCEPT !.seen = seen] \in PageRow
      BY <1>1, <2>3, <3>1 DEF PageRow
    <3>3. /\ doc'[d] = [[doc[d] EXCEPT !.step = "revoking"] EXCEPT !.seen = seen]
          /\ \A c \in Doc \ {d} : doc'[c] = doc[c]
          /\ doc' \in [Doc -> PageRow \cup {None}]
      BY <1>2, <2>3, <3>2
    <3>4. doc'[d].page = "forgot" /\ doc'[d].step = "revoking" /\ doc'[d].email = doc[d].email
      BY <2>1, <3>1, <3>3 DEF PageRow
    <3>5. doc[d].email \in Email
      BY <2>1 DEF AccountsInd, PagesOK, PageOK
    <3>6. /\ (doc[d] # None => PageOK(doc[d]))'
          /\ ~On(d, "register", "registered")' /\ ~On(d, "delete", "anonymised")'
      BY <3>4, <3>5 DEF On, PageOK
    <3> QED
      BY <1>2, <2>1, <3>3, <3>6, PageInd
  <2>4. To(d, "done") \/ \E seen \in SUBSET Nat :
                             doc' = [doc EXCEPT ![d].step = "revoking", ![d].seen = seen]
    <3>1. \A id : LiveReset(id) \in SUBSET Nat
      BY DEF LiveReset, TokensOf, AccountsInd, AccountsTypeOK
    <3>2. \/ To(d, "done")
          \/ doc' = [doc EXCEPT ![d].step = "revoking",
                                ![d].seen = LiveReset(user[doc[d].email].id)]
      BY <1>9 DEF ForgotPassword
    <3> QED
      BY <3>1, <3>2
  <2> QED
    BY <2>2, <2>3, <2>4
<1>10. CASE SendPasswordResetEmail(d)
  <2>1. /\ doc[d] # None
        /\ UNCHANGED <<user, nextId, verify, reset, jobs, overlap>>
        /\ mailed' = mailed \cup {<<"reset", doc[d].token>>} /\ To(d, "done")
    BY <1>10 DEF SendPasswordResetEmail, On
  <2>2. doc[d].token \in Nat \cup {None}
    BY <1>2, <2>1 DEF PageRow
  <2>3. /\ mailed' \subseteq {"verify", "reset"} \X (Nat \cup {None})
        /\ \A m \in mailed' : m \in mailed \/ (m[1] = "verify" => m[2] \in DOMAIN verify)
    BY <1>2, <2>1, <2>2
  <2> QED
    BY <1>1, <2>1, <2>3, StepInd
<1>11. CASE ResetPassword(d)
  <2>1. doc[d] # None /\ UNCHANGED <<user, nextId, verify, reset, mailed, jobs, overlap>>
    BY <1>11 DEF ResetPassword, On, links
  <2>2. To(d, "error") \/ To(d, "found")
    BY <1>11 DEF ResetPassword
  <2> QED
    BY <1>1, <1>2, <2>1, <2>2, StepInd
<1>12. CASE DeleteUserAccount(d)
  <2>1. /\ doc[d] # None /\ doc[d].page = "delete"
        /\ UNCHANGED <<user, nextId, verify, reset, mailed, jobs, overlap>>
    BY <1>12 DEF DeleteUserAccount, On, links
  <2>2. CASE To(d, "error")
    BY <1>1, <1>2, <2>1, <2>2, StepInd
  <2>3. ASSUME NEW id \in Nat, doc' = [doc EXCEPT ![d].step = "confirmed", ![d].token = id]
        PROVE  AccountsInd'
    <3>1. doc[d] \in PageRow
      BY <1>2, <2>1
    <3>2. [[doc[d] EXCEPT !.step = "confirmed"] EXCEPT !.token = id] \in PageRow
      BY <1>1, <2>3, <3>1 DEF PageRow
    <3>3. /\ doc'[d] = [[doc[d] EXCEPT !.step = "confirmed"] EXCEPT !.token = id]
          /\ \A c \in Doc \ {d} : doc'[c] = doc[c]
          /\ doc' \in [Doc -> PageRow \cup {None}]
      BY <1>2, <2>3, <3>2
    <3>4. doc'[d].page = "delete" /\ doc'[d].step = "confirmed" /\ doc'[d].email = doc[d].email
      BY <2>1, <3>1, <3>3 DEF PageRow
    <3>5. doc[d].email \in Email
      BY <2>1 DEF AccountsInd, PagesOK, PageOK
    <3>6. /\ (doc[d] # None => PageOK(doc[d]))'
          /\ ~On(d, "register", "registered")' /\ ~On(d, "delete", "anonymised")'
      BY <3>4, <3>5 DEF On, PageOK
    <3> QED
      BY <1>2, <2>1, <3>3, <3>6, PageInd
  <2>4. To(d, "error") \/ \E id \in Nat :
                             doc' = [doc EXCEPT ![d].step = "confirmed", ![d].token = id]
    <3>1. \/ To(d, "error")
          \/ /\ user[doc[d].email] # None /\ user[doc[d].email].password = doc[d].password
             /\ doc' = [doc EXCEPT ![d].step = "confirmed", ![d].token = user[doc[d].email].id]
      BY <1>12 DEF DeleteUserAccount, To
    <3>2. user[doc[d].email] # None => user[doc[d].email].id \in Nat
      BY <2>1 DEF AccountsInd, PagesOK, PageOK, AccountsTypeOK, UserRow
    <3> QED
      BY <3>1, <3>2
  <2> QED
    BY <2>2, <2>3, <2>4
<1> QED
  BY <1>3, <1>4, <1>5, <1>6, <1>7, <1>8, <1>9, <1>10, <1>11, <1>12

-----------------------------------------------------------------------------
(* The tables *)

\* Users keep their ids, and a new one has the next.
LEMMA IdsChange ==
  ASSUME AccountsConstants, AccountsInd, nextId' \in Nat, nextId <= nextId',
         \A e \in Email : user'[e] # None =>
            \/ user[e] # None /\ user'[e].id = user[e].id
            \/ user[e] = None /\ user'[e].id = nextId /\ nextId < nextId',
         \A e, f \in Email : user[e] = None /\ user'[e] # None /\ user[f] = None /\ user'[f] # None => e = f,
         DOMAIN verify' = DOMAIN verify, \A t \in DOMAIN verify : verify'[t].id = verify[t].id
  PROVE  IdsOK'
<1>1. \A e \in Email : user[e] # None => user[e].id < nextId /\ user[e].id \in Nat
  BY DEF AccountsInd, IdsOK, AccountsTypeOK, UserRow
<1>2. \A t \in DOMAIN verify : verify[t].id < nextId /\ verify[t].id \in Nat
  <2>1. \A t \in DOMAIN verify : verify[t] \in LinkRow
    BY DEF AccountsInd, AccountsTypeOK
  <2> QED
    BY <2>1 DEF AccountsInd, IdsOK, LinkRow
<1>3. nextId \in Nat
  BY DEF AccountsInd, AccountsTypeOK
<1>4. IdsOK'
  <2>1. ASSUME NEW e \in Email, user'[e] # None
        PROVE  /\ user'[e].id < nextId'
               /\ \A f \in Email : user'[f] # None /\ user'[f].id = user'[e].id => f = e
    <3>1. user'[e].id < nextId'
      BY <1>1, <1>3, <2>1
    <3>2. ASSUME NEW f \in Email, user'[f] # None, user'[f].id = user'[e].id PROVE f = e
      <4>1. CASE user[e] # None /\ user[f] # None
        <5>1. user[e].id = user[f].id
          BY <2>1, <3>2, <4>1
        <5> QED
          BY <4>1, <5>1 DEF AccountsInd, IdsOK
      <4>2. CASE user[e] # None /\ user[f] = None
        BY <1>1, <1>3, <2>1, <3>2, <4>2
      <4>3. CASE user[e] = None /\ user[f] # None
        BY <1>1, <1>3, <2>1, <3>2, <4>3
      <4>4. CASE user[e] = None /\ user[f] = None
        BY <2>1, <3>2, <4>4
      <4> QED
        BY <4>1, <4>2, <4>3, <4>4
    <3> QED
      BY <3>1, <3>2
  <2>2. \A t \in DOMAIN verify' : verify'[t].id < nextId'
    BY <1>2, <1>3
  <2> QED
    BY <2>1, <2>2 DEF IdsOK
<1> QED
  BY <1>4

\* Users keep their password, or it was reset; no page registers.
LEMMA PasswordsChange ==
  ASSUME AccountsConstants, AccountsInd,
         \A c \in Doc : doc'[c] = doc[c] \/ ~On(c, "register", "registered")',
         \A e \in Email : user'[e] # None /\ ~user'[e].sso =>
            /\ user[e] # None /\ user'[e].id = user[e].id
            /\ ~user[e].sso /\ (user'[e].password = user[e].password \/ "reset" \in overlap'),
         DOMAIN verify' = DOMAIN verify,
         \A t \in DOMAIN verify : /\ verify'[t].id = verify[t].id
                                  /\ verify'[t].registered = verify[t].registered
                                  /\ verify'[t].live => verify[t].live,
         overlap \subseteq overlap'
  PROVE  PasswordsOK'
<1> SUFFICES ASSUME overlap' \cap {"register", "reset"} = {}
             PROVE  /\ (\A t \in DOMAIN verify, e \in Email :
                             verify[t].live /\ user[e] # None /\ user[e].id = verify[t].id /\ ~user[e].sso
                                 => user[e].password = verify[t].registered)'
                      /\ (\A c \in Doc : On(c, "register", "registered") =>
                             LET u == user[doc[c].email]
                             IN u # None /\ ~u.sso => u.password = doc[c].password)'
  BY DEF PasswordsOK
<1>1. ASSUME NEW t \in DOMAIN verify', NEW e \in Email, verify'[t].live, user'[e] # None,
             user'[e].id = verify'[t].id, ~user'[e].sso
      PROVE  user'[e].password = verify'[t].registered
  <2>1. /\ user[e] # None /\ user'[e].id = user[e].id /\ ~user[e].sso
        /\ user'[e].password = user[e].password
    BY <1>1
  <2>2. /\ t \in DOMAIN verify /\ verify[t].live /\ verify'[t].id = verify[t].id
        /\ verify'[t].registered = verify[t].registered
    BY <1>1
  <2>3. user[e].password = verify[t].registered
    <3>1. \A x \in DOMAIN verify, g \in Email :
             verify[x].live /\ user[g] # None /\ user[g].id = verify[x].id /\ ~user[g].sso
                 => user[g].password = verify[x].registered
      BY DEF AccountsInd, PasswordsOK
    <3>2. user[e].id = verify[t].id
      BY <1>1, <2>1, <2>2
    <3> QED
      BY <2>1, <2>2, <3>1, <3>2
  <2> QED
    BY <2>1, <2>2, <2>3
<1>2. ASSUME NEW c \in Doc, On(c, "register", "registered")', user'[doc'[c].email] # None,
             ~user'[doc'[c].email].sso
      PROVE  user'[doc'[c].email].password = doc'[c].password
  <2>1. doc'[c] = doc[c] /\ On(c, "register", "registered")
    BY <1>2 DEF On
  <2>2. doc[c].email \in Email
    BY <2>1 DEF On, AccountsInd, PagesOK, PageOK
  <2> QED
    BY <1>2, <2>1, <2>2 DEF AccountsInd, PasswordsOK
<1> QED
  BY <1>1, <1>2

\* Whoever is deleted has no jobs, and the others keep their ids.
LEMMA JobsChange ==
  ASSUME AccountsConstants, AccountsInd, NEW d \in Doc, \A c \in Doc \ {d} : doc'[c] = doc[c],
         doc' = doc \/ ~On(d, "delete", "anonymised")',
         jobs' = jobs, overlap' = overlap,
         \A e \in Email : user[e] # None =>
            \/ user'[e] # None /\ user'[e].id = user[e].id
            \/ On(d, "delete", "anonymised") /\ user[e].id = doc[d].token
  PROVE  JobsAreGone' /\ DeletedLeaveNoJobs'
<1>1. JobsAreGone'
  BY DEF AccountsInd, JobsAreGone, On
<1>2. DeletedLeaveNoJobs'
  <2> SUFFICES ASSUME "submit" \notin overlap, NEW id \in jobs
               PROVE  \E e \in Email : user'[e] # None /\ user'[e].id = id
    BY DEF DeletedLeaveNoJobs
  <2>1. PICK e \in Email : user[e] # None /\ user[e].id = id
    BY DEF AccountsInd, DeletedLeaveNoJobs
  <2>2. On(d, "delete", "anonymised") => doc[d].token # id
    BY DEF AccountsInd, JobsAreGone
  <2> QED
    BY <2>1, <2>2
<1> QED
  BY <1>1, <1>2

\* The links to reset a password end, or stay.
LEMMA ResetsChange ==
  ASSUME AccountsInd, overlap \subseteq overlap', DOMAIN reset' = DOMAIN reset,
         \A t \in DOMAIN reset : reset'[t].id = reset[t].id /\ (reset'[t].live => reset[t].live)
  PROVE  OneResetLink'
BY DEF AccountsInd, OneResetLink

LEMMA VerifyEmailInd ==
  ASSUME AccountsConstants, AccountsInd, NEW d \in Doc, VerifyEmail(d)
  PROVE  AccountsInd'
<1> DEFINE t == doc[d].token
           whose == {e \in Email : user[e] # None /\ user[e].id = verify[t].id}
<1>1. /\ doc[d] # None /\ doc[d].page = "verify"
      /\ UNCHANGED <<nextId, reset, mailed, jobs, overlap>>
      /\ To(d, "done") \/ To(d, "error")
  BY DEF VerifyEmail, On
<1>2. /\ doc' \in [Doc -> PageRow \cup {None}] /\ \A c \in Doc \ {d} : doc'[c] = doc[c]
      /\ doc'[d] # None /\ doc'[d].page = "verify" /\ doc'[d].step \in {"done", "error"}
      /\ doc'[d].token = t
  BY <1>1, ToFacts DEF AccountsInd, Step
<1>3. \/ user' = user /\ verify' = verify
      \/ /\ user' = [e \in Email |-> IF e \in whose THEN [user[e] EXCEPT !.verified = TRUE]
                                              ELSE user[e]]
         /\ verify' = Without(verify, {t})
  BY DEF VerifyEmail
<1>4. /\ user \in [Email -> UserRow \cup {None}] /\ verify \in Seq(LinkRow)
      /\ reset \in Seq(ResetRow) /\ nextId \in Nat \ {0}
      /\ mailed \subseteq {"verify", "reset"} \X (Nat \cup {None})
  BY DEF AccountsInd, AccountsTypeOK
<1>5. /\ user' \in [Email -> UserRow \cup {None}]
      /\ \A e \in Email : /\ user'[e] # None => user[e] # None
                          /\ user[e] # None =>
                               /\ user'[e] # None /\ user'[e].id = user[e].id
                               /\ user'[e].sso = user[e].sso /\ user'[e].password = user[e].password
  <2>1. CASE user' = user
    BY <1>4, <2>1
  <2>2. CASE user' = [e \in Email |-> IF e \in whose THEN [user[e] EXCEPT !.verified = TRUE]
                                              ELSE user[e]]
    <3>1. \A e \in Email : user[e] # None =>
            LET r == [user[e] EXCEPT !.verified = TRUE]
            IN r \in UserRow /\ r.id = user[e].id /\ r.sso = user[e].sso /\ r.password = user[e].password
      BY <1>4 DEF UserRow
    <3>2. \A e \in Email : e \in whose => user[e] # None
      OBVIOUS
    <3> QED
      BY <1>4, <2>2, <3>1, <3>2 DEF AccountsConstants
  <2> QED
    BY <1>3, <2>1, <2>2
<1>6. /\ verify' \in Seq(LinkRow) /\ DOMAIN verify' = DOMAIN verify
      /\ \A x \in DOMAIN verify : /\ verify'[x].id = verify[x].id
                                  /\ verify'[x].registered = verify[x].registered
                                  /\ verify'[x].live => verify[x].live
  BY <1>3, <1>4, WithoutLinks
<1>7. /\ (doc[d] # None => PageOK(doc[d]))'
      /\ ~On(d, "register", "registered")' /\ ~On(d, "delete", "anonymised")'
  <2>1. t \in DOMAIN verify
    BY <1>1 DEF AccountsInd, PagesOK, PageOK
  <2> QED
    BY <1>2, <1>6, <2>1 DEF PageOK, On
<1> HIDE DEF whose
<1>8. IdsOK' /\ PagesOK' /\ PasswordsOK'
  BY <1>1, <1>2, <1>4, <1>5, <1>6, <1>7, IdsChange, PasswordsChange, PagesKept
<1>9. JobsAreGone' /\ DeletedLeaveNoJobs'
  BY <1>1, <1>2, <1>5, <1>7, JobsChange
<1>10. OneResetLink'
  BY <1>1, ResetsChange
<1>11. AccountsTypeOK'
  BY <1>1, <1>2, <1>4, <1>5, <1>6 DEF AccountsTypeOK
<1> QED
  BY <1>8, <1>9, <1>10, <1>11 DEF AccountsInd

LEMMA ResetWithTokenInd ==
  ASSUME AccountsConstants, AccountsInd, NEW d \in Doc, ResetPasswordWithToken(d)
  PROVE  AccountsInd'
<1> DEFINE t == doc[d].token
           whose == {e \in Email : user[e] # None /\ user[e].id = reset[t].id}
<1>1. /\ doc[d] # None /\ doc[d].page = "reset" /\ To(d, "done")
      /\ UNCHANGED <<nextId, verify, mailed, jobs>> /\ overlap' = overlap \cup {"reset"}
      /\ user' = [e \in Email |-> IF e \in whose THEN [user[e] EXCEPT !.password = doc[d].password]
                                                 ELSE user[e]]
      /\ reset' = Without(reset, {t})
  BY DEF ResetPasswordWithToken, On
<1>2. /\ doc' \in [Doc -> PageRow \cup {None}] /\ \A c \in Doc \ {d} : doc'[c] = doc[c]
      /\ doc'[d] # None /\ doc'[d].page = "reset" /\ doc'[d].step = "done"
  BY <1>1, ToFacts DEF AccountsInd, Step
<1>3. /\ user \in [Email -> UserRow \cup {None}] /\ verify \in Seq(LinkRow)
      /\ reset \in Seq(ResetRow) /\ nextId \in Nat \ {0} /\ doc[d] \in PageRow
      /\ mailed \subseteq {"verify", "reset"} \X (Nat \cup {None})
  BY <1>1 DEF AccountsInd, AccountsTypeOK
<1>4. /\ user' \in [Email -> UserRow \cup {None}]
      /\ \A e \in Email : /\ user'[e] # None => user[e] # None
                          /\ user[e] # None =>
                               /\ user'[e] # None /\ user'[e].id = user[e].id
                               /\ user'[e].sso = user[e].sso
  <2>1. \A e \in Email : user[e] # None =>
            LET r == [user[e] EXCEPT !.password = doc[d].password]
            IN r \in UserRow /\ r.id = user[e].id /\ r.sso = user[e].sso
    BY <1>3 DEF UserRow, PageRow
  <2>2. \A e \in Email : e \in whose => user[e] # None
    OBVIOUS
  <2> QED
    BY <1>1, <1>3, <2>1, <2>2 DEF AccountsConstants
<1>5. /\ reset' \in Seq(ResetRow) /\ DOMAIN reset' = DOMAIN reset
      /\ \A x \in DOMAIN reset : reset'[x].id = reset[x].id /\ (reset'[x].live => reset[x].live)
  BY <1>1, <1>3, WithoutResets
<1>6. /\ (doc[d] # None => PageOK(doc[d]))'
      /\ ~On(d, "register", "registered")' /\ ~On(d, "delete", "anonymised")'
  BY <1>2 DEF PageOK, On
<1> HIDE DEF whose
<1>7. IdsOK' /\ PagesOK' /\ PasswordsOK'
  BY <1>1, <1>2, <1>3, <1>4, <1>6, IdsChange, PasswordsChange, PagesKept
<1>8. JobsAreGone' /\ DeletedLeaveNoJobs'
  BY <1>1, <1>2, <1>4, <1>6 DEF AccountsInd, JobsAreGone, DeletedLeaveNoJobs, On
<1>9. OneResetLink'
  BY <1>1, <1>5, ResetsChange
<1>10. AccountsTypeOK'
  BY <1>1, <1>2, <1>3, <1>4, <1>5 DEF AccountsTypeOK
<1> QED
  BY <1>7, <1>8, <1>9, <1>10 DEF AccountsInd

LEMMA DeleteUserInd ==
  ASSUME AccountsConstants, AccountsInd, NEW d \in Doc, DeleteUser(d)
  PROVE  AccountsInd'
<1> DEFINE id == doc[d].token
<1>1. /\ On(d, "delete", "anonymised") /\ doc[d] # None /\ doc[d].page = "delete" /\ To(d, "done")
      /\ UNCHANGED <<nextId, mailed, jobs, overlap>>
      /\ user' = [e \in Email |-> IF user[e] # None /\ user[e].id = id THEN None ELSE user[e]]
      /\ verify' = Without(verify, TokensOf(verify, id))
      /\ reset' = Without(reset, TokensOf(reset, id))
  BY DEF DeleteUser, On
<1>2. /\ doc' \in [Doc -> PageRow \cup {None}] /\ \A c \in Doc \ {d} : doc'[c] = doc[c]
      /\ doc'[d] # None /\ doc'[d].page = "delete" /\ doc'[d].step = "done"
      /\ doc'[d].email = doc[d].email
  BY <1>1, ToFacts DEF AccountsInd, Step
<1>3. /\ user \in [Email -> UserRow \cup {None}] /\ verify \in Seq(LinkRow)
      /\ reset \in Seq(ResetRow) /\ nextId \in Nat \ {0} /\ doc[d].email \in Email
      /\ mailed \subseteq {"verify", "reset"} \X (Nat \cup {None})
  BY <1>1 DEF AccountsInd, AccountsTypeOK, PagesOK, PageOK
<1>4. /\ user' \in [Email -> UserRow \cup {None}]
      /\ \A e \in Email : /\ user'[e] # None => user[e] # None /\ user'[e] = user[e]
                          /\ user[e] # None => user'[e] = user[e] \/ user[e].id = id
  BY <1>1, <1>3
<1>5. /\ reset' \in Seq(ResetRow) /\ DOMAIN reset' = DOMAIN reset
      /\ \A x \in DOMAIN reset : reset'[x].id = reset[x].id /\ (reset'[x].live => reset[x].live)
  BY <1>1, <1>3, WithoutResets
<1>6. /\ verify' \in Seq(LinkRow) /\ DOMAIN verify' = DOMAIN verify
      /\ \A x \in DOMAIN verify : /\ verify'[x].id = verify[x].id
                                  /\ verify'[x].registered = verify[x].registered
                                  /\ verify'[x].live => verify[x].live
  BY <1>1, <1>3, WithoutLinks
<1>7. /\ (doc[d] # None => PageOK(doc[d]))'
      /\ ~On(d, "register", "registered")' /\ ~On(d, "delete", "anonymised")'
  BY <1>2, <1>3 DEF PageOK, On
<1>8. IdsOK' /\ PagesOK' /\ PasswordsOK'
  BY <1>1, <1>2, <1>3, <1>4, <1>6, <1>7, IdsChange, PasswordsChange, PagesKept
<1>9. JobsAreGone' /\ DeletedLeaveNoJobs'
  <2>1. \A e \in Email : user[e] # None =>
            \/ user'[e] # None /\ user'[e].id = user[e].id
            \/ On(d, "delete", "anonymised") /\ user[e].id = doc[d].token
    BY <1>1, <1>4
  <2> QED
    BY <1>1, <1>2, <1>7, <2>1, JobsChange
<1>10. OneResetLink'
  BY <1>1, <1>5, ResetsChange
<1>11. AccountsTypeOK'
  BY <1>1, <1>2, <1>3, <1>4, <1>5, <1>6 DEF AccountsTypeOK
<1> QED
  BY <1>8, <1>9, <1>10, <1>11 DEF AccountsInd

\* A token is an hour old.
LEMMA TokenExpiresInd ==
  ASSUME AccountsConstants, AccountsInd, TokenExpires
  PROVE  AccountsInd'
<1>1. /\ UNCHANGED <<user, nextId, mailed, doc, jobs, overlap>>
      /\ \/ reset' = reset /\ \E toks : verify' = Without(verify, toks)
         \/ verify' = verify /\ \E toks : reset' = Without(reset, toks)
  BY DEF TokenExpires
<1>2. verify \in Seq(LinkRow) /\ reset \in Seq(ResetRow) /\ nextId \in Nat \ {0}
  BY DEF AccountsInd, AccountsTypeOK
<1>3. /\ reset' \in Seq(ResetRow) /\ DOMAIN reset' = DOMAIN reset
      /\ \A x \in DOMAIN reset : reset'[x].id = reset[x].id /\ (reset'[x].live => reset[x].live)
  BY <1>1, <1>2, WithoutResets
<1>4. /\ verify' \in Seq(LinkRow) /\ DOMAIN verify' = DOMAIN verify
      /\ \A x \in DOMAIN verify : /\ verify'[x].id = verify[x].id
                                  /\ verify'[x].registered = verify[x].registered
                                  /\ verify'[x].live => verify[x].live
  BY <1>1, <1>2, WithoutLinks
<1>5. \A d \in Doc : doc'[d] = doc[d]
  BY <1>1
<1>6. IdsOK' /\ PagesOK' /\ PasswordsOK'
  BY <1>1, <1>2, <1>4, <1>5, IdsChange, PasswordsChange, PagesKept
<1>7. JobsAreGone' /\ DeletedLeaveNoJobs'
  BY <1>1 DEF AccountsInd, JobsAreGone, DeletedLeaveNoJobs, On
<1>8. OneResetLink'
  BY <1>1, <1>3, ResetsChange
<1>9. AccountsTypeOK'
  BY <1>1, <1>3, <1>4 DEF AccountsInd, AccountsTypeOK
<1> QED
  BY <1>6, <1>7, <1>8, <1>9 DEF AccountsInd

\* The window of the attempts, and steps that change nothing.
LEMMA UnchangedInd ==
  ASSUME AccountsInd, UNCHANGED <<user, nextId, verify, reset, mailed, doc, jobs, overlap>>
  PROVE  AccountsInd'
<1>1. AccountsTypeOK' /\ IdsOK' /\ OneResetLink' /\ DeletedLeaveNoJobs'
  BY DEF AccountsInd, AccountsTypeOK, IdsOK, OneResetLink, DeletedLeaveNoJobs
<1>2. PagesOK' /\ PasswordsOK' /\ JobsAreGone'
  BY DEF AccountsInd, PagesOK, PageOK, PasswordsOK, JobsAreGone, On
<1> QED
  BY <1>1, <1>2 DEF AccountsInd

LEMMA SsoUserInd ==
  ASSUME AccountsConstants, AccountsInd, NEW e \in Email, FindOrCreateSsoUser(e)
  PROVE  AccountsInd'
<1>1. UNCHANGED <<verify, reset, mailed, doc, jobs, overlap>>
  BY DEF FindOrCreateSsoUser, links
<1>2. /\ user \in [Email -> UserRow \cup {None}] /\ nextId \in Nat \ {0}
  BY DEF AccountsInd, AccountsTypeOK
<1>3. /\ user' \in [Email -> UserRow \cup {None}] /\ nextId' \in Nat \ {0} /\ nextId <= nextId'
      /\ user'[e] # None /\ user'[e].sso /\ \A f \in Email \ {e} : user'[f] = user[f]
      /\ \/ user[e] # None /\ user'[e].id = user[e].id
         \/ user[e] = None /\ user'[e].id = nextId /\ nextId < nextId'
  <2>1. CASE /\ user[e] = None
             /\ user' = [user EXCEPT ![e] = Row(nextId, None, TRUE, TRUE)]
             /\ nextId' = nextId + 1
    <3> DEFINE r == Row(nextId, None, TRUE, TRUE)
    <3>1. r \in UserRow /\ r.sso /\ r.id = nextId
      BY <1>2 DEF Row, UserRow
    <3> HIDE DEF r
    <3>2. user' = [user EXCEPT ![e] = r]
      BY <2>1 DEF r
    <3>3. user'[e] = r /\ \A f \in Email \ {e} : user'[f] = user[f]
      BY <1>2, <3>2
    <3>4. user'[e] # None /\ user'[e].sso /\ user'[e].id = nextId
      BY <3>1, <3>3 DEF AccountsConstants
    <3>5. user' \in [Email -> UserRow \cup {None}]
      BY <1>2, <3>1, <3>2
    <3>6. nextId' \in Nat \ {0} /\ nextId <= nextId' /\ nextId < nextId'
      BY <1>2, <2>1
    <3> HIDE DEF UserRow
    <3> QED
      BY <2>1, <3>3, <3>4, <3>5, <3>6, ZenonT(30)
  <2>2. CASE /\ user[e] # None /\ UNCHANGED nextId
             /\ user' = [user EXCEPT ![e].sso = TRUE, ![e].verified = TRUE]
    <3> DEFINE r == [[user[e] EXCEPT !.sso = TRUE] EXCEPT !.verified = TRUE]
    <3>1. r \in UserRow /\ r.sso /\ r.id = user[e].id
      BY <1>2, <2>2 DEF UserRow
    <3>2. user' = [user EXCEPT ![e] = r]
      BY <1>2, <2>2
    <3> HIDE DEF r
    <3>3. user'[e] = r /\ \A f \in Email \ {e} : user'[f] = user[f]
      BY <1>2, <3>2
    <3>4. user'[e] # None /\ user'[e].sso /\ user'[e].id = user[e].id
      BY <3>1, <3>3 DEF AccountsConstants
    <3>5. user' \in [Email -> UserRow \cup {None}]
      BY <1>2, <3>1, <3>2
    <3>6. nextId' \in Nat \ {0} /\ nextId <= nextId'
      BY <1>2, <2>2
    <3> QED
      BY <2>2, <3>3, <3>4, <3>5, <3>6, ZenonT(30)
  <2> QED
    BY <2>1, <2>2 DEF FindOrCreateSsoUser
<1>4. IdsOK'
  BY <1>1, <1>2, <1>3, IdsChange
<1>5. PagesOK' /\ PasswordsOK'
  BY <1>1, <1>3, PasswordsChange, PagesKept
<1>6. JobsAreGone' /\ OneResetLink'
  BY <1>1 DEF AccountsInd, JobsAreGone, OneResetLink, On
<1>7. DeletedLeaveNoJobs'
  <2>1. \A f \in Email : user[f] # None => user'[f] # None /\ user'[f].id = user[f].id
    BY <1>3
  <2> QED
    BY <1>1, <2>1 DEF AccountsInd, DeletedLeaveNoJobs
<1>8. AccountsTypeOK'
  BY <1>1, <1>3 DEF AccountsInd, AccountsTypeOK
<1> QED
  BY <1>4, <1>5, <1>6, <1>7, <1>8 DEF AccountsInd

LEMMA CreateResetInd ==
  ASSUME AccountsConstants, AccountsInd, NEW d \in Doc, CreatePasswordResetToken(d)
  PROVE  AccountsInd'
<1> DEFINE u == user[doc[d].email]
<1>1. /\ doc[d] # None /\ doc[d].page = "forgot" /\ doc[d] \in PageRow /\ PageOK(doc[d])
      /\ doc[d].email \in Email
      /\ UNCHANGED <<user, nextId, verify, mailed, jobs>>
  BY DEF CreatePasswordResetToken, On, AccountsInd, AccountsTypeOK, PagesOK, PageOK
<1>2. CASE u = None
  <2>1. To(d, "error") /\ UNCHANGED <<reset, overlap>>
    BY <1>2 DEF CreatePasswordResetToken
  <2> QED
    BY <1>1, <2>1, StepInd DEF Step, AccountsInd, AccountsTypeOK
<1>3. CASE u # None
  <2>1. /\ reset' = Append(Without(reset, doc[d].seen), [id |-> u.id, live |-> TRUE])
        /\ overlap' = overlap \cup {f \in {"forgot"} : LiveReset(u.id) # doc[d].seen}
        /\ doc' = [doc EXCEPT ![d].step = "tokened", ![d].token = Len(reset) + 1, ![d].seen = {}]
    BY <1>3 DEF CreatePasswordResetToken
  <2>2. /\ user \in [Email -> UserRow \cup {None}] /\ reset \in Seq(ResetRow) /\ u.id \in Nat
        /\ doc \in [Doc -> PageRow \cup {None}] /\ Len(reset) + 1 \in Nat
    BY <1>1, <1>3 DEF AccountsInd, AccountsTypeOK, UserRow
  <2> DEFINE kept == Without(reset, doc[d].seen)
             p == [[[doc[d] EXCEPT !.step = "tokened"] EXCEPT !.token = Len(reset) + 1] EXCEPT !.seen = {}]
  <2>3. p \in PageRow /\ p.page = "forgot" /\ p.step = "tokened" /\ p.email = doc[d].email
    BY <1>1, <2>2 DEF PageRow, Step
  <2>4. doc' = [doc EXCEPT ![d] = p]
    BY <2>1, <2>2
  <2>5. /\ doc' \in [Doc -> PageRow \cup {None}] /\ doc'[d] = p
        /\ \A c \in Doc \ {d} : doc'[c] = doc[c]
    BY <2>2, <2>3, <2>4
  <2>6. /\ (doc[d] # None => PageOK(doc[d]))'
        /\ ~On(d, "register", "registered")' /\ ~On(d, "delete", "anonymised")'
    BY <1>1, <2>3, <2>5 DEF PageOK, On
  <2>7. /\ kept \in Seq(ResetRow) /\ DOMAIN kept = DOMAIN reset
        /\ \A t \in DOMAIN reset : /\ kept[t].id = reset[t].id
                                   /\ kept[t].live => reset[t].live /\ t \notin doc[d].seen
    BY <2>2, WithoutResets
  <2> HIDE DEF kept
  <2>8. [id |-> u.id, live |-> TRUE] \in ResetRow
    BY <2>2 DEF ResetRow
  <2>9. /\ reset' \in Seq(ResetRow) /\ DOMAIN reset' = DOMAIN reset \cup {Len(reset) + 1}
        /\ reset'[Len(reset) + 1].id = u.id
        /\ \A t \in DOMAIN reset : reset'[t] = kept[t]
    <3>1. reset' = Append(kept, [id |-> u.id, live |-> TRUE]) /\ Len(kept) = Len(reset)
      BY <2>1, <2>2, <2>7 DEF kept
    <3> QED
      BY <2>2, <2>7, <2>8, <3>1
  <2>10. OneResetLink'
    <3> SUFFICES ASSUME "forgot" \notin overlap', NEW s \in DOMAIN reset', NEW t \in DOMAIN reset',
                        s # t, reset'[s].live, reset'[t].live
                 PROVE  reset'[s].id # reset'[t].id
      BY DEF OneResetLink
    <3>1. doc[d].seen = {x \in DOMAIN reset : reset[x].id = u.id /\ reset[x].live}
      BY <2>1 DEF LiveReset, TokensOf
    <3>2. \A x \in DOMAIN reset : kept[x].live => kept[x].id # u.id /\ reset[x].live
      BY <2>7, <3>1
    <3>3. \A x, y \in DOMAIN reset : x # y /\ reset[x].live /\ reset[y].live => reset[x].id # reset[y].id
      BY <2>1 DEF AccountsInd, OneResetLink
    <3>4. CASE s \in DOMAIN reset /\ t \in DOMAIN reset
      BY <2>7, <2>9, <3>2, <3>3, <3>4
    <3>5. CASE s = Len(reset) + 1 /\ t \in DOMAIN reset
      BY <2>9, <3>2, <3>5
    <3>6. CASE s \in DOMAIN reset /\ t = Len(reset) + 1
      BY <2>9, <3>2, <3>6
    <3> QED
      BY <2>9, <3>4, <3>5, <3>6
  <2>11. overlap \subseteq overlap' /\ overlap' \subseteq overlap \cup {"forgot"}
    BY <2>1
  <2>12. IdsOK'
    BY <1>1 DEF AccountsInd, IdsOK
  <2>13. PagesOK'
    BY <1>1, <2>5, <2>6, PagesKept
  <2>14. PasswordsOK'
    BY <1>1, <2>5, <2>6, <2>11, PasswordsChange
  <2>15. JobsAreGone' /\ DeletedLeaveNoJobs'
    BY <1>1, <2>5, <2>6, <2>11 DEF AccountsInd, JobsAreGone, DeletedLeaveNoJobs, On
  <2>16. AccountsTypeOK'
    BY <1>1, <2>5, <2>9 DEF AccountsInd, AccountsTypeOK
  <2> QED
    BY <2>10, <2>12, <2>13, <2>14, <2>15, <2>16 DEF AccountsInd
<1> QED
  BY <1>2, <1>3

LEMMA JobsInd ==
  ASSUME AccountsConstants, AccountsInd, NEW d \in Doc, InsertJob(d) \/ AnonymiseJobs(d)
  PROVE  AccountsInd'
<1>1. /\ doc[d] # None /\ UNCHANGED <<user, nextId, verify, reset, mailed>>
      /\ overlap \subseteq overlap' /\ overlap' \subseteq overlap \cup {"submit"}
      /\ \E step \in {"done", "anonymised"} : To(d, step)
  BY DEF InsertJob, AnonymiseJobs, On, links
<1>2. PICK step \in {"done", "anonymised"} :
        /\ doc' \in [Doc -> PageRow \cup {None}] /\ doc'[d] # None
        /\ doc'[d].page = doc[d].page /\ doc'[d].step = step /\ doc'[d].email = doc[d].email
        /\ doc'[d].password = doc[d].password /\ doc'[d].token = doc[d].token
        /\ \A c \in Doc \ {d} : doc'[c] = doc[c]
  <2>1. PICK step \in {"done", "anonymised"} : To(d, step)
    BY <1>1
  <2>2. step \in Step
    BY DEF Step
  <2> QED
    BY <1>1, <2>1, <2>2, ToFacts DEF AccountsInd
<1>3. AccountsTypeOK' /\ IdsOK' /\ OneResetLink'
  BY <1>1, <1>2 DEF AccountsInd, AccountsTypeOK, IdsOK, OneResetLink
<1>4. PagesOK'
  <2>1. PageOK(doc[d])
    BY <1>1 DEF AccountsInd, PagesOK
  <2>2. PageOK(doc[d])'
    BY <1>1, <1>2, <2>1 DEF PageOK
  <2> QED
    BY <1>1, <1>2, <2>2, PagesKept
<1>5. PasswordsOK'
  <2>1. \A c \in Doc : doc'[c] = doc[c] \/ ~On(c, "register", "registered")'
    BY <1>2 DEF On
  <2> QED
    BY <1>1, <2>1, PasswordsChange
<1>6. CASE InsertJob(d)
  <2>1. /\ jobs' = jobs \cup {doc[d].token} /\ doc[d].page = "submit"
        /\ "submit" \notin overlap' =>
              /\ \E e \in Email : user[e] # None /\ user[e].id = doc[d].token
              /\ \A c \in Doc : On(c, "delete", "anonymised") => doc[c].token # doc[d].token
    BY <1>6 DEF InsertJob, On
  <2>2. JobsAreGone'
    BY <1>1, <1>2, <2>1 DEF AccountsInd, JobsAreGone, On
  <2>3. DeletedLeaveNoJobs'
    BY <1>1, <2>1 DEF AccountsInd, DeletedLeaveNoJobs
  <2> QED
    BY <1>3, <1>4, <1>5, <2>2, <2>3 DEF AccountsInd
<1>7. CASE AnonymiseJobs(d)
  <2>1. jobs' = jobs \ {doc[d].token}
    BY <1>7 DEF AnonymiseJobs
  <2>2. JobsAreGone'
    BY <1>1, <1>2, <2>1 DEF AccountsInd, JobsAreGone, On
  <2>3. DeletedLeaveNoJobs'
    BY <1>1, <2>1 DEF AccountsInd, DeletedLeaveNoJobs
  <2> QED
    BY <1>3, <1>4, <1>5, <2>2, <2>3 DEF AccountsInd
<1> QED
  BY <1>6, <1>7

LEMMA RegisterUserInd ==
  ASSUME AccountsConstants, AccountsInd, NEW d \in Doc, RegisterUser(d)
  PROVE  AccountsInd'
<1> DEFINE e == doc[d].email
<1>1. /\ doc[d] # None /\ doc[d].page = "register" /\ doc[d] \in PageRow /\ PageOK(doc[d])
      /\ e \in Email /\ UNCHANGED <<reset, mailed, jobs>>
  BY DEF RegisterUser, On, AccountsInd, AccountsTypeOK, PagesOK, PageOK
<1>2. /\ user \in [Email -> UserRow \cup {None}] /\ nextId \in Nat \ {0} /\ verify \in Seq(LinkRow)
  BY DEF AccountsInd, AccountsTypeOK
<1>3. CASE To(d, "error") /\ UNCHANGED <<user, nextId, verify, overlap>>
  BY <1>1, <1>3, StepInd DEF Step, AccountsInd, AccountsTypeOK
<1>4. CASE /\ To(d, "registered") /\ overlap' = overlap \cup {f \in {"register"} : Registering(e) # {}}
           /\ \/ /\ user[e] # None
                 /\ user' = [user EXCEPT ![e].password = doc[d].password]
                 /\ verify' = Without(verify, OldLinks(user[e].id))
                 /\ UNCHANGED nextId
              \/ /\ user[e] = None
                 /\ user' = [user EXCEPT ![e] = Row(nextId, doc[d].password, FALSE, FALSE)]
                 /\ nextId' = nextId + 1
                 /\ UNCHANGED verify
  <2>1. /\ doc' \in [Doc -> PageRow \cup {None}] /\ doc'[d] # None
        /\ doc'[d].page = "register" /\ doc'[d].step = "registered" /\ doc'[d].email = e
        /\ doc'[d].password = doc[d].password
        /\ \A c \in Doc \ {d} : doc'[c] = doc[c]
    BY <1>1, <1>4, ToFacts DEF AccountsInd, Step
  <2>2. /\ overlap \subseteq overlap' /\ overlap' \subseteq overlap \cup {"register"}
        /\ "register" \notin overlap' =>
              \A c \in Doc : On(c, "register", "registered") => doc[c].email # e
    BY <1>4 DEF Registering
  <2>3. \A t \in DOMAIN verify : verify[t] \in LinkRow /\ verify[t].id \in Nat /\ verify[t].id < nextId
    <3>1. \A t \in DOMAIN verify : verify[t] \in LinkRow
      BY <1>2
    <3> QED
      BY <3>1 DEF LinkRow, AccountsInd, IdsOK
  <2>4. /\ user' \in [Email -> UserRow \cup {None}] /\ user'[e] # None
        /\ user'[e].password = doc[d].password /\ \A f \in Email \ {e} : user'[f] = user[f]
        /\ nextId' \in Nat \ {0} /\ nextId <= nextId'
        /\ \/ user[e] # None /\ user'[e].id = user[e].id
           \/ user[e] = None /\ user'[e].id = nextId /\ nextId < nextId'
        /\ verify' \in Seq(LinkRow) /\ DOMAIN verify' = DOMAIN verify
        /\ \A t \in DOMAIN verify : /\ verify'[t].id = verify[t].id
                                    /\ verify'[t].registered = verify[t].registered
                                    /\ verify'[t].live => verify[t].live /\ verify[t].id # user'[e].id
    <3>1. CASE /\ user[e] # None
               /\ user' = [user EXCEPT ![e].password = doc[d].password]
               /\ verify' = Without(verify, OldLinks(user[e].id))
               /\ UNCHANGED nextId
      <4> DEFINE r == [user[e] EXCEPT !.password = doc[d].password]
      <4>1. r \in UserRow /\ r.id = user[e].id /\ r.password = doc[d].password
        BY <1>1, <1>2, <3>1 DEF UserRow, PageRow
      <4>2. user' = [user EXCEPT ![e] = r]
        BY <1>2, <3>1
      <4> HIDE DEF r
      <4>3. user'[e] = r /\ \A f \in Email \ {e} : user'[f] = user[f]
        BY <1>1, <1>2, <4>2
      <4>4. /\ verify' \in Seq(LinkRow) /\ DOMAIN verify' = DOMAIN verify
            /\ \A t \in DOMAIN verify : /\ verify'[t].id = verify[t].id
                                        /\ verify'[t].registered = verify[t].registered
                                        /\ verify'[t].live => verify[t].live /\ t \notin OldLinks(user[e].id)
        BY <1>2, <3>1, WithoutLinks
      <4>5. \A t \in DOMAIN verify : t \notin OldLinks(user[e].id) => verify[t].id # user[e].id
        BY DEF OldLinks, TokensOf
      <4>6. user'[e] # None /\ user'[e].password = doc[d].password /\ user'[e].id = user[e].id
        BY <4>1, <4>3 DEF AccountsConstants
      <4>7. user' \in [Email -> UserRow \cup {None}]
        BY <1>2, <4>1, <4>2
      <4>8. nextId' \in Nat \ {0} /\ nextId <= nextId'
        BY <1>2, <3>1
      <4>9. \A t \in DOMAIN verify : verify'[t].live => verify[t].live /\ verify[t].id # user'[e].id
        BY <4>4, <4>5, <4>6
      <4> HIDE DEF e
      <4> QED
        BY <3>1, <4>3, <4>4, <4>6, <4>7, <4>8, <4>9, ZenonT(30)
    <3>2. CASE /\ user[e] = None
               /\ user' = [user EXCEPT ![e] = Row(nextId, doc[d].password, FALSE, FALSE)]
               /\ nextId' = nextId + 1
               /\ UNCHANGED verify
      <4> DEFINE r == Row(nextId, doc[d].password, FALSE, FALSE)
      <4>1. r \in UserRow /\ r.id = nextId /\ r.password = doc[d].password
        BY <1>1, <1>2 DEF Row, UserRow, PageRow
      <4> HIDE DEF r
      <4>2. user' = [user EXCEPT ![e] = r]
        BY <3>2 DEF r
      <4>3. user'[e] = r /\ \A f \in Email \ {e} : user'[f] = user[f]
        BY <1>1, <1>2, <4>2
      <4>4. \A t \in DOMAIN verify : verify[t].id # nextId
        BY <1>2, <2>3
      <4>5. user'[e] # None /\ user'[e].password = doc[d].password /\ user'[e].id = nextId
        BY <4>1, <4>3 DEF AccountsConstants
      <4>6. user' \in [Email -> UserRow \cup {None}]
        BY <1>2, <4>1, <4>2
      <4>7. nextId' \in Nat \ {0} /\ nextId <= nextId' /\ nextId < nextId'
        BY <1>2, <3>2
      <4>8. /\ verify' = verify /\ verify' \in Seq(LinkRow)
            /\ \A t \in DOMAIN verify : verify[t].id # user'[e].id
        BY <1>2, <3>2, <4>4, <4>5
      <4> HIDE DEF e
      <4> QED
        BY <3>2, <4>3, <4>5, <4>6, <4>7, <4>8, ZenonT(30)
    <3> QED
      BY <1>4, <3>1, <3>2
  <2>5. IdsOK'
    <3>1. \A f \in Email : user'[f] # None =>
            \/ user[f] # None /\ user'[f].id = user[f].id
            \/ user[f] = None /\ user'[f].id = nextId /\ nextId < nextId'
      BY <2>4
    <3>2. \A f, g \in Email : user[f] = None /\ user'[f] # None /\ user[g] = None /\ user'[g] # None => f = g
      BY <2>4
    <3> QED
      BY <2>4, <3>1, <3>2, IdsChange
  <2>6. PagesOK'
    <3>1. PageOK(doc[d])'
      BY <1>1, <2>1 DEF PageOK
    <3> QED
      BY <1>1, <2>1, <2>4, <3>1, PagesKept
  <2>7. PasswordsOK'
    <3> SUFFICES ASSUME overlap' \cap {"register", "reset"} = {}
                 PROVE  /\ (\A t \in DOMAIN verify, f \in Email :
                               verify[t].live /\ user[f] # None /\ user[f].id = verify[t].id /\ ~user[f].sso
                                   => user[f].password = verify[t].registered)'
                        /\ (\A c \in Doc : On(c, "register", "registered") =>
                               LET u == user[doc[c].email]
                               IN u # None /\ ~u.sso => u.password = doc[c].password)'
      BY DEF PasswordsOK
    <3>1. overlap \cap {"register", "reset"} = {}
      BY <2>2
    <3>2. ASSUME NEW t \in DOMAIN verify', NEW f \in Email, verify'[t].live, user'[f] # None,
                 user'[f].id = verify'[t].id, ~user'[f].sso
          PROVE  user'[f].password = verify'[t].registered
      <4>1. /\ t \in DOMAIN verify /\ verify'[t].id = verify[t].id /\ verify[t].live
            /\ verify'[t].registered = verify[t].registered /\ verify[t].id # user'[e].id
        BY <2>4, <3>2
      <4>2. f # e /\ user'[f] = user[f]
        BY <2>4, <3>2, <4>1
      <4>3. \A x \in DOMAIN verify, g \in Email :
               verify[x].live /\ user[g] # None /\ user[g].id = verify[x].id /\ ~user[g].sso
                   => user[g].password = verify[x].registered
        BY <3>1 DEF AccountsInd, PasswordsOK
      <4> QED
        BY <3>2, <4>1, <4>2, <4>3
    <3>3. ASSUME NEW c \in Doc, On(c, "register", "registered")', user'[doc'[c].email] # None,
                 ~user'[doc'[c].email].sso
          PROVE  user'[doc'[c].email].password = doc'[c].password
      <4>1. CASE c = d
        BY <2>1, <2>4, <4>1
      <4>2. CASE c # d
        <5>1. doc'[c] = doc[c] /\ On(c, "register", "registered")
          BY <2>1, <3>3, <4>2 DEF On
        <5>2. doc[c].email \in Email /\ doc[c].email # e
          BY <2>2, <5>1 DEF On, AccountsInd, PagesOK, PageOK
        <5>3. user'[doc[c].email] = user[doc[c].email]
          BY <2>4, <5>2
        <5> QED
          BY <3>1, <3>3, <5>1, <5>3 DEF AccountsInd, PasswordsOK
      <4> QED
        BY <4>1, <4>2
    <3> QED
      BY <3>2, <3>3
  <2>8. JobsAreGone' /\ OneResetLink'
    BY <1>1, <2>1, <2>2 DEF AccountsInd, JobsAreGone, OneResetLink, On
  <2>9. DeletedLeaveNoJobs'
    <3>1. \A f \in Email : user[f] # None => user'[f] # None /\ user'[f].id = user[f].id
      BY <2>4
    <3> QED
      BY <1>1, <2>2, <3>1 DEF AccountsInd, DeletedLeaveNoJobs
  <2>10. AccountsTypeOK'
    BY <1>1, <2>1, <2>4 DEF AccountsInd, AccountsTypeOK
  <2> QED
    BY <2>5, <2>6, <2>7, <2>8, <2>9, <2>10 DEF AccountsInd
<1> QED
  BY <1>3, <1>4 DEF RegisterUser

LEMMA InsertTokenInd ==
  ASSUME AccountsConstants, AccountsInd, NEW d \in Doc, InsertVerificationToken(d)
  PROVE  AccountsInd'
<1> DEFINE e == doc[d].email
           new == Len(verify) + 1
<1>1. /\ On(d, "register", "registered") /\ doc[d] # None /\ doc[d].page = "register"
      /\ doc[d] \in PageRow /\ e \in Email
      /\ UNCHANGED <<user, nextId, reset, mailed, jobs, overlap>>
  BY DEF InsertVerificationToken, On, AccountsInd, AccountsTypeOK, PagesOK, PageOK
<1>2. CASE To(d, "error") /\ UNCHANGED verify
  BY <1>1, <1>2, StepInd DEF Step, AccountsInd, AccountsTypeOK
<1>3. CASE /\ user[e] # None
           /\ verify' = Append(verify, [id |-> user[e].id, live |-> TRUE,
                                        registered |-> doc[d].password])
           /\ doc' = [doc EXCEPT ![d].step = "tokened", ![d].token = Len(verify) + 1]
  <2>1. /\ user \in [Email -> UserRow \cup {None}] /\ verify \in Seq(LinkRow)
        /\ doc \in [Doc -> PageRow \cup {None}] /\ new \in Nat /\ nextId \in Nat
        /\ user[e].id \in Nat /\ user[e].id < nextId
    BY <1>1, <1>3 DEF AccountsInd, AccountsTypeOK, IdsOK, UserRow
  <2> DEFINE row == [id |-> user[e].id, live |-> TRUE, registered |-> doc[d].password]
             p == [[doc[d] EXCEPT !.step = "tokened"] EXCEPT !.token = new]
  <2>2. row \in LinkRow /\ row.id = user[e].id /\ row.registered = doc[d].password
    BY <1>1, <2>1 DEF LinkRow, PageRow
  <2> HIDE DEF row
  <2>3. /\ verify' \in Seq(LinkRow) /\ DOMAIN verify' = DOMAIN verify \cup {new}
        /\ verify'[new] = row /\ \A t \in DOMAIN verify : verify'[t] = verify[t]
    BY <1>3, <2>1, <2>2 DEF row
  <2>4. p \in PageRow /\ p.page = "register" /\ p.step = "tokened" /\ p.email = e /\ p.token = new
    BY <1>1, <2>1 DEF PageRow, Step
  <2>5. doc' = [doc EXCEPT ![d] = p]
    BY <1>3, <2>1
  <2> HIDE DEF p
  <2>6. /\ doc' \in [Doc -> PageRow \cup {None}] /\ doc'[d] = p
        /\ \A c \in Doc \ {d} : doc'[c] = doc[c]
    BY <2>1, <2>4, <2>5
  <2>7. ~On(d, "register", "registered")' /\ ~On(d, "delete", "anonymised")'
    BY <2>4, <2>6 DEF On
  <2>8. IdsOK'
    BY <1>1, <2>1, <2>2, <2>3 DEF AccountsInd, IdsOK
  <2>9. PagesOK'
    <3>1. PageOK(doc[d])'
      BY <1>1, <2>3, <2>4, <2>6 DEF PageOK
    <3> QED
      BY <1>1, <2>3, <2>6, <3>1, PagesKept
  <2>10. PasswordsOK'
    <3> SUFFICES ASSUME overlap \cap {"register", "reset"} = {}
                 PROVE  /\ (\A t \in DOMAIN verify, f \in Email :
                               verify[t].live /\ user[f] # None /\ user[f].id = verify[t].id /\ ~user[f].sso
                                   => user[f].password = verify[t].registered)'
                        /\ (\A c \in Doc : On(c, "register", "registered") =>
                               LET u == user[doc[c].email]
                               IN u # None /\ ~u.sso => u.password = doc[c].password)'
      BY <1>1 DEF PasswordsOK
    <3>1. /\ \A x \in DOMAIN verify, g \in Email :
               verify[x].live /\ user[g] # None /\ user[g].id = verify[x].id /\ ~user[g].sso
                   => user[g].password = verify[x].registered
          /\ \A c \in Doc : On(c, "register", "registered") =>
               LET u == user[doc[c].email] IN u # None /\ ~u.sso => u.password = doc[c].password
      BY DEF AccountsInd, PasswordsOK
    <3>2. ASSUME NEW t \in DOMAIN verify', NEW f \in Email, verify'[t].live, user[f] # None,
                 user[f].id = verify'[t].id, ~user[f].sso
          PROVE  user[f].password = verify'[t].registered
      <4>1. CASE t = new
        <5>1. user[f].id = user[e].id
          BY <2>2, <2>3, <3>2, <4>1
        <5>2. f = e
          BY <1>1, <1>3, <3>2, <5>1 DEF AccountsInd, IdsOK
        <5>3. user[e].password = doc[d].password
          BY <1>1, <1>3, <3>1, <3>2, <5>2
        <5> QED
          BY <2>2, <2>3, <4>1, <5>2, <5>3
      <4>2. CASE t \in DOMAIN verify
        BY <2>3, <3>1, <3>2, <4>2
      <4> QED
        BY <2>3, <4>1, <4>2
    <3>3. ASSUME NEW c \in Doc, On(c, "register", "registered")', user[doc'[c].email] # None,
                 ~user[doc'[c].email].sso
          PROVE  user[doc'[c].email].password = doc'[c].password
      <4>1. c # d
        BY <2>7, <3>3
      <4>2. doc'[c] = doc[c] /\ On(c, "register", "registered")
        BY <2>6, <3>3, <4>1 DEF On
      <4> QED
        BY <3>1, <3>3, <4>2
    <3> QED
      BY <1>1, <3>2, <3>3
  <2>11. JobsAreGone' /\ DeletedLeaveNoJobs' /\ OneResetLink'
    BY <1>1, <2>6, <2>7 DEF AccountsInd, JobsAreGone, DeletedLeaveNoJobs, OneResetLink, On
  <2>12. AccountsTypeOK'
    BY <1>1, <2>3, <2>6 DEF AccountsInd, AccountsTypeOK
  <2> QED
    BY <2>8, <2>9, <2>10, <2>11, <2>12 DEF AccountsInd
<1> QED
  BY <1>2, <1>3 DEF InsertVerificationToken

-----------------------------------------------------------------------------
(* The theorem *)

LEMMA AccountsNextInd ==
  ASSUME AccountsConstants, AccountsInd, [AccountsNext]_accountVars
  PROVE  AccountsInd'
<1>1. CASE AccountsNext
  <2>1. ASSUME NEW d \in Doc,
               \/ OpenForm(d) \/ OpenLink(d) \/ LeavePage(d) \/ Fails(d)
               \/ Attempt(d) \/ RegisterUser(d) \/ InsertVerificationToken(d)
               \/ SendVerificationEmail(d) \/ Subscribe(d) \/ VerifyEmail(d)
               \/ LoginUser(d) \/ ForgotPassword(d) \/ CreatePasswordResetToken(d)
               \/ SendPasswordResetEmail(d) \/ ResetPassword(d) \/ ResetPasswordWithToken(d)
               \/ InsertJob(d) \/ DeleteUserAccount(d) \/ AnonymiseJobs(d) \/ DeleteUser(d)
               \/ \E e \in Email : Submit(d, e)
        PROVE  AccountsInd'
    BY <2>1, OpensInd, QuietInd, RegisterUserInd, InsertTokenInd, VerifyEmailInd, CreateResetInd,
       ResetWithTokenInd, JobsInd, DeleteUserInd
  <2>2. ASSUME NEW e \in Email, WindowPasses(e) PROVE AccountsInd'
    BY <2>2, UnchangedInd DEF WindowPasses, links
  <2>3. ASSUME NEW e \in Email, FindOrCreateSsoUser(e) PROVE AccountsInd'
    BY <2>3, SsoUserInd
  <2>4. CASE TokenExpires
    BY <2>4, TokenExpiresInd
  <2> QED
    BY <1>1, <2>1, <2>2, <2>3, <2>4 DEF AccountsNext
<1>2. CASE UNCHANGED accountVars
  BY <1>2, UnchangedInd DEF accountVars, links
<1> QED
  BY <1>1, <1>2

\* Links and jobs belong to the user as it is now: a link verifies the password that
\* was registered with it, a user has one link to reset the password, and no job
\* names a user who is gone, unless requests ran into each other.
THEOREM AccountsSafeHolds ==
  ASSUME AccountsConstants
  PROVE  AccountsSpec => AccountsSafe
<1>1. AccountsInit => AccountsInd
  BY AccountsInitInd
<1>2. AccountsInd /\ [AccountsNext]_accountVars => AccountsInd'
  BY AccountsNextInd
<1>3. AccountsInd => OneResetLink /\ DeletedLeaveNoJobs
  BY DEF AccountsInd
<1>4. AccountsInd /\ [AccountsNext]_accountVars =>
        [\A d \in Doc : VerifyEmail(d) /\ verify[doc[d].token].live /\ overlap \cap {"register", "reset"} = {}
           => \A e \in Email : user[e] # None /\ user[e].id = verify[doc[d].token].id /\ ~user[e].sso
                => user[e].password = verify[doc[d].token].registered]_accountVars
  <2>1. \A d \in Doc : AccountsInd /\ VerifyEmail(d) => doc[d].token \in DOMAIN verify
    BY DEF AccountsInd, PagesOK, PageOK, VerifyEmail, On
  <2> QED
    BY <2>1 DEF AccountsInd, PasswordsOK
<1> QED
  BY <1>1, <1>2, <1>3, <1>4, PTL DEF AccountsSpec, AccountsSafe, LinkMatchesPassword

-----------------------------------------------------------------------------
(* The cookies and the tokens *)

\* None is no user, no token and no request.
SsoConstants ==
    /\ None \notin User /\ None \notin Nat
    /\ \A k, w, j, t, c, u :
          None # [kind |-> k, who |-> w, jar |-> j, step |-> t, sets |-> c, as |-> u]

-----------------------------------------------------------------------------
(* The invariant *)

SsoKind == {"callback", "action", "signin", "signout", "logout", "submit"}

Untroubled == faults \subseteq {"lapsed"}

Cookie == {"user", "fresh", "kc", "state"}

JarOK(j) ==
    /\ j = [c \in Cookie |-> j[c]]
    /\ j.user \in User \cup {None} /\ j.kc \in DOMAIN owner \cup {None}

\* What the answer to a request sets.  A token that is set is its user's and is good,
\* as long as nothing lapsed, and as long as nothing else went wrong.
SetsOK(c) ==
    \/ c.sets = NoChange /\ (c.step = "answered" => c.kind # "logout")
    \/ c.kind = "callback" /\ c.sets = StateCleared
    \/ /\ c.kind = "callback"
       /\ \E t \in DOMAIN owner : c.sets = Established(owner[t], t) /\ (Untroubled => t \in valid)
    \/ c.kind = "action" /\ c.sets = SignedIn(c.jar.user) /\ c.jar.user \in User
    \/ c.kind = "signin" /\ c.sets = SignedIn(c.who)
    \/ c.kind = "signout" /\ c.sets = SignedOut
    \/ c.kind = "logout" /\ c.sets = Cleared
    \/ c.kind = "submit" /\ c.sets = TokenSet(None)
    \/ /\ c.kind = "submit"
       /\ \E t \in DOMAIN owner : /\ c.sets = TokenSet(t) /\ (Untroubled => t \in valid)
                                  /\ "lapsed" \notin faults => owner[t] = c.jar.user

CallOK(c) ==
    /\ c = [kind |-> c.kind, who |-> c.who, jar |-> c.jar, step |-> c.step,
            sets |-> c.sets, as |-> c.as]
    /\ c.kind \in SsoKind /\ JarOK(c.jar) /\ SetsOK(c)
    /\ c.kind = "callback" => c.who \in 1..MaxLogins /\ asked[c.who] \in SsoUser
    /\ c.kind = "signin" => c.who \in LocalUser /\ c.jar.user = None
    /\ c.step = "refreshing" => c.kind = "submit" /\ c.jar.kc # None

SsoTypeOK ==
    /\ owner \in Seq(User) /\ valid \subseteq DOMAIN owner
    /\ asked \in [1..MaxLogins -> SsoUser \cup {None}]
    /\ cache \in [User -> User \cup {None}]
    /\ JarOK(jar) /\ call = [s \in Slot |-> call[s]]
    /\ \A s \in Slot : call[s] # None => CallOK(call[s])

\* The token that the browser keeps is its user's, unless it is signing out; so are
\* the tokens that submissions have taken along, and those of the cache.
TokensAreOwn ==
    "lapsed" \notin faults =>
        /\ jar.kc # None /\ ~leaving => owner[jar.kc] = jar.user
        /\ \A s \in Slot : call[s] # None /\ call[s].kind = "submit" /\ call[s].jar.kc # None
                               => owner[call[s].jar.kc] = call[s].jar.user
        /\ \A u \in User : cache[u] \in {None, u}

\* A request that has a token is alone, and has the one that the browser keeps.
TokenIsAlone ==
    Untroubled =>
        \A s \in Slot : call[s] # None /\ call[s].jar.kc # None =>
            jar.kc = call[s].jar.kc /\ \A r \in Slot \ {s} : call[r] = None

\* The answer on its way replaces the token, or takes it back.
Replaces(c) ==
    /\ c # None /\ c.kind = "submit" /\ c.step = "answered" /\ c.jar.kc # None
    /\ \/ c.sets = TokenSet(None)
       \/ \E t \in valid : c.sets = TokenSet(t)

\* The token that the browser keeps is good, or is about to be replaced.
TokenIsGood ==
    Untroubled /\ jar.kc # None => jar.kc \in valid \/ \E s \in Slot : Replaces(call[s])

SsoInd == SsoTypeOK /\ TokensAreOwn /\ TokenIsOwn /\ TokenIsAlone /\ TokenIsGood

-----------------------------------------------------------------------------
(* Cookies *)

LEMMA ReceiveFacts ==
  ASSUME NEW j, j = [c \in Cookie |-> j[c]]
  PROVE  /\ \A sets : Receive(j, sets) = [c \in Cookie |-> Receive(j, sets)[c]]
         /\ Receive(j, NoChange).user = j.user /\ Receive(j, NoChange).kc = j.kc
         /\ \A u : Receive(j, SignedIn(u)).user = u /\ Receive(j, SignedIn(u)).kc = j.kc
         /\ Receive(j, SignedOut).user = None /\ Receive(j, SignedOut).kc = j.kc
         /\ \A t : Receive(j, TokenSet(t)).user = j.user /\ Receive(j, TokenSet(t)).kc = t
         /\ Receive(j, StateCleared).user = j.user /\ Receive(j, StateCleared).kc = j.kc
         /\ \A u, t : /\ Receive(j, Established(u, t)).user = u
                      /\ Receive(j, Established(u, t)).kc = t
         /\ Receive(j, Cleared).user = None /\ Receive(j, Cleared).kc = None
<1>1. DOMAIN j = Cookie /\ "user" \in Cookie /\ "kc" \in Cookie
  BY DEF Cookie
<1>2. ASSUME NEW sets
      PROVE  /\ Receive(j, sets) = [c \in Cookie |-> Receive(j, sets)[c]]
             /\ Receive(j, sets).user = IF "user" \in DOMAIN sets THEN sets.user ELSE j.user
             /\ Receive(j, sets).kc = IF "kc" \in DOMAIN sets THEN sets.kc ELSE j.kc
  BY <1>1 DEF Receive
<1>3. Receive(j, NoChange).user = j.user /\ Receive(j, NoChange).kc = j.kc
  BY <1>2 DEF NoChange
<1>4. ASSUME NEW u
      PROVE  Receive(j, SignedIn(u)).user = u /\ Receive(j, SignedIn(u)).kc = j.kc
  <2>1. DOMAIN SignedIn(u) = {"user", "fresh"}
    BY DEF SignedIn
  <2>2. SignedIn(u).user = u
    BY DEF SignedIn
  <2> QED
    BY <1>2, <2>1, <2>2
<1>5. Receive(j, SignedOut).user = None /\ Receive(j, SignedOut).kc = j.kc
  <2>1. DOMAIN SignedOut = {"user", "fresh"}
    BY DEF SignedOut
  <2>2. SignedOut.user = None
    BY DEF SignedOut
  <2> QED
    BY <1>2, <2>1, <2>2
<1>6. ASSUME NEW t
      PROVE  Receive(j, TokenSet(t)).user = j.user /\ Receive(j, TokenSet(t)).kc = t
  <2>1. DOMAIN TokenSet(t) = {"kc"}
    BY DEF TokenSet
  <2>2. TokenSet(t).kc = t
    BY DEF TokenSet
  <2> QED
    BY <1>2, <2>1, <2>2
<1>7. Receive(j, StateCleared).user = j.user /\ Receive(j, StateCleared).kc = j.kc
  BY <1>2 DEF StateCleared
<1>8. ASSUME NEW u, NEW t
      PROVE  Receive(j, Established(u, t)).user = u /\ Receive(j, Established(u, t)).kc = t
  <2>1. DOMAIN Established(u, t) = {"user", "fresh", "kc", "state"}
    BY DEF Established
  <2>2. Established(u, t).user = u /\ Established(u, t).kc = t
    BY DEF Established
  <2> QED
    BY <1>2, <2>1, <2>2
<1>9. Receive(j, Cleared).user = None /\ Receive(j, Cleared).kc = None
  <2>1. DOMAIN Cleared = {"user", "fresh", "kc"}
    BY DEF Cleared
  <2>2. Cleared.user = None /\ Cleared.kc = None
    BY DEF Cleared
  <2> QED
    BY <1>2, <2>1, <2>2
<1> QED
  BY <1>2, <1>3, <1>4, <1>5, <1>6, <1>7, <1>8, <1>9

\* A change is told by the cookies it names.
LEMMA ChangeFacts ==
  ASSUME NEW t, NEW u
  PROVE  /\ NoChange # TokenSet(t) /\ NoChange # SignedIn(u) /\ NoChange # SignedOut
         /\ NoChange # Cleared /\ NoChange # Established(u, t) /\ NoChange # StateCleared
         /\ \A x : TokenSet(t) = TokenSet(x) => t = x
<1>1. DOMAIN NoChange = {}
  BY DEF NoChange
<1>2. DOMAIN TokenSet(t) # {} /\ DOMAIN SignedIn(u) # {} /\ DOMAIN SignedOut # {}
      /\ DOMAIN Cleared # {} /\ DOMAIN Established(u, t) # {} /\ DOMAIN StateCleared # {}
  BY DEF TokenSet, SignedIn, SignedOut, Cleared, Established, StateCleared
<1>3. ASSUME NEW x, TokenSet(t) = TokenSet(x) PROVE t = x
  <2>1. TokenSet(t).kc = t /\ TokenSet(x).kc = x
    BY DEF TokenSet
  <2> QED
    BY <1>3, <2>1
<1> QED
  BY <1>1, <1>2, <1>3, Zenon

LEMMA SsoInitInd ==
  ASSUME SsoConstants
  PROVE  SsoInit => SsoInd
<1> SUFFICES ASSUME SsoInit PROVE SsoInd
  OBVIOUS
<1>1. SsoTypeOK
  BY DEF SsoInit, SsoTypeOK, JarOK, Cookie
<1>2. TokensAreOwn /\ TokenIsOwn /\ TokenIsAlone /\ TokenIsGood
  BY DEF SsoInit, TokensAreOwn, TokenIsOwn, TokenIsAlone, TokenIsGood
<1> QED
  BY <1>1, <1>2 DEF SsoInd

-----------------------------------------------------------------------------
(* Requests *)

\* Tokens stay with their owners, and what was good and untroubled was so before.
Onward ==
    /\ \A t \in DOMAIN owner : t \in DOMAIN owner' /\ owner'[t] = owner[t]
    /\ Untroubled' => Untroubled /\ valid \subseteq valid'
    /\ "lapsed" \notin faults' => "lapsed" \notin faults
    /\ \A n \in 1..MaxLogins : asked[n] \in SsoUser => asked'[n] \in SsoUser

LEMMA CallStays ==
  ASSUME Onward, NEW r \in Slot, call'[r] = call[r], CallOK(call[r])
  PROVE  CallOK(call[r])'
<1>1. JarOK(call[r].jar)'
  BY DEF Onward, CallOK, JarOK
<1>2. SetsOK(call[r])'
  BY DEF Onward, CallOK, SetsOK
<1> QED
  BY <1>1, <1>2 DEF Onward, CallOK

LEMMA SendInd ==
  ASSUME SsoConstants, SsoInd, NEW s \in Slot, NEW kind \in SsoKind, NEW who, Send(s, kind, who),
         UNCHANGED <<jar, leaving, owner, valid, cache>>,
         asked' \in [1..MaxLogins -> SsoUser \cup {None}],
         \A n \in 1..MaxLogins : asked[n] \in SsoUser => asked'[n] \in SsoUser,
         kind = "callback" => who \in 1..MaxLogins /\ asked'[who] \in SsoUser,
         kind = "signin" => who \in LocalUser /\ jar.user = None,
         kind = "submit" => ~leaving
  PROVE  SsoInd'
<1> DEFINE new == [kind |-> kind, who |-> who, jar |-> jar, step |-> "sent",
                   sets |-> NoChange, as |-> None]
<1>1. /\ call[s] = None /\ call'[s] = new /\ \A r \in Slot \ {s} : call'[r] = call[r]
      /\ call' = [r \in Slot |-> call'[r]]
  BY DEF Send, SsoInd, SsoTypeOK
<1>2. faults \subseteq faults' /\ faults' \subseteq faults \cup {"overlap"}
      /\ (Overlaps(s) => "overlap" \in faults')
  BY DEF Send
<1>3. Untroubled' => Untroubled /\ ~Overlaps(s)
  BY <1>2 DEF Untroubled
<1>4. "lapsed" \notin faults' => "lapsed" \notin faults
  BY <1>2
<1>5. Onward
  BY <1>3, <1>4 DEF Onward
<1>6. SsoTypeOK'
  <2>1. JarOK(jar)' /\ JarOK(jar)
    BY DEF SsoInd, SsoTypeOK, JarOK
  <2>2. CallOK(call[s])'
    <3>1. SetsOK(call[s])'
      BY <1>1 DEF SetsOK
    <3>2. JarOK(call[s].jar)'
      BY <2>1, <1>1 DEF JarOK
    <3> QED
      BY <1>1, <3>1, <3>2 DEF CallOK
  <2>3. \A r \in Slot \ {s} : (call[r] # None => CallOK(call[r]))'
    <3> SUFFICES ASSUME NEW r \in Slot \ {s}, call'[r] # None PROVE CallOK(call[r])'
      OBVIOUS
    <3>1. call'[r] = call[r] /\ CallOK(call[r])
      BY <1>1 DEF SsoInd, SsoTypeOK
    <3> QED
      BY <3>1, <1>5, CallStays
  <2> QED
    BY <1>1, <2>1, <2>2, <2>3 DEF SsoInd, SsoTypeOK
<1>7. TokensAreOwn'
  BY <1>1, <1>4 DEF SsoInd, TokensAreOwn
<1>8. TokenIsOwn'
  BY <1>1, <1>4 DEF SsoInd, TokenIsOwn
<1>9. TokenIsAlone'
  BY <1>1, <1>3 DEF SsoInd, TokenIsAlone, Overlaps
<1>10. TokenIsGood'
  BY <1>1, <1>3 DEF SsoInd, TokenIsGood, Replaces
<1> QED
  BY <1>6, <1>7, <1>8, <1>9, <1>10 DEF SsoInd

LEMMA AnswerFacts ==
  ASSUME SsoConstants, SsoInd, NEW s \in Slot, call[s] # None, NEW sets, NEW as, Answer(s, sets, as)
  PROVE  /\ call'[s] # None
         /\ call'[s] = [kind |-> call[s].kind, who |-> call[s].who, jar |-> call[s].jar,
                        step |-> "answered", sets |-> sets, as |-> as]
         /\ call'[s].kind = call[s].kind /\ call'[s].who = call[s].who
         /\ call'[s].jar = call[s].jar /\ call'[s].step = "answered"
         /\ call'[s].sets = sets /\ call'[s].as = as
         /\ \A r \in Slot \ {s} : call'[r] = call[r]
         /\ call' = [r \in Slot |-> call'[r]]
<1>1. call = [r \in Slot |-> call[r]]
  BY DEF SsoInd, SsoTypeOK
<1>2. call[s] = [kind |-> call[s].kind, who |-> call[s].who, jar |-> call[s].jar,
                 step |-> call[s].step, sets |-> call[s].sets, as |-> call[s].as]
  BY DEF SsoInd, SsoTypeOK, CallOK
<1>3. /\ call'[s] = [[[call[s] EXCEPT !.step = "answered"] EXCEPT !.sets = sets] EXCEPT !.as = as]
      /\ \A r \in Slot \ {s} : call'[r] = call[r]
      /\ call' = [r \in Slot |-> call'[r]]
  BY <1>1 DEF Answer
<1>4. call'[s] = [kind |-> call[s].kind, who |-> call[s].who, jar |-> call[s].jar,
                  step |-> "answered", sets |-> sets, as |-> as]
  BY <1>2, <1>3
<1>5. /\ call'[s].kind = call[s].kind /\ call'[s].who = call[s].who
      /\ call'[s].jar = call[s].jar /\ call'[s].step = "answered"
      /\ call'[s].sets = sets /\ call'[s].as = as
  BY <1>4
<1> QED
  BY <1>3, <1>4, <1>5 DEF SsoConstants

\* An answer that uses no token of Keycloak and changes nothing else.
LEMMA AnswerInd ==
  ASSUME SsoConstants, SsoInd, NEW s \in Slot, call[s] # None, call[s].step = "sent",
         NEW sets, NEW as, Answer(s, sets, as),
         UNCHANGED <<jar, leaving, asked, owner, valid, faults>>,
         cache' = cache \/ cache' = [u \in User |-> None],
         SetsOK(call[s])', as # None /\ "lapsed" \notin faults => as = call[s].jar.user
  PROVE  SsoInd'
<1>1. /\ call'[s] # None
      /\ call'[s] = [kind |-> call[s].kind, who |-> call[s].who, jar |-> call[s].jar,
                        step |-> "answered", sets |-> sets, as |-> as]
      /\ \A r \in Slot \ {s} : call'[r] = call[r]
      /\ call' = [r \in Slot |-> call'[r]]
  BY AnswerFacts
<1>2. Onward
  BY DEF Onward, Untroubled
<1>3. CallOK(call[s])
  BY DEF SsoInd, SsoTypeOK
<1>4. SsoTypeOK'
  <2>1. JarOK(jar)' /\ JarOK(jar) /\ JarOK(call[s].jar)'
    BY <1>1, <1>3 DEF SsoInd, SsoTypeOK, JarOK, CallOK
  <2>2. CallOK(call[s])'
    BY <1>1, <1>3, <2>1 DEF CallOK
  <2>3. \A r \in Slot \ {s} : (call[r] # None => CallOK(call[r]))'
    <3> SUFFICES ASSUME NEW r \in Slot \ {s}, call'[r] # None PROVE CallOK(call[r])'
      OBVIOUS
    <3>1. call'[r] = call[r] /\ CallOK(call[r])
      BY <1>1 DEF SsoInd, SsoTypeOK
    <3> QED
      BY <3>1, <1>2, CallStays
  <2>4. (cache \in [User -> User \cup {None}])'
    BY DEF SsoInd, SsoTypeOK
  <2> QED
    BY <1>1, <2>1, <2>2, <2>3, <2>4 DEF SsoInd, SsoTypeOK
<1>5. TokensAreOwn'
  BY <1>1 DEF SsoInd, TokensAreOwn
<1>6. TokenIsOwn'
  <2>1. call'[s].as = as /\ call'[s].jar = call[s].jar
    BY <1>1
  <2> QED
    BY <1>1, <2>1 DEF SsoInd, TokenIsOwn
<1>7. TokenIsAlone'
  BY <1>1 DEF SsoInd, TokenIsAlone, Untroubled
<1>8. TokenIsGood'
  BY <1>1 DEF SsoInd, TokenIsGood, Replaces, Untroubled
<1> QED
  BY <1>4, <1>5, <1>6, <1>7, <1>8 DEF SsoInd

-----------------------------------------------------------------------------
(* The requests, one after the other *)

LEMMA SendsInd ==
  ASSUME SsoConstants, SsoInd, NEW s \in Slot,
         \/ SendAction(s) \/ LogoutUser(s) \/ VisitLogout(s) \/ SendSubmit(s)
         \/ \E u \in LocalUser : SendLogin(s, u)
         \/ \E n \in 1..MaxLogins, u \in SsoUser : Authenticate(s, n, u)
  PROVE  SsoInd'
<1>1. /\ "action" \in SsoKind /\ "signout" \in SsoKind /\ "logout" \in SsoKind /\ "submit" \in SsoKind
      /\ "signin" \in SsoKind /\ "callback" \in SsoKind
  BY DEF SsoKind
<1>2. asked \in [1..MaxLogins -> SsoUser \cup {None}]
  BY DEF SsoInd, SsoTypeOK
<1>3. CASE SendAction(s)
  BY <1>1, <1>2, <1>3, SendInd DEF SendAction, keycloak
<1>4. CASE LogoutUser(s)
  BY <1>1, <1>2, <1>4, SendInd DEF LogoutUser, keycloak
<1>5. CASE VisitLogout(s)
  BY <1>1, <1>2, <1>5, SendInd DEF VisitLogout, keycloak
<1>6. CASE SendSubmit(s)
  BY <1>1, <1>2, <1>6, SendInd DEF SendSubmit, keycloak
<1>7. ASSUME NEW u \in LocalUser, SendLogin(s, u) PROVE SsoInd'
  BY <1>1, <1>2, <1>7, SendInd DEF SendLogin, keycloak
<1>8. ASSUME NEW n \in 1..MaxLogins, NEW u \in SsoUser, Authenticate(s, n, u) PROVE SsoInd'
  <2>1. /\ asked' \in [1..MaxLogins -> SsoUser \cup {None}] /\ asked'[n] = u
        /\ \A m \in 1..MaxLogins : asked[m] \in SsoUser => asked'[m] \in SsoUser
    BY <1>2, <1>8 DEF Authenticate
  <2> QED
    BY <1>1, <1>8, <2>1, SendInd DEF Authenticate
<1> QED
  BY <1>3, <1>4, <1>5, <1>6, <1>7, <1>8

LEMMA AnswersInd ==
  ASSUME SsoConstants, SsoInd, NEW s \in Slot,
         \/ CallbackRefused(s) \/ HandleAction(s) \/ HandleLogin(s) \/ HandleLogout(s)
         \/ SsoLogout(s) \/ ResolveAtOnce(s)
  PROVE  SsoInd'
<1>1. call[s] # None /\ call[s].step = "sent" /\ CallOK(call[s])
  BY DEF CallbackRefused, HandleAction, HandleLogin, HandleLogout, SsoLogout, ResolveAtOnce, Reached,
         SsoInd, SsoTypeOK
<1>2. CASE CallbackRefused(s)
  <2>1. Answer(s, StateCleared, None) /\ call[s].kind = "callback"
    BY <1>2 DEF CallbackRefused, Reached
  <2>2. SetsOK(call[s])'
    <3>1. call'[s].kind = "callback" /\ call'[s].sets = StateCleared
      BY <1>1, <2>1, AnswerFacts
    <3> QED
      BY <3>1 DEF SetsOK
  <2> QED
    BY <1>1, <1>2, <2>1, <2>2, AnswerInd DEF CallbackRefused, keycloak
<1>3. CASE HandleAction(s)
  <2> DEFINE u == call[s].jar.user
  <2>1. call[s].kind = "action" /\ u \in User \cup {None}
    BY <1>1, <1>3 DEF HandleAction, Reached, CallOK, JarOK
  <2>2. UNCHANGED <<jar, leaving, asked, owner, valid, faults, cache>>
    BY <1>3 DEF HandleAction, keycloak
  <2>3. CASE Answer(s, NoChange, None)
    <3>1. call'[s].kind = "action" /\ call'[s].sets = NoChange
      BY <1>1, <2>1, <2>3, AnswerFacts
    <3>2. SetsOK(call[s])'
      BY <3>1 DEF SetsOK
    <3> QED
      BY <1>1, <2>2, <2>3, <3>2, AnswerInd
  <2>4. CASE Answer(s, SignedIn(u), None) /\ u # None
    <3>1. /\ call'[s].kind = "action" /\ call'[s].sets = SignedIn(u)
          /\ call'[s].jar = call[s].jar
      BY <1>1, <2>1, <2>4, AnswerFacts
    <3>2. SetsOK(call[s])'
      BY <2>1, <2>4, <3>1 DEF SetsOK
    <3> QED
      BY <1>1, <2>2, <2>4, <3>2, AnswerInd
  <2>5. Answer(s, NoChange, None) \/ (Answer(s, SignedIn(u), None) /\ u # None)
    <3>1. CASE ~call[s].jar.fresh /\ u # None
      BY <1>3, <3>1 DEF HandleAction
    <3>2. CASE ~(~call[s].jar.fresh /\ u # None)
      BY <1>3, <3>2 DEF HandleAction
    <3> QED
      BY <3>1, <3>2
  <2> QED
    BY <2>3, <2>4, <2>5
<1>4. CASE HandleLogin(s)
  <2>1. Answer(s, SignedIn(call[s].who), None) /\ call[s].kind = "signin"
    BY <1>4 DEF HandleLogin, Reached
  <2>2. SetsOK(call[s])'
    <3>1. /\ call'[s].kind = "signin" /\ call'[s].sets = SignedIn(call[s].who)
          /\ call'[s].who = call[s].who
      BY <1>1, <2>1, AnswerFacts
    <3> QED
      BY <3>1 DEF SetsOK
  <2> QED
    BY <1>1, <1>4, <2>1, <2>2, AnswerInd DEF HandleLogin, keycloak
<1>5. CASE HandleLogout(s)
  <2>1. Answer(s, SignedOut, None) /\ call[s].kind = "signout"
    BY <1>5 DEF HandleLogout, Reached
  <2>2. SetsOK(call[s])'
    <3>1. call'[s].kind = "signout" /\ call'[s].sets = SignedOut
      BY <1>1, <2>1, AnswerFacts
    <3> QED
      BY <3>1 DEF SetsOK
  <2> QED
    BY <1>1, <1>5, <2>1, <2>2, AnswerInd DEF HandleLogout, keycloak
<1>6. CASE SsoLogout(s)
  <2>1. Answer(s, Cleared, None) /\ call[s].kind = "logout"
    BY <1>6 DEF SsoLogout, Reached
  <2>2. SetsOK(call[s])'
    <3>1. call'[s].kind = "logout" /\ call'[s].sets = Cleared
      BY <1>1, <2>1, AnswerFacts
    <3> QED
      BY <3>1 DEF SetsOK
  <2> QED
    BY <1>1, <1>6, <2>1, <2>2, AnswerInd DEF SsoLogout, keycloak
<1>7. CASE ResolveAtOnce(s)
  <2>1. PICK as : /\ Answer(s, NoChange, as)
                  /\ as # None /\ "lapsed" \notin faults => as = call[s].jar.user
    BY <1>1, <1>7 DEF ResolveAtOnce, AuthUser, CallOK, JarOK, SsoInd, TokensAreOwn
  <2>2. call[s].kind = "submit"
    BY <1>7 DEF ResolveAtOnce, Reached
  <2>3. SetsOK(call[s])'
    <3>1. call'[s].kind = "submit" /\ call'[s].sets = NoChange
      BY <1>1, <2>1, <2>2, AnswerFacts
    <3> QED
      BY <3>1 DEF SetsOK
  <2> QED
    BY <1>1, <1>7, <2>1, <2>3, AnswerInd DEF ResolveAtOnce, keycloak
<1> QED
  BY <1>2, <1>3, <1>4, <1>5, <1>6, <1>7

\* Keycloak has issued tokens, and the callback sets them or tells a failure.
LEMMA ExchangedInd ==
  ASSUME SsoConstants, SsoInd, NEW s \in Slot, Reached(s, "callback", "sent"), CodeExchanged(call[s].who),
         NEW sets, sets \in {StateCleared, Established(asked[call[s].who], Len(owner) + 1)},
         Answer(s, sets, None), UNCHANGED <<jar, leaving, logins, asked, cache, faults>>
  PROVE  SsoInd'
<1> DEFINE n == call[s].who
           t == Len(owner) + 1
<1>1. call[s] # None /\ call[s].step = "sent" /\ call[s].kind = "callback" /\ CallOK(call[s])
  BY DEF Reached, SsoInd, SsoTypeOK
<1>2. owner \in Seq(User) /\ asked[n] \in SsoUser
  BY <1>1 DEF CallOK, SsoInd, SsoTypeOK
<1>3. /\ owner' = Append(owner, asked[n]) /\ valid' = valid \cup {t}
      /\ Answer(s, sets, None)
      /\ UNCHANGED <<jar, leaving, logins, asked, cache, faults>>
  BY DEF CodeExchanged
<1>4. /\ owner' \in Seq(User) /\ DOMAIN owner' = DOMAIN owner \cup {t} /\ owner'[t] = asked[n]
      /\ \A x \in DOMAIN owner : x \in DOMAIN owner' /\ owner'[x] = owner[x]
  BY <1>2, <1>3 DEF User
<1>5. /\ call'[s] # None
      /\ call'[s] = [kind |-> call[s].kind, who |-> call[s].who, jar |-> call[s].jar,
                        step |-> "answered", sets |-> sets, as |-> None]
      /\ \A r \in Slot \ {s} : call'[r] = call[r]
      /\ call' = [r \in Slot |-> call'[r]]
  BY <1>1, <1>3, AnswerFacts
<1>6. /\ call'[s].kind = "callback" /\ call'[s].who = n /\ call'[s].jar = call[s].jar
      /\ call'[s].step = "answered" /\ call'[s].as = None
      /\ call'[s].sets \in {StateCleared, Established(owner'[t], t)}
  BY <1>1, <1>4, <1>5
<1>7. Onward
  BY <1>3, <1>4 DEF Onward, Untroubled
<1>8. SsoTypeOK'
  <2>1. JarOK(jar)' /\ JarOK(call[s].jar)'
    BY <1>1, <1>3, <1>4, <1>6 DEF SsoInd, SsoTypeOK, JarOK, CallOK
  <2>2. CallOK(call[s])'
    <3>1. SetsOK(call[s])'
      BY <1>3, <1>4, <1>6 DEF SetsOK
    <3> QED
      BY <1>1, <1>3, <1>5, <1>6, <2>1, <3>1 DEF CallOK
  <2>3. \A r \in Slot \ {s} : (call[r] # None => CallOK(call[r]))'
    <3> SUFFICES ASSUME NEW r \in Slot \ {s}, call'[r] # None PROVE CallOK(call[r])'
      OBVIOUS
    <3>1. call'[r] = call[r] /\ CallOK(call[r])
      BY <1>5 DEF SsoInd, SsoTypeOK
    <3> QED
      BY <3>1, <1>7, CallStays
  <2>4. (valid \subseteq DOMAIN owner)'
    BY <1>3, <1>4 DEF SsoInd, SsoTypeOK
  <2> QED
    BY <1>3, <1>4, <1>5, <2>1, <2>2, <2>3, <2>4 DEF SsoInd, SsoTypeOK
<1>9. TokensAreOwn'
  <2>1. \A r \in Slot : call[r] # None => call[r].jar.kc \in DOMAIN owner \cup {None}
    BY DEF SsoInd, SsoTypeOK, CallOK, JarOK
  <2> SUFFICES ASSUME "lapsed" \notin faults'
               PROVE  /\ (jar.kc # None /\ ~leaving => owner[jar.kc] = jar.user)'
                      /\ (\A r \in Slot : call[r] # None /\ call[r].kind = "submit"
                                          /\ call[r].jar.kc # None
                               => owner[call[r].jar.kc] = call[r].jar.user)'
                      /\ (\A u \in User : cache[u] \in {None, u})'
    BY DEF TokensAreOwn
  <2>2. (jar.kc # None /\ ~leaving => owner[jar.kc] = jar.user)'
    BY <1>3, <1>4 DEF SsoInd, TokensAreOwn, SsoTypeOK, JarOK
  <2>3. (\A r \in Slot : call[r] # None /\ call[r].kind = "submit" /\ call[r].jar.kc # None
                               => owner[call[r].jar.kc] = call[r].jar.user)'
    <3> SUFFICES ASSUME NEW r \in Slot, call'[r] # None, call'[r].kind = "submit", call'[r].jar.kc # None
                 PROVE  owner'[call'[r].jar.kc] = call'[r].jar.user
      OBVIOUS
    <3>1. call[r] # None /\ call[r].kind = "submit" /\ call[r].jar = call'[r].jar
      BY <1>1, <1>5, <1>6
    <3> QED
      BY <1>3, <1>4, <2>1, <3>1 DEF SsoInd, TokensAreOwn
  <2> QED
    BY <1>3, <2>2, <2>3 DEF SsoInd, TokensAreOwn
<1>10. TokenIsOwn'
  BY <1>3, <1>5, <1>6 DEF SsoInd, TokenIsOwn
<1>11. TokenIsAlone'
  BY <1>1, <1>3, <1>5, <1>6 DEF SsoInd, TokenIsAlone, Untroubled
<1>12. TokenIsGood'
  BY <1>1, <1>3, <1>5, <1>6 DEF SsoInd, TokenIsGood, Replaces, Untroubled
<1> QED
  BY <1>8, <1>9, <1>10, <1>11, <1>12 DEF SsoInd

LEMMA CallbackInd ==
  ASSUME SsoConstants, SsoInd, NEW s \in Slot, CallbackAccepted(s) \/ CallbackFailed(s)
  PROVE  SsoInd'
<1>1. CASE CallbackAccepted(s)
  BY <1>1, ExchangedInd DEF CallbackAccepted
<1>2. CASE CallbackFailed(s) /\ CodeExchanged(call[s].who)
  BY <1>2, ExchangedInd DEF CallbackFailed
<1>3. CASE CallbackFailed(s) /\ UNCHANGED <<exchanged, owner, valid>>
  <2>1. call[s] # None /\ call[s].step = "sent" /\ call[s].kind = "callback" /\ Answer(s, StateCleared, None)
    BY <1>3 DEF CallbackFailed, Reached
  <2>2. SetsOK(call[s])'
    <3>1. call'[s].kind = "callback" /\ call'[s].sets = StateCleared
      BY <2>1, AnswerFacts
    <3> QED
      BY <3>1 DEF SetsOK
  <2>3. UNCHANGED <<jar, leaving, asked, owner, valid, cache, faults>>
    BY <1>3 DEF CallbackFailed
  <2> QED
    BY <2>1, <2>2, <2>3, AnswerInd
<1> QED
  BY <1>1, <1>2, <1>3 DEF CallbackFailed

LEMMA AskKeycloakInd ==
  ASSUME SsoConstants, SsoInd, NEW s \in Slot, AskKeycloak(s)
  PROVE  SsoInd'
<1>1. /\ call[s] # None /\ call[s].step = "sent" /\ call[s].kind = "submit" /\ CallOK(call[s])
      /\ call[s].jar.kc # None
  BY DEF AskKeycloak, Reached, SsoInd, SsoTypeOK
<1>2. UNCHANGED <<jar, leaving, logins, asked, owner, valid, cache, faults>>
  BY DEF AskKeycloak, keycloak
<1>3. call = [r \in Slot |-> call[r]] /\ call' = [call EXCEPT ![s].step = "refreshing"]
  BY DEF AskKeycloak, SsoInd, SsoTypeOK
<1>4. /\ call'[s] = [kind |-> call[s].kind, who |-> call[s].who, jar |-> call[s].jar,
                        step |-> "refreshing", sets |-> call[s].sets, as |-> call[s].as]
      /\ \A r \in Slot \ {s} : call'[r] = call[r]
      /\ call' = [r \in Slot |-> call'[r]]
  BY <1>1, <1>3 DEF CallOK
<1>5. /\ call'[s] # None /\ call'[s].kind = "submit" /\ call'[s].jar = call[s].jar
      /\ call'[s].sets = call[s].sets /\ call'[s].as = call[s].as
      /\ call'[s].step = "refreshing" /\ call'[s].who = call[s].who
  BY <1>1, <1>4 DEF SsoConstants
<1>6. Onward
  BY <1>2 DEF Onward, Untroubled
<1>7. SsoTypeOK'
  <2>1. JarOK(jar)' /\ JarOK(call[s].jar)'
    BY <1>1, <1>2, <1>5 DEF SsoInd, SsoTypeOK, JarOK, CallOK
  <2>2. CallOK(call[s])'
    <3>1. SetsOK(call[s])'
      BY <1>1, <1>2, <1>5 DEF SetsOK, CallOK, Untroubled
    <3> QED
      BY <1>1, <1>2, <1>4, <1>5, <2>1, <3>1 DEF CallOK
  <2>3. \A r \in Slot \ {s} : (call[r] # None => CallOK(call[r]))'
    <3> SUFFICES ASSUME NEW r \in Slot \ {s}, call'[r] # None PROVE CallOK(call[r])'
      OBVIOUS
    <3>1. call'[r] = call[r] /\ CallOK(call[r])
      BY <1>4 DEF SsoInd, SsoTypeOK
    <3> QED
      BY <3>1, <1>6, CallStays
  <2> QED
    BY <1>2, <1>4, <2>1, <2>2, <2>3 DEF SsoInd, SsoTypeOK
<1>8. TokensAreOwn' /\ TokenIsOwn'
  BY <1>1, <1>2, <1>4, <1>5 DEF SsoInd, TokensAreOwn, TokenIsOwn
<1>9. TokenIsAlone' /\ TokenIsGood'
  BY <1>1, <1>2, <1>4, <1>5 DEF SsoInd, TokenIsAlone, TokenIsGood, Replaces, Untroubled
<1> QED
  BY <1>7, <1>8, <1>9 DEF SsoInd

LEMMA RefreshTokensInd ==
  ASSUME SsoConstants, SsoInd, NEW s \in Slot, RefreshTokens(s)
  PROVE  SsoInd'
<1> DEFINE t   == call[s].jar.kc
           new == IF Rotates THEN Len(owner) + 1 ELSE t
<1>1. /\ call[s] # None /\ call[s].step = "refreshing" /\ call[s].kind = "submit"
      /\ CallOK(call[s]) /\ t \in valid /\ t # None
  BY DEF RefreshTokens, Reached, SsoInd, SsoTypeOK, CallOK
<1>2. owner \in Seq(User) /\ t \in DOMAIN owner /\ owner[t] \in User
  BY <1>1 DEF SsoInd, SsoTypeOK
<1>3. /\ UNCHANGED <<jar, leaving, asked, faults>>
      /\ cache' = [cache EXCEPT ![call[s].jar.user] = owner[t]]
      /\ \E as : as = owner[t] /\ Answer(s, TokenSet(new), as)
  BY DEF RefreshTokens
<1>4. /\ owner' \in Seq(User) /\ new \in DOMAIN owner' /\ owner'[new] = owner[t] /\ new \in valid'
      /\ \A x \in DOMAIN owner : x \in DOMAIN owner' /\ owner'[x] = owner[x]
      /\ valid' \subseteq DOMAIN owner' /\ valid \ {t} \subseteq valid'
  <2>1. Refreshed(t, Len(owner) + 1) /\ valid \subseteq DOMAIN owner
    BY DEF RefreshTokens, SsoInd, SsoTypeOK
  <2>2. CASE Rotates
    <3>1. owner' = Append(owner, owner[t]) /\ valid' = (valid \ {t}) \cup {Len(owner) + 1}
      BY <2>1, <2>2 DEF Refreshed
    <3>2. /\ owner' \in Seq(User) /\ DOMAIN owner' = DOMAIN owner \cup {Len(owner) + 1}
          /\ owner'[Len(owner) + 1] = owner[t]
          /\ \A x \in DOMAIN owner : x \in DOMAIN owner' /\ owner'[x] = owner[x]
      BY <1>2, <3>1
    <3> QED
      BY <2>1, <2>2, <3>1, <3>2
  <2>3. CASE ~Rotates
    BY <1>1, <1>2, <2>1, <2>3 DEF Refreshed
  <2> QED
    BY <2>2, <2>3
<1>5. /\ call'[s] # None
      /\ call'[s] = [kind |-> call[s].kind, who |-> call[s].who, jar |-> call[s].jar,
                        step |-> "answered", sets |-> TokenSet(new), as |-> owner[t]]
      /\ \A r \in Slot \ {s} : call'[r] = call[r]
      /\ call' = [r \in Slot |-> call'[r]]
  <2>1. PICK as : as = owner[t] /\ Answer(s, TokenSet(new), as)
    BY <1>3
  <2>2. PICK sets : sets = TokenSet(new) /\ Answer(s, sets, as)
    BY <2>1
  <2>3. /\ call'[s] # None
        /\ call'[s] = [kind |-> call[s].kind, who |-> call[s].who, jar |-> call[s].jar,
                        step |-> "answered", sets |-> sets, as |-> as]
        /\ \A r \in Slot \ {s} : call'[r] = call[r]
        /\ call' = [r \in Slot |-> call'[r]]
    BY <1>1, <2>2, AnswerFacts
  <2> QED
    BY <2>1, <2>2, <2>3
<1> HIDE DEF new
<1>6. /\ call'[s].kind = "submit" /\ call'[s].jar = call[s].jar
      /\ call'[s].step = "answered" /\ call'[s].as = owner[t]
      /\ call'[s].sets = TokenSet(new) /\ call'[s].who = call[s].who
  BY <1>1, <1>5
<1>7. "lapsed" \notin faults => owner[t] = call[s].jar.user
  BY <1>1 DEF SsoInd, TokensAreOwn
<1>8. /\ Untroubled' => Untroubled
      /\ Untroubled => jar.kc = t /\ \A r \in Slot \ {s} : call[r] = None
  BY <1>1, <1>3 DEF SsoInd, TokenIsAlone, Untroubled
<1>9. SsoTypeOK'
  <2>1. JarOK(jar)' /\ JarOK(call[s].jar)'
    BY <1>1, <1>3, <1>4, <1>6 DEF SsoInd, SsoTypeOK, JarOK, CallOK
  <2>2. CallOK(call[s])'
    <3>1. SetsOK(call[s])'
      BY <1>3, <1>4, <1>6, <1>7 DEF SetsOK
    <3> QED
      BY <1>1, <1>3, <1>5, <1>6, <2>1, <3>1 DEF CallOK
  <2>3. \A r \in Slot \ {s} : (call[r] # None => CallOK(call[r]))'
    <3> SUFFICES ASSUME NEW r \in Slot \ {s}, call'[r] # None PROVE CallOK(call[r])'
      OBVIOUS
    <3>1. call'[r] = call[r] /\ call[r] # None /\ CallOK(call[r])
      BY <1>5 DEF SsoInd, SsoTypeOK
    <3>2. ~Untroubled'
      BY <1>8, <3>1
    <3>3. Onward
      BY <1>3, <1>4, <3>2 DEF Onward
    <3> QED
      BY <3>1, <3>3, CallStays
  <2>4. (cache \in [User -> User \cup {None}])'
    BY <1>2, <1>3 DEF SsoInd, SsoTypeOK
  <2> QED
    BY <1>3, <1>4, <1>5, <2>1, <2>2, <2>3, <2>4 DEF SsoInd, SsoTypeOK
<1>10. TokensAreOwn'
  <2>1. /\ \A r \in Slot : call[r] # None => call[r].jar.kc \in DOMAIN owner \cup {None}
        /\ jar.kc \in DOMAIN owner \cup {None} /\ cache \in [User -> User \cup {None}]
    BY DEF SsoInd, SsoTypeOK, CallOK, JarOK
  <2> SUFFICES ASSUME "lapsed" \notin faults'
               PROVE  /\ (jar.kc # None /\ ~leaving => owner[jar.kc] = jar.user)'
                      /\ (\A r \in Slot : call[r] # None /\ call[r].kind = "submit"
                                          /\ call[r].jar.kc # None
                               => owner[call[r].jar.kc] = call[r].jar.user)'
                      /\ (\A u \in User : cache[u] \in {None, u})'
    BY DEF TokensAreOwn
  <2>2. (jar.kc # None /\ ~leaving => owner[jar.kc] = jar.user)'
    BY <1>3, <1>4, <2>1 DEF SsoInd, TokensAreOwn
  <2>3. (\A r \in Slot : call[r] # None /\ call[r].kind = "submit" /\ call[r].jar.kc # None
                               => owner[call[r].jar.kc] = call[r].jar.user)'
    <3> SUFFICES ASSUME NEW r \in Slot, call'[r] # None, call'[r].kind = "submit", call'[r].jar.kc # None
                 PROVE  owner'[call'[r].jar.kc] = call'[r].jar.user
      OBVIOUS
    <3>1. call[r] # None /\ call[r].kind = "submit" /\ call[r].jar = call'[r].jar
      BY <1>1, <1>5, <1>6
    <3> QED
      BY <1>3, <1>4, <2>1, <3>1 DEF SsoInd, TokensAreOwn
  <2>4. (\A u \in User : cache[u] \in {None, u})'
    BY <1>3, <1>7, <2>1 DEF SsoInd, TokensAreOwn
  <2> QED
    BY <2>2, <2>3, <2>4
<1>11. TokenIsOwn'
  BY <1>3, <1>5, <1>6, <1>7 DEF SsoInd, TokenIsOwn
<1>12. TokenIsAlone'
  BY <1>1, <1>3, <1>5, <1>6, <1>8 DEF SsoInd, TokenIsAlone
<1>13. TokenIsGood'
  BY <1>1, <1>4, <1>5, <1>6 DEF TokenIsGood, Replaces
<1> QED
  BY <1>9, <1>10, <1>11, <1>12, <1>13 DEF SsoInd

LEMMA RefreshFailedInd ==
  ASSUME SsoConstants, SsoInd, NEW s \in Slot, RefreshFailed(s)
  PROVE  SsoInd'
<1> DEFINE t == call[s].jar.kc
<1>1. /\ call[s] # None /\ call[s].step = "refreshing" /\ call[s].kind = "submit"
      /\ CallOK(call[s]) /\ t # None
  BY DEF RefreshFailed, Reached, SsoInd, SsoTypeOK, CallOK
<1>2. /\ UNCHANGED <<jar, leaving, asked, owner, valid>>
      /\ cache' = [cache EXCEPT ![call[s].jar.user] = None]
      /\ Answer(s, TokenSet(None), None)
      /\ faults' = faults \cup (IF t \in valid THEN {"outage"} ELSE {})
  BY DEF RefreshFailed, keycloak
<1>3. /\ call'[s] # None
      /\ call'[s] = [kind |-> call[s].kind, who |-> call[s].who, jar |-> call[s].jar,
                        step |-> "answered", sets |-> TokenSet(None), as |-> None]
      /\ \A r \in Slot \ {s} : call'[r] = call[r]
      /\ call' = [r \in Slot |-> call'[r]]
  BY <1>1, <1>2, AnswerFacts
<1>4. /\ call'[s].kind = "submit" /\ call'[s].jar = call[s].jar
      /\ call'[s].step = "answered" /\ call'[s].as = None
      /\ call'[s].sets = TokenSet(None) /\ call'[s].who = call[s].who
  BY <1>1, <1>3
<1>5. (Untroubled' => Untroubled) /\ ("lapsed" \notin faults' => "lapsed" \notin faults)
  BY <1>2 DEF Untroubled
<1>6. Onward
  BY <1>2, <1>5 DEF Onward
<1>7. SsoTypeOK'
  <2>1. JarOK(jar)' /\ JarOK(call[s].jar)'
    BY <1>1, <1>2, <1>4 DEF SsoInd, SsoTypeOK, JarOK, CallOK
  <2>2. CallOK(call[s])'
    <3>1. SetsOK(call[s])'
      BY <1>4 DEF SetsOK
    <3> QED
      BY <1>1, <1>2, <1>3, <1>4, <2>1, <3>1 DEF CallOK
  <2>3. \A r \in Slot \ {s} : (call[r] # None => CallOK(call[r]))'
    <3> SUFFICES ASSUME NEW r \in Slot \ {s}, call'[r] # None PROVE CallOK(call[r])'
      OBVIOUS
    <3>1. call'[r] = call[r] /\ CallOK(call[r])
      BY <1>3 DEF SsoInd, SsoTypeOK
    <3> QED
      BY <3>1, <1>6, CallStays
  <2>4. (cache \in [User -> User \cup {None}])'
    BY <1>2 DEF SsoInd, SsoTypeOK
  <2> QED
    BY <1>2, <1>3, <2>1, <2>2, <2>3, <2>4 DEF SsoInd, SsoTypeOK
<1>8. TokensAreOwn'
  <2>1. "lapsed" \notin faults' => \A u \in User : cache'[u] \in {None, u}
    BY <1>2, <1>5 DEF SsoInd, TokensAreOwn, SsoTypeOK
  <2> QED
    BY <1>1, <1>2, <1>3, <1>4, <1>5, <2>1 DEF SsoInd, TokensAreOwn
<1>9. TokenIsOwn'
  BY <1>2, <1>3, <1>4, <1>5 DEF SsoInd, TokenIsOwn
<1>10. TokenIsAlone'
  BY <1>1, <1>2, <1>3, <1>4, <1>5 DEF SsoInd, TokenIsAlone
<1>11. TokenIsGood'
  BY <1>1, <1>3, <1>4 DEF TokenIsGood, Replaces
<1> QED
  BY <1>7, <1>8, <1>9, <1>10, <1>11 DEF SsoInd

\* A request is over, and the browser goes on.
LEMMA CallEnds ==
  ASSUME SsoConstants, SsoInd, NEW s \in Slot, call' = [call EXCEPT ![s] = None], Onward,
         UNCHANGED <<asked, owner, valid, cache>>, JarOK(jar)'
  PROVE  SsoTypeOK' /\ TokenIsOwn'
<1>1. /\ call'[s] = None /\ \A r \in Slot \ {s} : call'[r] = call[r]
      /\ call' = [r \in Slot |-> call'[r]]
  BY DEF SsoInd, SsoTypeOK
<1>2. \A r \in Slot : (call[r] # None => CallOK(call[r]))'
  <2> SUFFICES ASSUME NEW r \in Slot, call'[r] # None PROVE CallOK(call[r])'
    OBVIOUS
  <2>1. call'[r] = call[r] /\ CallOK(call[r])
    BY <1>1 DEF SsoInd, SsoTypeOK
  <2> QED
    BY <2>1, CallStays
<1>3. SsoTypeOK'
  BY <1>1, <1>2 DEF SsoInd, SsoTypeOK
<1>4. TokenIsOwn'
  BY <1>1 DEF SsoInd, TokenIsOwn, Onward
<1> QED
  BY <1>3, <1>4

LEMMA LostInd ==
  ASSUME SsoConstants, SsoInd, NEW s \in Slot, Lost(s)
  PROVE  SsoInd'
<1>1. /\ UNCHANGED <<jar, asked, owner, valid, cache>>
      /\ call' = [call EXCEPT ![s] = None]
  BY DEF Lost, keycloak
<1>2. /\ ~Untroubled' /\ faults \subseteq faults'
      /\ "lapsed" \notin faults' => "lapsed" \notin faults /\ (leaving => leaving')
  <2>1. CASE call[s].kind = "logout"
    BY <2>1 DEF Lost, Untroubled
  <2>2. CASE call[s].kind # "logout"
    <3>1. leaving' = (leaving /\ call[s].kind # "logout") /\ faults' = faults \cup {"lost"}
      BY <2>2 DEF Lost
    <3> QED
      BY <2>2, <3>1 DEF Untroubled
  <2> QED
    BY <2>1, <2>2
<1>3. Onward /\ JarOK(jar)'
  BY <1>1, <1>2 DEF Onward, SsoInd, SsoTypeOK, JarOK
<1>4. SsoTypeOK' /\ TokenIsOwn'
  BY <1>1, <1>3, CallEnds
<1>5. /\ call'[s] = None /\ \A r \in Slot \ {s} : call'[r] = call[r]
  BY <1>1 DEF SsoInd, SsoTypeOK
<1>6. TokensAreOwn'
  BY <1>1, <1>2, <1>5 DEF SsoInd, TokensAreOwn
<1>7. TokenIsAlone' /\ TokenIsGood'
  BY <1>2 DEF TokenIsAlone, TokenIsGood
<1> QED
  BY <1>4, <1>6, <1>7 DEF SsoInd

LEMMA DeliverInd ==
  ASSUME SsoConstants, SsoInd, NEW s \in Slot, Deliver(s)
  PROVE  SsoInd'
<1> DEFINE c == call[s]
<1>1. /\ c # None /\ c.step = "answered" /\ CallOK(c) /\ SetsOK(c)
      /\ jar' = Receive(jar, c.sets)
      /\ leaving' = CASE c.kind = "signout" -> TRUE
                      [] c.kind = "logout"  -> FALSE
                      [] OTHER -> leaving
      /\ faults' = faults \cup {f \in {"lapsed"} : Late(s)}
      /\ call' = [call EXCEPT ![s] = None]
      /\ UNCHANGED <<logins, asked, owner, valid, cache>>
  BY DEF Deliver, keycloak, SsoInd, SsoTypeOK, CallOK
<1>2. /\ Untroubled' => Untroubled
      /\ "lapsed" \notin faults' => "lapsed" \notin faults /\ ~Late(s)
  BY <1>1 DEF Untroubled
<1>3. Onward
  BY <1>1, <1>2 DEF Onward
<1>4. /\ JarOK(jar) /\ jar = [x \in Cookie |-> jar[x]] /\ owner \in Seq(User)
      /\ jar.user \in User \cup {None} /\ jar.kc \in DOMAIN owner \cup {None}
      /\ c.kind \in SsoKind /\ JarOK(c.jar)
  BY <1>1 DEF SsoInd, SsoTypeOK, JarOK, CallOK
<1>5. /\ call'[s] = None /\ \A r \in Slot \ {s} : call'[r] = call[r]
  BY <1>1 DEF SsoInd, SsoTypeOK
<1>6. jar' = [x \in Cookie |-> jar'[x]]
  BY <1>1, <1>4, ReceiveFacts
\* What the cookies are then.
<1> DEFINE Received ==
             /\ jar'.user \in User \cup {None} /\ jar'.kc \in DOMAIN owner \cup {None}
             /\ "lapsed" \notin faults' /\ jar'.kc # None /\ ~leaving' => owner[jar'.kc] = jar'.user
             /\ Untroubled /\ jar'.kc # None => \/ jar'.kc = jar.kc /\ ~Replaces(c)
                                                \/ jar'.kc \in valid
<1>7. Received
  <2>1. owner \in Seq(User) /\ None \notin User /\ None \notin DOMAIN owner
    BY <1>4 DEF SsoConstants
  <2>2. "lapsed" \notin faults' /\ c.kind # "callback" /\ c.sets # NoChange => c.jar.user = jar.user
    BY <1>2 DEF Late
  <2>3. \A u, t : /\ NoChange # TokenSet(t) /\ NoChange # SignedIn(u)
    BY ChangeFacts
  <2>4. CASE c.sets = NoChange /\ c.kind # "logout"
    <3>1. jar'.user = jar.user /\ jar'.kc = jar.kc
      BY <1>1, <1>4, <2>4, ReceiveFacts
    <3>2. ~leaving' => ~leaving
      BY <1>1, <2>4
    <3>3. ~Replaces(c)
      BY <2>3, <2>4 DEF Replaces
    <3> QED
      BY <1>2, <1>4, <3>1, <3>2, <3>3 DEF SsoInd, TokensAreOwn
  <2>5. CASE c.kind = "callback" /\ c.sets = StateCleared
    <3>1. jar'.user = jar.user /\ jar'.kc = jar.kc
      BY <1>1, <1>4, <2>5, ReceiveFacts
    <3>2. (~leaving' => ~leaving) /\ ~Replaces(c)
      BY <1>1, <2>5 DEF Replaces
    <3> QED
      BY <1>2, <1>4, <3>1, <3>2 DEF SsoInd, TokensAreOwn
  <2>6. ASSUME NEW t \in DOMAIN owner, c.kind = "callback", c.sets = Established(owner[t], t),
               Untroubled => t \in valid
        PROVE  Received
    <3>1. jar'.user = owner[t] /\ jar'.kc = t
      BY <1>1, <1>4, <2>6, ReceiveFacts
    <3>2. owner[t] \in User
      BY <2>1
    <3> QED
      BY <2>6, <3>1, <3>2
  <2>7. CASE c.kind = "action" /\ c.sets = SignedIn(c.jar.user) /\ c.jar.user \in User
    <3>1. jar'.user = c.jar.user /\ jar'.kc = jar.kc
      <4>1. Receive(jar, SignedIn(c.jar.user)).user = c.jar.user /\ Receive(jar, SignedIn(c.jar.user)).kc = jar.kc
        BY <1>4, ReceiveFacts
      <4> QED
        BY <1>1, <2>7, <4>1
    <3>2. (~leaving' => ~leaving) /\ ~Replaces(c) /\ c.sets # NoChange
      BY <1>1, <2>3, <2>7 DEF Replaces
    <3> QED
      BY <1>2, <1>4, <2>2, <2>7, <3>1, <3>2 DEF SsoInd, TokensAreOwn
  <2>8. CASE c.kind = "signin" /\ c.sets = SignedIn(c.who)
    <3>1. jar'.user = c.who /\ jar'.kc = jar.kc /\ c.who \in User /\ c.jar.user = None
      <4>1. Receive(jar, SignedIn(c.who)).user = c.who /\ Receive(jar, SignedIn(c.who)).kc = jar.kc
        BY <1>4, ReceiveFacts
      <4> QED
        BY <1>1, <2>8, <4>1 DEF CallOK, User
    <3>2. (~leaving' => ~leaving) /\ ~Replaces(c) /\ c.sets # NoChange
      BY <1>1, <2>3, <2>8 DEF Replaces
    <3>3. "lapsed" \notin faults' /\ jar.kc # None /\ ~leaving => FALSE
      <4> SUFFICES ASSUME "lapsed" \notin faults', jar.kc # None, ~leaving PROVE FALSE
        OBVIOUS
      <4>1. owner[jar.kc] = jar.user
        BY <1>2 DEF SsoInd, TokensAreOwn
      <4>2. owner[jar.kc] \in User /\ jar.user = None
        BY <1>4, <2>1, <2>2, <2>8, <3>1, <3>2
      <4> QED
        BY <2>1, <4>1, <4>2
    <3> QED
      BY <1>4, <3>1, <3>2, <3>3
  <2>9. CASE c.kind = "signout" /\ c.sets = SignedOut
    <3>1. jar'.user = None /\ jar'.kc = jar.kc
      BY <1>1, <1>4, <2>9, ReceiveFacts
    <3>2. leaving' /\ ~Replaces(c)
      BY <1>1, <2>9 DEF Replaces
    <3> QED
      BY <1>4, <3>1, <3>2
  <2>10. CASE c.kind = "logout" /\ c.sets = Cleared
    <3>1. jar'.user = None /\ jar'.kc = None
      BY <1>1, <1>4, <2>10, ReceiveFacts
    <3> QED
      BY <3>1
  <2>11. CASE c.kind = "submit" /\ c.sets = TokenSet(None)
    <3>1. jar'.user = jar.user /\ jar'.kc = None
      <4>1. Receive(jar, TokenSet(None)).user = jar.user /\ Receive(jar, TokenSet(None)).kc = None
        BY <1>4, ReceiveFacts
      <4> QED
        BY <1>1, <2>11, <4>1
    <3> QED
      BY <1>4, <3>1
  <2>12. ASSUME NEW t \in DOMAIN owner, c.kind = "submit", c.sets = TokenSet(t),
                Untroubled => t \in valid,
                "lapsed" \notin faults => owner[t] = c.jar.user
         PROVE  Received
    <3>1. jar'.user = jar.user /\ jar'.kc = t
      <4>1. Receive(jar, TokenSet(t)).user = jar.user /\ Receive(jar, TokenSet(t)).kc = t
        BY <1>4, ReceiveFacts
      <4> QED
        BY <1>1, <2>12, <4>1
    <3>2. c.sets # NoChange
      BY <2>3, <2>12
    <3> QED
      BY <1>2, <1>4, <2>2, <2>12, <3>1, <3>2
  <2> QED
    BY <1>1, <2>4, <2>5, <2>6, <2>7, <2>8, <2>9, <2>10, <2>11, <2>12 DEF SetsOK
<1>8. SsoTypeOK' /\ TokenIsOwn'
  BY <1>1, <1>3, <1>6, <1>7, CallEnds DEF JarOK
<1>9. TokensAreOwn'
  BY <1>1, <1>2, <1>5, <1>7 DEF SsoInd, TokensAreOwn
<1>10. TokenIsAlone'
  BY <1>1, <1>2, <1>5 DEF SsoInd, TokenIsAlone
<1>11. TokenIsGood'
  BY <1>1, <1>2, <1>5, <1>7 DEF SsoInd, TokenIsGood, Replaces
<1> QED
  BY <1>8, <1>9, <1>10, <1>11 DEF SsoInd

-----------------------------------------------------------------------------
(* What happens without a request *)

\* The cookies change, and keep the token and its user, or lose the user.
LEMMA CookiesInd ==
  ASSUME SsoConstants, SsoInd, UNCHANGED <<call, owner, asked, cache, valid>>, JarOK(jar)',
         jar'.kc = jar.kc, leaving' => leaving,
         (faults' = faults /\ leaving' = leaving /\ jar'.user = jar.user) \/ "lapsed" \in faults',
         faults \subseteq faults', faults' \subseteq faults \cup {"lapsed"}
  PROVE  SsoInd'
<1>1. (Untroubled' => Untroubled) /\ ("lapsed" \notin faults' => faults' = faults)
  BY DEF Untroubled
<1>2. Onward
  BY <1>1 DEF Onward
<1>3. \A r \in Slot : (call[r] # None => CallOK(call[r]))'
  <2> SUFFICES ASSUME NEW r \in Slot, call'[r] # None PROVE CallOK(call[r])'
    OBVIOUS
  <2>1. call'[r] = call[r] /\ CallOK(call[r])
    BY DEF SsoInd, SsoTypeOK
  <2> QED
    BY <1>2, <2>1, CallStays
<1>4. SsoTypeOK'
  BY <1>3 DEF SsoInd, SsoTypeOK
<1>5. TokensAreOwn' /\ TokenIsOwn'
  BY <1>1 DEF SsoInd, TokensAreOwn, TokenIsOwn
<1>6. TokenIsAlone' /\ TokenIsGood'
  BY <1>1 DEF SsoInd, TokenIsAlone, TokenIsGood, Replaces
<1> QED
  BY <1>4, <1>5, <1>6 DEF SsoInd

LEMMA BrowserInd ==
  ASSUME SsoConstants, SsoInd, SetSsoState \/ Abandon \/ AccessExpires \/ SessionExpires
  PROVE  SsoInd'
<1>1. JarOK(jar) /\ jar = [x \in Cookie |-> jar[x]]
  BY DEF SsoInd, SsoTypeOK, JarOK
<1>2. CASE SetSsoState
  <2>1. /\ jar' = [x \in Cookie |-> jar'[x]] /\ jar'.kc = jar.kc /\ jar'.user = jar.user
        /\ UNCHANGED <<call, owner, asked, cache, valid, leaving, faults>>
    BY <1>1, <1>2 DEF SetSsoState, Cookie, keycloak
  <2> QED
    BY <1>1, <2>1, CookiesInd DEF JarOK
<1>3. CASE Abandon
  BY <1>1, <1>3, CookiesInd DEF Abandon, keycloak, JarOK
<1>4. CASE AccessExpires
  <2>1. /\ jar' = [x \in Cookie |-> jar'[x]] /\ jar'.kc = jar.kc /\ jar'.user = jar.user
        /\ UNCHANGED <<call, owner, asked, cache, valid, leaving, faults>>
    BY <1>1, <1>4 DEF AccessExpires, Cookie, keycloak
  <2> QED
    BY <1>1, <2>1, CookiesInd DEF JarOK
<1>5. CASE SessionExpires
  <2>1. /\ jar' = [x \in Cookie |-> jar'[x]] /\ jar'.kc = jar.kc /\ jar'.user = None
        /\ UNCHANGED <<call, owner, asked, cache, valid, leaving>>
        /\ faults' = faults \cup {"lapsed"}
    BY <1>1, <1>5, ReceiveFacts DEF SessionExpires, keycloak
  <2> QED
    BY <1>1, <2>1, CookiesInd DEF JarOK
<1> QED
  BY <1>2, <1>3, <1>4, <1>5

LEMMA ExpiryInd ==
  ASSUME SsoConstants, SsoInd,
         (\E u \in User : CachedTokenExpires(u)) \/ (\E u \in SsoUser : SsoSessionEnds(u))
  PROVE  SsoInd'
<1>1. UNCHANGED <<jar, call, leaving, logins, asked, exchanged, owner>>
  BY DEF CachedTokenExpires, SsoSessionEnds, keycloak
<1>2. /\ Untroubled' => Untroubled /\ valid' = valid
      /\ "lapsed" \notin faults' => "lapsed" \notin faults
      /\ valid' \subseteq valid
  BY DEF CachedTokenExpires, SsoSessionEnds, keycloak, Untroubled
<1>3. /\ (cache \in [User -> User \cup {None}])'
      /\ "lapsed" \notin faults' => \A u \in User : cache'[u] \in {None, u}
  BY <1>2 DEF CachedTokenExpires, SsoSessionEnds, SsoInd, SsoTypeOK, TokensAreOwn
<1>4. Onward /\ JarOK(jar)'
  BY <1>1, <1>2 DEF Onward, SsoInd, SsoTypeOK, JarOK
<1>5. \A r \in Slot : (call[r] # None => CallOK(call[r]))'
  <2> SUFFICES ASSUME NEW r \in Slot, call'[r] # None PROVE CallOK(call[r])'
    OBVIOUS
  <2>1. call'[r] = call[r] /\ CallOK(call[r])
    BY <1>1 DEF SsoInd, SsoTypeOK
  <2> QED
    BY <1>4, <2>1, CallStays
<1>6. SsoTypeOK'
  BY <1>1, <1>2, <1>3, <1>4, <1>5 DEF SsoInd, SsoTypeOK
<1>7. TokensAreOwn' /\ TokenIsOwn'
  BY <1>1, <1>2, <1>3 DEF SsoInd, TokensAreOwn, TokenIsOwn
<1>8. TokenIsAlone' /\ TokenIsGood'
  BY <1>1, <1>2 DEF SsoInd, TokenIsAlone, TokenIsGood, Replaces
<1> QED
  BY <1>6, <1>7, <1>8 DEF SsoInd

-----------------------------------------------------------------------------
(* The theorem *)

LEMMA SsoNextInd ==
  ASSUME SsoConstants, SsoInd, [SsoNext]_ssoVars
  PROVE  SsoInd'
<1>1. CASE SsoNext
  <2>1. CASE StartLogin \/ StartRegistration \/ Abandon \/ AccessExpires \/ SessionExpires
    BY <2>1, BrowserInd DEF StartLogin, StartRegistration
  <2>2. ASSUME NEW s \in Slot,
               \/ Deliver(s) \/ Lost(s)
               \/ CallbackAccepted(s) \/ CallbackFailed(s) \/ CallbackRefused(s)
               \/ SendAction(s) \/ HandleAction(s) \/ HandleLogin(s)
               \/ LogoutUser(s) \/ HandleLogout(s) \/ VisitLogout(s) \/ SsoLogout(s)
               \/ SendSubmit(s) \/ ResolveAtOnce(s) \/ AskKeycloak(s)
               \/ RefreshTokens(s) \/ RefreshFailed(s)
               \/ \E u \in LocalUser : SendLogin(s, u)
               \/ \E n \in 1..MaxLogins, u \in SsoUser : Authenticate(s, n, u)
        PROVE  SsoInd'
    BY <2>2, DeliverInd, LostInd, CallbackInd, SendsInd, AnswersInd, AskKeycloakInd,
       RefreshTokensInd, RefreshFailedInd
  <2>3. CASE (\E u \in User : CachedTokenExpires(u)) \/ (\E u \in SsoUser : SsoSessionEnds(u))
    BY <2>3, ExpiryInd
  <2> QED
    BY <1>1, <2>1, <2>2, <2>3 DEF SsoNext
<1>2. CASE UNCHANGED ssoVars
  <2>1. UNCHANGED <<jar, call, leaving, owner, asked, valid, cache, faults>>
    BY <1>2 DEF ssoVars, keycloak
  <2>2. JarOK(jar)'
    BY <2>1 DEF SsoInd, SsoTypeOK, JarOK
  <2> QED
    BY <2>1, <2>2, CookiesInd
<1> QED
  BY <1>1, <1>2

\* The cookies, the tokens of Keycloak and the cache go together in every state:
\* a submission goes out in the name of the user who is signed in, unless a
\* session ended without its sign-out or requests answered late; and with nothing
\* on its way the browser keeps a refresh token that Keycloak takes, unless
\* requests overlapped, got lost or failed.
THEOREM SsoInvHolds ==
  ASSUME SsoConstants
  PROVE  SsoSpec => []SsoInv
<1>1. SsoInit => SsoInd
  BY SsoInitInd
<1>2. SsoInd /\ [SsoNext]_ssoVars => SsoInd'
  BY SsoNextInd
<1>3. SsoInd => SsoInv
  <2>1. SsoInd => StoredIsCurrent
    BY DEF SsoInd, TokenIsGood, Replaces, StoredIsCurrent, Untroubled
  <2> QED
    BY <2>1 DEF SsoInd, SsoInv
<1> QED
  BY <1>1, <1>2, <1>3, PTL DEF SsoSpec

=============================================================================
