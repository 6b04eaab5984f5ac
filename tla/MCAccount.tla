----------------------------- MODULE MCAccount ------------------------------
(***************************************************************************)
(* Instances for TLC of the pages of a user who is signed in: the session  *)
(* of a document, the settings with four choices of their sections, the    *)
(* key, the jobs, and the rows that one administrator edits or two.  One   *)
(* of them moves in a behavior, the others stay as they were.              *)
(***************************************************************************)
EXTENDS AccountPages

CONSTANTS d1, d2

VARIABLE part

\* Two jobs, and durations around the places where their label changes its form.
AllJobs    == {1..2}
Borderline == {59999, 90000, 119500}

\* The settings, with the sections that are used.
SectionsOf(used) == INSTANCE AccountPage
    WITH Sections <- used, MaxCalls <- SettingsCalls,
         user <- name, calls <- asked, lost <- rejected

Used == [forms    |-> {"profile", "password"},
         switch   |-> {"profile", "notifications"},
         deletion |-> {"notifications", "delete"},
         goodbye  |-> {"profile", "delete"}]

\* One administrator, or two who edit and delete one row and see no error.
DocsOf(docs, max) == INSTANCE ReferencePage WITH Doc <- docs, MaxCalls <- max

OneAdmin  == DocsOf({d1}, 2)!Next
TwoAdmins == DocsOf({d1, d2}, 1)!Next

NoErrors ==
    \A d \in {d1, d2} :
        /\ doc[d].mode # "create" /\ ~doc[d].readonly /\ ~doc[d].left
        /\ doc[d].message # "error"

setVars  == <<account, subscribed, name, asked, rejected, reading, left, saves, toggles,
              profile, password, enabled, doubt, deletion>>
keyVars  == <<made, works, keyCalls, keyDoubt, loadedKey, isLoading, keyError, revealed,
              regenOpen, revokeOpen, keyBusy>>
jobsVars == <<jobs, stage, seen, answer, stats, jobsLoading, filter, search, jobsPage,
              rowsPerPage, expandedError>>
docVars  == <<table, doc>>
allVars  == <<part, vars, setVars, keyVars, jobsVars, docVars>>

AccountInit ==
    /\ part \in {"document", "key", "jobs", "admin", "admins"} \cup DOMAIN Used
    /\ part # "document" => session = TRUE /\ keys = 1 /\ page = "protected"
    /\ part \notin DOMAIN Used =>
           account = [name |-> "a", password |-> "p"] /\ subscribed = TRUE
    /\ part # "key" => made = 1
    /\ part \notin {"admin", "admins"} => table = [i \in Id |-> None]
    /\ Init /\ Settings!Init /\ Keys!Init /\ Jobs!Init /\ Admins!Init

InDocument(A) == part = "document" /\ A /\ UNCHANGED <<part, setVars, keyVars, jobsVars, docVars>>
InSettings(A) == part \in DOMAIN Used /\ A /\ UNCHANGED <<part, vars, keyVars, jobsVars, docVars>>
OfKey(A)      == part = "key" /\ A /\ UNCHANGED <<part, vars, setVars, jobsVars, docVars>>
OfJobs(A)     == part = "jobs" /\ A /\ UNCHANGED <<part, vars, setVars, keyVars, docVars>>
OfAdmins      == /\ \/ part = "admin" /\ OneAdmin
                    \/ part = "admins" /\ TwoAdmins /\ NoErrors'
                 /\ UNCHANGED <<part, vars, setVars, keyVars, jobsVars>>

AccountNext ==
    \/ InDocument(Next)
    \/ \E u \in DOMAIN Used : part = u /\ InSettings(SectionsOf(Used[u])!Next)
    \/ OfKey(Keys!Next)
    \/ OfJobs(Jobs!Next)
    \/ OfAdmins

\* The fairness of each part.
AccountFairness ==
    /\ WF_allVars(InDocument(Answers)) /\ WF_allVars(InDocument(TimeOut))
    /\ \A l \in {"first", "again"} : WF_allVars(InDocument(Retry(l)))
    /\ WF_allVars(InSettings(Settings!Answers))
    /\ WF_allVars(OfJobs(Jobs!CountJobs)) /\ WF_allVars(OfJobs(Jobs!ReadRecent))
    /\ WF_allVars(OfJobs(Jobs!Answer))

AccountSpec == AccountInit /\ [][AccountNext]_allVars /\ AccountFairness

-----------------------------------------------------------------------------
\* Whatever a document asks for comes to an end, unless it is lost: see
\* AppSession, AccountPage and JobsPage.
RequestsEnd ==
    /\ part = "document" => SessionSettles
    /\ part \in DOMAIN Used => Settings!SettingsEnd
    /\ part = "jobs" => Jobs!LoadingEnds
=============================================================================
