---------------------------- MODULE AccountPages ----------------------------
(***************************************************************************)
(* The pages of a user who is signed in, and what they promise: the        *)
(* session of a document, the page of the key, the settings, the list of   *)
(* the jobs, and the rows that administrators edit.  They share no state;  *)
(* AppSession keeps its names, the other pages are instances.              *)
(***************************************************************************)
EXTENDS AppSession

CONSTANTS
    KeyBound,                                          \* of the page of the key
    Names, Passwords, Weak, Sections,                  \* of the settings
    MaxSaves, MaxToggles, SettingsCalls,
    MaxJobs, Limit, PageSizes, Outcomes, Filters,      \* of the list of the jobs
    Searches, Durations,
    Doc, Id, Field, Value, AdminCalls                  \* of the administrators

VARIABLES
    made, works, keyCalls, keyDoubt, loadedKey, isLoading, keyError, revealed, regenOpen,
    revokeOpen, keyBusy

Keys == INSTANCE KeysPage
    WITH MaxKeys <- KeyBound, keys <- made, key <- works, calls <- keyCalls, doubt <- keyDoubt,
         apiKey <- loadedKey, error <- keyError, busy <- keyBusy

VARIABLES
    account, subscribed, name, asked, rejected, reading, left, saves, toggles, profile,
    password, enabled, doubt, deletion

Settings == INSTANCE AccountPage
    WITH MaxCalls <- SettingsCalls, user <- name, calls <- asked, lost <- rejected

VARIABLES
    jobs, stage, seen, answer, stats, jobsLoading, filter, search, jobsPage, rowsPerPage,
    expandedError

Jobs == INSTANCE JobsPage WITH page <- jobsPage, loading <- jobsLoading

VARIABLES table, doc

Admins == INSTANCE ReferencePage WITH MaxCalls <- AdminCalls

-----------------------------------------------------------------------------
\* The key on display is the one that works, no key is on display without its user,
\* and one in use is replaced only when the window has asked; see AppSession and
\* KeysPage.
KeyOnDisplayWorks == [](SessionInv /\ Keys!DisplayedWorks) /\ Keys!ReplacedWhenAsked

\* The switch shows what is stored, and closed forms have forgotten their passwords;
\* see AccountPage.
SettingsInv == Settings!SettingsInv

\* The counts are never ahead of the list, whose page has rows; see JobsPage.
JobsInv == Jobs!JobsInv

\* A form stays while it is filled in, and its save touches what was edited; see
\* ReferencePage.
FormsAreKept == Admins!FormsAreKept
=============================================================================
