----------------------------- MODULE Submission -----------------------------
(***************************************************************************)
(* The home page of one document: its three tabs (submit geometries,       *)
(* submit geo ids, open a result that was downloaded), the files that are  *)
(* read in the browser, the submissions on their way, and the page the     *)
(* user is taken to.  Files are read, and submissions answered, in any     *)
(* order.                                                                  *)
(*                                                                         *)
(* A form lives until its tab or its page is left.  What it still waits    *)
(* for comes back all the same: it can no longer change the form, but it   *)
(* can show an error above the tabs, or move the user to another page.     *)
(***************************************************************************)
EXTENDS NoValue, Integers, FiniteSets, SequencesExt

CONSTANTS
    File,       \* the files at hand
    Facts,      \* Facts[f]: what is in the file f, see Kind
    Remote,     \* what the API may have answered to /config
    Threshold,  \* the default of NEXT_PUBLIC_ASYNC_THRESHOLD
    MaxTyped,   \* a bound on the geo ids typed by hand
    MaxReads,   \* a bound on the files read at one time
    MaxSubmits  \* a bound on the submissions

\* A file: its size, its extension, what its text is, the features or shapes of
\* that, each with a geometry or not and with the version of openforis-whisp that
\* made it or none, and the geo ids that its lines would be.
Kind == [bytes : Nat, ext : {"txt", "json", "geojson", "other"},
         text : {"empty", "collection", "feature", "broken"},
         features : Seq([located : BOOLEAN, version : STRING \cup {None}]),
         ids : Nat]

ASSUME SubmissionAssumption ==
    /\ None \notin Nat \cup File \cup STRING
    /\ File \cap Nat = {}
    /\ \A f \in File : Facts[f] \in Kind
    /\ {Threshold, MaxTyped, MaxReads, MaxSubmits} \subseteq Nat

VARIABLES
    config,     \* limit, size, version and threshold, as the document has them
    needsKey,   \* whether the user is signed in and has no API key
    page,       \* at: "home", "local" or "job", and the submission it is the job of
    tab,        \* "geometry", "geoids" or "open"
    error,      \* whether an error is shown above the tabs
    form,       \* the fields of the form of the tab
    reads,      \* the files being read: for which tab, and whether its form lives
    calls,      \* the submissions on their way
    sent,       \* how many there were
    store,      \* the result kept for the page /results/local, or None
    shown,      \* the result which that page shows, or None
    chosen, opened, crossed     \* history: see Properties

home == <<tab, error, form, reads>>
past == <<chosen, opened, crossed>>
vars == <<config, needsKey, page, home, calls, sent, store, shown, past>>

Tab == {"geometry", "geoids", "open"}

-----------------------------------------------------------------------------
(* The configuration *)

Largest(a, b) == IF a = None \/ (b # None /\ b > a) THEN b ELSE a

\* What the API does not say stays as it is in the process of the app.
Applied(known, remote) ==
    LET Or(new, old) == IF new = None THEN old ELSE new
    IN  [known EXCEPT !.limit   = Or(Largest(remote.sync, remote.async), @),
                      !.size    = Or(remote.size, @),
                      !.version = Or(remote.version, @)]

NoConfig == [limit |-> None, size |-> None, version |-> None, threshold |-> Threshold]

ConfigChoices == {NoConfig} \cup {Applied(NoConfig, r) : r \in Remote}

Exceeds(n, limit) == limit # None /\ n > limit

\* The version of a result is that of the first feature which has one.
WhispVersion(f) ==
    LET fs == Facts[f].features
        i  == SelectInSeq(fs, LAMBDA x : x.version # None)
    IN  IF i = 0 THEN None ELSE fs[i].version

VersionsMatch(f) == WhispVersion(f) # None /\ WhispVersion(f) = config.version

-----------------------------------------------------------------------------
(* The page and its forms *)

Empty == [name |-> None, payload |-> None, count |-> 0, loading |-> FALSE]

At(place) == [at |-> place, job |-> 0]

Init ==
    /\ config \in ConfigChoices /\ needsKey \in BOOLEAN
    /\ page = At("home") /\ tab = "geometry" /\ error = FALSE /\ form = Empty /\ reads = {}
    /\ calls = {} /\ sent = 0 /\ store = None /\ shown = None
    /\ chosen = None /\ opened = None /\ crossed = FALSE

HasForm == page.at = "home" /\ (tab = "open" \/ ~needsKey)

Dead(S) == {[x EXCEPT !.live = FALSE] : x \in S}

\* Something on its way can still come back to another form, or page.
Cross(S) == crossed' = (crossed \/ S # {})

\* Another page p is on display: the forms are gone, or begin afresh.
Leave(p) ==
    /\ page' = p
    /\ tab' = "geometry" /\ error' = FALSE /\ form' = Empty /\ reads' = {}
    /\ chosen' = None

Enter(t) ==
    /\ tab' = t /\ form' = Empty /\ calls' = Dead(calls)
    /\ Cross(reads \cup calls)

SwitchTab(t) ==
    /\ page.at = "home" /\ t # tab
    /\ Enter(t)
    /\ error' = FALSE /\ reads' = Dead(reads) /\ chosen' = None
    /\ UNCHANGED <<config, needsKey, page, sent, store, shown, opened>>

DismissError ==
    /\ page.at = "home" /\ error /\ error' = FALSE
    /\ UNCHANGED <<config, needsKey, page, tab, form, reads, calls, sent, store, shown, past>>

-----------------------------------------------------------------------------
(* The files *)

\* Mutant: a refused file leaves the payload of the one before.
NameCleared(t) == [form EXCEPT !.name = None, !.count = IF t = "geometry" THEN 0 ELSE @]

\* What a form clears when it refuses a file: the geo ids stay in their box.
Refused(t) ==
    IF t = "geoids" THEN [form EXCEPT !.name = None]
    ELSE [form EXCEPT !.name = None, !.payload = None, !.count = 0]

TooBig(t, f) == t # "open" /\ Exceeds(Facts[f].bytes, config.size)

Reading(t, f) == [tab |-> t, file |-> f, live |-> TRUE]

\* handleFile up to its wait.
ChooseFile(f) ==
    /\ HasForm /\ Cardinality(reads) < MaxReads
    /\ IF TooBig(tab, f)
       THEN error' = TRUE /\ form' = Refused(tab) /\ UNCHANGED reads
       ELSE error' = FALSE /\ reads' = reads \cup {Reading(tab, f)} /\ UNCHANGED form
    /\ chosen' = f /\ Cross(reads)
    /\ UNCHANGED <<config, needsKey, page, tab, calls, sent, store, shown, opened>>

\* parseGeometryFile: any text is WKT, of one geometry at least; other JSON than a
\* collection counts for one.
Shapes(f) ==
    LET k == Facts[f]
    IN  CASE k.ext = "txt" /\ k.text # "empty" -> IF k.features = <<>> THEN 1 ELSE Len(k.features)
          [] k.ext \in {"json", "geojson"} /\ k.text = "collection" -> Len(k.features)
          [] k.ext \in {"json", "geojson"} /\ k.text = "feature" -> 1
          [] OTHER -> None

\* parseGeoIdFile.
Ids(f) == IF Facts[f].ids = 0 THEN None ELSE Facts[f].ids

\* parseResultsFile: every feature of a result has a geometry.
Rows(f) ==
    LET k == Facts[f]
    IN  IF /\ k.ext \in {"json", "geojson"} /\ k.text \in {"collection", "feature"}
           /\ k.features # <<>> /\ \A i \in DOMAIN k.features : k.features[i].located
        THEN Len(k.features) ELSE None

\* How many geometries, ids or features a form finds in a file, or None.
Parsed(t, f) ==
    CASE t = "geometry" -> Shapes(f)
      [] t = "geoids"   -> Ids(f)
      [] t = "open"     -> Rows(f)

Accepts(t, f) ==
    /\ Parsed(t, f) # None
    /\ t = "geometry" => ~Exceeds(Parsed(t, f), config.limit)

Unchosen == UNCHANGED <<config, needsKey, page, tab, calls, sent, store, shown, past>>

ReadOk(r) ==
    /\ r \in reads /\ Accepts(r.tab, r.file)
    /\ form' = IF r.live
               THEN [form EXCEPT !.name = r.file, !.payload = r.file,
                                 !.count = Parsed(r.tab, r.file)]
               ELSE form
    /\ reads' = reads \ {r} /\ UNCHANGED error
    /\ Unchosen

\* The file is refused, or could not be read.
ReadBad(r) ==
    /\ r \in reads
    /\ form' = IF r.live THEN Refused(r.tab) ELSE form
    /\ reads' = reads \ {r} /\ error' = TRUE
    /\ Unchosen

Type(n) ==
    /\ HasForm /\ tab = "geoids"
    /\ form' = [form EXCEPT !.name = None, !.payload = IF n = 0 THEN None ELSE n, !.count = n]
    /\ chosen' = None /\ Cross(reads)
    /\ UNCHANGED <<config, needsKey, page, tab, error, reads, calls, sent, store, shown, opened>>

Clear ==
    /\ HasForm
    /\ form' = [Empty EXCEPT !.loading = form.loading] /\ error' = FALSE
    /\ chosen' = None /\ Cross(reads)
    /\ UNCHANGED <<config, needsKey, page, tab, reads, calls, sent, store, shown, opened>>

-----------------------------------------------------------------------------
(* Submissions *)

\* Mutant: the button can be pressed while its submission is on its way.
CanPress == HasForm /\ tab # "open" /\ form.payload # None

CanAnalyze == HasForm /\ tab # "open" /\ form.payload # None /\ ~form.loading

Analyze ==
    /\ CanAnalyze /\ sent < MaxSubmits
    /\ IF tab = "geoids" /\ Exceeds(form.count, config.limit)
       THEN error' = TRUE /\ UNCHANGED <<form, calls, sent>>
       ELSE /\ sent' = sent + 1
            /\ calls' = calls \cup {[id |-> sent + 1, live |-> TRUE, tab |-> tab,
                                     payload |-> form.payload,
                                     async |-> form.count > config.threshold]}
            /\ form' = [form EXCEPT !.loading = TRUE]
            /\ UNCHANGED error
    /\ UNCHANGED <<config, needsKey, page, tab, reads, store, shown, past>>

\* Queued, being processed or completed: the page of the job is opened.
SubmitOk(c) ==
    /\ c \in calls
    /\ Leave([at |-> "job", job |-> c.id])
    /\ calls' = Dead(calls \ {c})
    /\ UNCHANGED <<config, needsKey, sent, store, shown, opened, crossed>>

\* Refused by the API, or lost: only a form that lives says so.
SubmitBad(c) ==
    /\ c \in calls
    /\ calls' = calls \ {c} /\ error' = (error \/ c.live)
    /\ form' = IF c.live THEN [form EXCEPT !.loading = FALSE] ELSE form
    /\ UNCHANGED <<config, needsKey, page, tab, reads, sent, store, shown, past>>

-----------------------------------------------------------------------------
(* Results that were downloaded *)

CanOpen == HasForm /\ tab = "open" /\ form.payload # None /\ VersionsMatch(form.payload)

NeedsRerun == HasForm /\ tab = "open" /\ form.payload # None /\ ~CanOpen

\* The page shows what is kept, and forgets what another version has made.
VisitLocal(kept) ==
    /\ Leave(At("local"))
    /\ calls' = Dead(calls)
    /\ IF config.version # None /\ kept # None /\ VersionsMatch(kept)
       THEN shown' = kept /\ store' = kept
       ELSE shown' = None /\ store' = IF config.version = None THEN kept ELSE None

OpenLocal ==
    /\ CanOpen
    /\ opened' = form.payload /\ VisitLocal(form.payload)
    /\ UNCHANGED <<config, needsKey, sent, crossed>>

\* Its file goes to the form for geometries, which receives it as a new one.
ContinueToSubmit ==
    /\ NeedsRerun
    /\ tab' = "geometry" /\ calls' = Dead(calls)
    /\ chosen' = form.payload
    /\ Cross(reads \cup calls)
    /\ form' = Empty
    /\ IF needsKey
       THEN error' = FALSE /\ reads' = Dead(reads)
       ELSE IF TooBig("geometry", form.payload)
            THEN error' = TRUE /\ reads' = Dead(reads)
            ELSE error' = FALSE /\ reads' = Dead(reads) \cup {Reading("geometry", form.payload)}
    /\ UNCHANGED <<config, needsKey, page, sent, store, shown, opened>>

-----------------------------------------------------------------------------
(* The user moves between the pages *)

\* Mutant: the button leaves what it had open behind.
LeftBehind ==
    /\ page.at # "home" /\ Leave(At("home"))
    /\ shown' = None /\ opened' = None /\ Cross(calls)
    /\ UNCHANGED <<config, needsKey, calls, sent, store>>

\* leaveToHome, of the page of a result and of the local one.
LeaveToHome ==
    /\ page.at # "home" /\ Leave(At("home"))
    /\ store' = IF page.at = "local" THEN None ELSE store
    /\ opened' = IF page.at = "local" THEN None ELSE opened
    /\ shown' = None /\ Cross(calls)
    /\ UNCHANGED <<config, needsKey, calls, sent>>

\* Back and forward in the browser.
Back ==
    /\ page.at # "home" /\ Leave(At("home"))
    /\ shown' = None /\ Cross(calls)
    /\ UNCHANGED <<config, needsKey, calls, sent, store, opened>>

Forward ==
    /\ page.at # "local" /\ VisitLocal(store) /\ Cross(calls)
    /\ UNCHANGED <<config, needsKey, sent, opened>>

\* The document is loaded again: its requests and what it kept are lost.
Reload ==
    /\ Leave(page)
    /\ calls' = {} /\ store' = None /\ shown' = None /\ opened' = None
    /\ config' \in ConfigChoices /\ needsKey' \in BOOLEAN
    /\ UNCHANGED <<sent, crossed>>

Next ==
    \/ \E t \in Tab : SwitchTab(t)
    \/ DismissError \/ Clear \/ Analyze
    \/ \E f \in File : ChooseFile(f)
    \/ \E r \in reads : ReadOk(r) \/ ReadBad(r)
    \/ \E n \in 0..MaxTyped : Type(n)
    \/ \E c \in calls : SubmitOk(c) \/ SubmitBad(c)
    \/ OpenLocal \/ ContinueToSubmit
    \/ LeaveToHome \/ Back \/ Forward \/ Reload

Spec == Init /\ [][Next]_vars

-----------------------------------------------------------------------------
(* Properties *)

\* The file whose name a form shows is the one it would submit or open.  Once
\* the last file chosen in it has been read, the form shows that one or none, as
\* long as no file was chosen, typed over or cleared while one was being read.
ShownIsChosen ==
    LET settled == ~crossed /\ \A r \in reads : ~r.live
    IN  /\ form.name # None => form.payload = form.name
        /\ settled => form.name \in {None, chosen}
        /\ settled /\ tab # "geoids" => form.payload = form.name

\* Whether a job is queued or run at once is decided by the number of what is
\* sent: its own file, or its own ids.
SentAsCounted ==
    \A c \in calls :
        c.async <=> (IF c.payload \in File THEN Parsed(c.tab, c.payload) ELSE c.payload)
                        > config.threshold

\* The page of a job is the one of the last submission, unless the user went
\* elsewhere while one was on its way.
LastIsShown == page.at = "job" /\ ~crossed => page.job = sent

\* The local page shows what was opened last and not closed since, and only
\* results of the version that the app uses.
LocalIsOpened ==
    page.at = "local" /\ shown # None =>
        shown = opened /\ VersionsMatch(shown)

\* What is shown, counted and opened is what was chosen.
SubmissionSafe == ShownIsChosen /\ SentAsCounted /\ LastIsShown /\ LocalIsOpened

=============================================================================
