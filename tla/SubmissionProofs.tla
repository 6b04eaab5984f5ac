-------------------------- MODULE SubmissionProofs --------------------------
(***************************************************************************)
(* Proofs about the home page and its submissions, for any files, any      *)
(* number of them read and submitted at one time, and any configuration;   *)
(* and about the checks of a request, for geometries that are nested in    *)
(* whatever way.                                                           *)
(***************************************************************************)
EXTENDS Submission, SubmitChecks, ListsProofs, TLAPS

Payload == File \cup Nat \cup {None}

Shape ==
    /\ tab \in Tab /\ sent \in Nat /\ crossed \in BOOLEAN
    /\ form = [name |-> form.name, payload |-> form.payload,
               count |-> form.count, loading |-> form.loading]
    /\ form.name \in File \cup {None} /\ form.payload \in Payload
    /\ form.loading \in BOOLEAN
    /\ reads \subseteq [tab : Tab, file : File, live : BOOLEAN]
    /\ calls \subseteq [id : Nat, live : BOOLEAN, tab : Tab, payload : File \cup Nat,
                        async : BOOLEAN]

\* How many are sent with a payload.
CountOf(t, p) == IF p \in File THEN Parsed(t, p) ELSE p

\* A form counts what it holds, and except for geo ids it names what it holds.
FormInv ==
    /\ form.payload # None => form.count = CountOf(tab, form.payload)
    /\ form.name # None => form.payload = form.name
    /\ tab # "geoids" => form.payload = form.name
    /\ tab = "open" => ~form.loading

\* The reads that can still change the form are of its tab.  If nothing was crossed,
\* they are of the file chosen last, and without them it is this file that is shown.
ReadsInv ==
    /\ \A r \in reads : r.live => r.tab = tab
    /\ ~crossed =>
          /\ \A r \in reads : r.live => r.file = chosen
          /\ (\A r \in reads : ~r.live) => form.name \in {None, chosen}

\* If nothing was crossed, there is one submission at most, the last one, and the form
\* that sent it waits for it.
CallsInv ==
    /\ SentAsCounted
    /\ ~crossed =>
          /\ \A c, d \in calls : c = d
          /\ \A c \in calls : c.id = sent /\ page.at = "home" /\ form.loading
    /\ LastIsShown

\* The result that is kept is the one that was opened last.
LocalInv ==
    /\ store # None => store = opened
    /\ LocalIsOpened

SubmitInv == Shape /\ FormInv /\ ReadsInv /\ CallsInv /\ LocalInv

LEMMA InitSubmitInv == Init => SubmitInv
<1> SUFFICES ASSUME Init PROVE SubmitInv
  OBVIOUS
<1>1. Shape
  BY SubmissionAssumption DEF Init, Shape, Empty, Payload, Tab
<1>2. FormInv /\ ReadsInv
  BY DEF Init, FormInv, ReadsInv, Empty
<1>3. CallsInv
  BY DEF Init, CallsInv, SentAsCounted, LastIsShown, At
<1>4. LocalInv
  BY DEF Init, LocalInv, LocalIsOpened, At
<1> QED
  BY <1>1, <1>2, <1>3, <1>4 DEF SubmitInv

\* What is on its way to a form that is left: it no longer lives, and is the same
\* otherwise.
LEMMA DeadReads ==
  ASSUME Shape
  PROVE  /\ Dead(reads) \subseteq [tab : Tab, file : File, live : BOOLEAN]
         /\ \A r \in Dead(reads) : ~r.live
  BY DEF Shape, Dead

LEMMA DeadCalls ==
  ASSUME Shape, NEW S \in SUBSET calls
  PROVE  /\ Dead(S) \subseteq [id : Nat, live : BOOLEAN, tab : Tab, payload : File \cup Nat,
                               async : BOOLEAN]
         /\ \A c \in Dead(S) : \E d \in S :
               /\ c.id = d.id /\ c.tab = d.tab /\ c.payload = d.payload /\ c.async = d.async
               /\ S = {d} => Dead(S) = {c}
         /\ S = {} => Dead(S) = {}
<1> DEFINE Known == [id : Nat, live : BOOLEAN, tab : Tab, payload : File \cup Nat,
                    async : BOOLEAN]
<1>0. S \subseteq Known
  BY DEF Shape
<1>1. ASSUME NEW d \in S
      PROVE  /\ [d EXCEPT !.live = FALSE] \in Known
             /\ LET c == [d EXCEPT !.live = FALSE]
                IN  c.id = d.id /\ c.tab = d.tab /\ c.payload = d.payload /\ c.async = d.async
  <2>1. d \in Known
    BY <1>0
  <2> QED
    BY <2>1
<1>2. Dead(S) \subseteq Known
  BY <1>1 DEF Dead
<1>3. ASSUME NEW c \in Dead(S)
      PROVE  \E d \in S :
               /\ c.id = d.id /\ c.tab = d.tab /\ c.payload = d.payload /\ c.async = d.async
               /\ S = {d} => Dead(S) = {c}
  <2>1. PICK d \in S : c = [d EXCEPT !.live = FALSE]
    BY DEF Dead
  <2>2. c.id = d.id /\ c.tab = d.tab /\ c.payload = d.payload /\ c.async = d.async
    BY <2>1, <1>1
  <2>3. S = {d} => Dead(S) = {c}
    BY <2>1 DEF Dead
  <2> QED
    BY <2>2, <2>3
<1>4. S = {} => Dead(S) = {}
  BY DEF Dead
<1> QED
  BY <1>2, <1>3, <1>4

-----------------------------------------------------------------------------
(* The steps that keep the page, the submissions and the results *)

LEMMA ReadStep ==
  ASSUME SubmitInv, NEW r \in reads, ReadOk(r) \/ ReadBad(r)
  PROVE  SubmitInv'
<1> USE DEF Unchosen, past
<1>1. /\ reads' = reads \ {r}
      /\ UNCHANGED <<config, page, tab, calls, sent, store, shown, chosen, opened, crossed>>
  BY DEF ReadOk, ReadBad
<1>2. r \in [tab : Tab, file : File, live : BOOLEAN]
  BY DEF SubmitInv, Shape
<1>3. /\ form'.loading = form.loading
      /\ form' = [name |-> form'.name, payload |-> form'.payload,
                  count |-> form'.count, loading |-> form'.loading]
      /\ form'.name \in {None, form.name, r.file}
      /\ form'.payload \in {None, form.payload, r.file}
  BY DEF ReadOk, ReadBad, Refused, SubmitInv, Shape
<1>4. ~r.live => form' = form
  BY DEF ReadOk, ReadBad
<1>5. r.live => \/ form'.name = r.file /\ form'.payload = r.file
                   /\ form'.count = Parsed(r.tab, r.file)
                \/ form'.name = None /\ form'.payload = None
                \/ form'.name = None /\ r.tab = "geoids"
                   /\ form'.payload = form.payload /\ form'.count = form.count
  BY DEF ReadOk, ReadBad, Refused, SubmitInv, Shape
<1>6. Shape'
  BY <1>1, <1>2, <1>3 DEF SubmitInv, Shape, Payload
<1>7. FormInv'
  BY <1>1, <1>2, <1>3, <1>4, <1>5, SubmissionAssumption DEF SubmitInv, FormInv, ReadsInv, CountOf
<1>8. ReadsInv'
  BY <1>1, <1>2, <1>4, <1>5 DEF SubmitInv, ReadsInv
<1>9. CallsInv' /\ LocalInv'
  BY <1>1, <1>3 DEF SubmitInv, CallsInv, SentAsCounted, LastIsShown, LocalInv, LocalIsOpened,
                    VersionsMatch
<1> QED
  BY <1>6, <1>7, <1>8, <1>9 DEF SubmitInv

\* The user changes what the form holds, or asks for a file.
LEMMA EditStep ==
  ASSUME SubmitInv,
         \/ \E f \in File : ChooseFile(f)
         \/ \E n \in 0..MaxTyped : Type(n)
         \/ Clear
  PROVE  SubmitInv'
<1>1. /\ crossed' = (crossed \/ reads # {})
      /\ form'.loading = form.loading
      /\ UNCHANGED <<config, page, tab, calls, sent, store, shown, opened>>
  BY DEF ChooseFile, Type, Clear, Cross, Refused, SubmitInv, Shape, Empty
<1>2. CallsInv' /\ LocalInv'
  BY <1>1 DEF SubmitInv, Shape, CallsInv, SentAsCounted, LastIsShown, LocalInv, LocalIsOpened,
              VersionsMatch
<1>3. ASSUME NEW f \in File, ChooseFile(f) PROVE Shape' /\ FormInv' /\ ReadsInv'
  <2>1. CASE TooBig(tab, f)
    <3>1. form' = Refused(tab) /\ UNCHANGED <<reads, tab>> /\ chosen' = f
      BY <1>3, <2>1 DEF ChooseFile
    <3>2. Shape'
      BY <1>1, <3>1 DEF SubmitInv, Shape, Refused, Payload
    <3>3. FormInv'
      BY <1>1, <3>1 DEF SubmitInv, Shape, FormInv, Refused
    <3>4. ReadsInv'
      BY <1>1, <3>1 DEF SubmitInv, Shape, ReadsInv, Refused
    <3> QED
      BY <3>2, <3>3, <3>4
  <2>2. CASE ~TooBig(tab, f)
    <3>0. /\ Reading(tab, f) \in [tab : Tab, file : File, live : BOOLEAN]
          /\ Reading(tab, f).live /\ Reading(tab, f).tab = tab /\ Reading(tab, f).file = f
      BY DEF Reading, SubmitInv, Shape
    <3>1. /\ reads' = reads \cup {Reading(tab, f)} /\ UNCHANGED <<form, tab>> /\ chosen' = f
      BY <1>3, <2>2 DEF ChooseFile
    <3>2. Shape'
      BY <1>1, <3>0, <3>1 DEF SubmitInv, Shape, Payload
    <3>3. FormInv'
      BY <1>1, <3>1 DEF SubmitInv, FormInv
    <3>4. ReadsInv'
      BY <1>1, <3>0, <3>1 DEF SubmitInv, Shape, ReadsInv
    <3> QED
      BY <3>2, <3>3, <3>4
  <2> QED
    BY <2>1, <2>2
<1>4. ASSUME NEW n \in 0..MaxTyped, Type(n) PROVE Shape' /\ FormInv' /\ ReadsInv'
  <2>1. /\ form' = [form EXCEPT !.name = None, !.payload = IF n = 0 THEN None ELSE n,
                                !.count = n]
        /\ tab = "geoids" /\ UNCHANGED <<reads, tab>> /\ chosen' = None
    BY <1>4 DEF Type
  <2>2. n \in Nat /\ n # None /\ n \notin File
    BY SubmissionAssumption
  <2>3. Shape'
    BY <1>1, <2>1, <2>2 DEF SubmitInv, Shape, Payload
  <2>4. FormInv'
    BY <1>1, <2>1, <2>2 DEF SubmitInv, Shape, FormInv, CountOf
  <2>5. ReadsInv'
    BY <1>1, <2>1 DEF SubmitInv, Shape, ReadsInv
  <2> QED
    BY <2>3, <2>4, <2>5
<1>5. ASSUME Clear PROVE Shape' /\ FormInv' /\ ReadsInv'
  <2>1. /\ form' = [Empty EXCEPT !.loading = form.loading]
        /\ UNCHANGED <<reads, tab>> /\ chosen' = None
    BY <1>5 DEF Clear
  <2>2. Shape'
    BY <1>1, <2>1 DEF SubmitInv, Shape, Payload, Empty
  <2>3. FormInv'
    BY <1>1, <2>1 DEF SubmitInv, Shape, FormInv, Empty
  <2>4. ReadsInv'
    BY <1>1, <2>1 DEF SubmitInv, Shape, ReadsInv, Empty
  <2> QED
    BY <2>2, <2>3, <2>4
<1>6. Shape' /\ FormInv' /\ ReadsInv'
  <2>1. CASE \E f \in File : ChooseFile(f)
    BY <2>1, <1>3
  <2>2. CASE \E n \in 0..MaxTyped : Type(n)
    BY <2>2, <1>4
  <2> QED
    BY <2>1, <2>2, <1>5
<1> QED
  BY <1>2, <1>6 DEF SubmitInv

LEMMA DismissStep == ASSUME SubmitInv, DismissError PROVE SubmitInv'
<1>1. UNCHANGED <<config, page, tab, form, reads, calls, sent, store, shown, chosen, opened,
                  crossed>>
  BY DEF DismissError, past
<1>2. Shape' /\ FormInv' /\ ReadsInv'
  BY <1>1 DEF SubmitInv, Shape, FormInv, ReadsInv
<1>3. CallsInv' /\ LocalInv'
  BY <1>1 DEF SubmitInv, CallsInv, SentAsCounted, LastIsShown, LocalInv, LocalIsOpened,
              VersionsMatch
<1> QED
  BY <1>2, <1>3 DEF SubmitInv

-----------------------------------------------------------------------------
(* Submissions *)

LEMMA AnalyzeStep == ASSUME SubmitInv, Analyze PROVE SubmitInv'
<1>1. /\ HasForm /\ tab # "open" /\ form.payload # None /\ ~form.loading
      /\ UNCHANGED <<config, page, tab, reads, store, shown, chosen, opened, crossed>>
  BY DEF Analyze, CanAnalyze, past
<1>2. LocalInv'
  BY <1>1 DEF SubmitInv, LocalInv, LocalIsOpened, VersionsMatch
<1>3. CASE UNCHANGED <<form, calls, sent>>
  BY <1>1, <1>2, <1>3 DEF SubmitInv, Shape, FormInv, ReadsInv, CallsInv, SentAsCounted,
                          LastIsShown
<1>4. CASE ~UNCHANGED <<form, calls, sent>>
  <2> DEFINE new == [id |-> sent + 1, live |-> TRUE, tab |-> tab, payload |-> form.payload,
                     async |-> form.count > config.threshold]
  <2>1. /\ sent' = sent + 1 /\ calls' = calls \cup {new}
        /\ form' = [form EXCEPT !.loading = TRUE]
    BY <1>4 DEF Analyze
  <2>2. new \in [id : Nat, live : BOOLEAN, tab : Tab, payload : File \cup Nat, async : BOOLEAN]
    BY <1>1 DEF SubmitInv, Shape, Payload
  <2>3. Shape'
    BY <1>1, <2>1, <2>2 DEF SubmitInv, Shape
  <2>4. FormInv' /\ ReadsInv'
    BY <1>1, <2>1 DEF SubmitInv, Shape, FormInv, ReadsInv
  <2>5. SentAsCounted'
    <3>1. form.count = CountOf(tab, form.payload)
      BY <1>1 DEF SubmitInv, FormInv
    <3>2. new.async <=> CountOf(new.tab, new.payload) > config.threshold
      BY <3>1
    <3>3. \A c \in calls : c.async <=> CountOf(c.tab, c.payload) > config.threshold
      BY DEF SubmitInv, CallsInv, SentAsCounted, CountOf
    <3> QED
      BY <1>1, <2>1, <3>2, <3>3 DEF SentAsCounted, CountOf
  <2>6. page.at = "home"
    BY <1>1 DEF HasForm
  <2>7. ~crossed => calls = {}
    BY <1>1 DEF SubmitInv, CallsInv
  <2>8. CallsInv'
    <3>1. ~crossed' => calls' = {new}
      BY <1>1, <2>1, <2>7
    <3>2. form'.loading
      BY <2>1 DEF SubmitInv, Shape
    <3>3. page'.at = "home" /\ sent' = new.id
      BY <1>1, <2>1, <2>6
    <3> QED
      BY <2>5, <3>1, <3>2, <3>3 DEF CallsInv, LastIsShown
  <2> QED
    BY <1>2, <2>3, <2>4, <2>8 DEF SubmitInv
<1> QED
  BY <1>3, <1>4

LEMMA SubmitBadStep == ASSUME SubmitInv, NEW c \in calls, SubmitBad(c) PROVE SubmitInv'
<1>1. /\ calls' = calls \ {c}
      /\ form' = IF c.live THEN [form EXCEPT !.loading = FALSE] ELSE form
      /\ UNCHANGED <<config, page, tab, reads, sent, store, shown, chosen, opened, crossed>>
  BY DEF SubmitBad, past
<1>2. Shape' /\ FormInv' /\ ReadsInv' /\ LocalInv'
  BY <1>1 DEF SubmitInv, Shape, FormInv, ReadsInv, LocalInv, LocalIsOpened, VersionsMatch
<1>3. SentAsCounted' /\ LastIsShown'
  BY <1>1 DEF SubmitInv, CallsInv, SentAsCounted, LastIsShown
<1>4. ~crossed => calls' = {}
  BY <1>1 DEF SubmitInv, CallsInv
<1> QED
  BY <1>1, <1>2, <1>3, <1>4 DEF SubmitInv, CallsInv

-----------------------------------------------------------------------------
(* The steps that take another page or tab *)

\* A form that begins afresh, beside reads that no longer live.
LEMMA FreshForm ==
  ASSUME form' = Empty, tab' \in Tab, sent' \in Nat, crossed' \in BOOLEAN,
         reads' \subseteq [tab : Tab, file : File, live : BOOLEAN],
         \A r \in reads' : r.live => r.tab = tab' /\ (~crossed' => r.file = chosen'),
         calls' \subseteq [id : Nat, live : BOOLEAN, tab : Tab, payload : File \cup Nat,
                           async : BOOLEAN]
  PROVE  Shape' /\ FormInv' /\ ReadsInv'
<1>1. Shape'
  BY DEF Shape, Empty, Payload
<1>2. FormInv'
  BY DEF FormInv, Empty
<1>3. ReadsInv'
  BY DEF ReadsInv, Empty
<1> QED
  BY <1>1, <1>2, <1>3

\* The submissions S that are left behind are counted as before.
LEMMA LeftCalls ==
  ASSUME SubmitInv, NEW S \in SUBSET calls, calls' = Dead(S),
         UNCHANGED <<config, sent>>
  PROVE  /\ calls' \subseteq [id : Nat, live : BOOLEAN, tab : Tab, payload : File \cup Nat,
                              async : BOOLEAN]
         /\ SentAsCounted'
<1>1. SubmitInv => Shape
  BY DEF SubmitInv
<1>2. calls' \subseteq [id : Nat, live : BOOLEAN, tab : Tab, payload : File \cup Nat,
                        async : BOOLEAN]
  BY <1>1, DeadCalls
<1>3. \A c \in calls' : \E d \in S : c.tab = d.tab /\ c.payload = d.payload /\ c.async = d.async
  BY <1>1, DeadCalls
<1>4. SentAsCounted'
  BY <1>3 DEF SubmitInv, CallsInv, SentAsCounted
<1> QED
  BY <1>2, <1>4

LEMMA TabStep ==
  ASSUME SubmitInv, (\E t \in Tab : SwitchTab(t)) \/ ContinueToSubmit PROVE SubmitInv'
<1>1. /\ form' = Empty /\ tab' \in Tab /\ calls' = Dead(calls)
      /\ crossed' = (crossed \/ reads \cup calls # {})
      /\ page.at = "home"
      /\ UNCHANGED <<config, page, sent, store, shown, opened>>
  BY DEF SwitchTab, ContinueToSubmit, NeedsRerun, HasForm, Enter, Cross, Tab
<1>2. /\ reads' \subseteq [tab : Tab, file : File, live : BOOLEAN]
      /\ \A r \in reads' : r.live => r.tab = tab' /\ r.file = chosen'
  <2>0. /\ Dead(reads) \subseteq [tab : Tab, file : File, live : BOOLEAN]
        /\ \A r \in Dead(reads) : ~r.live
    BY DeadReads DEF SubmitInv
  <2>1. CASE \E t \in Tab : SwitchTab(t)
    BY <2>0, <2>1 DEF SwitchTab
  <2>2. CASE ContinueToSubmit
    <3>1. form.payload \in File
      BY <2>2 DEF ContinueToSubmit, NeedsRerun, SubmitInv, Shape, FormInv
    <3>2. /\ Reading("geometry", form.payload) \in [tab : Tab, file : File, live : BOOLEAN]
          /\ Reading("geometry", form.payload).tab = "geometry"
          /\ Reading("geometry", form.payload).file = form.payload
      BY <3>1 DEF Reading, Tab
    <3>3. /\ tab' = "geometry" /\ chosen' = form.payload
          /\ \/ reads' = Dead(reads)
             \/ reads' = Dead(reads) \cup {Reading("geometry", form.payload)}
      BY <2>2 DEF ContinueToSubmit
    <3> QED
      BY <2>0, <3>2, <3>3
  <2> QED
    BY <2>1, <2>2
<1>3. /\ calls' \subseteq [id : Nat, live : BOOLEAN, tab : Tab, payload : File \cup Nat,
                           async : BOOLEAN]
      /\ SentAsCounted'
  BY <1>1, LeftCalls
<1>4. Shape' /\ FormInv' /\ ReadsInv'
  BY <1>1, <1>2, <1>3, FreshForm DEF SubmitInv, Shape
<1>5. ~crossed' => calls' = {}
  BY <1>1, DeadCalls DEF SubmitInv
<1>6. CallsInv'
  BY <1>1, <1>3, <1>5 DEF CallsInv, LastIsShown
<1>7. LocalInv'
  BY <1>1 DEF SubmitInv, LocalInv, LocalIsOpened, VersionsMatch
<1> QED
  BY <1>4, <1>6, <1>7 DEF SubmitInv

\* What Leave, the submissions S that go on and the rest of the step come to.
LEMMA LeaveStep ==
  ASSUME SubmitInv, NEW p, Leave(p), NEW S \in SUBSET calls, calls' \in {S, Dead(S)},
         S = {} \/ UNCHANGED config, UNCHANGED sent, crossed' \in BOOLEAN,
         ~crossed' => /\ S = {}
                      /\ p.at = "job" => p.job = sent
  PROVE  Shape' /\ FormInv' /\ ReadsInv' /\ CallsInv'
<1>1. /\ page' = p /\ tab' = "geometry" /\ form' = Empty /\ reads' = {} /\ chosen' = None
  BY DEF Leave
<1>2. S = {} => Dead(S) = {}
  BY DEF Dead
<1>3. /\ calls' \subseteq [id : Nat, live : BOOLEAN, tab : Tab, payload : File \cup Nat,
                           async : BOOLEAN]
      /\ SentAsCounted'
  <2>1. CASE calls' = {}
    BY <2>1 DEF SentAsCounted
  <2>2. CASE calls' = S /\ UNCHANGED config
    BY <2>2 DEF SubmitInv, Shape, CallsInv, SentAsCounted
  <2>3. CASE calls' = Dead(S) /\ UNCHANGED config
    BY <2>3, LeftCalls
  <2> QED
    BY <1>2, <2>1, <2>2, <2>3
<1>4. Shape' /\ FormInv' /\ ReadsInv'
  BY <1>1, <1>3, FreshForm DEF SubmitInv, Shape, Tab
<1>5. CallsInv'
  BY <1>1, <1>2, <1>3 DEF CallsInv, LastIsShown
<1> QED
  BY <1>4, <1>5

LEMMA PageStep ==
  ASSUME SubmitInv,
         \/ \E c \in calls : SubmitOk(c)
         \/ OpenLocal \/ LeaveToHome \/ Back \/ Forward \/ Reload
  PROVE  SubmitInv'
<1>0. /\ crossed \in BOOLEAN /\ calls \in SUBSET calls /\ {} \in SUBSET calls
      /\ Dead({}) = {}
  BY DEF SubmitInv, Shape, Dead
<1>1. ASSUME NEW c \in calls, SubmitOk(c) PROVE SubmitInv'
  <2> DEFINE p == [at |-> "job", job |-> c.id]
  <2>1. /\ Leave(p) /\ calls' = Dead(calls \ {c})
        /\ UNCHANGED <<config, sent, store, shown, opened, crossed>>
    BY <1>1 DEF SubmitOk
  <2>2. ~crossed => calls \ {c} = {} /\ p.job = sent
    BY DEF SubmitInv, CallsInv
  <2>3. Shape' /\ FormInv' /\ ReadsInv' /\ CallsInv'
    BY <1>0, <2>1, <2>2, LeaveStep
  <2>4. LocalInv'
    BY <2>1 DEF SubmitInv, LocalInv, LocalIsOpened, Leave
  <2> QED
    BY <2>3, <2>4 DEF SubmitInv
<1>2. ASSUME NEW kept, VisitLocal(kept), UNCHANGED <<config, sent>>,
             crossed' \in BOOLEAN, ~crossed' => calls = {},
             kept # None => opened' = kept
      PROVE  SubmitInv'
  <2>1. Leave(At("local")) /\ calls' = Dead(calls)
    BY <1>2 DEF VisitLocal
  <2>2. Shape' /\ FormInv' /\ ReadsInv' /\ CallsInv'
    BY <1>0, <1>2, <2>1, LeaveStep DEF At
  <2>3. /\ store' # None => store' = kept
        /\ shown' # None => shown' = kept /\ VersionsMatch(kept)
    BY <1>2 DEF VisitLocal
  <2>4. LocalInv'
    BY <1>2, <2>3 DEF LocalInv, LocalIsOpened, VersionsMatch
  <2> QED
    BY <2>2, <2>4 DEF SubmitInv
<1>3. CASE OpenLocal
  <2>1. ~crossed => calls = {}
    BY <1>3 DEF OpenLocal, CanOpen, SubmitInv, CallsInv, FormInv
  <2> QED
    BY <1>0, <1>2, <1>3, <2>1 DEF OpenLocal
<1>4. CASE Forward
  <2>1. store # None => store = opened
    BY DEF SubmitInv, LocalInv
  <2> QED
    BY <1>0, <1>2, <1>4, <2>1 DEF Forward, Cross
<1>5. CASE LeaveToHome \/ Back
  <2>1. /\ Leave(At("home")) /\ shown' = None
        /\ crossed' = (crossed \/ calls # {})
        /\ store' # None => store' = store /\ opened' = opened
        /\ UNCHANGED <<config, calls, sent>>
    BY <1>5 DEF LeaveToHome, Back, Cross
  <2>2. Shape' /\ FormInv' /\ ReadsInv' /\ CallsInv'
    <3>1. crossed' \in BOOLEAN /\ (~crossed' => calls = {}) /\ At("home").at # "job"
      BY <1>0, <2>1 DEF At
    <3> QED
      BY <1>0, <2>1, <3>1, LeaveStep
  <2>3. LocalInv'
    BY <2>1 DEF SubmitInv, LocalInv, LocalIsOpened
  <2> QED
    BY <2>2, <2>3 DEF SubmitInv
<1>6. CASE Reload
  <2>1. /\ Leave(page) /\ calls' = {} /\ shown' = None /\ store' = None
        /\ UNCHANGED <<sent, crossed>>
    BY <1>6 DEF Reload
  <2>2. ~crossed /\ page.at = "job" => page.job = sent
    BY DEF SubmitInv, CallsInv, LastIsShown
  <2>3. Shape' /\ FormInv' /\ ReadsInv' /\ CallsInv'
    <3>1. crossed' \in BOOLEAN /\ (~crossed' /\ page.at = "job" => page.job = sent)
      BY <1>0, <2>1, <2>2
    <3>2. {} \in SUBSET calls /\ calls' \in {{}, Dead({})}
      BY <2>1
    <3> QED
      BY <2>1, <3>1, <3>2, LeaveStep
  <2>4. LocalInv'
    BY <2>1 DEF LocalInv, LocalIsOpened
  <2> QED
    BY <2>3, <2>4 DEF SubmitInv
<1> QED
  BY <1>1, <1>3, <1>4, <1>5, <1>6

LEMMA NextSubmitInv == SubmitInv /\ [Next]_vars => SubmitInv'
<1> SUFFICES ASSUME SubmitInv, [Next]_vars PROVE SubmitInv'
  OBVIOUS
<1>1. CASE Next
  BY <1>1, ReadStep, EditStep, DismissStep, AnalyzeStep, SubmitBadStep, TabStep, PageStep
     DEF Next
<1>2. CASE UNCHANGED vars
  BY <1>2 DEF vars, home, past, SubmitInv, Shape, FormInv, ReadsInv, CallsInv, SentAsCounted,
              LastIsShown, LocalInv, LocalIsOpened, VersionsMatch
<1> QED
  BY <1>1, <1>2

LEMMA SubmitInvHolds == Spec => []SubmitInv
  BY InitSubmitInv, NextSubmitInv, PTL DEF Spec

-----------------------------------------------------------------------------

\* The file whose name a form shows is the one it would submit or open, and the last
\* one chosen, in whatever order files are read.
THEOREM ShownIsChosenHolds == Spec => []ShownIsChosen
<1>1. SubmitInv => ShownIsChosen
  BY DEF SubmitInv, FormInv, ReadsInv, ShownIsChosen
<1> QED
  BY <1>1, SubmitInvHolds, PTL

\* A submission is queued, or run at once, by the number of what it sends.
THEOREM SentAsCountedHolds == Spec => []SentAsCounted
<1>1. SubmitInv => SentAsCounted
  BY DEF SubmitInv, CallsInv
<1> QED
  BY <1>1, SubmitInvHolds, PTL

\* The page of a job that opens is that of the last submission, unless the user went
\* elsewhere while one was on its way.
THEOREM LastIsShownHolds == Spec => []LastIsShown
<1>1. SubmitInv => LastIsShown
  BY DEF SubmitInv, CallsInv
<1> QED
  BY <1>1, SubmitInvHolds, PTL

\* The local page shows what was opened last and not closed since, of the version of
\* the app, by whatever links, buttons and reloads it is reached.
THEOREM LocalIsOpenedHolds == Spec => []LocalIsOpened
<1>1. SubmitInv => LocalIsOpened
  BY DEF SubmitInv, LocalInv
<1> QED
  BY <1>1, SubmitInvHolds, PTL

\* All of it together.
THEOREM SubmissionSafeHolds == Spec => []SubmissionSafe
BY ShownIsChosenHolds, SentAsCountedHolds, LastIsShownHolds, LocalIsOpenedHolds, PTL
   DEF SubmissionSafe

-----------------------------------------------------------------------------
(* Geometries within geometries *)

\* What Gather makes of a geometry, from what it makes of the members.
Gathered(of, entries, h) ==
    IF h.type = "GeometryCollection"
    THEN Flatten([k \in DOMAIN h.coords |-> of[h.coords[k]]])
    ELSE entries[h]

\* The members of a collection are geometries, and less deep.
LEMMA MembersAreLess ==
  ASSUME NEW h \in Geometry, h.type = "GeometryCollection"
  PROVE  /\ h.coords \in Seq(Geometry)
         /\ \A k \in DOMAIN h.coords : Nesting[h.coords[k]] < Nesting[h]
<1>1. h.coords \in CoordsOf(h.type)
  BY GeometryAssumption
<1>2. CoordsOf("GeometryCollection") = Seq(Geometry)
  BY DEF CoordsOf, Simple
<1> QED
  BY <1>1, <1>2, GeometryAssumption

LEMMA NestingIsNat ==
  /\ MaxNesting \in Nat
  /\ \A h \in Geometry : Nesting[h] \in Nat /\ Nesting[h] <= MaxNesting
BY GeometryAssumption

\* Induction over geometries, from the members to the collection.
LEMMA GeometryInduction ==
  ASSUME NEW P,
         \A h \in Geometry :
            (\A m \in Geometry : Nesting[m] < Nesting[h] => m \in P) => h \in P
  PROVE  Geometry \subseteq P
<1> DEFINE T == {n \in Nat : \A h \in Geometry : Nesting[h] < n => h \in P}
<1>1. 0 \in T
  BY NestingIsNat
<1>2. ASSUME NEW n \in Nat, n \in T PROVE n + 1 \in T
  <2>1. ASSUME NEW h \in Geometry, Nesting[h] < n + 1 PROVE h \in P
    <3>1. \A m \in Geometry : Nesting[m] < Nesting[h] => Nesting[m] < n
      BY <2>1, NestingIsNat
    <3>2. \A m \in Geometry : Nesting[m] < Nesting[h] => m \in P
      BY <1>2, <3>1
    <3> QED
      BY <3>2
  <2> QED
    BY <2>1
<1>3. Nat \subseteq T
  <2> HIDE DEF T
  <2> QED
    BY <1>1, <1>2, SetInduction
<1>4. MaxNesting + 1 \in T
  <2> HIDE DEF T
  <2> QED
    BY <1>3, NestingIsNat
<1>5. \A h \in Geometry : Nesting[h] < MaxNesting + 1
  BY NestingIsNat
<1> QED
  BY <1>4, <1>5

\* The members have what they make if the less deep ones have.
LEMMA GatheredType ==
  ASSUME NEW A, NEW entries, NEW of, NEW h \in Geometry,
         h.type # "GeometryCollection" => entries[h] \in Seq(A),
         \A m \in Geometry : Nesting[m] < Nesting[h] => of[m] \in Seq(A)
  PROVE  Gathered(of, entries, h) \in Seq(A)
<1>1. CASE h.type = "GeometryCollection"
  <2> DEFINE made == [k \in DOMAIN h.coords |-> of[h.coords[k]]]
  <2>1. h.coords \in Seq(Geometry) /\ \A k \in DOMAIN h.coords : Nesting[h.coords[k]] < Nesting[h]
    BY <1>1, MembersAreLess
  <2>2. /\ Len(h.coords) \in Nat /\ DOMAIN h.coords = 1..Len(h.coords)
        /\ \A k \in DOMAIN h.coords : h.coords[k] \in Geometry
    BY <2>1
  <2>3. \A k \in DOMAIN h.coords : of[h.coords[k]] \in Seq(A)
    BY <2>1, <2>2
  <2>4. made \in Seq(Seq(A))
    BY <2>2, <2>3
  <2>5. Flatten(made) \in Seq(A)
    BY <2>4, FlattenType
  <2> QED
    BY <1>1, <2>5 DEF Gathered
<1> QED
  BY <1>1 DEF Gathered

\* They make the same of the same.
LEMMA GatheredAlike ==
  ASSUME NEW entries, NEW of, NEW or, NEW h \in Geometry,
         \A m \in Geometry : Nesting[m] < Nesting[h] => of[m] = or[m]
  PROVE  Gathered(of, entries, h) = Gathered(or, entries, h)
<1>1. CASE h.type = "GeometryCollection"
  <2>1. h.coords \in Seq(Geometry) /\ \A k \in DOMAIN h.coords : Nesting[h.coords[k]] < Nesting[h]
    BY <1>1, MembersAreLess
  <2>2. \A k \in DOMAIN h.coords : h.coords[k] \in Geometry
    BY <2>1
  <2>3. \A k \in DOMAIN h.coords : of[h.coords[k]] = or[h.coords[k]]
    BY <2>1, <2>2
  <2>4. [k \in DOMAIN h.coords |-> of[h.coords[k]]] = [k \in DOMAIN h.coords |-> or[h.coords[k]]]
    BY <2>3
  <2> QED
    BY <1>1, <2>4 DEF Gathered
<1> QED
  BY <1>1 DEF Gathered

\* How Gather goes through a geometry.
EntriesIn(A, entries) ==
    \A h \in Geometry : h.type # "GeometryCollection" => entries[h] \in Seq(A)

GathersIn(A, entries) ==
    \E of \in [Geometry -> Seq(A)] :
       \A h \in Geometry : of[h] = Gathered(of, entries, h) /\ Gather(entries, h) = of[h]

LEMMA GatherSteps ==
  ASSUME NEW A, NEW entries, EntriesIn(A, entries)
  PROVE  GathersIn(A, entries)
<1> USE DEF EntriesIn, GathersIn
<1> DEFINE Upto(n, of) == \A h \in Geometry : Nesting[h] < n => of[h] = Gathered(of, entries, h)
           S == {n \in Nat : \E of \in [Geometry -> Seq(A)] : Upto(n, of)}
<1>1. 0 \in S
  <2> DEFINE of == [h \in Geometry |-> <<>>]
  <2>1. of \in [Geometry -> Seq(A)]
    OBVIOUS
  <2>2. Upto(0, of)
    BY NestingIsNat
  <2> QED
    BY <2>1, <2>2
<1>2. ASSUME NEW n \in Nat, n \in S PROVE n + 1 \in S
  <2>1. PICK of \in [Geometry -> Seq(A)] : Upto(n, of)
    BY <1>2
  <2> DEFINE or == [h \in Geometry |-> Gathered(of, entries, h)]
  <2>2. \A h \in Geometry : or[h] = Gathered(of, entries, h)
    OBVIOUS
  <2>3. or \in [Geometry -> Seq(A)]
    <3>1. ASSUME NEW h \in Geometry PROVE Gathered(of, entries, h) \in Seq(A)
      <4>1. \A m \in Geometry : of[m] \in Seq(A)
        OBVIOUS
      <4> QED
        BY <4>1, GatheredType
    <3> QED
      BY <3>1
  <2> HIDE DEF or
  <2>4. ASSUME NEW h \in Geometry, Nesting[h] < n + 1 PROVE or[h] = Gathered(or, entries, h)
    <3>1. ASSUME NEW m \in Geometry, Nesting[m] < Nesting[h] PROVE of[m] = or[m]
      <4>1. Nesting[m] < n
        BY <2>4, <3>1, NestingIsNat
      <4> QED
        BY <2>1, <2>2, <4>1
    <3>2. Gathered(of, entries, h) = Gathered(or, entries, h)
      BY <3>1, GatheredAlike
    <3> QED
      BY <2>2, <3>2
  <2>5. Upto(n + 1, or)
    BY <2>4
  <2> HIDE DEF Upto
  <2> QED
    BY <2>3, <2>5
<1>3. Nat \subseteq S
  <2> HIDE DEF S
  <2> QED
    BY <1>1, <1>2, SetInduction
<1> DEFINE Made(f) == f = [h \in Geometry |-> Gathered(f, entries, h)]
           c == CHOOSE f : Made(f)
<1>4. \E f : Made(f)
  <2>1. MaxNesting + 1 \in S
    <3> HIDE DEF S
    <3> QED
      BY <1>3, NestingIsNat
  <2>2. PICK of \in [Geometry -> Seq(A)] : Upto(MaxNesting + 1, of)
    BY <2>1
  <2>3. \A h \in Geometry : of[h] = Gathered(of, entries, h)
    <3>1. \A h \in Geometry : Nesting[h] < MaxNesting + 1
      BY NestingIsNat
    <3> QED
      BY <2>2, <3>1
  <2>4. of = [h \in Geometry |-> of[h]]
    OBVIOUS
  <2>5. of = [h \in Geometry |-> Gathered(of, entries, h)]
    BY <2>3, <2>4
  <2> QED
    BY <2>5
<1>5. Made(c)
  <2> HIDE DEF Made
  <2> QED
    BY <1>4
<1>6. \A h \in Geometry : Gather(entries, h) = c[h]
  BY Zenon DEF Gather, Gathered
<1> HIDE DEF c
<1>7. \A h \in Geometry : c[h] = Gathered(c, entries, h)
  BY <1>5
<1> DEFINE P == {h \in Geometry : c[h] \in Seq(A)}
<1>8. ASSUME NEW h \in Geometry, \A m \in Geometry : Nesting[m] < Nesting[h] => m \in P
      PROVE  h \in P
  <2>1. \A m \in Geometry : Nesting[m] < Nesting[h] => c[m] \in Seq(A)
    BY <1>8
  <2>2. Gathered(c, entries, h) \in Seq(A)
    BY <2>1, GatheredType
  <2> QED
    BY <1>7, <2>2
<1>9. Geometry \subseteq P
  <2> HIDE DEF P
  <2> QED
    BY <1>8, GeometryInduction
<1>10. c \in [Geometry -> Seq(A)]
  <2>1. c = [h \in Geometry |-> c[h]]
    BY <1>5
  <2> QED
    BY <1>9, <2>1
<1> QED
  BY <1>6, <1>7, <1>10

-----------------------------------------------------------------------------
(* What a geometry that is no collection is made of *)

AnyId == Id \cup {None}

\* The features whose positions are of the kinds in ps.
FeaturesWith(ps) ==
    [type : {"Point", "Polygon"}, coords : Seq(ps), id : AnyId]
    \cup [type : {"MultiPolygon"}, coords : Seq(Seq(ps)), id : AnyId]

\* The pairs of a feature, as a function.
KeptOf == [f \in FeaturesWith(Position) |-> PairsOf(f, f.id)]

LEMMA PlainShapes ==
  ASSUME NEW g \in Geometry, g.type # "GeometryCollection"
  PROVE  \/ g.coords \in Absent /\ g.type \in Simple \cup {"MultiPolygon", "MultiLineString"}
         \/ g.type \in Simple /\ g.coords \in Seq(Position)
         \/ g.type \in {"MultiPolygon", "MultiLineString"} /\ g.coords \in Seq(Seq(Position))
<1>1. g.type \in Simple \cup {"MultiPolygon", "MultiLineString"}
  BY GeometryAssumption DEF Simple, Supported
<1>2. g.coords \in CoordsOf(g.type)
  BY GeometryAssumption
<1>3. CASE g.type \in Simple
  <2>1. CoordsOf(g.type) = Seq(Position) \cup Absent
    BY <1>3 DEF CoordsOf, Simple
  <2> QED
    BY <1>1, <1>2, <1>3, <2>1
<1>4. CASE g.type \in {"MultiPolygon", "MultiLineString"}
  <2>1. g.type \notin Simple
    BY <1>4 DEF Simple
  <2>2. CoordsOf(g.type) = Seq(Seq(Position)) \cup Absent
    BY <1>4, <2>1 DEF CoordsOf
  <2> QED
    BY <1>1, <1>2, <1>4, <2>2
<1> QED
  BY <1>1, <1>3, <1>4

\* The positions of what has positions of the kinds in ps only.
LEMMA PositionsOfType ==
  ASSUME NEW ps, NEW g,
         \/ g.coords \in Absent
         \/ g.type \in Simple /\ g.coords \in Seq(ps)
         \/ g.type \notin Simple /\ g.coords \in Seq(Seq(ps))
  PROVE  PositionsOf(g) \in Seq(ps)
<1>1. CASE g.coords \in Absent
  <2>1. PositionsOf(g) = <<>>
    BY <1>1 DEF PositionsOf
  <2> QED
    BY <2>1
<1>2. CASE g.coords \notin Absent /\ g.type \in Simple
  <2>1. PositionsOf(g) = g.coords
    BY <1>2 DEF PositionsOf
  <2> QED
    BY <1>2, <2>1
<1>3. CASE g.coords \notin Absent /\ g.type \notin Simple
  <2>1. PositionsOf(g) = Flatten(g.coords)
    BY <1>3 DEF PositionsOf
  <2>2. g.coords \in Seq(Seq(ps))
    BY <1>3
  <2> QED
    BY <2>1, <2>2, FlattenType
<1> QED
  BY <1>1, <1>2, <1>3

LEMMA PlainPositions ==
  ASSUME NEW g \in Geometry, g.type # "GeometryCollection"
  PROVE  PositionsOf(g) \in Seq(Position)
<1>1. \A t \in {"MultiPolygon", "MultiLineString"} : t \notin Simple
  BY DEF Simple
<1> QED
  BY <1>1, PlainShapes, PositionsOfType

LEMMA FeaturesHaveShapes ==
  ASSUME NEW ps, NEW f \in FeaturesWith(ps)
  PROVE  /\ f.id \in AnyId
         /\ \/ f.type \in {"Point", "Polygon"} /\ f.coords \in Seq(ps)
            \/ f.type = "MultiPolygon" /\ f.coords \in Seq(Seq(ps))
BY DEF FeaturesWith

LEMMA FeaturePositions ==
  ASSUME NEW ps, NEW f \in FeaturesWith(ps)
  PROVE  PositionsOf(f) \in Seq(ps)
<1>1. "Point" \in Simple /\ "Polygon" \in Simple /\ "MultiPolygon" \notin Simple
  BY DEF Simple
<1>2. \/ f.coords \in Absent
      \/ f.type \in Simple /\ f.coords \in Seq(ps)
      \/ f.type \notin Simple /\ f.coords \in Seq(Seq(ps))
  BY <1>1, FeaturesHaveShapes
<1> QED
  BY <1>2, PositionsOfType

\* The pairs of a plain geometry, or of a feature.
LEMMA PairsType ==
  ASSUME NEW g, NEW id \in AnyId, PositionsOf(g) \in Seq(Position)
  PROVE  PairsOf(g, id) \in Seq(Position \X AnyId)
<1>1. CASE g.type \notin Supported \/ g.coords \in Absent
  <2>1. PairsOf(g, id) = <<>>
    BY <1>1 DEF PairsOf
  <2> QED
    BY <2>1
<1>2. CASE ~ (g.type \notin Supported \/ g.coords \in Absent)
  <2> DEFINE s == PositionsOf(g)
  <2>1. PairsOf(g, id) = [k \in DOMAIN s |-> <<s[k], id>>]
    BY <1>2 DEF PairsOf
  <2>2. s \in Seq(Position)
    OBVIOUS
  <2> HIDE DEF s
  <2>3. [k \in DOMAIN s |-> <<s[k], id>>] \in Seq(Position \X AnyId)
    <3>1. DOMAIN s = 1..Len(s) /\ Len(s) \in Nat /\ \A k \in 1..Len(s) : s[k] \in Position
      BY <2>2
    <3> QED
      BY <3>1
  <2> QED
    BY <2>1, <2>3
<1> QED
  BY <1>1, <1>2

LEMMA KeptType ==
  KeptOf \in Lister(FeaturesWith(Position), Position \X AnyId)
<1>1. ASSUME NEW f \in FeaturesWith(Position)
      PROVE  PairsOf(f, f.id) \in Seq(Position \X AnyId)
  <2>1. f.id \in AnyId /\ PositionsOf(f) \in Seq(Position)
    BY FeaturesHaveShapes, FeaturePositions
  <2> QED
    BY <2>1, PairsType
<1> QED
  BY <1>1 DEF KeptOf, Lister

\* The features of a plain geometry: their positions are its positions.
LEMMA PlainFeatures ==
  ASSUME NEW ps, ps \subseteq Position, NEW g \in Geometry, NEW id \in AnyId,
         g.type # "GeometryCollection", PositionsOf(g) \in Seq(ps)
  PROVE  FeaturesOf(g, id) \in Seq(FeaturesWith(ps))
<1>1. "Point" \in Simple /\ "Polygon" \in Simple /\ "MultiPoint" \in Simple
      /\ "MultiPolygon" \notin Simple /\ "MultiLineString" \notin Simple
  BY DEF Simple
<1>2. CASE g.type \in {"Point", "Polygon"}
  <2>1. OrEmpty(g.coords) \in Seq(ps)
    <3>1. g.coords \notin Absent => PositionsOf(g) = g.coords
      BY <1>1, <1>2 DEF PositionsOf
    <3> QED
      BY <3>1 DEF OrEmpty
  <2>2. FeaturesOf(g, id) = <<Feature(g.type, OrEmpty(g.coords), id)>>
    BY <1>2 DEF FeaturesOf
  <2>3. Feature(g.type, OrEmpty(g.coords), id) \in FeaturesWith(ps)
    BY <1>2, <2>1 DEF Feature, FeaturesWith
  <2> QED
    BY <2>2, <2>3
<1>3. CASE g.type = "MultiPolygon"
  <2>1. OrEmpty(g.coords) \in Seq(Seq(ps))
    <3>1. CASE g.coords \notin Absent
      <4>1. PositionsOf(g) = Flatten(g.coords)
        BY <1>1, <1>3, <3>1 DEF PositionsOf
      <4>2. g.coords \in Seq(Seq(Position))
        BY <1>1, <1>3, <3>1, PlainShapes
      <4>3. \A k \in DOMAIN g.coords : g.coords[k] \in Seq(ps)
        BY <4>1, <4>2, FlattenOnly
      <4>4. g.coords \in Seq(Seq(ps))
        BY <4>2, <4>3
      <4> QED
        BY <3>1, <4>4 DEF OrEmpty
    <3>2. CASE g.coords \in Absent
      BY <3>2 DEF OrEmpty
    <3> QED
      BY <3>1, <3>2
  <2>2. FeaturesOf(g, id) = <<Feature(g.type, OrEmpty(g.coords), id)>>
    BY <1>3 DEF FeaturesOf
  <2>3. Feature(g.type, OrEmpty(g.coords), id) \in FeaturesWith(ps)
    BY <1>3, <2>1 DEF Feature, FeaturesWith
  <2> QED
    BY <2>2, <2>3
<1>4. CASE g.type = "MultiPoint"
  <2> DEFINE s == OrEmpty(g.coords)
  <2>1. s \in Seq(ps)
    <3>1. g.coords \notin Absent => PositionsOf(g) = g.coords
      BY <1>1, <1>4 DEF PositionsOf
    <3> QED
      BY <3>1 DEF OrEmpty
  <2>2. FeaturesOf(g, id) = [k \in DOMAIN s |-> Feature("Point", <<g.coords[k]>>, id)]
    BY <1>4 DEF FeaturesOf
  <2>3. \A k \in DOMAIN s : s[k] = g.coords[k]
    BY DEF OrEmpty
  <2> HIDE DEF s
  <2>4. DOMAIN s = 1..Len(s) /\ Len(s) \in Nat /\ \A k \in 1..Len(s) : s[k] \in ps
    BY <2>1
  <2>5. \A k \in DOMAIN s : Feature("Point", <<g.coords[k]>>, id) \in FeaturesWith(ps)
    BY <2>3, <2>4 DEF Feature, FeaturesWith
  <2> QED
    BY <2>2, <2>4, <2>5
<1>5. CASE g.type \notin {"Point", "Polygon", "MultiPolygon", "MultiPoint"}
  <2>1. FeaturesOf(g, id) = <<>>
    BY <1>5 DEF FeaturesOf
  <2> QED
    BY <2>1
<1> QED
  BY <1>2, <1>3, <1>4, <1>5

\* What is kept of the features of a plain geometry is what is wanted of it.
LEMMA PlainKept ==
  ASSUME NEW g \in Geometry, NEW id \in AnyId, g.type # "GeometryCollection"
  PROVE  FlatMap(KeptOf, FeaturesOf(g, id)) = PairsOf(g, id)
<1> DEFINE pairs == Position \X AnyId
           F == Feature(g.type, OrEmpty(g.coords), id)
<1>1. PositionsOf(g) \in Seq(Position)
  BY PlainPositions
<1>2. FeaturesOf(g, id) \in Seq(FeaturesWith(Position))
  BY <1>1, PlainFeatures
<1>3. PairsOf(g, id) \in Seq(pairs)
  BY <1>1, PairsType
<1>4. CASE g.type \in {"Point", "Polygon", "MultiPolygon"}
  <2>1. FeaturesOf(g, id) = <<F>>
    BY <1>4 DEF FeaturesOf
  <2>2. F \in FeaturesWith(Position)
    <3>1. <<F>> \in Seq(FeaturesWith(Position))
      BY <1>2, <2>1
    <3> HIDE DEF F
    <3> QED
      BY <3>1
  <2>3. F.type = g.type /\ F.coords = OrEmpty(g.coords) /\ F.id = id
    BY DEF Feature
  <2> HIDE DEF F
  <2>4. FlatMap(KeptOf, <<F>>) = KeptOf[F]
    BY <2>2, KeptType, FlatMapOne
  <2>5. KeptOf[F] = PairsOf(F, id)
    BY <2>2, <2>3 DEF KeptOf
  <2>6. PairsOf(F, id) = PairsOf(g, id)
    <3>1. CASE g.coords \notin Absent
      <4>1. F.coords = g.coords
        BY <2>3, <3>1 DEF OrEmpty
      <4> QED
        BY <2>3, <4>1 DEF PairsOf, PositionsOf
    <3>2. CASE g.coords \in Absent
      <4>1. F.coords = <<>>
        BY <2>3, <3>2 DEF OrEmpty
      <4>2. PositionsOf(F) = <<>>
        BY <4>1, FlattenNone DEF PositionsOf
      <4>3. [k \in DOMAIN <<>> |-> <<(<<>>)[k], id>>] = <<>>
        OBVIOUS
      <4>4. PairsOf(F, id) = <<>>
        BY <4>2, <4>3 DEF PairsOf
      <4> QED
        BY <3>2, <4>4 DEF PairsOf
    <3> QED
      BY <3>1, <3>2
  <2> QED
    BY <2>1, <2>4, <2>5, <2>6
<1>5. CASE g.type = "MultiPoint"
  <2> DEFINE s == OrEmpty(g.coords)
             One(k) == Feature("Point", <<g.coords[k]>>, id)
             t == PairsOf(g, id)
  <2>1. "MultiPoint" \in Simple /\ "MultiPoint" \in Supported /\ "Point" \in Simple
        /\ "Point" \in Supported
    BY DEF Simple, Supported
  <2>2. s \in Seq(Position) /\ \A k \in DOMAIN s : s[k] = g.coords[k]
    <3>1. g.coords \notin Absent => PositionsOf(g) = g.coords
      BY <1>5, <2>1 DEF PositionsOf
    <3> QED
      BY <1>1, <3>1 DEF OrEmpty
  <2>3. DOMAIN t = DOMAIN s /\ \A k \in DOMAIN s : t[k] = <<s[k], id>>
    <3>1. CASE g.coords \notin Absent
      <4>1. PositionsOf(g) = g.coords /\ s = g.coords
        BY <1>5, <2>1, <3>1 DEF PositionsOf, OrEmpty
      <4>2. t = [k \in DOMAIN g.coords |-> <<g.coords[k], id>>]
        BY <1>5, <2>1, <3>1, <4>1 DEF PairsOf
      <4> QED
        BY <4>1, <4>2
    <3>2. CASE g.coords \in Absent
      BY <3>2 DEF OrEmpty, PairsOf
    <3> QED
      BY <3>1, <3>2
  <2>4. FeaturesOf(g, id) = [k \in DOMAIN s |-> One(k)]
    BY <1>5 DEF FeaturesOf
  <2> HIDE DEF s, t
  <2>5. \A k \in DOMAIN s : KeptOf[One(k)] = <<t[k]>>
    <3> SUFFICES ASSUME NEW k \in DOMAIN s PROVE KeptOf[One(k)] = <<t[k]>>
      OBVIOUS
    <3> DEFINE f == One(k)
    <3>1. s[k] \in Position /\ g.coords[k] = s[k]
      BY <2>2
    <3>2. f.type = "Point" /\ f.coords = <<s[k]>> /\ f.id = id
      BY <3>1 DEF Feature
    <3>3. f \in FeaturesWith(Position)
      BY <3>1 DEF Feature, FeaturesWith
    <3> HIDE DEF f
    <3>4. KeptOf[f] = PairsOf(f, id)
      BY <3>2, <3>3 DEF KeptOf
    <3>5. f.coords \notin Absent
      BY <3>1, <3>2, GeometryAssumption
    <3>6. PositionsOf(f) = <<s[k]>>
      BY <2>1, <3>2, <3>5 DEF PositionsOf
    <3>7. PairsOf(f, id) = [i \in DOMAIN <<s[k]>> |-> <<(<<s[k]>>)[i], id>>]
      BY <2>1, <3>2, <3>5, <3>6 DEF PairsOf
    <3>8. [i \in DOMAIN <<s[k]>> |-> <<(<<s[k]>>)[i], id>>] = <<<<s[k], id>>>>
      OBVIOUS
    <3> QED
      BY <2>3, <3>4, <3>7, <3>8 DEF f
  <2>6. DOMAIN FeaturesOf(g, id) = DOMAIN s /\ \A k \in DOMAIN s : FeaturesOf(g, id)[k] = One(k)
    BY <2>4
  <2> HIDE DEF One
  <2>7. [k \in DOMAIN FeaturesOf(g, id) |-> KeptOf[FeaturesOf(g, id)[k]]] = [k \in DOMAIN t |-> <<t[k]>>]
    BY <2>3, <2>5, <2>6
  <2>8. Flatten([k \in DOMAIN t |-> <<t[k]>>]) = t
    BY <1>3, FlattenSingles DEF t
  <2> QED
    BY <2>7, <2>8 DEF FlatMap, t
<1>6. CASE g.type \notin {"Point", "Polygon", "MultiPolygon", "MultiPoint"}
  <2>1. FeaturesOf(g, id) = <<>>
    BY <1>6 DEF FeaturesOf
  <2>2. g.type \notin Supported
    BY <1>6 DEF Supported
  <2>3. PairsOf(g, id) = <<>>
    BY <2>2 DEF PairsOf
  <2> QED
    BY <2>1, <2>3, FlatMapNone
<1> QED
  BY <1>4, <1>5, <1>6

-----------------------------------------------------------------------------
(* What any geometry is made of *)

\* How the positions, the features and the pairs of a geometry are gathered.
LEMMA PositionsSteps ==
  \E of \in [Geometry -> Seq(Position)] : \A h \in Geometry :
     /\ Positions(h) = of[h]
     /\ of[h] = Gathered(of, [m \in Geometry |-> PositionsOf(m)], h)
<1> DEFINE entries == [m \in Geometry |-> PositionsOf(m)]
<1>1. \A h \in Geometry : h.type # "GeometryCollection" => entries[h] \in Seq(Position)
  BY PlainPositions
<1> HIDE DEF entries
<1>2. EntriesIn(Position, entries)
  BY <1>1 DEF EntriesIn
<1>3. GathersIn(Position, entries)
  BY <1>2, GatherSteps
<1> QED
  BY <1>3 DEF entries, GathersIn, Positions

LEMMA ExtractSteps ==
  ASSUME NEW id \in AnyId
  PROVE  \E of \in [Geometry -> Seq(FeaturesWith(Position))] : \A h \in Geometry :
            /\ Extract(h, id) = of[h]
            /\ of[h] = Gathered(of, [m \in Geometry |-> FeaturesOf(m, id)], h)
<1> DEFINE entries == [m \in Geometry |-> FeaturesOf(m, id)]
<1>1. ASSUME NEW h \in Geometry, h.type # "GeometryCollection"
      PROVE  entries[h] \in Seq(FeaturesWith(Position))
  <2>1. PositionsOf(h) \in Seq(Position)
    BY <1>1, PlainPositions
  <2>2. FeaturesOf(h, id) \in Seq(FeaturesWith(Position))
    BY <1>1, <2>1, PlainFeatures
  <2> QED
    BY <2>2
<1> HIDE DEF entries
<1>2. EntriesIn(FeaturesWith(Position), entries)
  BY <1>1 DEF EntriesIn
<1>3. GathersIn(FeaturesWith(Position), entries)
  BY <1>2, GatherSteps
<1> QED
  BY <1>3 DEF entries, GathersIn, Extract

LEMMA WantedSteps ==
  ASSUME NEW id \in AnyId
  PROVE  \E of \in [Geometry -> Seq(Position \X AnyId)] : \A h \in Geometry :
            /\ Wanted(h, id) = of[h]
            /\ of[h] = Gathered(of, [m \in Geometry |-> PairsOf(m, id)], h)
<1> DEFINE entries == [m \in Geometry |-> PairsOf(m, id)]
<1>1. ASSUME NEW h \in Geometry, h.type # "GeometryCollection"
      PROVE  entries[h] \in Seq(Position \X AnyId)
  <2>1. PairsOf(h, id) \in Seq(Position \X AnyId)
    BY <1>1, PlainPositions, PairsType
  <2> QED
    BY <2>1
<1> HIDE DEF entries
<1>2. EntriesIn(Position \X AnyId, entries)
  BY <1>1 DEF EntriesIn
<1>3. GathersIn(Position \X AnyId, entries)
  BY <1>2, GatherSteps
<1> QED
  BY <1>3 DEF entries, GathersIn, Wanted

\* A geometry whose positions are all of the kinds in ps has features of which so are
\* the positions.
LEMMA ExtractKeepsPositions ==
  ASSUME NEW ps, ps \subseteq Position, NEW id \in AnyId
  PROVE  \A g \in Geometry :
            Positions(g) \in Seq(ps) => Extract(g, id) \in Seq(FeaturesWith(ps))
<1>1. PICK pos \in [Geometry -> Seq(Position)] : \A h \in Geometry :
         /\ Positions(h) = pos[h]
         /\ pos[h] = Gathered(pos, [m \in Geometry |-> PositionsOf(m)], h)
  BY PositionsSteps
<1>2. PICK ext \in [Geometry -> Seq(FeaturesWith(Position))] : \A h \in Geometry :
         /\ Extract(h, id) = ext[h]
         /\ ext[h] = Gathered(ext, [m \in Geometry |-> FeaturesOf(m, id)], h)
  BY ExtractSteps
<1> DEFINE P == {h \in Geometry : pos[h] \in Seq(ps) => ext[h] \in Seq(FeaturesWith(ps))}
<1>3. ASSUME NEW h \in Geometry, \A m \in Geometry : Nesting[m] < Nesting[h] => m \in P
      PROVE  h \in P
  <2> SUFFICES ASSUME pos[h] \in Seq(ps) PROVE ext[h] \in Seq(FeaturesWith(ps))
    OBVIOUS
  <2>1. CASE h.type = "GeometryCollection"
    <3> DEFINE ss == [k \in DOMAIN h.coords |-> pos[h.coords[k]]]
               ff == [k \in DOMAIN h.coords |-> ext[h.coords[k]]]
    <3>1. h.coords \in Seq(Geometry) /\ \A k \in DOMAIN h.coords : Nesting[h.coords[k]] < Nesting[h]
      BY <2>1, MembersAreLess
    <3>2. /\ Len(h.coords) \in Nat /\ DOMAIN h.coords = 1..Len(h.coords)
          /\ \A k \in DOMAIN h.coords : h.coords[k] \in Geometry
      BY <3>1
    <3>3. ss \in Seq(Seq(Position))
      BY <3>2
    <3>4. Flatten(ss) = pos[h] /\ Flatten(ff) = ext[h]
      BY <1>1, <1>2, <2>1 DEF Gathered
    <3>5. \A k \in DOMAIN h.coords : ss[k] \in Seq(ps)
      <4> DEFINE d == DOMAIN h.coords
      <4>1. DOMAIN ss = d
        OBVIOUS
      <4> HIDE DEF ss, d
      <4>2. \A k \in DOMAIN ss : ss[k] \in Seq(ps)
        BY <3>3, <3>4, FlattenOnly
      <4> QED
        BY <4>1, <4>2 DEF d
    <3>6. \A k \in DOMAIN h.coords : ext[h.coords[k]] \in Seq(FeaturesWith(ps))
      BY <1>3, <3>1, <3>2, <3>5
    <3>7. ff \in Seq(Seq(FeaturesWith(ps)))
      BY <3>2, <3>6
    <3> QED
      BY <3>4, <3>7, FlattenType
  <2>2. CASE h.type # "GeometryCollection"
    <3>1. pos[h] = PositionsOf(h) /\ ext[h] = FeaturesOf(h, id)
      BY <1>1, <1>2, <2>2 DEF Gathered
    <3> QED
      BY <2>2, <3>1, PlainFeatures
  <2> QED
    BY <2>1, <2>2
<1>4. Geometry \subseteq P
  <2> HIDE DEF P
  <2> QED
    BY <1>3, GeometryInduction
<1> QED
  BY <1>1, <1>2, <1>4

\* What is kept of a geometry is what is wanted of it.
LEMMA KeptIsWanted ==
  ASSUME NEW id \in AnyId
  PROVE  \A g \in Geometry :
            /\ Extract(g, id) \in Seq(FeaturesWith(Position))
            /\ FlatMap(KeptOf, Extract(g, id)) = Wanted(g, id)
<1>1. PICK ext \in [Geometry -> Seq(FeaturesWith(Position))] : \A h \in Geometry :
         /\ Extract(h, id) = ext[h]
         /\ ext[h] = Gathered(ext, [m \in Geometry |-> FeaturesOf(m, id)], h)
  BY ExtractSteps
<1>2. PICK wan \in [Geometry -> Seq(Position \X AnyId)] : \A h \in Geometry :
         /\ Wanted(h, id) = wan[h]
         /\ wan[h] = Gathered(wan, [m \in Geometry |-> PairsOf(m, id)], h)
  BY WantedSteps
<1> DEFINE P == {h \in Geometry : FlatMap(KeptOf, ext[h]) = wan[h]}
<1>3. ASSUME NEW h \in Geometry, \A m \in Geometry : Nesting[m] < Nesting[h] => m \in P
      PROVE  h \in P
  <2>1. CASE h.type = "GeometryCollection"
    <3> DEFINE ff == [k \in DOMAIN h.coords |-> ext[h.coords[k]]]
               ww == [k \in DOMAIN h.coords |-> wan[h.coords[k]]]
    <3>1. h.coords \in Seq(Geometry) /\ \A k \in DOMAIN h.coords : Nesting[h.coords[k]] < Nesting[h]
      BY <2>1, MembersAreLess
    <3>2. /\ Len(h.coords) \in Nat /\ DOMAIN h.coords = 1..Len(h.coords)
          /\ \A k \in DOMAIN h.coords : h.coords[k] \in Geometry
      BY <3>1
    <3>3. ff \in Seq(Seq(FeaturesWith(Position)))
      BY <3>2
    <3>4. Flatten(ff) = ext[h] /\ Flatten(ww) = wan[h]
      BY <1>1, <1>2, <2>1 DEF Gathered
    <3>5. \A k \in DOMAIN h.coords : FlatMap(KeptOf, ext[h.coords[k]]) = wan[h.coords[k]]
      BY <1>3, <3>1, <3>2
    <3>6. [k \in DOMAIN ff |-> FlatMap(KeptOf, ff[k])] = ww
      BY <3>5
    <3> HIDE DEF ff, ww
    <3>7. FlatMap(KeptOf, Flatten(ff)) = Flatten([k \in DOMAIN ff |-> FlatMap(KeptOf, ff[k])])
      BY <3>3, KeptType, FlatMapFlatten
    <3> QED
      BY <3>4, <3>6, <3>7
  <2>2. CASE h.type # "GeometryCollection"
    <3>1. ext[h] = FeaturesOf(h, id) /\ wan[h] = PairsOf(h, id)
      BY <1>1, <1>2, <2>2 DEF Gathered
    <3> QED
      BY <2>2, <3>1, PlainKept
  <2> QED
    BY <2>1, <2>2
<1>4. Geometry \subseteq P
  <2> HIDE DEF P
  <2> QED
    BY <1>3, GeometryInduction
<1> QED
  BY <1>1, <1>2, <1>4

-----------------------------------------------------------------------------
(* The checks of a request *)

Document == Seq([geometry : Geometry \cup {None}, id : AnyId])

WantedOf(doc) ==
    [k \in DOMAIN doc |->
        IF doc[k].geometry = None THEN <<>> ELSE Wanted(doc[k].geometry, doc[k].id)]

LEMMA DocumentParts ==
  ASSUME NEW doc \in Document
  PROVE  /\ Len(doc) \in Nat /\ DOMAIN doc = 1..Len(doc)
         /\ \A k \in DOMAIN doc : /\ doc[k].id \in AnyId
                                  /\ doc[k].geometry = None \/ doc[k].geometry \in Geometry
<1> DEFINE S == [geometry : Geometry \cup {None}, id : AnyId]
<1>1. \A f \in S : f.id \in AnyId /\ (f.geometry = None \/ f.geometry \in Geometry)
  OBVIOUS
<1>2. doc \in Seq(S)
  BY DEF Document
<1> HIDE DEF S
<1>3. Len(doc) \in Nat /\ DOMAIN doc = 1..Len(doc) /\ \A k \in DOMAIN doc : doc[k] \in S
  BY <1>2
<1> QED
  BY <1>1, <1>3

\* What is analysed of a document is what was sent in it.
LEMMA DocumentIsKept ==
  ASSUME NEW doc \in Document
  PROVE  /\ ToFeatureCollection(doc) \in Seq(FeaturesWith(Position))
         /\ FlatMap(KeptOf, ToFeatureCollection(doc)) = Flatten(WantedOf(doc))
<1> DEFINE ff == [k \in DOMAIN doc |->
                    IF doc[k].geometry = None THEN <<>>
                    ELSE Extract(doc[k].geometry, doc[k].id)]
<1>1. /\ Len(doc) \in Nat /\ DOMAIN doc = 1..Len(doc)
      /\ \A k \in DOMAIN doc : /\ doc[k].id \in AnyId
                               /\ doc[k].geometry = None \/ doc[k].geometry \in Geometry
  BY DocumentParts
<1>2. \A k \in DOMAIN doc : ff[k] \in Seq(FeaturesWith(Position))
  <2> TAKE k \in DOMAIN doc
  <2>1. CASE doc[k].geometry = None
    BY <2>1
  <2>2. CASE doc[k].geometry # None
    <3>1. Extract(doc[k].geometry, doc[k].id) \in Seq(FeaturesWith(Position))
      BY <1>1, <2>2, KeptIsWanted
    <3> QED
      BY <2>2, <3>1
  <2> QED
    BY <2>1, <2>2
<1>3. ff \in Seq(Seq(FeaturesWith(Position)))
  BY <1>1, <1>2
<1>4. \A k \in DOMAIN doc : FlatMap(KeptOf, ff[k]) = WantedOf(doc)[k]
  <2> TAKE k \in DOMAIN doc
  <2>1. CASE doc[k].geometry = None
    <3>1. ff[k] = <<>> /\ WantedOf(doc)[k] = <<>>
      BY <2>1 DEF WantedOf
    <3> QED
      BY <3>1, FlatMapNone
  <2>2. CASE doc[k].geometry # None
    <3>1. /\ ff[k] = Extract(doc[k].geometry, doc[k].id)
          /\ WantedOf(doc)[k] = Wanted(doc[k].geometry, doc[k].id)
      BY <2>2 DEF WantedOf
    <3> QED
      BY <1>1, <2>2, <3>1, KeptIsWanted
  <2> QED
    BY <2>1, <2>2
<1>5. DOMAIN ff = DOMAIN doc /\ DOMAIN WantedOf(doc) = DOMAIN doc
  BY DEF WantedOf
<1>6. ToFeatureCollection(doc) = Flatten(ff)
  BY DEF ToFeatureCollection
<1>7. WantedOf(doc) = [k \in DOMAIN ff |-> WantedOf(doc)[k]]
  BY <1>5 DEF WantedOf
<1> HIDE DEF ff
<1>8. FlatMap(KeptOf, Flatten(ff)) = Flatten([k \in DOMAIN ff |-> FlatMap(KeptOf, ff[k])])
  BY <1>3, KeptType, FlatMapFlatten
<1>9. [k \in DOMAIN ff |-> FlatMap(KeptOf, ff[k])] = WantedOf(doc)
  BY <1>4, <1>5, <1>7
<1> QED
  BY <1>3, <1>6, <1>8, <1>9, FlattenType

\* A document whose positions are fine has features of which so are the positions.
LEMMA DocumentIsFine ==
  ASSUME NEW doc \in Document, ~LikelyInMeters(doc), ValidWgs84(doc)
  PROVE  ToFeatureCollection(doc) \in Seq(FeaturesWith({"fine"}))
<1> DEFINE ff == [k \in DOMAIN doc |->
                    IF doc[k].geometry = None THEN <<>>
                    ELSE Extract(doc[k].geometry, doc[k].id)]
           pp == [k \in DOMAIN doc |->
                    IF doc[k].geometry = None THEN <<>> ELSE Positions(doc[k].geometry)]
           all == Flatten(pp)
<1>1. /\ Len(doc) \in Nat /\ DOMAIN doc = 1..Len(doc)
      /\ \A k \in DOMAIN doc : /\ doc[k].id \in AnyId
                               /\ doc[k].geometry = None \/ doc[k].geometry \in Geometry
  BY DocumentParts
<1>2. \A k \in DOMAIN doc : pp[k] \in Seq(Position)
  <2>1. \A h \in Geometry : Positions(h) \in Seq(Position)
    BY PositionsSteps
  <2> QED
    BY <1>1, <2>1
<1>3. pp \in Seq(Seq(Position))
  BY <1>1, <1>2
<1>4. all \in Seq(Position)
  <2> HIDE DEF pp
  <2> QED
    BY <1>3, FlattenType
<1>5. AllPositions(doc) = all
  BY DEF AllPositions
<1> HIDE DEF all
<1>6. all \in Seq({"fine"})
  <2>1. \A k \in DOMAIN all : all[k] # "far" /\ all[k] # "odd"
    BY <1>5 DEF LikelyInMeters, ValidWgs84, Has
  <2>2. \A k \in DOMAIN all : all[k] \in {"fine"}
    BY <1>4, <2>1 DEF Position
  <2> QED
    BY <1>4, <2>2
<1>7. \A k \in DOMAIN doc : pp[k] \in Seq({"fine"})
  <2>1. DOMAIN pp = DOMAIN doc
    OBVIOUS
  <2> HIDE DEF pp
  <2> QED
    BY <1>3, <1>6, <2>1, FlattenOnly DEF all
<1>8. \A k \in DOMAIN doc : ff[k] \in Seq(FeaturesWith({"fine"}))
  <2> TAKE k \in DOMAIN doc
  <2>1. CASE doc[k].geometry = None
    BY <2>1
  <2>2. CASE doc[k].geometry # None
    <3> DEFINE ps == {"fine"}
    <3>1. Positions(doc[k].geometry) \in Seq(ps)
      BY <1>7, <2>2
    <3>2. ps \subseteq Position
      BY DEF Position
    <3> HIDE DEF ps
    <3>3. Extract(doc[k].geometry, doc[k].id) \in Seq(FeaturesWith(ps))
      BY <1>1, <2>2, <3>1, <3>2, ExtractKeepsPositions
    <3> QED
      BY <2>2, <3>3 DEF ps
  <2> QED
    BY <2>1, <2>2
<1>9. ff \in Seq(Seq(FeaturesWith({"fine"})))
  BY <1>1, <1>8
<1>10. ToFeatureCollection(doc) = Flatten(ff)
  BY DEF ToFeatureCollection
<1> HIDE DEF ff
<1> QED
  BY <1>9, <1>10, FlattenType

\* The number that is compared with the limit is that of the plots.
LEMMA PlotsAreCounted ==
  ASSUME NEW features \in Seq(FeaturesWith(Position))
  PROVE  Len(Flatten([k \in DOMAIN features |-> PlotsOf(features[k])]))
            = CountIndividualPolygons(features)
<1> DEFINE A == Seq(Position) \cup FeaturesWith(Position)
           plots == [k \in DOMAIN features |-> PlotsOf(features[k])]
<1>1. DOMAIN features = 1..Len(features) /\ Len(features) \in Nat
      /\ \A k \in DOMAIN features : features[k] \in FeaturesWith(Position)
  OBVIOUS
<1>2. ASSUME NEW f \in FeaturesWith(Position)
      PROVE  /\ PlotsOf(f) \in Seq(A)
             /\ Len(PlotsOf(f)) = IF f.type = "MultiPolygon" THEN Len(f.coords) ELSE 1
  <2>1. CASE f.type = "MultiPolygon"
    <3>1. f.coords \in Seq(Seq(Position))
      BY <2>1, FeaturesHaveShapes
    <3> QED
      BY <2>1, <3>1 DEF PlotsOf
  <2>2. CASE f.type # "MultiPolygon"
    BY <2>2 DEF PlotsOf
  <2> QED
    BY <2>1, <2>2
<1> HIDE DEF A
<1>3. plots \in Seq(Seq(A))
  BY <1>1, <1>2
<1>4. [k \in DOMAIN plots |-> Len(plots[k])]
         = [k \in DOMAIN features |->
               IF features[k].type = "MultiPolygon" THEN Len(features[k].coords) ELSE 1]
  BY <1>1, <1>2
<1> HIDE DEF plots
<1>5. Len(Flatten(plots)) = Total([k \in DOMAIN plots |-> Len(plots[k])])
  BY <1>3, FlattenLength
<1> QED
  BY <1>4, <1>5 DEF plots, CountIndividualPolygons

\* An answer is the one of the checks, and what is analysed is what they extract.
ChecksInv ==
    /\ request \in Request
    /\ verdict = "none" \/ verdict = Check(request)
    /\ fc = IF verdict = "submitted" THEN ToFeatureCollection(request.doc) ELSE <<>>

LEMMA ChecksInvHolds == ChecksSpec => []ChecksInv
<1>1. ChecksInit => ChecksInv
  BY DEF ChecksInit, ChecksInv
<1>2. ChecksInv /\ [AnswerRequest]_checkVars => ChecksInv'
  BY DEF ChecksInv, AnswerRequest, checkVars
<1> QED
  BY <1>1, <1>2, PTL DEF ChecksSpec

\* What a request that passes has passed.
LEMMA WhatIsChecked ==
  ASSUME NEW r \in Request, Check(r) = "submitted"
  PROVE  /\ ~LikelyInMeters(r.doc) /\ ValidWgs84(r.doc)
         /\ ~ (CountIndividualPolygons(ToFeatureCollection(r.doc)) > Limit(r))
         /\ r.column => HasColumn(ToFeatureCollection(r.doc))
<1>1. CheckFeatures(r, ToFeatureCollection(r.doc)) = "submitted"
      /\ ~LikelyInMeters(r.doc) /\ ValidWgs84(r.doc)
  <2>1. CASE r.endpoint = "wkt"
    BY <2>1, Zenon DEF Check, CheckWkt
  <2>2. CASE r.endpoint # "wkt"
    BY <2>2, Zenon DEF Check, CheckGeojson
  <2> QED
    BY <2>1, <2>2
<1> QED
  BY <1>1, Zenon DEF CheckFeatures

\* What is analysed is what was sent: every point and polygon, however deep in a
\* collection, in its order and with the properties of its feature; no more of it than
\* the limit of the mode, every position within the ranges, each feature with the
\* external id that was asked for; and both endpoints accept the same.
THEOREM ChecksAreSoundHolds == ChecksSpec => []ChecksAreSound
<1> SUFFICES ASSUME ChecksInv PROVE ChecksAreSound
  BY ChecksInvHolds, PTL
<1> DEFINE r == request
<1>1. /\ r \in Request /\ r.doc \in Document /\ Limit(r) \in Nat
      /\ r.endpoint = "wkt" =>
            CrsFits(r.crs) /\ ~StructureErrs(r.doc) /\ ~ExtractionRaises(r.doc)
  BY RequestAssumption DEF ChecksInv, Document, AnyId, Limit
<1>2. Submitted => Check(r) = "submitted" /\ fc = ToFeatureCollection(r.doc)
  BY DEF ChecksInv, Submitted
<1>3. fc \in Seq(FeaturesWith(Position)) /\ (Submitted => FlatMap(KeptOf, fc) = Flatten(WantedOf(r.doc)))
  <2>1. CASE Submitted
    BY <1>1, <1>2, <2>1, DocumentIsKept
  <2>2. CASE ~Submitted
    <3>1. fc = <<>>
      BY <2>2 DEF ChecksInv, Submitted
    <3> QED
      BY <2>2, <3>1
  <2> QED
    BY <2>1, <2>2
<1>4. NothingLostOrMixed
  <2>1. \A k \in DOMAIN fc : KeptOf[fc[k]] = PairsOf(fc[k], fc[k].id)
    BY <1>3 DEF KeptOf
  <2>2. [k \in DOMAIN fc |-> KeptOf[fc[k]]] = [k \in DOMAIN fc |-> PairsOf(fc[k], fc[k].id)]
    BY <2>1
  <2> QED
    BY <1>3, <2>2, Zenon DEF NothingLostOrMixed, FlatMap, WantedOf
<1>5. WithinLimit
  <2> SUFFICES ASSUME Submitted PROVE Len(Flatten([k \in DOMAIN fc |-> PlotsOf(fc[k])])) <= Limit(r)
    BY DEF WithinLimit
  <2> DEFINE n == CountIndividualPolygons(fc)
             plots == Flatten([k \in DOMAIN fc |-> PlotsOf(fc[k])])
  <2>1. Len(plots) = n
    BY <1>3, PlotsAreCounted
  <2>2. ~ (n > Limit(r))
    BY <1>1, <1>2, WhatIsChecked
  <2>3. n \in Nat
    <3> DEFINE sizes == [k \in DOMAIN fc |-> IF fc[k].type = "MultiPolygon" THEN Len(fc[k].coords) ELSE 1]
    <3>1. ASSUME NEW f \in FeaturesWith(Position), f.type = "MultiPolygon" PROVE Len(f.coords) \in Nat
      <4>1. f.coords \in Seq(Seq(Position))
        BY <3>1, FeaturesHaveShapes
      <4> QED
        BY <4>1
    <3>2. sizes \in Seq(Nat)
      BY <1>3, <3>1
    <3>3. n = Total(sizes)
      BY DEF CountIndividualPolygons
    <3> HIDE DEF sizes, n
    <3>4. Len(sizes) \in 0..Len(sizes)
      BY <3>2
    <3>5. Total(sizes) \in Nat
      BY <3>2, <3>4, TotalSteps
    <3> QED
      BY <3>3, <3>5
  <2> HIDE DEF n, plots
  <2>4. Len(plots) <= Limit(r)
    BY <1>1, <2>1, <2>2, <2>3
  <2> QED
    BY <2>4 DEF plots
<1>6. PositionsAreFine
  <2> SUFFICES ASSUME Submitted, NEW k \in DOMAIN fc
               PROVE  \A i \in DOMAIN PositionsOf(fc[k]) : PositionsOf(fc[k])[i] = "fine"
    BY DEF PositionsAreFine
  <2>1. fc \in Seq(FeaturesWith({"fine"}))
    BY <1>1, <1>2, WhatIsChecked, DocumentIsFine
  <2>2. fc[k] \in FeaturesWith({"fine"})
    BY <2>1
  <2> DEFINE s == PositionsOf(fc[k])
  <2>3. s \in Seq({"fine"})
    BY <2>2, FeaturePositions
  <2> HIDE DEF s
  <2>4. \A i \in DOMAIN s : s[i] = "fine"
    BY <2>3
  <2> QED
    BY <2>4 DEF s
<1>7. ColumnIsThere
  BY <1>1, <1>2, WhatIsChecked DEF ColumnIsThere, HasColumn
<1>8. EndpointsAgree
  <2> SUFFICES ASSUME r.endpoint = "wkt", verdict # "none"
               PROVE  Submitted <=> CheckGeojson([r EXCEPT !.endpoint = "geojson"]) = "submitted"
    BY DEF EndpointsAgree
  <2> DEFINE q == [r EXCEPT !.endpoint = "geojson"]
  <2>1. q.doc = r.doc /\ q.crs = r.crs /\ q.async = r.async /\ q.column = r.column
    BY RequestAssumption, <1>1
  <2>2. verdict = CheckWkt(r)
    BY DEF ChecksInv, Check
  <2> DEFINE features == ToFeatureCollection(r.doc)
  <2> HIDE DEF q, features
  <2>3. CheckFeatures(q, features) = CheckFeatures(r, features)
    BY <2>1, Zenon DEF CheckFeatures, Limit
  <2>4. features = <<>> => CheckFeatures(r, features) # "submitted"
    BY DEF CheckFeatures
  <2>5. CheckGeojson(q) = IF LikelyInMeters(r.doc) THEN "in_meters"
                          ELSE IF ~ValidWgs84(r.doc) THEN "invalid_coordinates"
                          ELSE CheckFeatures(r, features)
    BY <1>1, <2>1, <2>3, Zenon DEF CheckGeojson, features
  <2>6. CheckWkt(r) = IF LikelyInMeters(r.doc) THEN "in_meters"
                      ELSE IF ~ValidWgs84(r.doc) THEN "invalid_coordinates"
                      ELSE IF features = <<>> THEN "invalid_wkt"
                      ELSE CheckFeatures(r, features)
    BY Zenon DEF CheckWkt, features
  <2> QED
    BY <2>2, <2>4, <2>5, <2>6 DEF Submitted, q
<1> QED
  BY <1>4, <1>5, <1>6, <1>7, <1>8 DEF ChecksAreSound

=============================================================================
