---------------------------- MODULE ResultExport ----------------------------
(***************************************************************************)
(* The downloads of one job's result: the GeoJSON, and the CSV that the    *)
(* API builds from it once and keeps beside it.  The children of the       *)
(* workers write the result in place, one after the other when a message   *)
(* is delivered again, and none of the endpoints asks for the job's        *)
(* status.                                                                 *)
(*                                                                         *)
(* The API is one process, whose handler does not wait in between: it      *)
(* builds one CSV at a time, in steps that only the children and the end   *)
(* of the process come between.                                            *)
(***************************************************************************)
EXTENDS NoValue, Naturals

CONSTANTS
    Child,      \* the attempts at the analysis, in their order: 1, 2, ...
    Bare,       \* those whose result has no features
    MaxStops    \* a bound on the ends of the API process

ASSUME ExportAssumption ==
    /\ Child \subseteq Nat \ {0} /\ Bare \subseteq Child
    /\ MaxStops \in Nat /\ None \notin Nat \cup [of : Child, whole : BOOLEAN]

VARIABLES
    result,     \* the result file: whose it is, and whether it is whole; or None
    child,      \* the child that runs: its number, or None
    last,       \* the last child that was started
    job,        \* "running", "completed" or "failed", as it is recorded
    csv, tmp,   \* the kept CSV and its temporary file: likewise, or None
    build,      \* the features a request has read for its CSV, or None
    answer,     \* what the last request was answered
    stops,
    wholes,     \* history: the children whose result was whole once
    early       \* history: those whose result was read for a CSV while the job was
                \* not completed

apiVars == <<csv, tmp, build, answer, stops, early>>
jobVars == <<result, child, last, job, wholes>>
exportVars    == <<apiVars, jobVars>>

Content(c, whole) == [of |-> c, whole |-> whole]
Partial(f) == [f EXCEPT !.whole = FALSE]

Data(form, f) == [code |-> "ok", form |-> form, file |-> f]
Error(code)   == [code |-> code, form |-> "none", file |-> None]

ExportInit ==
    /\ result = None /\ child = None /\ last = 0 /\ job = "running" /\ wholes = {}
    /\ csv = None /\ tmp = None /\ build = None
    /\ answer = Error("none") /\ stops = 0 /\ early = {}

-----------------------------------------------------------------------------
(* The workers, see AnalysisJobs *)

\* Mutant: a message that is delivered again is run whatever the job has come to.
StartAnyway(c) ==
    /\ child = None /\ c = last + 1
    /\ child' = c /\ last' = c
    /\ UNCHANGED <<apiVars, result, job, wholes>>

StartChild(c) ==
    /\ child = None /\ job = "running" /\ c = last + 1
    /\ child' = c /\ last' = c
    /\ UNCHANGED <<apiVars, result, job, wholes>>

\* convert_df_to_geojson opens the file itself, and truncates it.
BeginResult ==
    /\ child # None /\ result # Content(child, FALSE) /\ result # Content(child, TRUE)
    /\ result' = Content(child, FALSE)
    /\ UNCHANGED <<apiVars, child, last, job, wholes>>

FinishResult ==
    /\ child # None /\ result = Content(child, FALSE)
    /\ result' = Content(child, TRUE) /\ wholes' = wholes \cup {child}
    /\ UNCHANGED <<apiVars, child, last, job>>

\* The child ends and records the job: completed after its result, failed before
\* it, by its time limit, or by a cancellation at any moment.
EndJob(s) ==
    /\ child # None /\ job = "running"
    /\ s = "completed" => result = Content(child, TRUE)
    /\ job' = s /\ child' = None
    /\ UNCHANGED <<apiVars, result, last, wholes>>

\* The child is lost and nothing recorded: its message is delivered again.
LoseChild ==
    /\ child # None
    /\ child' = None
    /\ UNCHANGED <<apiVars, result, last, job, wholes>>

-----------------------------------------------------------------------------
(* The API *)

\* Mutant: a file that does not parse is taken for what could be read of it.
ReadableAnyway(f) == TRUE

\* read_json: a partial file does not parse.
Readable(f) == f.whole

HasFeatures(f) == f.of \notin Bare

Answer(a) == answer' = a /\ UNCHANGED <<csv, tmp, stops, early>>

GenerateGeojson ==
    /\ build = None
    /\ Answer(IF result = None THEN Error("not_found")
              ELSE IF ~Readable(result) THEN Error("server_error")
              ELSE Data("geojson", result))
    /\ UNCHANGED <<build, jobVars>>

\* load_or_build_csv up to its conversion: the CSV that is kept, an error, or the
\* features of the result.
DownloadCsv ==
    /\ build = None
    /\ IF csv # None
       THEN Answer(Data("csv", csv)) /\ UNCHANGED build
       ELSE IF result = None
       THEN Answer(Error("not_found")) /\ UNCHANGED build
       ELSE IF ~Readable(result) \/ ~HasFeatures(result)
       THEN Answer(Error("server_error")) /\ UNCHANGED build
       ELSE /\ build' = result
            /\ early' = early \cup (IF job = "completed" THEN {} ELSE {result.of})
            /\ UNCHANGED <<csv, tmp, answer, stops>>
    /\ UNCHANGED jobVars

\* tmp.write_text: in part, or to its end; what an earlier process left is replaced.
BeginCsv ==
    /\ build # None /\ (tmp = None \/ tmp # build)
    /\ tmp' \in {Partial(build), build}
    /\ UNCHANGED <<csv, build, answer, stops, early, jobVars>>

\* Mutant: what an earlier process has left behind is taken for the CSV.
TakeLeftover ==
    /\ build # None /\ tmp # None
    /\ csv' = tmp /\ tmp' = None /\ build' = None
    /\ answer' = Data("csv", tmp)
    /\ UNCHANGED <<stops, early, jobVars>>

\* The temporary file is complete and takes its place.
ReplaceCsv ==
    /\ build # None /\ tmp = build
    /\ csv' = tmp /\ tmp' = None /\ build' = None
    /\ answer' = Data("csv", build)
    /\ UNCHANGED <<stops, early, jobVars>>

\* The process ends in the middle of it, and another takes its place.
StopApi ==
    /\ stops < MaxStops
    /\ stops' = stops + 1
    /\ build' = None
    /\ UNCHANGED <<csv, tmp, answer, early, jobVars>>

ExportNext ==
    \/ \E c \in Child : StartChild(c)
    \/ BeginResult \/ FinishResult \/ LoseChild
    \/ \E s \in {"completed", "failed"} : EndJob(s)
    \/ GenerateGeojson \/ DownloadCsv \/ BeginCsv \/ ReplaceCsv \/ StopApi

ExportSpec == ExportInit /\ [][ExportNext]_exportVars

-----------------------------------------------------------------------------
(* Properties *)

Stored == {None} \cup [of : Child, whole : BOOLEAN]

\* The variables have their types; the child that runs is the last one started.
ExportTypeOK ==
    /\ {result, csv, tmp, build} \subseteq Stored
    /\ child \in {last, None} /\ last \in Child \cup {0} /\ wholes \subseteq Child
    /\ job \in {"running", "completed", "failed"} /\ stops \in 0..MaxStops
    /\ answer.code \in {"none", "ok", "not_found", "server_error"}
    /\ answer.file \in Stored /\ early \subseteq Child

\* Whatever is downloaded, and the CSV that is kept for ever, is the whole result
\* of one attempt: not what a child had written so far, and not what a process of
\* the API left unfinished.
DownloadsAreWhole ==
    /\ answer.code = "ok" => answer.file.whole /\ answer.file.of \in wholes
    /\ csv # None => csv.whole /\ csv.of \in wholes

\* The CSV that is kept, or is being built, once a job is completed may be of another
\* attempt than its result, but only of an earlier one that had come to its end and was
\* asked for before the job was completed: nothing that happens afterwards, a message
\* delivered once more, a build that ends late or another process, takes the CSV apart
\* from the result.
OldCsvIsEarly ==
    job = "completed" =>
        \A f \in {csv, build} \ {None} :
            f # result => f.of < result.of /\ f.of \in early

\* A completed job has a result, and the GeoJSON of it can always be downloaded.
CompletedIsServed ==
    [][GenerateGeojson /\ job = "completed" => answer' = Data("geojson", result)]_exportVars

\* "Download completed results as GeoJSON or CSV": the CSV that is there when a
\* completed job is asked for it is the CSV of its result.
CompletedCsvIsServed ==
    [][DownloadCsv /\ csv # None /\ job = "completed" =>
          answer' = Data("csv", result)]_exportVars

=============================================================================
