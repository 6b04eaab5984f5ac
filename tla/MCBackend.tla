----------------------------- MODULE MCBackend ------------------------------
(***************************************************************************)
(* Instances for TLC of four parts of the backend that share no state: the *)
(* geo ids of a submission, a worker's calls of the database, the          *)
(* downloads of a result, and the runners of the migrations.  One of them  *)
(* moves in a behavior, the others stay as they were.                      *)
(***************************************************************************)
EXTENDS GeoIds, ResultExport, Migrations, RunSync

CONSTANTS a, b, r1, r2

VARIABLE part

\* The second version comes with a file that sorts before one of the first.
MCHas == [r \in {r1, r2} |-> IF r = r1 THEN {1, 3} ELSE {1, 2, 3}]
ThreeChildren == 1..3
SecondBare    == {2}

\* The geo ids that parse are interchangeable: the list names a first, then b.
ListNamesInOrder ==
    /\ \A i \in Item : list[i] = b => \E k \in Item : k < i /\ list[k] = a
    /\ \A g \in WellFormed : g \in {list[i] : i \in Item} \/ held[g] = "feature"

allVars  == <<part, geoVars, syncVars, exportVars, migVars>>

Init ==
    /\ part \in {"geo ids", "run_sync", "export", "migrations"}
    /\ part # "geo ids" =>
           /\ list = [i \in Item |-> CHOOSE g \in WellFormed : TRUE]
           /\ held = [g \in WellFormed |-> "feature"]
    /\ GeoInit /\ ListNamesInOrder /\ SyncInit /\ ExportInit /\ MigInit

Geo(A)    == part = "geo ids" /\ A /\ UNCHANGED <<part, syncVars, exportVars, migVars>>
Worker(A) == part = "run_sync" /\ A /\ UNCHANGED <<part, geoVars, exportVars, migVars>>
Export(A) == part = "export" /\ A /\ UNCHANGED <<part, geoVars, syncVars, migVars>>
Runs(A)   == part = "migrations" /\ A /\ UNCHANGED <<part, geoVars, syncVars, exportVars>>

Next == Geo(GeoNext) \/ Worker(SyncNext) \/ Export(ExportNext) \/ Runs(MigNext)

\* The fairness of each part.
Fairness ==
    /\ WF_allVars(Geo(CallStep))
    /\ \A i \in Item : WF_allVars(Geo(TaskStep(i)))
    /\ WF_allVars(Worker(Attempt))
    /\ \A r \in Runner : WF_allVars(Runs(Step(r)))

Spec == Init /\ [][Next]_allVars /\ Fairness

-----------------------------------------------------------------------------
\* Whatever has begun ends, and leaves nothing behind: resolve_geo_ids with its
\* tasks, a call of the database, a run of the migrations.
BackendEnds ==
    /\ part = "geo ids" => CallEnds
    /\ SyncEnds
    /\ RunEnds
=============================================================================
