---------------------------- MODULE SubmitChecks ----------------------------
(***************************************************************************)
(* What the endpoints submit/geojson and submit/wkt make of a request      *)
(* before a job is created: the checks in their order, and the flat        *)
(* collection of features that is analysed.  A request that passes goes to *)
(* AnalysisJobs.                                                           *)
(*                                                                         *)
(* A position stands for a pair of coordinates: "fine" within the ranges   *)
(* of longitude and latitude, "far" outside of them, "odd" when it is no   *)
(* pair of numbers.                                                        *)
(***************************************************************************)
EXTENDS NoValue, Naturals, Sequences, Lists

CONSTANTS
    Request,        \* the requests, see RequestAssumption
    Nesting,        \* the geometries, each with how deep it is nested
    MaxNesting,     \* the limit to that, the interpreter's to a recursion
    Id,             \* the external ids of the features
    LimitSync, LimitAsync,
    Null            \* coordinates that are there, and null

VARIABLES request, verdict, fc

checkVars == <<request, verdict, fc>>

Geometry  == DOMAIN Nesting
Position  == {"fine", "far", "odd"}
Simple    == {"Point", "MultiPoint", "LineString", "Polygon"}
Supported == {"Point", "MultiPoint", "Polygon", "MultiPolygon", "GeometryCollection"}

\* Coordinates that are missing, or null.
Absent == {None, Null}

\* The coordinates of a geometry, or the members of a collection.
CoordsOf(type) ==
    CASE type \in Simple -> Seq(Position) \cup Absent
      [] type \in {"MultiPolygon", "MultiLineString"} -> Seq(Seq(Position)) \cup Absent
      [] type = "GeometryCollection" -> Seq(Geometry)

ASSUME GeometryAssumption ==
    /\ Null # None /\ \A p \in Position : <<p>> \notin Absent
    /\ MaxNesting \in Nat /\ Nesting \in [Geometry -> 0..MaxNesting]
    /\ \A g \in Geometry :
          /\ g = [type |-> g.type, coords |-> g.coords]
          /\ g.type \in Simple \cup Supported \cup {"MultiLineString"}
          /\ g.coords \in CoordsOf(g.type)
          /\ g.type = "GeometryCollection" =>
                \A k \in DOMAIN g.coords : Nesting[g.coords[k]] < Nesting[g]

\* A list with an entry for each member of a geometry that is no collection, member
\* after member, however deep they stand.
Gather(entries, g) ==
    LET of[h \in Geometry] ==
            IF h.type = "GeometryCollection"
            THEN Flatten([k \in DOMAIN h.coords |-> of[h.coords[k]]])
            ELSE entries[h]
    IN  of[g]

-----------------------------------------------------------------------------
(* The checks of validators.py *)

\* A geometry without coordinates is noticed, except within a GeometryCollection;
\* one whose coordinates are null is not.
GeometryErrs(g) == g.type # "GeometryCollection" /\ g.coords = None

StructureErrs(doc) ==
    \E k \in DOMAIN doc : doc[k].geometry # None /\ GeometryErrs(doc[k].geometry)

CrsFits(crs) == crs # "other"

PositionsOf(g) ==
    IF g.coords \in Absent THEN <<>>
    ELSE IF g.type \in Simple THEN g.coords ELSE Flatten(g.coords)

\* Mutant: the members of a collection are passed over.
PositionsOutside(g) == IF g.type = "GeometryCollection" THEN <<>> ELSE PositionsOf(g)

Positions(g) == Gather([h \in Geometry |-> PositionsOf(h)], g)

AllPositions(doc) ==
    Flatten([k \in DOMAIN doc |->
                IF doc[k].geometry = None THEN <<>> ELSE Positions(doc[k].geometry)])

Has(seq, x) == \E k \in DOMAIN seq : seq[k] = x

LikelyInMeters(doc) == Has(AllPositions(doc), "far")
ValidWgs84(doc)     == ~Has(AllPositions(doc), "far") /\ ~Has(AllPositions(doc), "odd")

Feature(type, coords, id) == [type |-> type, coords |-> coords, id |-> id]

OrEmpty(coords) == IF coords \in Absent THEN <<>> ELSE coords

\* The features of a geometry that is no collection: lines are left out.
FeaturesOf(g, id) ==
    CASE g.type \in {"Polygon", "Point", "MultiPolygon"} ->
             <<Feature(g.type, OrEmpty(g.coords), id)>>
      [] g.type = "MultiPoint" ->
             [k \in DOMAIN OrEmpty(g.coords) |-> Feature("Point", <<g.coords[k]>>, id)]
      [] OTHER -> <<>>

\* Mutant: the members of a collection do without the properties of their feature.
ExtractAnonymous(g, id) ==
    Gather([h \in Geometry |->
               FeaturesOf(h, IF g.type = "GeometryCollection" THEN None ELSE id)], g)

\* _extract_features.
Extract(g, id) == Gather([h \in Geometry |-> FeaturesOf(h, id)], g)

\* The polygons on which _extract_features raises: it takes missing coordinates for
\* none, and null for a list.
Raising(g) ==
    Gather([h \in Geometry |->
               IF h.type \in {"Polygon", "MultiPolygon"} /\ h.coords = Null THEN <<h>> ELSE <<>>], g)

ExtractionRaises(doc) ==
    \E k \in DOMAIN doc : doc[k].geometry # None /\ Raising(doc[k].geometry) # <<>>

ToFeatureCollection(doc) ==
    Flatten([k \in DOMAIN doc |->
                IF doc[k].geometry = None THEN <<>> ELSE Extract(doc[k].geometry, doc[k].id)])

\* Mutant: a MultiPolygon counts as one.
CountFeatures(features) == Len(features)

CountIndividualPolygons(features) ==
    Total([k \in DOMAIN features |->
              IF features[k].type = "MultiPolygon" THEN Len(features[k].coords) ELSE 1])

\* Mutant: one feature with the column is enough.
AnyHasColumn(features) == \E k \in DOMAIN features : features[k].id # None

HasColumn(features) == \A k \in DOMAIN features : features[k].id # None

-----------------------------------------------------------------------------
(* The endpoints *)

Limit(r) == IF r.async THEN LimitAsync ELSE LimitSync

\* validate_feature_collection.
CheckFeatures(r, features) ==
    IF features = <<>> THEN "missing_body"
    ELSE IF CountIndividualPolygons(features) > Limit(r) THEN "too_many"
    ELSE IF r.column /\ ~HasColumn(features) THEN "invalid_column"
    ELSE "submitted"

CheckGeojson(r) ==
    IF StructureErrs(r.doc) THEN "invalid_geojson"
    ELSE IF ~CrsFits(r.crs) THEN "invalid_crs"
    ELSE IF LikelyInMeters(r.doc) THEN "in_meters"
    ELSE IF ~ValidWgs84(r.doc) THEN "invalid_coordinates"
    ELSE IF ExtractionRaises(r.doc) THEN "server_error"
    ELSE CheckFeatures(r, ToFeatureCollection(r.doc))

\* Mutant: the positions of a WKT are not checked.
CheckWktUnseen(r) ==
    IF ToFeatureCollection(r.doc) = <<>> THEN "invalid_wkt"
    ELSE CheckFeatures(r, ToFeatureCollection(r.doc))

CheckWkt(r) ==
    IF LikelyInMeters(r.doc) THEN "in_meters"
    ELSE IF ~ValidWgs84(r.doc) THEN "invalid_coordinates"
    ELSE IF ToFeatureCollection(r.doc) = <<>> THEN "invalid_wkt"
    ELSE CheckFeatures(r, ToFeatureCollection(r.doc))

Check(r) == IF r.endpoint = "wkt" THEN CheckWkt(r) ELSE CheckGeojson(r)

ASSUME RequestAssumption ==
    /\ LimitSync \in Nat /\ LimitAsync \in Nat
    /\ Request \subseteq [endpoint : {"geojson", "wkt"},
                          doc : Seq([geometry : Geometry \cup {None}, id : Id \cup {None}]),
                          crs : {"none", "other"}, async : BOOLEAN, column : BOOLEAN]
    /\ \A r \in Request : r.endpoint = "wkt" =>
          CrsFits(r.crs) /\ ~StructureErrs(r.doc) /\ ~ExtractionRaises(r.doc)

ChecksInit == request \in Request /\ verdict = "none" /\ fc = <<>>

AnswerRequest ==
    /\ verdict = "none"
    /\ verdict' = Check(request)
    /\ fc' = IF verdict' = "submitted" THEN ToFeatureCollection(request.doc) ELSE <<>>
    /\ UNCHANGED request

ChecksSpec == ChecksInit /\ [][AnswerRequest]_checkVars

-----------------------------------------------------------------------------
(* Properties *)

Submitted == verdict = "submitted"

\* The positions of a geometry that is analysed, each with the id of its feature.
PairsOf(g, id) ==
    IF g.type \notin Supported \/ g.coords \in Absent THEN <<>>
    ELSE [k \in DOMAIN PositionsOf(g) |-> <<PositionsOf(g)[k], id>>]

Wanted(g, id) == Gather([h \in Geometry |-> PairsOf(h, id)], g)

\* What is analysed is what was sent: every point and polygon, in order, with the
\* properties of the feature it came in, and nothing else.
NothingLostOrMixed ==
    Submitted =>
        Flatten([k \in DOMAIN fc |-> PairsOf(fc[k], fc[k].id)])
            = Flatten([k \in DOMAIN request.doc |->
                  IF request.doc[k].geometry = None THEN <<>>
                  ELSE Wanted(request.doc[k].geometry, request.doc[k].id)])

\* The plots of a feature: those of a MultiPolygon one by one.
PlotsOf(f) == IF f.type = "MultiPolygon" THEN f.coords ELSE <<f>>

\* The number of plots, the polygons of a MultiPolygon and the points of a MultiPoint
\* counted one by one, is within the limit of the mode.
WithinLimit ==
    Submitted => Len(Flatten([k \in DOMAIN fc |-> PlotsOf(fc[k])])) <= Limit(request)

\* No position outside of the ranges, nor one that is no pair of numbers, comes to an
\* analysis, however deep in the request it stands.
PositionsAreFine ==
    Submitted => \A k \in DOMAIN fc : \A i \in DOMAIN PositionsOf(fc[k]) :
                     PositionsOf(fc[k])[i] = "fine"

\* If a column of external ids is named, each feature that is analysed has it.
ColumnIsThere == Submitted /\ request.column => \A k \in DOMAIN fc : fc[k].id # None

\* A geometry is accepted as WKT if and only if it is accepted as GeoJSON.
EndpointsAgree ==
    request.endpoint = "wkt" /\ verdict # "none" =>
        (Submitted <=> CheckGeojson([request EXCEPT !.endpoint = "geojson"]) = "submitted")

\* What is analysed is what was sent, as much as is allowed, and fit for it.
ChecksAreSound ==
    NothingLostOrMixed /\ WithinLimit /\ PositionsAreFine /\ ColumnIsThere /\ EndpointsAgree

=============================================================================
