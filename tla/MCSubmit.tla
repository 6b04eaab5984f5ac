------------------------------ MODULE MCSubmit ------------------------------
(***************************************************************************)
(* Instances for TLC of what surrounds a submission, parts that share no   *)
(* state: the home page, the checks of a request, the single sign-on, and  *)
(* the accounts with three choices of their pages.  One of them moves in a *)
(* behavior, the others stay as they were.                                 *)
(***************************************************************************)
EXTENDS Submission, SubmitChecks, SsoSession, Accounts, TLC

CONSTANTS a, b, c, d1, d2

VARIABLE part

-----------------------------------------------------------------------------
\* a: a result of this version with few features; b: a larger one of another
\* version, whose first feature does not tell, too large to be uploaded under the
\* limits of the API; c: no GeoJSON, but more lines than geo ids may be sent.
MCFile == {a, b, c}

MadeBy(v) == [located |-> TRUE, version |-> v]

MCFacts ==
    [f \in MCFile |->
        CASE f = a -> [bytes |-> 1, ext |-> "geojson", text |-> "collection", ids |-> 2,
                       features |-> <<MadeBy("v2")>>]
          [] f = b -> [bytes |-> 3, ext |-> "json", text |-> "collection", ids |-> 0,
                       features |-> <<MadeBy(None), MadeBy("v1"), MadeBy("v1")>>]
          [] f = c -> [bytes |-> 2, ext |-> "geojson", text |-> "broken", ids |-> 4,
                       features |-> <<>>]]

\* The API answers with its limits; the document may also have none.
MCRemote == {[sync |-> 1, async |-> 3, size |-> 2, version |-> "v2"]}

-----------------------------------------------------------------------------
\* GeoJSON of up to two features, whose geometries are small ones of every type and
\* collections of two of them, and the same geometries, each on its own, as WKT,
\* which has no odd positions and no geometry without coordinates.
Shape(type, coords) == [type |-> type, coords |-> coords]

Pairs   == {<<>>, <<"fine", "fine">>, <<"fine", "far">>}
OddOnes == {<<"odd", "fine">>, None, Null}

Plain(bodies) ==
    {Shape("Point", <<p>>) : p \in {"fine", "far"}}
    \cup {Shape(t, x) : t \in {"MultiPoint", "LineString", "Polygon"}, x \in bodies}
    \cup {Shape("MultiPolygon", x) : x \in {<<<<"fine">>, <<p>>>> : p \in {"fine", "far"}}}

Member(bodies) == {g \in Plain(bodies) : g.type \in {"Polygon", "LineString", "MultiPoint"}}
Collected(bodies) == {Shape("GeometryCollection", <<g, h>>) : g, h \in Member(bodies)}

Alone(bodies) ==
    Plain(bodies) \cup Collected(bodies)
    \cup {Shape("GeometryCollection", <<g>>) : g \in Collected(bodies)}
    \cup {Shape("GeometryCollection", <<>>)}

GeojsonBodies == Pairs \cup OddOnes

Some == {g \in Plain(GeojsonBodies) : g.type # "LineString"}
        \cup {Shape("GeometryCollection", <<g>>) : g \in Member(GeojsonBodies)} \cup {None}

\* How deep the members of a collection stand.
MCNesting ==
    [g \in Alone(GeojsonBodies) \cup (Some \ {None}) |->
        IF g.type # "GeometryCollection" THEN 0
        ELSE IF \E k \in DOMAIN g.coords : g.coords[k].type = "GeometryCollection" THEN 2
        ELSE 1]

Docs == {<<[geometry |-> g, id |-> 1]>> : g \in Alone(GeojsonBodies) \cup {None}}
        \cup {<<[geometry |-> g, id |-> 1], [geometry |-> h, id |-> i]>> :
                 g, h \in Some, i \in {2, None}}

Wkts == {<<[geometry |-> g, id |-> None]>> : g \in Alone(Pairs)}

Requests ==
    [endpoint : {"geojson"}, doc : Docs, crs : {"none", "other"},
     async : BOOLEAN, column : BOOLEAN]
    \cup [endpoint : {"wkt"}, doc : Wkts, crs : {"none"}, async : BOOLEAN, column : BOOLEAN]

NoRequest == [endpoint |-> "wkt", doc |-> <<>>, crs |-> "none", async |-> FALSE,
              column |-> FALSE]

MCRequest == Requests \cup {NoRequest}

-----------------------------------------------------------------------------
\* Faults stay, and nothing is claimed once both kinds have happened.
Claimed == "lapsed" \notin faults \/ faults \subseteq {"lapsed"}

\* Some of the pages of an account, so many at a time of those that are opened.
Within(used, ids, tokens, max) ==
    /\ \A d \in Doc : doc[d] # None => doc[d].page \in used
    /\ nextId <= ids + 1 /\ Len(verify) <= tokens /\ Len(reset) <= tokens
    /\ visits <= max

allVars   == <<part, vars, checkVars, ssoVars, accountVars>>

UserParts == {"verify", "reset", "delete"}

SubmitInit ==
    /\ part \in {"home", "checks", "sso"} \cup UserParts
    /\ part # "home" => config = NoConfig /\ needsKey = FALSE
    /\ IF part = "checks" THEN request \in Requests ELSE request = NoRequest
    /\ part \notin UserParts => nextId = 1
    /\ Init /\ ChecksInit /\ SsoInit /\ AccountsInit

InHome   == part = "home" /\ Next /\ UNCHANGED <<part, checkVars, ssoVars, accountVars>>
InChecks == part = "checks" /\ AnswerRequest /\ UNCHANGED <<part, vars, ssoVars, accountVars>>
InSso    == part = "sso" /\ SsoNext /\ Claimed'
            /\ UNCHANGED <<part, vars, checkVars, accountVars>>
InUsers  == /\ AccountsNext
            /\ \/ part = "verify" /\ Within({"register", "verify"}, 1, 2, 3)'
               \/ part = "reset" /\ Within({"forgot", "reset", "login"}, 1, 2, 4)'
               \/ part = "delete" /\ Within({"delete", "submit", "register"}, 2, 1, 3)'
            /\ UNCHANGED <<part, vars, checkVars, ssoVars>>

SubmitNext == InHome \/ InChecks \/ InSso \/ InUsers

SubmitSpec == SubmitInit /\ [][SubmitNext]_allVars

\* The pages that are open at one time are alike, and so are the requests.
Alike == Permutations({d1, d2})

=============================================================================
