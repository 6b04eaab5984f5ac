----------------------------- MODULE MCResults ------------------------------
(***************************************************************************)
(* Instances for TLC of the parts of the results page, which share no      *)
(* state: the status of the job, twice, with one poll at a time and with   *)
(* two that overtake one another; the view of the rows; the decision       *)
(* trees; the file that is downloaded; the picker of the columns.  One of  *)
(* them moves in a behavior, the others stay as they were.                 *)
(***************************************************************************)
EXTENDS ResultsDisplay, TLC

VARIABLE part

PollingFaults == {"lose", "refuse", "expire"}
AnyFault      == {"hang", "close", "lose", "refuse", "expire"}

\* Two polls, and every fault of the network and of the API.
Torn == INSTANCE ResultsPage WITH Poll <- {1, 2}, Faults <- AnyFault

-----------------------------------------------------------------------------
\* Three plots and two commodities that share an indicator.
TableOf == <<"a", "b", "c">>
SearchesOf == {{"a", "b", "c"}, {"b", "c"}}
RankOf == [country |-> [a |-> 2, b |-> 1, c |-> 2]]

IndicatorsOf ==
    [pcrop |-> {"treecover", "commodities"}, timber |-> {"commodities", "logging"}]

RiskOf ==
    [a |-> [pcrop |-> "low", timber |-> "high"],
     b |-> [pcrop |-> "high", timber |-> "high"],
     c |-> [pcrop |-> "low", timber |-> "none"]]

YesOf ==
    [a |-> {"treecover", "logging"}, b |-> {"treecover", "water"}, c |-> {"commodities"}]

-----------------------------------------------------------------------------
\* A plot with any indicators, and one with a few.
Lacking ==
    [a |-> {}, b |-> {"disturbanceBefore", "primary", "natural", "plantation",
                      "plantationAfter", "treecoverAfter", "agriAfter"}]

-----------------------------------------------------------------------------
\* Every result of three rows made of four kinds of row, one of which lacks an
\* indicator, and a page of two.
Kinds ==
    { [risk_pcrop |-> "low", risk_timber |-> "high",
       treecover |-> "yes", commodities |-> "no", water |-> "yes"],
      [risk_pcrop |-> "high", risk_timber |-> "more_info_needed",
       treecover |-> "true", commodities |-> "yes"],
      [risk_pcrop |-> "low", risk_timber |-> "other",
       treecover |-> "no", commodities |-> "yes", water |-> "no"],
      [risk_pcrop |-> "more_info_needed", risk_timber |-> "high",
       treecover |-> "no", commodities |-> "no", logging |-> "yes"] }

PlotIds == <<"1", "2", "3">>

ResultsOf == {[i \in 1..3 |-> [plotId |-> PlotIds[i]] @@ t[i]] : t \in [1..3 -> Kinds]}

FileIndicatorsOf == [risk_pcrop |-> {"treecover", "commodities"},
                     risk_timber |-> {"commodities", "logging"}]

ColumnChoicesOf == {{"plotId", "risk_pcrop", "risk_timber", "treecover", "commodities",
                     "logging", "water"}}

-----------------------------------------------------------------------------
\* Six fields in three categories, one of each kind that the code tells apart.
FieldOf(id, category, hidden, internal, byDefault, indicator, risk) ==
    [id |-> id, category |-> category, excludeFromResults |-> hidden,
     excludeFromOutput |-> internal, visibleByDefault |-> byDefault,
     isIndicator |-> indicator, isRisk |-> risk]

FieldsOf ==
    << FieldOf("plotId", "context", FALSE, FALSE, "unset", FALSE, TRUE),
       FieldOf("geo", "context", TRUE, FALSE, "yes", FALSE, TRUE),
       FieldOf("treecover", "indicators", FALSE, FALSE, "unset", TRUE, FALSE),
       FieldOf("admin", "location", FALSE, FALSE, "no", FALSE, FALSE),
       FieldOf("raw", "location", FALSE, TRUE, "yes", FALSE, FALSE),
       FieldOf("risk", "indicators", FALSE, FALSE, "yes", FALSE, TRUE) >>

QueriesOf == {{"plotId", "geo", "treecover", "admin", "raw", "risk"},
              {"treecover", "raw"}, {"plotId", "admin"}, {}}

-----------------------------------------------------------------------------
viewVars   == <<search, riskFilter, indicatorFilter, commodity, sort, currentPage,
                rowsPerPage, selected, summaryOpen, pickerOpen, mapVisible, layer>>
treeVars   == <<treeCommodity, yes, searched, followed, node, remaining, active, steps>>
fileVars   == <<fileRows, columns, fileTab, fileRisk, indFilter, filePage, openId>>
pickerVars == <<arrived, visible, open, query, activeGroup>>
allVars    == <<part, vars, viewVars, treeVars, fileVars, pickerVars>>

ResultsInit ==
    /\ part \in {"page", "torn page", "view", "trees", "file", "picker"}
    /\ part \notin {"page", "torn page"} => job = "queued"
    /\ part # "view" =>
           commodity = "pcrop" /\ rowsPerPage = 2 /\ mapVisible = FALSE
    /\ part # "trees" =>
           /\ treeCommodity = "pcrop" /\ yes = [p \in {"a", "b"} |-> {}]
           /\ searched = {} /\ followed = Nil
    /\ part # "file" =>
           /\ fileRows = [i \in 1..3 |-> [plotId |-> PlotIds[i]] @@ CHOOSE k \in Kinds : TRUE]
           /\ fileTab = "risk_pcrop"
    /\ IF part = "torn page" THEN Torn!Init ELSE Init
    /\ Display!Init /\ Overview!Init /\ File!Init /\ Picker!Init

OnPage(A) ==
    A /\ UNCHANGED <<part, viewVars, treeVars, fileVars, pickerVars>>

InView ==
    /\ part = "view" /\ Display!Next
    /\ UNCHANGED <<part, vars, treeVars, fileVars, pickerVars>>

InTrees ==
    /\ part = "trees" /\ Overview!Walk
    /\ UNCHANGED <<part, vars, viewVars, fileVars, pickerVars>>

InFile ==
    /\ part = "file" /\ File!Next
    /\ UNCHANGED <<part, vars, viewVars, treeVars, pickerVars>>

InPicker ==
    /\ part = "picker" /\ Picker!Next
    /\ UNCHANGED <<part, vars, viewVars, treeVars, fileVars>>

ResultsNext ==
    \/ part = "page" /\ OnPage(Next)
    \/ part = "torn page" /\ OnPage(Torn!Next)
    \/ InView \/ InTrees \/ InFile \/ InPicker

\* The fairness of the page with one poll at a time.
ResultsFairness ==
    /\ WF_allVars(part = "page" /\ OnPage(StreamOpens \/ StreamRefused \/ StreamTimesOut))
    /\ WF_allVars(part = "page" /\ OnPage(ReadEvent))
    /\ WF_allVars(part = "page" /\ OnPage(CancelGoesHome))
    /\ \A p \in Poll : /\ WF_allVars(part = "page" /\ OnPage(Tick(p)))
                       /\ SF_allVars(part = "page" /\ OnPage(AnswerPoll(p)))
                       /\ WF_allVars(part = "page" /\ OnPage(HearPoll(p)))

ResultsSpec == ResultsInit /\ [][ResultsNext]_allVars /\ ResultsFairness

-----------------------------------------------------------------------------
\* The page with one poll at a time displays the end of its job.
PageSettles == part = "page" => EndIsDisplayed
=============================================================================
