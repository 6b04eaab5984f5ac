----------------------------- MODULE RiskTrees ------------------------------
(***************************************************************************)
(* The decision trees behind the risk overview: which questions are asked  *)
(* of a plot for each commodity, and the loop of buildTreeSteps that       *)
(* counts plots along a tree and follows the selected one.                 *)
(*                                                                         *)
(* A plot is the set of its indicators that say yes, cells that            *)
(* isTruthyCell takes for a yes.                                           *)
(***************************************************************************)
EXTENDS Naturals, Sequences, FiniteSets, FiniteSetsExt, Lists

CONSTANTS
    Plot,       \* the plots of a result
    Asked,      \* the commodities whose trees are walked
    NoPlot,     \* no plot is selected
    Pinned      \* the indicators that say no on a plot

\* The indicators of each commodity, with the tone a yes is painted in.
Indicators ==
    [pcrop |-> [treecover |-> "none", commodities |-> "low",
                disturbanceBefore |-> "low", disturbanceAfter |-> "high"],
     acrop |-> [treecover |-> "none", commodities |-> "low",
                disturbanceAfter |-> "high"],
     timber |-> [commodities |-> "low", primary |-> "none", natural |-> "none",
                 plantation |-> "none", plantationAfter |-> "high",
                 treecoverAfter |-> "low", agriAfter |-> "high",
                 logging |-> "low"]]

Commodity == DOMAIN Indicators

IndicatorsOf(c) == DOMAIN Indicators[c]

-----------------------------------------------------------------------------
(* The trees.  A test is a conjunction of clauses, a clause a disjunction   *)
(* of indicators; an answer of no is asked for in the second part.          *)

Yes(f)       == [all |-> {{f}}, none |-> {}]
AllOf(cs)    == [all |-> cs, none |-> {}]
Node(t, y, n) == [test |-> t, yes |-> y, no |-> n]

\* The outcome of the step that is the last resort.
MoreInfo == "more_info_needed"

AnyForest     == {"primary", "natural", "plantation"}
NaturalForest == {"primary", "natural"}

HasTreecover    == Node(Yes("treecover"), "continue", "low")
HasCommodities  == Node(Yes("commodities"), "low", "continue")
DisturbedBefore == Node(Yes("disturbanceBefore"), "low", "continue")
DisturbedAfter  == Node(Yes("disturbanceAfter"), "high", MoreInfo)

PcropTree == <<HasTreecover, HasCommodities, DisturbedBefore, DisturbedAfter>>
AcropTree == <<HasTreecover, HasCommodities, DisturbedAfter>>

TimberTree ==
    <<HasCommodities,
      Node([all |-> {{"plantation"}}, none |-> {"agriAfter"}], "low", "continue"),
      Node(AllOf({AnyForest, {"agriAfter"}}), "high", "continue"),
      Node(AllOf({NaturalForest, {"plantationAfter"}}), "high", "continue"),
      Node(AllOf({NaturalForest, {"treecoverAfter", "logging"}}), "low", "continue"),
      Node(AllOf({NaturalForest}), MoreInfo, "low")>>

\* Mutant: a tree that lost the second half of the test of its second step.
ForgetfulTrees ==
    [pcrop |-> PcropTree, acrop |-> AcropTree,
     timber |-> [TimberTree EXCEPT ![2] = Node(Yes("plantation"), "low", "continue"),
                                   ![5].yes = "high"]]

Trees == [pcrop |-> PcropTree, acrop |-> AcropTree, timber |-> TimberTree]

Test(n, y) ==
    /\ \A clause \in n.test.all : clause \cap y # {}
    /\ n.test.none \cap y = {}

Branch(n, y) == IF Test(n, y) THEN n.yes ELSE n.no

-----------------------------------------------------------------------------
(* The loop of buildTreeSteps *)

VARIABLES
    commodity,
    yes,        \* the indicators of each plot that say yes
    rows,       \* the plots that were searched for
    selected,   \* the selected plot, or NoPlot
    node,       \* the node whose turn it is
    remaining,  \* the rows that come to it
    active,     \* selectedActive
    steps       \* the steps pushed so far

vars == <<commodity, yes, rows, selected, node, remaining, active, steps>>

Init ==
    /\ commodity \in Asked
    /\ yes \in [Plot -> SUBSET IndicatorsOf(commodity)]
    /\ \A p \in Plot : yes[p] \cap Pinned[p] = {}
    /\ rows \in SUBSET Plot
    /\ selected \in Plot \cup {NoPlot}
    /\ node = 1
    /\ remaining = rows
    /\ active = (selected # NoPlot)
    /\ steps = <<>>

Tree == Trees[commodity]
Done == node > Len(Tree)

\* Mutant: the selected row is followed whether or not it is among the rows.
SideOfAny(n) ==
    IF active
    THEN (IF Test(n, yes[selected]) THEN "yes" ELSE "no") ELSE "null"

\* selectedSide: the answer of the selected row, as long as it is on the path
\* and among the rows.
Side(n) ==
    IF active /\ selected \in remaining
    THEN (IF Test(n, yes[selected]) THEN "yes" ELSE "no") ELSE "null"

Outcome(n, side) == IF side = "yes" THEN n.yes ELSE n.no

\* Mutant: the rows that answered yes come to the next node, always.
GoOnWithYes(n, yesRows, noRows) == yesRows

GoOn(n, yesRows, noRows) ==
    IF n.yes = "continue" THEN yesRows
    ELSE IF n.no = "continue" THEN noRows ELSE {}

Walk ==
    /\ ~Done
    /\ LET n       == Tree[node]
           yesRows == {p \in remaining : Test(n, yes[p])}
           noRows  == remaining \ yesRows
           side    == Side(n)
       IN  /\ steps' = Append(steps,
                   [yesCount |-> Cardinality(yesRows),
                    noCount |-> Cardinality(noRows),
                    yesOutcome |-> n.yes, noOutcome |-> n.no,
                    selectedSide |-> side,
                    disabled |-> selected # NoPlot /\ side = "null"])
           /\ active' = (side # "null" /\ Outcome(n, side) = "continue")
           /\ remaining' = GoOn(n, yesRows, noRows)
    /\ node' = node + 1
    /\ UNCHANGED <<commodity, yes, rows, selected>>

Spec == Init /\ [][Walk]_vars

-----------------------------------------------------------------------------
(* What the overview and the offline report display of a step *)

Side2(step, side) ==
    [outcome |-> IF side = "yes" THEN step.yesOutcome ELSE step.noOutcome,
     count |-> IF side = "yes" THEN step.yesCount ELSE step.noCount,
     selected |-> step.selectedSide = side]

\* stepBranches: the branch that goes on is drawn downwards.
StepBranches(step) ==
    IF step.yesOutcome # "continue" /\ step.noOutcome = "continue"
    THEN [down |-> Side2(step, "no"), right |-> Side2(step, "yes")]
    ELSE [down |-> Side2(step, "yes"), right |-> Side2(step, "no")]

\* The right branch is drawn unless it goes on, the lower one unless the last
\* step goes on.
Drawn(i, place) ==
    \/ StepBranches(steps[i])[place].outcome # "continue"
    \/ place = "down" /\ i < Len(steps)

\* The plots that a branch of step i counts at outcome o, if it is drawn.
CountAt(i, place, o) ==
    LET branch == StepBranches(steps[i])[place]
    IN  IF branch.outcome = o /\ Drawn(i, place) THEN branch.count ELSE 0

\* The plots that the drawing counts at outcome o.
CountOf(o) ==
    Total([i \in DOMAIN steps |-> CountAt(i, "down", o) + CountAt(i, "right", o)])

-----------------------------------------------------------------------------
(* What the trees are for *)

\* The first node that does not go on decides.
Decision(c, y) ==
    LET stops == {k \in DOMAIN Trees[c] : Branch(Trees[c][k], y) # "continue"}
    IN  Branch(Trees[c][Min(stops)], y)

Outcomes == {"low", MoreInfo, "high"}

Risk(o) == CASE o = "low" -> 0 [] o = MoreInfo -> 1 [] o = "high" -> 2

\* Every plot that was searched for is counted at one outcome, and at the one
\* its own indicators decide.
CountsAreDecisions ==
    Done => \A o \in Outcomes :
                CountOf(o) = Cardinality({p \in rows : Decision(commodity, yes[p]) = o})

\* The highlighted path of a selected plot leads to its decision, step after
\* step from the first; a plot outside the search is on no path.
PathIsDecision ==
    LET on == {i \in DOMAIN steps : steps[i].selectedSide # "null"}
    IN  /\ on = 1..Cardinality(on)
        /\ Done => (on # {} <=> selected \in rows)
        /\ Done /\ on # {} =>
              Outcome(Tree[Max(on)], steps[Max(on)].selectedSide)
                  = Decision(commodity, yes[selected])

\* An indicator whose yes is painted as low risk never raises the risk of a
\* plot, and one painted as high never lowers it.
TonesAreHonest ==
    \A p \in Plot : \A f \in IndicatorsOf(commodity) :
        LET with    == Risk(Decision(commodity, yes[p] \cup {f}))
            without == Risk(Decision(commodity, yes[p] \ {f}))
        IN  /\ Indicators[commodity][f] = "low"  => with <= without
            /\ Indicators[commodity][f] = "high" => with >= without

TypeOK ==
    /\ commodity \in Commodity
    /\ yes \in [Plot -> SUBSET IndicatorsOf(commodity)]
    /\ remaining \subseteq rows /\ rows \subseteq Plot
    /\ selected \in Plot \cup {NoPlot}
    /\ node \in 1..(Len(Tree) + 1) /\ Len(steps) = node - 1
    /\ active \in BOOLEAN

\* What the overview says of a plot is what the answers of its indicators decide,
\* in the counts, on the path and in the tones.
TreesAreDecisions ==
    /\ TypeOK /\ CountsAreDecisions /\ PathIsDecision
    /\ node = 1 => TonesAreHonest

=============================================================================
