--------------------------- MODULE OfflineReport ----------------------------
(***************************************************************************)
(* The report that the results page downloads: a file with its own data    *)
(* and its own script.  The counts are made from the rows of the result,   *)
(* the rows of the file keep only the columns that the page knew of.       *)
(*                                                                         *)
(* An action is one click in the file, with the render that ends it.       *)
(***************************************************************************)
EXTENDS Integers, Sequences, FiniteSets, SequencesExt, Lists

CONSTANTS
    Results,        \* the results a report is made of: sequences of records
    Commodity,      \* each names its risk field too
    Indicators,     \* the indicators of each commodity
    Water,          \* the indicator that belongs to none
    ColumnChoices,  \* the columns that a page may know of
    PageSize,
    Nothing         \* no value, no filter, no row

Value == {"low", "more_info_needed", "high"}

VARIABLES
    rows,               \* the rows of the result
    columns,            \* report.columns
    commodity, riskFilter, indFilter,
    page, openId

report == <<rows, columns>>
vars == <<report, commodity, riskFilter, indFilter, page, openId>>

-----------------------------------------------------------------------------
(* downloadOfflineReport *)

\* A row of the file: every column, with nothing where the row has no cell.
ReportRow(row) ==
    [f \in columns |-> IF f \in DOMAIN row THEN row[f] ELSE Nothing]

ReportRows == [i \in DOMAIN rows |-> ReportRow(rows[i])]

Cell(row, f) == IF f \in DOMAIN row THEN row[f] ELSE Nothing
IsYes(v)     == v \in {"yes", "true"}

\* computeRiskMix and countTruthy, of the rows of the result.
Mix(c, v)    == Len(Selection(rows, {r \in ToSet(rows) : Cell(r, c) = v}))
YesCount(f)  == Len(Selection(rows, {r \in ToSet(rows) : IsYes(Cell(r, f))}))

\* The indicators that some row has a cell for.
Listed(fs) == {f \in fs : \E i \in DOMAIN rows : f \in DOMAIN rows[i]}

-----------------------------------------------------------------------------
(* The script *)

Kept(row) ==
    /\ riskFilter # Nothing => Cell(row, commodity) = riskFilter
    /\ indFilter # Nothing => IsYes(Cell(row, indFilter))

Filtered == Selection(ReportRows, {r \in ToSet(ReportRows) : Kept(r)})

Pages == IF Filtered = <<>> THEN 1 ELSE (Len(Filtered) + PageSize - 1) \div PageSize

\* The rows on the page.
Shown ==
    SubSeq(Filtered, (page - 1) * PageSize + 1,
           IF page * PageSize > Len(Filtered) THEN Len(Filtered) ELSE page * PageSize)

\* The id of a row, which may be empty.
Id(row) == IF Cell(row, "plotId") = Nothing THEN "" ELSE row.plotId

\* The filter has a label, and with it the button that takes it away.
Labelled ==
    \/ riskFilter # Nothing
    \/ indFilter \in Listed(Indicators[commodity] \cup {Water})

Init ==
    /\ rows \in Results /\ columns \in ColumnChoices
    /\ commodity \in Commodity          \* the first of the report
    /\ riskFilter = Nothing /\ indFilter = Nothing
    /\ page = 1 /\ openId = Nothing

\* Mutant: a detail outlives the change of the list.
FirstPage == page' = 1 /\ UNCHANGED openId

Reset == page' = 1 /\ openId' = Nothing

\* Mutant: the filters are not taken away with the tab.
OnlyTab(c) ==
    /\ commodity' = c
    /\ Reset
    /\ UNCHANGED <<report, riskFilter, indFilter>>

PressTab(c) ==
    /\ commodity' = c
    /\ riskFilter' = Nothing /\ indFilter' = Nothing
    /\ Reset
    /\ UNCHANGED report

PressRisk(v) ==
    /\ riskFilter' = (IF riskFilter = v THEN Nothing ELSE v)
    /\ indFilter' = Nothing
    /\ Reset
    /\ UNCHANGED <<report, commodity>>

\* Mutant: the risk filter is left on.
AddIndicator(i) ==
    /\ i \in Listed(Indicators[commodity] \cup {Water})
    /\ indFilter' = (IF indFilter = i THEN Nothing ELSE i)
    /\ Reset
    /\ UNCHANGED <<report, commodity, riskFilter>>

PressIndicator(i) ==
    /\ i \in Listed(Indicators[commodity] \cup {Water})
    /\ riskFilter' = Nothing
    /\ indFilter' = (IF indFilter = i THEN Nothing ELSE i)
    /\ Reset
    /\ UNCHANGED <<report, commodity>>

ClearFilter ==
    /\ Labelled
    /\ riskFilter' = Nothing /\ indFilter' = Nothing
    /\ Reset
    /\ UNCHANGED <<report, commodity>>

Turn(to) ==
    /\ page' = to /\ openId' = Nothing
    /\ UNCHANGED <<report, commodity, riskFilter, indFilter>>

PrevPage == page > 1 /\ Turn(page - 1)
NextPage == page < Pages /\ Turn(page + 1)

PressRow(row) ==
    /\ openId' = (IF openId = Id(row) THEN Nothing ELSE Id(row))
    /\ UNCHANGED <<report, commodity, riskFilter, indFilter, page>>

Next ==
    \/ \E c \in Commodity : PressTab(c)
    \/ \E v \in Value : PressRisk(v)
    \/ \E i \in UNION {Indicators[c] : c \in Commodity} \cup {Water} : PressIndicator(i)
    \/ ClearFilter
    \/ PrevPage \/ NextPage
    \/ \E i \in DOMAIN Shown : PressRow(Shown[i])

Spec == Init /\ [][Next]_vars

-----------------------------------------------------------------------------
(* Properties *)

\* A click on a tile or an indicator leaves as many rows as its number said.
CountsAreRows ==
    [][ /\ \A v \in Value : PressRisk(v) /\ riskFilter' # Nothing
               => Len(Filtered') = Mix(commodity, v)
        /\ \A i \in Listed(Indicators[commodity] \cup {Water}) :
               PressIndicator(i) /\ indFilter' # Nothing
               => Len(Filtered') = YesCount(i) ]_vars

\* A filter that is on has the button that takes it away.
FilterHasButton == riskFilter # Nothing \/ indFilter # Nothing => Labelled

\* One detail is open at most, below a row on the page.
DetailIsOfOneRow ==
    openId # Nothing => Cardinality({i \in DOMAIN Shown : Id(Shown[i]) = openId}) = 1

\* What the file shows fits together.
ReportInv == FilterHasButton /\ DetailIsOfOneRow

=============================================================================
