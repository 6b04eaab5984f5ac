---------------------------- MODULE ResultsView -----------------------------
(***************************************************************************)
(* The view of the results once they are there: search, filters, sorting,  *)
(* pages, the selected plot, the overlays and the layer of the map.        *)
(*                                                                         *)
(* An action is a handler with the renders and effects that follow it: the *)
(* effect that drops a selection outside the filters, and the map layer,   *)
(* which is made anew only when its React key changes and keeps, until     *)
(* then, the plots and the callbacks of the render that made it.           *)
(***************************************************************************)
EXTENDS Integers, Sequences, FiniteSets, SequencesExt, Lists

CONSTANTS
    Table,          \* the rows as they came, a sequence of plots
    Commodity,
    Indicators,     \* the indicators of each commodity
    Water,          \* the indicator that belongs to none
    Risk,           \* the risk of each plot for each commodity
    Yes,            \* the indicators of each plot that say yes
    Searches,       \* for each text a user types, the plots that contain it
    Rank,           \* the place of each plot's cell in the order of a column
    PageSizes,
    NoPlot, NoFilter, NoSort

Plot   == ToSet(Table)
Column == DOMAIN Rank
Value  == {"low", "more_info_needed", "high"}

VARIABLES
    search,             \* the plots that contain the text searched for
    riskFilter,         \* [field, value]; a risk field is named by its commodity
    indicatorFilter,
    commodity,
    sort,               \* [column, asc]
    currentPage, rowsPerPage,
    selected,           \* the plot of the selected row
    summaryOpen, pickerOpen, mapVisible,
    layer               \* the map layer: its key and what it closed over

filters  == <<riskFilter, indicatorFilter>>
overlays == <<summaryOpen, pickerOpen>>
vars == <<search, filters, commodity, sort, currentPage, rowsPerPage, selected,
          overlays, mapVisible, layer>>

-----------------------------------------------------------------------------
(* What is derived in every render *)

SearchedData == Selection(Table, search)

PassesFilters(p) ==
    /\ riskFilter # NoFilter => Risk[p][riskFilter.field] = riskFilter.value
    /\ indicatorFilter # NoFilter => indicatorFilter \in Yes[p]

FilteredData == Selection(SearchedData, {p \in Plot : PassesFilters(p)})

\* The place of a plot among the rows as they came.
Place(p) == CHOOSE i \in DOMAIN Table : Table[i] = p

\* The sort is stable in both directions.
Before(p, q) ==
    LET a == Rank[sort.column][p]
        b == Rank[sort.column][q]
    IN  \/ IF sort.asc THEN a < b ELSE b < a
        \/ a = b /\ Place(p) < Place(q)

\* A plot has as many before it as its place says.
SortedData ==
    IF sort = NoSort THEN FilteredData
    ELSE [i \in DOMAIN FilteredData |->
             CHOOSE p \in ToSet(FilteredData) :
                 Cardinality({q \in ToSet(FilteredData) : Before(q, p)}) = i - 1]

TotalPages ==
    LET full == (Len(FilteredData) + rowsPerPage - 1) \div rowsPerPage
    IN  IF full = 0 THEN 1 ELSE full

\* Mutant: the page is taken as it was set.
UnclampedPage == currentPage

SafePage == IF currentPage > TotalPages THEN TotalPages ELSE currentPage

PageData ==
    SubSeq(SortedData, (SafePage - 1) * rowsPerPage + 1,
           IF SafePage * rowsPerPage > Len(SortedData) THEN Len(SortedData)
           ELSE SafePage * rowsPerPage)

\* The numbers on a tile and on an indicator of the summary.
TileCount(v)      == Len(Selection(SearchedData, {p \in Plot : Risk[p][commodity] = v}))
IndicatorCount(i) == Len(Selection(SearchedData, {p \in Plot : i \in Yes[p]}))

\* Mutant: the key of the layer does not name the selected plot.
KeyOfPlots == <<commodity, Len(FilteredData)>>

\* The key of the map layer, and a layer made in this render.
LayerKey == <<commodity, Len(FilteredData),
              IF selected \in ToSet(FilteredData) THEN selected ELSE NoPlot>>

NewLayer == [key |-> LayerKey, drawn |-> ToSet(FilteredData),
             sorted |-> SortedData, size |-> rowsPerPage]

NoLayer == [key |-> <<>>, drawn |-> {}, sorted |-> <<>>, size |-> 1]

Init ==
    /\ search = Plot
    /\ riskFilter = NoFilter /\ indicatorFilter = NoFilter
    /\ commodity \in Commodity
    /\ sort = NoSort
    /\ currentPage = 1 /\ rowsPerPage \in PageSizes
    /\ selected = NoPlot
    /\ summaryOpen = FALSE /\ pickerOpen = FALSE
    /\ mapVisible \in BOOLEAN           \* hidden when no feature has a geometry
    /\ layer = IF mapVisible THEN NewLayer ELSE NoLayer

-----------------------------------------------------------------------------
(* What follows a handler that has set everything but the selection and the *)
(* layer: the effect on the selection, and the layer of the next render.    *)

\* Mutant: the selection outlives the filters.
Retain(p) == selected' = p

\* The selection is dropped when its plot is not among the filtered ones.
Select(p) ==
    selected' = IF p \in ToSet(FilteredData') THEN p ELSE NoPlot

DrawLayer ==
    layer' = IF ~mapVisible' THEN NoLayer
             ELSE IF layer.key = LayerKey' THEN layer ELSE NewLayer'

Render == Select(selected) /\ DrawLayer

-----------------------------------------------------------------------------
(* The search bar, and the filters of the summary *)

Type(text) ==
    /\ search' = text
    /\ currentPage' = 1
    /\ UNCHANGED <<filters, commodity, sort, rowsPerPage, overlays, mapVisible>>
    /\ Render

SetFilters(risk, indicator) ==
    /\ riskFilter' = risk
    /\ indicatorFilter' = indicator
    /\ currentPage' = 1
    /\ UNCHANGED <<search, commodity, sort, rowsPerPage, overlays, mapVisible>>
    /\ Render

\* Mutant: the other filter is not taken away.
AddRiskFilter(filter) == SetFilters(filter, indicatorFilter)

\* handleRiskFilter; the field is the one of the commodity on display.
HandleRiskFilter(filter) == SetFilters(filter, NoFilter)

\* The tiles and the indicators take clicks while no plot is selected.
PressTile(v) ==
    LET filter == [field |-> commodity, value |-> v]
    IN  /\ summaryOpen /\ selected = NoPlot
        /\ HandleRiskFilter(IF riskFilter = filter THEN NoFilter ELSE filter)

PressIndicator(i) ==
    /\ summaryOpen /\ selected = NoPlot
    /\ i \in Indicators[commodity] \cup {Water}
    /\ IndicatorCount(i) > 0
    /\ SetFilters(NoFilter, IF indicatorFilter = i THEN NoFilter ELSE i)

\* The chip of the filter, in the search bar and in the summary.
ClearFilter ==
    /\ riskFilter # NoFilter \/ indicatorFilter # NoFilter
    /\ SetFilters(NoFilter, NoFilter)

RiskUnfit(c)      == riskFilter # NoFilter /\ riskFilter.field # c
IndicatorUnfit(c) == indicatorFilter \notin {NoFilter, Water} \cup Indicators[c]

HandleCommodityChange(c) ==
    /\ summaryOpen
    /\ commodity' = c
    /\ riskFilter' = IF RiskUnfit(c) THEN NoFilter ELSE riskFilter
    /\ indicatorFilter' = IF IndicatorUnfit(c) THEN NoFilter ELSE indicatorFilter
    /\ currentPage' = IF RiskUnfit(c) \/ IndicatorUnfit(c) THEN 1 ELSE currentPage
    /\ UNCHANGED <<search, sort, rowsPerPage, overlays, mapVisible>>
    /\ Render

-----------------------------------------------------------------------------
(* The table and its pages *)

HandleSort(column) ==
    /\ sort' = [column |-> column,
                asc |-> sort # NoSort /\ sort.column = column => ~sort.asc]
    /\ currentPage' = 1
    /\ UNCHANGED <<search, filters, commodity, rowsPerPage, overlays, mapVisible>>
    /\ Render

TurnTo(page) ==
    /\ currentPage' = page
    /\ UNCHANGED <<search, filters, commodity, sort, rowsPerPage, overlays, mapVisible>>
    /\ Render

FirstPage    == SafePage > 1 /\ TurnTo(1)
PreviousPage == SafePage > 1 /\ TurnTo(SafePage - 1)
NextPage     == SafePage < TotalPages /\ TurnTo(SafePage + 1)
LastPage     == SafePage < TotalPages /\ TurnTo(TotalPages)

ChangeRowsPerPage(n) ==
    /\ rowsPerPage' = n
    /\ currentPage' = 1
    /\ UNCHANGED <<search, filters, commodity, sort, overlays, mapVisible>>
    /\ Render

ChangeSelection(p) ==
    /\ UNCHANGED <<search, filters, commodity, sort, currentPage, rowsPerPage, overlays,
                   mapVisible>>
    /\ Select(p) /\ DrawLayer

PressRow(p) ==
    /\ p \in ToSet(PageData)
    /\ ChangeSelection(IF selected = p THEN NoPlot ELSE p)

ClearSelection == summaryOpen /\ selected # NoPlot /\ ChangeSelection(NoPlot)

-----------------------------------------------------------------------------
(* The map *)

\* Mutant: pages are counted from zero.
PageFromZero(index, size) == (index - 1) \div size

\* Mutant: the last row of a page is taken for the first of the next.
PageAfter(index, size) == index \div size + 1

\* The page of the row at index, from one.
PageOf(index, size) == (index - 1) \div size + 1

\* A click on a plot of the layer runs handleFeatureClick as it was when the
\* layer was made.
ClickFeature(p) ==
    /\ mapVisible /\ p \in layer.drawn
    /\ currentPage' = PageOf(CHOOSE i \in DOMAIN layer.sorted : layer.sorted[i] = p,
                             layer.size)
    /\ UNCHANGED <<search, filters, commodity, sort, rowsPerPage, overlays, mapVisible>>
    /\ Select(p) /\ DrawLayer

ToggleMap ==
    /\ mapVisible' = ~mapVisible
    /\ UNCHANGED <<search, filters, commodity, sort, currentPage, rowsPerPage, overlays>>
    /\ Render

-----------------------------------------------------------------------------
(* The overlays *)

ShowOverlay(summary, picker) ==
    /\ summaryOpen' = summary /\ pickerOpen' = picker
    /\ UNCHANGED <<search, filters, commodity, sort, currentPage, rowsPerPage, selected,
                   mapVisible, layer>>

\* Mutant: the picker is left open under the summary.
OpenSummaryOver == ShowOverlay(TRUE, pickerOpen)

OpenSummary  == ShowOverlay(TRUE, FALSE)
CloseSummary == ShowOverlay(FALSE, pickerOpen)
OpenPicker   == ShowOverlay(FALSE, TRUE)
ClosePicker  == pickerOpen /\ ShowOverlay(summaryOpen, FALSE)

\* Escape closes the summary, else the picker, else drops the selection.
Escape ==
    \/ summaryOpen /\ ShowOverlay(FALSE, pickerOpen)
    \/ ~summaryOpen /\ pickerOpen /\ ShowOverlay(FALSE, FALSE)
    \/ ~summaryOpen /\ ~pickerOpen /\ selected # NoPlot /\ ChangeSelection(NoPlot)

-----------------------------------------------------------------------------
Next ==
    \/ \E text \in Searches : Type(text)
    \/ \E v \in Value : PressTile(v)
    \/ \E i \in UNION {Indicators[c] : c \in Commodity} \cup {Water} : PressIndicator(i)
    \/ ClearFilter
    \/ \E c \in Commodity : HandleCommodityChange(c)
    \/ \E column \in Column : HandleSort(column)
    \/ FirstPage \/ PreviousPage \/ NextPage \/ LastPage
    \/ \E n \in PageSizes : ChangeRowsPerPage(n)
    \/ \E p \in Plot : PressRow(p) \/ ClickFeature(p)
    \/ ClearSelection
    \/ ToggleMap
    \/ OpenSummary \/ CloseSummary \/ OpenPicker \/ ClosePicker
    \/ Escape

Spec == Init /\ [][Next]_vars

-----------------------------------------------------------------------------
(* Properties *)

TypeOK ==
    /\ search \subseteq Plot
    /\ riskFilter \in [field : Commodity, value : Value] \cup {NoFilter}
    /\ commodity \in Commodity
    /\ sort \in [column : Column, asc : BOOLEAN] \cup {NoSort}
    /\ currentPage \in Nat \ {0} /\ rowsPerPage \in PageSizes
    /\ selected \in Plot \cup {NoPlot}
    /\ {summaryOpen, pickerOpen, mapVisible} \subseteq BOOLEAN
    /\ layer.drawn \subseteq Plot

\* Whatever is searched for, filtered or clicked on a stale layer, the
\* selected plot is one of those on display.
SelectedIsListed == selected # NoPlot => selected \in ToSet(FilteredData)

\* At most one filter is set, and it belongs to the commodity of the summary:
\* the tile or the indicator that takes it away is on the screen.
FilterIsAtHand ==
    /\ riskFilter # NoFilter => riskFilter.field = commodity
    /\ indicatorFilter \in {NoFilter, Water} \cup Indicators[commodity]
    /\ riskFilter = NoFilter \/ indicatorFilter = NoFilter

\* A page without rows is shown only when there are none.
PageHasRows == FilteredData # <<>> => PageData # <<>>

\* The summary and the field picker cover the same place.
OneOverlay == ~(summaryOpen /\ pickerOpen)

\* The layer may be stale, but the selected plot is drawn on it.
SelectionIsDrawn == mapVisible /\ selected # NoPlot => selected \in layer.drawn

\* What is on display fits together.
ViewInv ==
    /\ TypeOK /\ SelectedIsListed /\ FilterIsAtHand
    /\ PageHasRows /\ OneOverlay /\ SelectionIsDrawn

\* Pressing a tile or an indicator leaves as many plots as it promised.
TilesAreHonest ==
    [][ /\ \A v \in Value : PressTile(v) /\ riskFilter' # NoFilter
               => Len(FilteredData') = TileCount(v)
        /\ \A i \in Indicators[commodity] \cup {Water} :
               PressIndicator(i) /\ indicatorFilter' # NoFilter
               => Len(FilteredData') = IndicatorCount(i) ]_vars

\* A click on a plot of a layer that is not stale turns to the page of its row.
ClickTurnsToRow ==
    [][ \A p \in Plot : ClickFeature(p) /\ layer.sorted = SortedData
                                        /\ layer.size = rowsPerPage
            => p \in ToSet(PageData') /\ selected' = p ]_vars

=============================================================================
