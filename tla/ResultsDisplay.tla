--------------------------- MODULE ResultsDisplay ---------------------------
(***************************************************************************)
(* What a results page displays, and what its parts promise: the status of *)
(* the job and its rows, the view of the rows, the decision trees of the   *)
(* overview, the picker of the columns, and the file that is downloaded.   *)
(* They share no state; ResultsPage keeps its names, the other parts are   *)
(* instances.                                                              *)
(***************************************************************************)
EXTENDS ResultsPage

CONSTANTS
    Nil,                                    \* no plot, no filter, no order, no group
    Water,                                  \* the indicator of every commodity
    Table, ViewCommodity, ViewIndicators, ViewRisk, ViewYes,
    Searches, Rank, PageSizes,                                            \* of the view
    TreePlots, TreesAsked, Lacks,                                         \* of the trees
    Results, FileCommodity, FileIndicators, ColumnChoices, PageSize,      \* of the file
    Fields, Queries                                                       \* of the picker

VARIABLES
    search, riskFilter, indicatorFilter, commodity, sort, currentPage, rowsPerPage,
    selected, summaryOpen, pickerOpen, mapVisible, layer

Display == INSTANCE ResultsView
    WITH Commodity <- ViewCommodity, Indicators <- ViewIndicators, Risk <- ViewRisk, Yes <- ViewYes,
         NoPlot <- Nil, NoFilter <- Nil, NoSort <- Nil

VARIABLES treeCommodity, yes, searched, followed, node, remaining, active, steps

Overview == INSTANCE RiskTrees
    WITH Plot <- TreePlots, Asked <- TreesAsked, NoPlot <- Nil, Pinned <- Lacks,
         commodity <- treeCommodity, rows <- searched, selected <- followed

VARIABLES fileRows, columns, fileTab, fileRisk, indFilter, filePage, openId

File == INSTANCE OfflineReport
    WITH Commodity <- FileCommodity, Indicators <- FileIndicators, Nothing <- Nil,
         rows <- fileRows, commodity <- fileTab, riskFilter <- fileRisk, page <- filePage

VARIABLES arrived, visible, open, query, activeGroup

Picker == INSTANCE FieldPicker WITH NoGroup <- Nil

-----------------------------------------------------------------------------
\* The selected plot, the filters, the pages, the overlays and the columns on
\* display fit together, whatever is pressed in whatever order; see ResultsView
\* and FieldPicker.
ViewInv == Display!ViewInv /\ Picker!PickerInv

\* The numbers on a tile, on an indicator and of a page are those that pressing it
\* shows, on the page and in the file; see ResultsView and OfflineReport.
NumbersAreHonest == Display!TilesAreHonest /\ Display!ClickTurnsToRow /\ File!CountsAreRows

\* A filter of the file can be taken away and one detail is open; see OfflineReport.
ReportInv == File!ReportInv

\* The overview counts, follows and paints a plot as its answers decide; see RiskTrees.
TreesAreDecisions == Overview!TreesAreDecisions
=============================================================================
