SPECIFICATION ResultsSpec
CONSTANTS
    Nil = Nil
    Poll = {1}
    MaxEvents = 2
    MaxReloads = 1
    Faults <- PollingFaults
    Water = "water"
    Table <- TableOf
    ViewCommodity = {"pcrop", "timber"}
    ViewIndicators <- IndicatorsOf
    ViewRisk <- RiskOf
    ViewYes <- YesOf
    Searches <- SearchesOf
    Rank <- RankOf
    PageSizes = {1, 2}
    TreePlots = {"a", "b"}
    TreesAsked = {"pcrop", "acrop", "timber"}
    Lacks <- Lacking
    Results <- ResultsOf
    FileCommodity = {"risk_pcrop", "risk_timber"}
    FileIndicators <- FileIndicatorsOf
    ColumnChoices <- ColumnChoicesOf
    PageSize = 2
    Fields <- FieldsOf
    Queries <- QueriesOf
INVARIANT ViewInv
INVARIANT TreesAreDecisions
INVARIANT ReportInv
PROPERTY RowsStay
PROPERTY PageSettles
PROPERTY NumbersAreHonest
CHECK_DEADLOCK FALSE
