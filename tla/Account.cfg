SPECIFICATION AccountSpec
CONSTANTS
    None = None
    d1 = d1
    d2 = d2
    MaxKeys = 1
    MaxCalls = 3
    MaxVisits = 2
    KeyBound = 4
    Names = {"a", "b"}
    Passwords = {"p"}
    Weak = {}
    Sections = {"profile", "password", "notifications", "delete"}
    MaxSaves = 1
    MaxToggles = 2
    SettingsCalls = 2
    MaxJobs = 2
    Limit = 3
    PageSizes = {1}
    Outcomes = {"completed", "error"}
    Filters = {"all", "processing"}
    Searches <- AllJobs
    Durations <- Borderline
    Doc = {d1, d2}
    Id = {1}
    Field = {1, 2}
    Value = {"x"}
    AdminCalls = 2
INVARIANT SettingsInv
INVARIANT JobsInv
PROPERTY KeyOnDisplayWorks
PROPERTY FormsAreKept
PROPERTY RequestsEnd
CHECK_DEADLOCK FALSE
