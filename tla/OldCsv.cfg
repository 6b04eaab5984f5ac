SPECIFICATION Spec
CONSTANTS
    None = None
    Unset = Unset
    a = a
    b = b
    r1 = r1
    r2 = r2
    N = 3
    GeoId = {a, b, bad}
    WellFormed = {a, b}
    Concurrency = 2
    MaxAttempts = 2
    Child <- ThreeChildren
    Bare <- SecondBare
    MaxStops = 2
    File = {1, 2, 3}
    Runner = {r1, r2}
    Has <- MCHas
    Repeatable = {2, 3}
    MaxStarts = 3
    MaxCalls = 3
    MaxFaults = 4
PROPERTY CompletedCsvIsServed
CHECK_DEADLOCK FALSE
