SPECIFICATION MCSpec
CONSTANTS
    u1 = u1
    temp = temp
    k1 = k1
    k2 = k2
    k3 = k3
    r1 = r1
    r2 = r2
    c1 = c1
    c2 = c2
    c3 = c3
    User = {u1}
    Temp = temp
    Key = {k1, k2, k3}
    Request = {r1, r2}
    Change = {c1, c2, c3}
    Asker <- OneAnonymous
    Changer <- OneChanger
    Kind <- OneOfEach
    NoKey = NoKey
    Parts = {"requests", "changes", "limit"}
    Window = 5
    Limit = 2
    Second = 3
    MaxTime = 13
INVARIANT StaleNeedsRace
INVARIANT KeysInv
PROPERTY DeadStaysDead
PROPERTY DeadIsForgotten
INVARIANT BurstIsBounded
INVARIANT RetryIsHonest
CHECK_DEADLOCK FALSE
