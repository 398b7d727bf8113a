SPECIFICATION Spec
CONSTANTS
    None = None
    a1 = a1
    a2 = a2
    a3 = a3
    v1 = v1
    v2 = v2
    u1 = u1
    u2 = u2
    p1 = p1
    p2 = p2
    Planets = {p1, p2}
    Players = {u1, u2}
    Value <- Value2
    InitialShares = 2
    InitialDollars = 3
    Auctions = {a1, a2}
    Visits = {v1, v2}
    PlayerOf <- Visitors
    Arrivals = {v2}
    MaxFailures = 1
CHECK_DEADLOCK FALSE
INVARIANT TypeOK
INVARIANT NothingDisappears
INVARIANT BooksBalance
INVARIANT ReportIsAnUpperBound
