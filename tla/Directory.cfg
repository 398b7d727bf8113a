SPECIFICATION Spec
CONSTANTS
    None = None
    Requests = {r1, r2, r3}
    r1 = r1
    r2 = r2
    r3 = r3
    Names = {"a", "b"}
    MaxFailures = 1
SYMMETRY Symmetric
CHECK_DEADLOCK FALSE
INVARIANT TypeOK
INVARIANT FoundByTheirNames
