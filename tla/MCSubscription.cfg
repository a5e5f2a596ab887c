SPECIFICATION Spec
CONSTANTS
    Keys = {k1, k2}
    Ids = {"p", "q"}
    BadKey = bad
    U64 = 4
    MaxPreconfFilters = 1
    MaxPreconfAccounts = 1
    FilterSets <- MCFilterSets
    SliceLists <- MCSliceLists
    MaxCalls = 2
    MaxBuilds = 2
INVARIANTS AskedForIsKept RequestServesParsers
CHECK_DEADLOCK FALSE
