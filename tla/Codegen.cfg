SPECIFICATION CSpec
CONSTANTS
    Names = {}
    FnNames = {"main"}
    Exprs <- MCExprs
    VarsOf <- MCVarsOf
    CallsOf <- MCCallsOf
    Printf = "printf"
    MaxFns = 2
    MaxBlocks = 6
    MaxDepth = 4
INVARIANTS
    TypeOK
    LoopStackExact
    VerdictExact
