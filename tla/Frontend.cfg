SPECIFICATION Spec
CONSTANTS
    Names = {"x"}
    FnNames = {"main"}
    Exprs <- MCExprs
    Annotations = {}
    InferTop <- MCInferTop
    CheckExpr <- MCCheckExpr
    InitialLoopDepths = {0}
    LoopMod = 8
    VarsOf <- MCVarsOf
    CallsOf <- MCCallsOf
    Printf = "printf"
    MaxFns = 2
    MaxDepth = 4
    MaxTree = 8
INVARIANTS
    LookupsSucceed
    CallsGoBack
    AllocaDominatesUse
    VerdictByShape
