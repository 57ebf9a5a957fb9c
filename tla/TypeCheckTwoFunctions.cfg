SPECIFICATION Spec
CONSTANTS
    Names = {"x", "y"}
    FnNames = {"b", "main"}
    Exprs <- MCExprs
    Annotations = {"Int8"}
    InferTop <- MCInferTop
    CheckExpr <- MCCheckExpr
    InitialLoopDepths = {0}
    LoopMod = 4
    MaxFns = 2
    MaxDepth = 2
INVARIANTS
    SampleProgramChecks
