SPECIFICATION Spec
CONSTANTS
    Names = {"x", "y"}
    FnNames = {"b", "main"}
    Exprs <- MCExprs
    Annotations = {"Int8"}
    InferTop <- MCInferTop
    CheckExpr <- MCCheckExpr
    InitialLoopDepths = {0, 1, 2, 3}
    LoopMod = 4
    MaxFns = 1
    MaxDepth = 2
INVARIANTS
    JumpOutsideLoopThrows
