SPECIFICATION Spec
CONSTANTS
    Names = {"x", "y"}
    FnNames = {"b", "main"}
    Exprs <- MCExprs
    Annotations = {"Int8"}
    InferTop <- MCInferTop
    CheckExpr <- MCCheckExpr
    InitialLoopDepths = {0}
    LoopMod = 8
    MaxFns = 3
    MaxDepth = 3
INVARIANTS
    TypeOK
    ScopesMatchBlocks
    LiveMeansVisible
    JumpGuardExact
PROPERTIES
    ImplementsLexicalScope
