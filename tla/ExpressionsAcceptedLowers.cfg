SPECIFICATION Spec
CONSTANTS
    Names = {"a", "b", "c", "d", "u"}
    FnNames = {"f", "g"}
    MaxHeight = 2
    Trees <- MCTrees
    Env <- MCEnv
    Annotations = {"Int8", "Int64", "Float32", "Bool"}
INVARIANTS
    AcceptedLowers
