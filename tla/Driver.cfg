SPECIFICATION Spec
CONSTANTS
    Procs <- MCProcs
    Flaws <- MCFlaws
INVARIANTS
    TypeOK
    RejectedLeavesNoTrace
    LeftoversHarmless
PROPERTIES
    SilentMeansBuilt
    CompilationsEnd
