SPECIFICATION Spec
CONSTANTS
    Languages <- MCBlocks
INVARIANTS
    EndClosesInnermost
