SPECIFICATION Spec
CONSTANTS
    Chars <- MCChars
    MaxLen = 4
    Rank <- MCRank
    KEYWORDS <- MCKeywords
    SYMBOLS <- MCSymbols
    Maps <- MCMaps
    Values <- MCTypes
INVARIANTS
    TypeOK
    TextCovered
    TokensExact
    ErrorsJustified
    LocationsExact
    FindExact
PROPERTIES
    LexingEnds
