SPECIFICATION Spec
CONSTANTS
    Languages <- MCLanguages
INVARIANTS
    TypeOK
    NeverPastEnd
    ExpressionsExact
    NestingExact
PROPERTIES
    StatementsJudged
    ParsingEnds
