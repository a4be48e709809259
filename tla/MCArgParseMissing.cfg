CONSTANTS
    ParserTuples <- MCParserTuples
    ValueTuples <- MCValueTuples
    Limit = 2
    MaxOptions = 0
    MaxOperands = 4
SPECIFICATION Spec
INVARIANT MissingNamed
