\* Four positionals fill a LimitedMultiValue of two and leave two more for the
\* next values; two options repeat one or mix two.
CONSTANTS
    ParserTuples <- MCParserTuples
    ValueTuples <- MCValueTuples
    Limit = 2
    MaxOptions = 2
    MaxOperands = 4
SPECIFICATION Spec
INVARIANTS TypeOK ConstructorExact OkExact OperandsInOrder OptionsDigestedOnce
