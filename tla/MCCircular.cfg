\* Three slots and three values of the lap counter: the reader can be on the
\* lap of the writer, one lap behind or more, and the counter wraps.
CONSTANTS
    N = 3
    LapMod = 3
    Values = {a, b}
    Nothing = Nothing
SPECIFICATION Spec
INVARIANTS TypeOK HeadsInOrder
PROPERTY ImplementsLossyQueue
