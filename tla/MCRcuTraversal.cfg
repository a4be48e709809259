CONSTANTS
    Readers = {r1, r2}
    Writers = {w1}
    Addr = {a1, a2, a3}
    Values = {v0}
    InitVal = v0
    None = None
SPECIFICATION Spec
INVARIANT TraversalSafe
