\* As MCRcuSafety, with one value and without symmetry, which is not sound for
\* liveness.  Three addresses hold an old version in use, an unused one behind it
\* and the current one.
CONSTANTS
    Readers = {r1, r2}
    Writers = {w1}
    Addr = {a1, a2, a3}
    Values = {v0}
    InitVal = v0
    None = None
SPECIFICATION FairSpec
PROPERTIES UpdateTerminates UnusedFreed ReleaseTerminates
