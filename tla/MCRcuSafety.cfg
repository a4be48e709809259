\* Two readers, two writers and three versions of the value: one old version
\* that a reader holds, the current one and the one being written.
CONSTANTS
    Readers = {r1, r2}
    Writers = {w1, w2}
    Addr = {a1, a2, a3}
    Values = {v0, v1}
    InitVal = v0
    None = None
SPECIFICATION Spec
SYMMETRY Symmetry
INVARIANTS TypeOK PinnedNodesAlive RcuInv RefcountExact VersionsBounded
PROPERTIES SnapshotStable WalkShortens CleanupAdvances ImplementsVersionedValue
