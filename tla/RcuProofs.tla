------------------------------- MODULE RcuProofs -------------------------------
(***************************************************************************)
(* Proofs about Rcu for any number of readers and writers, any set of      *)
(* addresses and any set of values.  The invariant RcuInv is proved        *)
(* inductive, action by action; the theorems at the end follow from it.    *)
(***************************************************************************)
EXTENDS Rcu, FiniteSetTheorems, SequenceTheorems, TLAPS

-------------------------------------------------------------------------------
(* Sequences without repetition *)

\* RemoveAt shifts the elements behind position i by one.
LEMMA RemoveAtShifts ==
    ASSUME NEW S, NEW s \in Seq(S), NEW i \in 1 .. Len(s)
    PROVE  /\ RemoveAt(s, i) \in Seq(S)
           /\ Len(RemoveAt(s, i)) = Len(s) - 1
           /\ \A j \in 1 .. Len(s) - 1 :
                 RemoveAt(s, i)[j] = IF j < i THEN s[j] ELSE s[j + 1]
<1> DEFINE p == SubSeq(s, 1, i - 1)
           q == SubSeq(s, i + 1, Len(s))
<1>1. Len(s) \in Nat /\ \A j \in 1 .. Len(s) : s[j] \in S
  BY ElementOfSeq, LenProperties
<1>2. /\ p \in Seq(S) /\ Len(p) = i - 1
      /\ \A j \in 1 .. i - 1 : p[j] = s[j]
  <2>1. 1 \in Int /\ i - 1 \in Int /\ \A j \in 1 .. i - 1 : s[j] \in S
    BY <1>1
  <2>2. /\ p \in Seq(S)
        /\ Len(p) = IF 1 <= i - 1 THEN i - 1 - 1 + 1 ELSE 0
        /\ \A j \in 1 .. i - 1 - 1 + 1 : p[j] = s[1 + j - 1]
    BY <2>1, SubSeqProperties
  <2> HIDE DEF p
  <2>3. QED
    BY <2>2, <1>1
<1>3. /\ q \in Seq(S) /\ Len(q) = Len(s) - i
      /\ \A j \in 1 .. Len(s) - i : q[j] = s[i + j]
  <2>1. i + 1 \in Int /\ Len(s) \in Int /\ \A j \in i + 1 .. Len(s) : s[j] \in S
    BY <1>1
  <2>2. /\ q \in Seq(S)
        /\ Len(q) = IF i + 1 <= Len(s) THEN Len(s) - (i + 1) + 1 ELSE 0
        /\ \A j \in 1 .. Len(s) - (i + 1) + 1 : q[j] = s[i + 1 + j - 1]
    BY <2>1, SubSeqProperties
  <2> HIDE DEF q
  <2>3. QED
    BY <2>2, <1>1
<1>4. RemoveAt(s, i) = p \o q
  BY DEF RemoveAt
<1> HIDE DEF p, q
<1>5. /\ p \o q \in Seq(S)
      /\ Len(p \o q) = Len(p) + Len(q)
      /\ \A j \in 1 .. Len(p) + Len(q) :
            (p \o q)[j] = IF j <= Len(p) THEN p[j] ELSE q[j - Len(p)]
  BY <1>2, <1>3, ConcatProperties, Zenon
<1>6. QED
  BY <1>1, <1>2, <1>3, <1>4, <1>5

\* Erasing position i of a sequence without repetition leaves a sequence
\* without repetition that contains all the other elements.
LEMMA RemoveAtInjective ==
    ASSUME NEW S, NEW s \in Seq(S), IsInjective(s), NEW i \in 1 .. Len(s)
    PROVE  /\ IsInjective(RemoveAt(s, i))
           /\ ToSet(RemoveAt(s, i)) = ToSet(s) \ {s[i]}
           /\ i < Len(s) => Last(RemoveAt(s, i)) = Last(s)
<1> DEFINE r == RemoveAt(s, i)
<1>1. /\ r \in Seq(S) /\ Len(r) = Len(s) - 1
      /\ \A j \in 1 .. Len(s) - 1 : r[j] = IF j < i THEN s[j] ELSE s[j + 1]
  BY RemoveAtShifts
<1>2. DOMAIN r = 1 .. Len(s) - 1 /\ DOMAIN s = 1 .. Len(s) /\ Len(s) \in Nat
  BY <1>1, LenProperties
<1> HIDE DEF r
<1>3. IsInjective(r)
  <2>1. SUFFICES ASSUME NEW j \in 1 .. Len(s) - 1, NEW k \in 1 .. Len(s) - 1,
                        r[j] = r[k]
                 PROVE  j = k
    BY <1>2 DEF IsInjective
  <2>2. \A a, b \in 1 .. Len(s) : s[a] = s[b] => a = b
    BY <1>2 DEF IsInjective
  <2>3. /\ r[j] = s[IF j < i THEN j ELSE j + 1]
        /\ r[k] = s[IF k < i THEN k ELSE k + 1]
    BY <1>1
  <2>4. /\ (IF j < i THEN j ELSE j + 1) \in 1 .. Len(s)
        /\ (IF k < i THEN k ELSE k + 1) \in 1 .. Len(s)
    BY <1>2
  <2>5. (IF j < i THEN j ELSE j + 1) = (IF k < i THEN k ELSE k + 1)
    BY <2>1, <2>2, <2>3, <2>4
  <2>6. QED
    BY <2>5, <1>2
<1>4. ASSUME NEW a \in ToSet(s) \ {s[i]} PROVE a \in ToSet(r)
  <2>1. PICK j \in 1 .. Len(s) : s[j] = a
    BY <1>2 DEF ToSet
  <2>2. CASE j < i
    BY <2>1, <2>2, <1>1, <1>2 DEF ToSet
  <2>3. CASE j > i
    <3>1. j - 1 \in 1 .. Len(s) - 1 /\ r[j - 1] = a
      BY <2>1, <2>3, <1>1, <1>2
    <3>2. QED
      BY <3>1, <1>2 DEF ToSet
  <2>4. QED
    BY <2>1, <2>2, <2>3, <1>2, <1>4
<1>5. ASSUME NEW a \in ToSet(r) PROVE a \in ToSet(s) \ {s[i]}
  BY <1>1, <1>2 DEF ToSet, IsInjective
<1>6. i < Len(s) => Last(r) = Last(s)
  BY <1>1, <1>2 DEF Last
<1>7. QED
  BY <1>3, <1>4, <1>5, <1>6 DEF r

\* A new address at the end of the list.
LEMMA AppendFresh ==
    ASSUME NEW S, NEW s \in Seq(S), IsInjective(s),
           NEW e \in S, e \notin ToSet(s)
    PROVE  /\ Append(s, e) \in Seq(S)
           /\ Append(s, e) # <<>>
           /\ IsInjective(Append(s, e))
           /\ ToSet(Append(s, e)) = ToSet(s) \cup {e}
           /\ Last(Append(s, e)) = e
<1>1. Append(s, e) \in Seq(S) /\ Append(s, e) # <<>>
  BY AppendProperties
<1>2. IsInjective(Append(s, e))
  BY AppendProperties, LenProperties DEF IsInjective, ToSet
<1>3. ToSet(Append(s, e)) = ToSet(s) \cup {e}
  BY AppendProperties, LenProperties DEF ToSet
<1>4. Last(Append(s, e)) = e
  BY AppendProperties, LenProperties DEF Last
<1>5. QED
  BY <1>1, <1>2, <1>3, <1>4

\* The first and the last element belong to the sequence.
LEMMA EndsAreMembers ==
    ASSUME NEW S, NEW s \in Seq(S), s # <<>>
    PROVE  /\ Len(s) \in Nat /\ Len(s) >= 1
           /\ Head(s) \in ToSet(s)
           /\ Last(s) \in ToSet(s)
           /\ ToSet(s) \subseteq S
           /\ \A i \in 1 .. Len(s) : s[i] \in ToSet(s)
<1>1. Len(s) \in Nat /\ Len(s) >= 1 /\ DOMAIN s = 1 .. Len(s)
  BY EmptySeq, LenProperties
<1>2. Head(s) = s[1]
  BY <1>1
<1>3. \A i \in 1 .. Len(s) : s[i] \in S
  BY ElementOfSeq
<1>4. QED
  BY <1>1, <1>2, <1>3 DEF ToSet, Last
-------------------------------------------------------------------------------
(* Counting readers *)

\* Every set of readers is finite; adding or removing one reader changes its
\* cardinality by one, and exchanging one for another does not change it.
LEMMA ReaderSets ==
    ASSUME NEW T \in SUBSET Readers
    PROVE  /\ IsFiniteSet(T)
           /\ Cardinality(T) \in Nat
           /\ \A h \in Readers \ T : Cardinality(T \cup {h}) = Cardinality(T) + 1
           /\ \A h \in T : Cardinality(T \ {h}) = Cardinality(T) - 1
           /\ \A h \in T, g \in Readers \ T :
                 Cardinality((T \ {h}) \cup {g}) = Cardinality(T)
           /\ T = {} <=> Cardinality(T) = 0
<1>1. IsFiniteSet(T)
  BY FS_Subset, RcuAssumption
<1>2. Cardinality(T) \in Nat
  BY <1>1, FS_CardinalityType
<1>3. \A h \in Readers \ T : Cardinality(T \cup {h}) = Cardinality(T) + 1
  BY <1>1, FS_AddElement
<1>4. \A h \in T : IsFiniteSet(T \ {h})
                   /\ Cardinality(T \ {h}) = Cardinality(T) - 1
  BY <1>1, FS_RemoveElement
<1>5. ASSUME NEW h \in T, NEW g \in Readers \ T
      PROVE  Cardinality((T \ {h}) \cup {g}) = Cardinality(T)
  <2>1. Cardinality((T \ {h}) \cup {g}) = Cardinality(T \ {h}) + 1
    BY <1>4, FS_AddElement
  <2>2. QED
    BY <2>1, <1>2, <1>4
<1>6. T = {} <=> Cardinality(T) = 0
  BY <1>1, FS_EmptySet
<1>7. QED
  BY <1>1, <1>2, <1>3, <1>4, <1>5, <1>6

\* A step that neither moves current_ nor changes what readers refer to and
\* who is counted in read() changes no set of pins.
LEMMA PinsUnchanged ==
    ASSUME UNCHANGED <<rpc, ref, current>>, NEW a
    PROVE  Pins(a)' = Pins(a)
BY DEF Pins

\* The list of nodes is never empty.
LEMMA NodesFacts ==
    ASSUME TypeOK
    PROVE  /\ Len(nodes) \in Nat /\ Len(nodes) >= 1
           /\ DOMAIN nodes = 1 .. Len(nodes)
           /\ Live \subseteq Addr /\ None \notin Addr
           /\ \A i \in 1 .. Len(nodes) : nodes[i] \in Addr /\ nodes[i] \in Live
           /\ Head(nodes) \in Live
           /\ Last(nodes) \in Live
BY EndsAreMembers, ElementOfSeq, LenProperties, RcuAssumption DEF TypeOK, Live

\* The node that the cleanup is about to erase is not the current one.
LEMMA ErasedNotCurrent ==
    ASSUME RcuInv, NEW w \in Writers, wpc[w] = "erasing"
    PROVE  /\ cursor \in 1 .. Len(nodes) /\ cursor # Len(nodes)
           /\ current = Last(nodes)
           /\ nodes[cursor] # current
<1>1. /\ Len(nodes) \in Nat
      /\ cursor \in 1 .. Len(nodes) - 1
  BY EndsAreMembers DEF RcuInv, TypeOK, CleanupApart
<1>2. \A x \in Writers : wpc[x] \notin {"editing", "publishing"}
  BY RcuAssumption DEF RcuInv, TypeOK, MutexOwned
<1>3. current = Last(nodes)
  BY <1>2 DEF RcuInv, CurrentIsLast
<1>4. nodes[cursor] # nodes[Len(nodes)]
  BY <1>1, LenProperties DEF RcuInv, TypeOK, IsInjective
<1>5. QED
  BY <1>1, <1>3, <1>4 DEF Last

-------------------------------------------------------------------------------
(* Rcu::read *)

LEMMA ReadLockInv ==
    ASSUME RcuInv, NEW h \in Readers, ReadLock(h)
    PROVE  RcuInv'
<1> USE DEF ReadLock, RcuInv, listVars, writerVars
<1>1. TypeOK'
  BY DEF TypeOK
<1>2. MutexOwned'
  BY RcuAssumption DEF MutexOwned, TypeOK
<1>3. ReadersApart'
  BY DEF ReadersApart, TypeOK
<1>4. CurrentIsLast'
  BY DEF CurrentIsLast, Live
<1>5. CleanupApart'
  BY DEF CleanupApart
<1>6. PinsCounted'
  <2>1. \A a : Pins(a)' = Pins(a)
    BY DEF Pins, TypeOK
  <2>2. QED
    BY <2>1 DEF PinsCounted, Live
<1>7. QED
  BY <1>1, <1>2, <1>3, <1>4, <1>5, <1>6

LEMMA ReadPinInv ==
    ASSUME RcuInv, NEW h \in Readers, ReadPin(h)
    PROVE  RcuInv'
<1> USE DEF ReadPin, RcuInv, listVars, mutexVars, writerVars
<1>1. TypeOK'
  BY DEF TypeOK
<1>2. MutexOwned'
  BY DEF MutexOwned, TypeOK
<1>3. ReadersApart'
  BY DEF ReadersApart, TypeOK
<1>4. CurrentIsLast'
  BY DEF CurrentIsLast, Live
<1>5. CleanupApart'
  BY DEF CleanupApart
<1>6. PinsCounted'
  <2>1. current \in Addr /\ None \notin Addr /\ ref[h] = None
    BY RcuAssumption DEF TypeOK, ReadersApart
  <2>2. Pins(current)' = Pins(current) \cup {h} /\ h \notin Pins(current)
    BY <2>1 DEF Pins, TypeOK
  <2>3. Pins(current) \in SUBSET Readers
    BY DEF Pins
  <2>4. Cardinality(Pins(current)') = Cardinality(Pins(current)) + 1
        /\ Cardinality(Pins(current)) \in Nat
    BY <2>2, <2>3, ReaderSets
  <2>5. ASSUME NEW a \in Live, a # current
        PROVE  Pins(a)' = Pins(a)
    BY <2>1, <2>5 DEF Pins, TypeOK
  <2>6. ASSUME NEW a \in Live
        PROVE  refcount'[a] >= Cardinality(Pins(a)')
    <3>1. CASE a = current
      BY <2>1, <2>4, <3>1 DEF PinsCounted, TypeOK
    <3>2. CASE a # current
      BY <2>5, <3>2 DEF PinsCounted, TypeOK
    <3>3. QED
      BY <3>1, <3>2
  <2>7. QED
    BY <2>6 DEF PinsCounted, Live
<1>7. QED
  BY <1>1, <1>2, <1>3, <1>4, <1>5, <1>6

LEMMA ReadReturnInv ==
    ASSUME RcuInv, NEW h \in Readers, ReadReturn(h)
    PROVE  RcuInv'
<1> USE DEF ReadReturn, RcuInv, listVars, writerVars
<1>1. TypeOK'
  BY DEF TypeOK
<1>2. MutexOwned'
  BY RcuAssumption DEF MutexOwned, TypeOK
<1>3. ReadersApart'
  BY DEF ReadersApart, TypeOK
<1>4. CurrentIsLast'
  BY DEF CurrentIsLast, Live, TypeOK
<1>5. CleanupApart'
  <2>1. ASSUME NEW w \in Writers, wpc[w] = "erasing"
        PROVE  current # nodes[cursor]
    BY <2>1, ErasedNotCurrent
  <2>2. QED
    BY <2>1 DEF CleanupApart, TypeOK
<1>6. PinsCounted'
  <2>1. current \in Live /\ current \in Addr /\ None \notin Addr
    BY RcuAssumption DEF TypeOK, CurrentIsLast
  <2>2. ref[h] = None
    BY DEF ReadersApart
  <2>3. \A a \in Live : Pins(a)' = Pins(a)
    BY <2>1, <2>2, EndsAreMembers, RcuAssumption DEF Pins, TypeOK, Live
  <2>4. QED
    BY <2>1, <2>3 DEF PinsCounted, Live, TypeOK
<1>7. QED
  BY <1>1, <1>2, <1>3, <1>4, <1>5, <1>6

-------------------------------------------------------------------------------
(* RcuReader and Rcu::release *)

LEMMA ReaderMoveInv ==
    ASSUME RcuInv, NEW h \in Readers, NEW g \in Readers, ReaderMove(h, g)
    PROVE  RcuInv'
<1> USE DEF ReaderMove, RcuInv, listVars, mutexVars, writerVars
<1>1. TypeOK'
  BY DEF TypeOK
<1>2. MutexOwned'
  BY DEF MutexOwned
<1>3. ReadersApart'
  BY DEF ReadersApart, TypeOK
<1>4. CurrentIsLast'
  BY NodesFacts DEF CurrentIsLast, Live, TypeOK
<1>5. CleanupApart'
  <2>1. ASSUME NEW w \in Writers, wpc[w] = "erasing"
        PROVE  nodes[cursor] # None
    BY <2>1, NodesFacts, ErasedNotCurrent
  <2>2. QED
    BY <2>1 DEF CleanupApart, TypeOK
<1>6. PinsCounted'
  <2>1. h # g
    OBVIOUS
  <2>2. ASSUME NEW a \in Addr
        PROVE  Cardinality(Pins(a)') = Cardinality(Pins(a))
    <3>1. Pins(a) \in SUBSET Readers
      BY DEF Pins
    <3>2. CASE a = ref[g]
      <4>1. /\ Pins(a)' = (Pins(a) \ {g}) \cup {h}
            /\ g \in Pins(a) /\ h \notin Pins(a)
        BY <2>1, <3>2, NodesFacts DEF Pins, TypeOK
      <4>2. QED
        BY <3>1, <4>1, ReaderSets
    <3>3. CASE a # ref[g]
      <4>1. Pins(a)' = Pins(a)
        BY <2>1, <3>3, NodesFacts DEF Pins, TypeOK
      <4>2. QED
        BY <4>1
    <3>4. QED
      BY <3>2, <3>3
  <2>3. QED
    BY <2>1, <2>2, NodesFacts DEF PinsCounted, Live, TypeOK
<1>7. QED
  BY <1>1, <1>2, <1>3, <1>4, <1>5, <1>6

LEMMA ReleaseBeginInv ==
    ASSUME RcuInv, NEW h \in Readers, NEW g \in Readers, ReleaseBegin(h, g)
    PROVE  RcuInv'
<1> USE DEF ReleaseBegin, RcuInv, listVars, mutexVars, writerVars
<1>1. TypeOK'
  BY EndsAreMembers DEF TypeOK
<1>2. MutexOwned'
  BY DEF MutexOwned, TypeOK
<1>3. ReadersApart'
  <2>1. \A r \in Readers : rpc'[r] \in {"reading", "pinned"} => ref'[r] = None
    BY DEF ReadersApart, TypeOK
  <2>2. ASSUME NEW r \in Readers, rpc'[r] = "finding"
        PROVE  /\ ref'[r] # None
               /\ source'[r] # r => rpc'[source'[r]] = "source"
    BY <2>2 DEF ReadersApart, TypeOK
  <2>3. ASSUME NEW r \in Readers, NEW q \in Readers,
               rpc'[r] = "finding", rpc'[q] = "finding",
               source'[r] = source'[q]
        PROVE  r = q
    BY <2>3 DEF ReadersApart, TypeOK
  <2>4. QED
    BY <2>1, <2>2, <2>3 DEF ReadersApart
<1>4. CurrentIsLast'
  BY DEF CurrentIsLast, Live
<1>5. CleanupApart'
  BY DEF CleanupApart
<1>6. PinsCounted'
  <2>1. \A a : Pins(a)' = Pins(a)
    BY DEF Pins, TypeOK
  <2>2. QED
    BY <2>1 DEF PinsCounted, Live
<1>7. QED
  BY <1>1, <1>2, <1>3, <1>4, <1>5, <1>6

\* A step of the walk changes nothing but the iterator.
LEMMA ReleaseWalkInv ==
    ASSUME RcuInv, NEW h \in Readers, ReleaseNext(h) \/ ReleaseStray(h)
    PROVE  RcuInv'
<1>1. /\ UNCHANGED <<nodes, value, refcount, current, nodesMutex, currentMutex,
                     rpc, ref, source, wpc, cursor, strayed>>
      /\ it' \in [Readers -> Addr \cup {None}]
  <2>1. Live \subseteq Addr /\ DOMAIN nodes = 1 .. Len(nodes)
        /\ Len(nodes) \in Nat
        /\ \A i \in 1 .. Len(nodes) : nodes[i] \in Addr
    BY EndsAreMembers, ElementOfSeq, LenProperties DEF Live, RcuInv, TypeOK
  <2>2. CASE ReleaseNext(h)
    BY <2>1, <2>2 DEF ReleaseNext, RcuInv, TypeOK, listVars, mutexVars, writerVars
  <2>3. CASE ReleaseStray(h)
    BY <2>1, <2>3 DEF ReleaseStray, RcuInv, TypeOK, listVars, mutexVars, writerVars
  <2>4. QED
    BY <2>2, <2>3
<1>2. TypeOK'
  BY <1>1 DEF RcuInv, TypeOK
<1>3. MutexOwned' /\ ReadersApart' /\ CleanupApart'
  BY <1>1 DEF RcuInv, MutexOwned, ReadersApart, CleanupApart
<1>4. CurrentIsLast' /\ PinsCounted'
  BY <1>1, PinsUnchanged DEF RcuInv, CurrentIsLast, PinsCounted, Live
<1>5. QED
  BY <1>2, <1>3, <1>4 DEF RcuInv

\* After release() the node of h has one reader less; the readers of the
\* other nodes are as many as before, the right-hand side of an assignment
\* having been replaced by h.
LEMMA ReleasedPins ==
    ASSUME RcuInv, NEW h \in Readers, rpc[h] = "finding", Released(h),
           UNCHANGED current, NEW a \in Addr
    PROVE  /\ Cardinality(Pins(a)) \in Nat
           /\ Cardinality(Pins(a)') = IF a = ref[h] THEN Cardinality(Pins(a)) - 1
                                      ELSE Cardinality(Pins(a))
<1> DEFINE s == source[h]
<1> USE DEF Released, RcuInv, TypeOK
<1>1. s \in Readers /\ None \notin Addr /\ (s # h => rpc[s] = "source")
  BY RcuAssumption DEF ReadersApart
<1>2. Pins(a) \in SUBSET Readers
  BY DEF Pins
<1>3. Cardinality(Pins(a)) \in Nat
  BY <1>2, ReaderSets
<1>4. CASE a = ref[h]
  <2>1. CASE s # h /\ ref[s] = a
    <3>1. Pins(a)' = Pins(a) \ {s} /\ s \in Pins(a)
      BY <1>1, <1>4, <2>1 DEF Pins
    <3>2. QED
      BY <3>1, <1>2, <1>3, <1>4, ReaderSets
  <2>2. CASE s = h \/ ref[s] # a
    <3>1. Pins(a)' = Pins(a) \ {h} /\ h \in Pins(a)
      BY <1>1, <1>4, <2>2 DEF Pins
    <3>2. QED
      BY <3>1, <1>2, <1>3, <1>4, ReaderSets
  <2>3. QED
    BY <2>1, <2>2
<1>5. CASE a # ref[h]
  <2>1. h \notin Pins(a)
    BY <1>5 DEF Pins
  <2>2. CASE s # h /\ ref[s] = a
    <3>1. Pins(a)' = (Pins(a) \ {s}) \cup {h} /\ s \in Pins(a)
      BY <1>1, <1>5, <2>1, <2>2 DEF Pins
    <3>2. Cardinality(Pins(a)') = Cardinality(Pins(a))
      BY <3>1, <2>1, <1>2, ReaderSets
    <3>3. QED
      BY <3>2, <1>3, <1>5
  <2>3. CASE s = h \/ ref[s] # a
    <3>1. Pins(a)' = Pins(a)
      BY <1>1, <1>5, <2>1, <2>3 DEF Pins
    <3>2. QED
      BY <3>1, <1>3, <1>5
  <2>4. QED
    BY <2>2, <2>3
<1>6. QED
  BY <1>4, <1>5

\* What does not depend on whether release() decremented the count.
LEMMA ReleasedInv ==
    ASSUME RcuInv, NEW h \in Readers, rpc[h] = "finding", Released(h),
           UNCHANGED <<nodes, value, current, nodesMutex, currentMutex, wpc,
                       cursor, strayed>>
    PROVE  /\ ref' \in [Readers -> Addr \cup {None}]
           /\ it' \in [Readers -> Addr \cup {None}]
           /\ source' \in [Readers -> Readers]
           /\ rpc' \in [Readers -> {"ready", "reading", "pinned", "finding",
                                    "source"}]
           /\ MutexOwned'
           /\ ReadersApart'
           /\ CurrentIsLast'
           /\ CleanupApart'
           /\ \A r \in Readers : ref'[r] # None => ref'[r] \in Live
<1> USE DEF RcuInv, TypeOK, Released
<1>1. /\ source[h] \in Readers
      /\ \A r \in Readers : r # h /\ rpc[r] = "finding"
                             => source[r] # source[h]
      /\ source[h] # h => rpc[source[h]] = "source"
  BY DEF ReadersApart
<1>2. \A r \in Readers :
         \/ ref'[r] = ref[r] /\ r # h
         \/ ref'[r] = None
         \/ ref'[r] = ref[source[h]]
  BY <1>1
<1>3. MutexOwned'
  BY <1>1 DEF MutexOwned
<1>4. ReadersApart'
  <2>1. \A r \in Readers : rpc'[r] \in {"reading", "pinned"} => ref'[r] = None
    BY <1>1 DEF ReadersApart
  <2>2. ASSUME NEW r \in Readers, rpc'[r] = "finding"
        PROVE  /\ ref'[r] # None
               /\ source'[r] # r => rpc'[source'[r]] = "source"
    <3>1. r # h /\ r # source[h] /\ rpc[r] = "finding" /\ source[r] \in Readers
      BY <1>1, <2>2
    <3>2. source'[r] = source[r] /\ ref'[r] = ref[r]
      BY <1>1, <3>1
    <3>3. source[r] # r => source[r] # h /\ source[r] # source[h]
      BY <1>1, <3>1 DEF ReadersApart
    <3>4. QED
      BY <1>1, <3>1, <3>2, <3>3 DEF ReadersApart
  <2>3. ASSUME NEW r \in Readers, NEW q \in Readers,
               rpc'[r] = "finding", rpc'[q] = "finding",
               source'[r] = source'[q]
        PROVE  r = q
    BY <1>1, <2>3 DEF ReadersApart
  <2>4. QED
    BY <2>1, <2>2, <2>3 DEF ReadersApart
<1>5. CurrentIsLast'
  BY <1>1, <1>2, RcuAssumption, EndsAreMembers DEF CurrentIsLast, Live
<1>6. CleanupApart'
  <2>1. ASSUME NEW w \in Writers, wpc[w] = "erasing"
        PROVE  nodes[cursor] # None
    BY <2>1, EndsAreMembers, ErasedNotCurrent, RcuAssumption
  <2>2. QED
    BY <1>1, <1>2, <2>1 DEF CleanupApart
<1>7. \A r \in Readers : ref'[r] # None => ref'[r] \in Live
  BY <1>1, <1>2 DEF PinsCounted
<1>8. QED
  BY <1>1, <1>3, <1>4, <1>5, <1>6, <1>7

LEMMA ReleaseFoundInv ==
    ASSUME RcuInv, NEW h \in Readers, ReleaseFound(h)
    PROVE  RcuInv'
<1>1. /\ rpc[h] = "finding" /\ Released(h)
      /\ refcount' = [refcount EXCEPT ![ref[h]] = @ - 1]
      /\ UNCHANGED <<nodes, value, current, nodesMutex, currentMutex, wpc,
                     cursor, strayed>>
  BY DEF ReleaseFound, listVars, mutexVars, writerVars
<1> USE <1>1
<1>2. TypeOK'
  <2>1. refcount' \in [Addr -> Int]
    <3>1. refcount \in [Addr -> Int] /\ ref[h] \in Addr
      BY DEF RcuInv, TypeOK, ReadersApart
    <3>2. refcount[ref[h]] - 1 \in Int
      BY <3>1
    <3>3. QED
      BY <3>1, <3>2
  <2>2. QED
    BY <2>1, ReleasedInv DEF RcuInv, TypeOK
<1>3. MutexOwned' /\ ReadersApart' /\ CurrentIsLast' /\ CleanupApart'
  BY ReleasedInv
<1>4. PinsCounted'
  <2>1. \A r \in Readers : ref'[r] # None => ref'[r] \in Live'
    BY ReleasedInv DEF Live
  <2>2. Live' = Live /\ Live \subseteq Addr
    BY NodesFacts DEF Live, RcuInv
  <2>3. ASSUME NEW a \in Live
        PROVE  refcount'[a] >= Cardinality(Pins(a)')
    <3>1. a \in Addr /\ refcount[a] \in Int
          /\ refcount[a] >= Cardinality(Pins(a))
          /\ refcount'[a] = IF a = ref[h] THEN refcount[a] - 1 ELSE refcount[a]
      BY <2>2 DEF RcuInv, PinsCounted, TypeOK
    <3>2. QED
      BY <3>1, ReleasedPins
  <2>4. QED
    BY <2>1, <2>2, <2>3 DEF PinsCounted
<1>5. QED
  BY <1>2, <1>3, <1>4 DEF RcuInv

\* A release() that misses its node leaves the count too high, never too low.
LEMMA ReleaseMissedInv ==
    ASSUME RcuInv, NEW h \in Readers, ReleaseMissed(h)
    PROVE  RcuInv'
<1>1. /\ rpc[h] = "finding" /\ Released(h)
      /\ UNCHANGED <<nodes, value, refcount, current, nodesMutex, currentMutex,
                     wpc, cursor, strayed>>
  BY DEF ReleaseMissed, listVars, mutexVars, writerVars
<1> USE <1>1
<1>2. TypeOK'
  <2>1. refcount' \in [Addr -> Int]
    BY DEF RcuInv, TypeOK
  <2>2. QED
    BY <2>1, ReleasedInv DEF RcuInv, TypeOK
<1>3. MutexOwned' /\ ReadersApart' /\ CurrentIsLast' /\ CleanupApart'
  BY ReleasedInv
<1>4. PinsCounted'
  <2>1. \A r \in Readers : ref'[r] # None => ref'[r] \in Live'
    BY ReleasedInv DEF Live
  <2>2. Live' = Live /\ Live \subseteq Addr
    BY NodesFacts DEF Live, RcuInv
  <2>3. ASSUME NEW a \in Live
        PROVE  refcount'[a] >= Cardinality(Pins(a)')
    <3>1. a \in Addr /\ refcount[a] \in Int
          /\ refcount[a] >= Cardinality(Pins(a))
      BY <2>2 DEF RcuInv, PinsCounted, TypeOK
    <3>2. QED
      BY <3>1, ReleasedPins
  <2>4. QED
    BY <2>1, <2>2, <2>3 DEF PinsCounted
<1>5. QED
  BY <1>2, <1>3, <1>4 DEF RcuInv

-------------------------------------------------------------------------------
(* Rcu::write and RcuWriter *)

\* Only the owner of nodes_mutex_ is inside write() or update().
LEMMA OneWriter ==
    ASSUME RcuInv, NEW w \in Writers, wpc[w] # "ready"
    PROVE  /\ nodesMutex = w
           /\ \A x \in Writers : x # w => wpc[x] = "ready"
BY DEF RcuInv, MutexOwned

LEMMA WriteLockInv ==
    ASSUME RcuInv, NEW w \in Writers, WriteLock(w)
    PROVE  RcuInv'
<1> USE DEF WriteLock, RcuInv, listVars, readerVars
<1>1. TypeOK'
  BY DEF TypeOK
<1>2. MutexOwned'
  BY RcuAssumption DEF MutexOwned, TypeOK
<1>3. ReadersApart'
  BY DEF ReadersApart
<1>4. CurrentIsLast'
  BY DEF CurrentIsLast, Live, TypeOK
<1>5. CleanupApart'
  BY DEF CleanupApart, TypeOK
<1>6. PinsCounted'
  BY PinsUnchanged DEF PinsCounted, Live
<1>7. QED
  BY <1>1, <1>2, <1>3, <1>4, <1>5, <1>6

LEMMA WriteCopyInv ==
    ASSUME RcuInv, NEW w \in Writers, WriteCopy(w)
    PROVE  RcuInv'
<1> USE DEF RcuInv
<1>1. PICK a \in Addr \ Live :
         /\ nodes' = Append(nodes, a)
         /\ refcount' = [refcount EXCEPT ![a] = 0]
         /\ value' = [value EXCEPT ![a] = value[Last(nodes)]]
  BY DEF WriteCopy
<1>2. /\ wpc[w] = "locked" /\ wpc' = [wpc EXCEPT ![w] = "editing"]
      /\ UNCHANGED <<current, nodesMutex, currentMutex, rpc, ref, it, source,
                     cursor, strayed>>
  BY DEF WriteCopy, mutexVars, readerVars
<1>3. /\ nodes' \in Seq(Addr) /\ nodes' # <<>> /\ IsInjective(nodes')
      /\ Live' = Live \cup {a} /\ Last(nodes)' = a
  BY <1>1, AppendFresh DEF TypeOK, Live
<1>4. TypeOK'
  <2>1. value[Last(nodes)] \in Values
    BY NodesFacts DEF TypeOK
  <2>2. QED
    BY <1>1, <1>2, <1>3, <2>1 DEF TypeOK
<1>5. MutexOwned'
  BY <1>2 DEF MutexOwned, TypeOK
<1>6. ReadersApart'
  BY <1>2 DEF ReadersApart
<1>7. a # None /\ \A h \in Readers : ref[h] # a
  BY NodesFacts DEF PinsCounted
<1>8. CurrentIsLast'
  BY <1>1, <1>2, <1>3, <1>7 DEF CurrentIsLast, TypeOK
<1>9. CleanupApart'
  BY <1>2, OneWriter DEF CleanupApart, TypeOK
<1>10. PinsCounted'
  <2>1. \A b : Pins(b)' = Pins(b)
    BY <1>2 DEF Pins
  <2>2. Pins(a) = {}
    BY <1>7 DEF Pins, CurrentIsLast
  <2>3. Cardinality(Pins(a)) = 0
    BY <2>2, FS_EmptySet
  <2>4. ASSUME NEW b \in Live' PROVE refcount'[b] >= Cardinality(Pins(b)')
    <3>1. CASE b = a
      BY <1>1, <2>1, <2>3, <3>1 DEF TypeOK
    <3>2. CASE b # a
      BY <1>1, <1>3, <2>1, <3>2 DEF PinsCounted, TypeOK
    <3>3. QED
      BY <3>1, <3>2
  <2>5. QED
    BY <1>2, <1>3, <2>4 DEF PinsCounted
<1>11. QED
  BY <1>4, <1>5, <1>6, <1>8, <1>9, <1>10

LEMMA WriteThrowInv ==
    ASSUME RcuInv, NEW w \in Writers, WriteThrow(w)
    PROVE  RcuInv'
<1> USE DEF WriteThrow, RcuInv, listVars, readerVars
<1>1. TypeOK'
  BY DEF TypeOK
<1>2. MutexOwned'
  BY OneWriter DEF MutexOwned, TypeOK
<1>3. ReadersApart'
  BY DEF ReadersApart
<1>4. CurrentIsLast'
  BY OneWriter DEF CurrentIsLast, Live, TypeOK
<1>5. CleanupApart'
  BY DEF CleanupApart, TypeOK
<1>6. PinsCounted'
  BY PinsUnchanged DEF PinsCounted, Live
<1>7. QED
  BY <1>1, <1>2, <1>3, <1>4, <1>5, <1>6

LEMMA WriterEditInv ==
    ASSUME RcuInv, NEW w \in Writers, NEW v \in Values, WriterEdit(w, v)
    PROVE  RcuInv'
<1> USE DEF WriterEdit, RcuInv, mutexVars, readerVars, writerVars
<1>1. TypeOK'
  BY DEF TypeOK
<1>2. MutexOwned' /\ ReadersApart' /\ CleanupApart'
  BY DEF MutexOwned, ReadersApart, CleanupApart
<1>3. CurrentIsLast' /\ PinsCounted'
  BY PinsUnchanged DEF CurrentIsLast, PinsCounted, Live
<1>4. QED
  BY <1>1, <1>2, <1>3

LEMMA WriterMoveInv ==
    ASSUME RcuInv, NEW x \in Writers, NEW w \in Writers, WriterMove(x, w)
    PROVE  RcuInv'
<1> USE DEF WriterMove, RcuInv, listVars, readerVars
<1>1. TypeOK'
  BY DEF TypeOK
<1>2. \A y \in Writers : y # w => wpc[y] = "ready"
  BY OneWriter
<1>3. MutexOwned'
  BY <1>2 DEF MutexOwned, TypeOK
<1>4. ReadersApart'
  BY DEF ReadersApart
<1>5. CurrentIsLast'
  BY DEF CurrentIsLast, Live, TypeOK
<1>6. CleanupApart'
  BY <1>2 DEF CleanupApart, TypeOK
<1>7. PinsCounted'
  BY PinsUnchanged DEF PinsCounted, Live
<1>8. QED
  BY <1>1, <1>3, <1>4, <1>5, <1>6, <1>7

-------------------------------------------------------------------------------
(* Rcu::update *)

LEMMA UpdateLockInv ==
    ASSUME RcuInv, NEW w \in Writers, UpdateLock(w)
    PROVE  RcuInv'
<1> USE DEF UpdateLock, RcuInv, listVars, readerVars
<1>1. TypeOK'
  BY DEF TypeOK
<1>2. MutexOwned'
  BY OneWriter, RcuAssumption DEF MutexOwned, TypeOK
<1>3. ReadersApart'
  BY DEF ReadersApart
<1>4. CurrentIsLast'
  BY OneWriter DEF CurrentIsLast, Live, TypeOK
<1>5. CleanupApart'
  BY DEF CleanupApart, TypeOK
<1>6. PinsCounted'
  BY PinsUnchanged DEF PinsCounted, Live
<1>7. QED
  BY <1>1, <1>2, <1>3, <1>4, <1>5, <1>6

\* Nobody is counted in read() while current_ moves: current_mutex_ is owned.
LEMMA UpdatePublishInv ==
    ASSUME RcuInv, NEW w \in Writers, UpdatePublish(w)
    PROVE  RcuInv'
<1> USE DEF UpdatePublish, RcuInv, listVars, readerVars
<1>1. TypeOK'
  BY NodesFacts DEF TypeOK
<1>2. \A h \in Readers : rpc[h] \notin {"reading", "pinned"}
  BY RcuAssumption DEF MutexOwned
<1>3. MutexOwned'
  BY <1>2, OneWriter DEF MutexOwned, TypeOK
<1>4. ReadersApart'
  BY DEF ReadersApart
<1>5. CurrentIsLast'
  BY NodesFacts, OneWriter DEF CurrentIsLast, Live, TypeOK
<1>6. CleanupApart'
  <2>1. cursor' \in 1 .. Len(nodes)'
    BY NodesFacts
  <2>2. \A x \in Writers : wpc'[x] # "erasing"
    BY OneWriter DEF TypeOK
  <2>3. QED
    BY <2>1, <2>2 DEF CleanupApart
<1>7. PinsCounted'
  <2>1. \A a : Pins(a)' = Pins(a)
    BY <1>2 DEF Pins
  <2>2. QED
    BY <2>1 DEF PinsCounted, Live
<1>8. QED
  BY <1>1, <1>3, <1>4, <1>5, <1>6, <1>7

\* A node before the last one whose count is zero has no reader.
LEMMA CleanPickInv ==
    ASSUME RcuInv, NEW w \in Writers, CleanPick(w)
    PROVE  RcuInv'
<1> USE DEF CleanPick, RcuInv, listVars, mutexVars, readerVars
<1>1. TypeOK'
  BY DEF TypeOK
<1>2. MutexOwned'
  BY DEF MutexOwned, TypeOK
<1>3. ReadersApart'
  BY DEF ReadersApart
<1>4. CurrentIsLast'
  BY DEF CurrentIsLast, Live, TypeOK
<1>5. CleanupApart'
  <2>1. cursor \in 1 .. Len(nodes) - 1
    BY NodesFacts DEF CleanupApart, TypeOK
  <2>2. nodes[cursor] \in Live /\ nodes[cursor] \in Addr
    BY <2>1, NodesFacts
  <2>3. Pins(nodes[cursor]) = {}
    <3>1. Pins(nodes[cursor]) \in SUBSET Readers
      BY DEF Pins
    <3>2. 0 >= Cardinality(Pins(nodes[cursor]))
      BY <2>2 DEF PinsCounted
    <3>3. QED
      BY <3>1, <3>2, ReaderSets
  <2>4. \A h \in Readers : ref[h] # nodes[cursor]
    BY <2>3 DEF Pins
  <2>5. QED
    BY <2>1, <2>4, OneWriter DEF CleanupApart, TypeOK
<1>6. PinsCounted'
  BY PinsUnchanged DEF PinsCounted, Live
<1>7. QED
  BY <1>1, <1>2, <1>3, <1>4, <1>5, <1>6

LEMMA CleanEraseInv ==
    ASSUME RcuInv, NEW w \in Writers, CleanErase(w)
    PROVE  RcuInv'
<1> USE DEF CleanErase, RcuInv, mutexVars, readerVars
<1>1. /\ cursor \in 1 .. Len(nodes) /\ cursor # Len(nodes)
      /\ current = Last(nodes) /\ nodes[cursor] # current
      /\ \A h \in Readers : ref[h] # nodes[cursor]
  BY ErasedNotCurrent DEF CleanupApart
<1>2. /\ nodes' \in Seq(Addr) /\ Len(nodes') = Len(nodes) - 1
      /\ IsInjective(nodes')
      /\ Live' = Live \ {nodes[cursor]}
      /\ Last(nodes)' = Last(nodes)
  <2>1. cursor < Len(nodes)
    BY <1>1, NodesFacts
  <2>2. QED
    BY <1>1, <2>1, RemoveAtShifts, RemoveAtInjective DEF TypeOK, Live
<1>3. TypeOK'
  <2>1. nodes' # <<>>
    BY <1>1, <1>2, NodesFacts
  <2>2. nodes[cursor] \in Addr /\ InitVal \in Values
    BY <1>1, NodesFacts, RcuAssumption
  <2>3. value' \in [Addr -> Values]
    BY <2>2 DEF TypeOK
  <2>4. strayed' \in BOOLEAN
    OBVIOUS
  <2>5. QED
    BY <1>2, <2>1, <2>3, <2>4 DEF TypeOK
<1>4. MutexOwned'
  BY DEF MutexOwned, TypeOK
<1>5. ReadersApart'
  BY DEF ReadersApart
<1>6. CurrentIsLast'
  BY <1>1, <1>2, OneWriter DEF CurrentIsLast, TypeOK
<1>7. CleanupApart'
  BY <1>1, <1>2, OneWriter, NodesFacts DEF CleanupApart, TypeOK
<1>8. PinsCounted'
  BY <1>1, <1>2, PinsUnchanged DEF PinsCounted
<1>9. QED
  BY <1>3, <1>4, <1>5, <1>6, <1>7, <1>8

LEMMA CleanKeepInv ==
    ASSUME RcuInv, NEW w \in Writers, CleanKeep(w)
    PROVE  RcuInv'
<1> USE DEF CleanKeep, RcuInv, listVars, mutexVars, readerVars
<1>1. TypeOK'
  BY DEF TypeOK
<1>2. MutexOwned' /\ ReadersApart'
  BY DEF MutexOwned, ReadersApart
<1>3. CurrentIsLast' /\ PinsCounted'
  BY PinsUnchanged DEF CurrentIsLast, PinsCounted, Live
<1>4. CleanupApart'
  <2>1. cursor' \in 1 .. Len(nodes)'
    BY NodesFacts DEF CleanupApart, TypeOK
  <2>2. \A x \in Writers : wpc'[x] # "erasing"
    BY OneWriter
  <2>3. QED
    BY <2>1, <2>2 DEF CleanupApart
<1>5. QED
  BY <1>1, <1>2, <1>3, <1>4

LEMMA CleanDoneInv ==
    ASSUME RcuInv, NEW w \in Writers, CleanDone(w)
    PROVE  RcuInv'
<1> USE DEF CleanDone, RcuInv, listVars, readerVars
<1>1. TypeOK'
  BY DEF TypeOK
<1>2. MutexOwned'
  BY OneWriter DEF MutexOwned, TypeOK
<1>3. ReadersApart'
  BY DEF ReadersApart
<1>4. CurrentIsLast'
  BY OneWriter DEF CurrentIsLast, Live, TypeOK
<1>5. CleanupApart'
  BY OneWriter DEF CleanupApart, TypeOK
<1>6. PinsCounted'
  BY PinsUnchanged DEF PinsCounted, Live
<1>7. QED
  BY <1>1, <1>2, <1>3, <1>4, <1>5, <1>6

-------------------------------------------------------------------------------
(* The theorems *)

LEMMA InitInv == Init => RcuInv
<1> SUFFICES ASSUME Init PROVE RcuInv
  OBVIOUS
<1>1. PICK a \in Addr : nodes = <<a>> /\ current = a
  BY DEF Init
<1>2. /\ nodes \in Seq(Addr) /\ nodes # <<>> /\ IsInjective(nodes)
      /\ Len(nodes) = 1 /\ Live = {a} /\ Last(nodes) = a
  BY <1>1 DEF IsInjective, Live, ToSet, Last
<1>3. TypeOK
  <2>1. refcount \in [Addr -> Int]
    BY DEF Init
  <2>2. value \in [Addr -> Values]
    BY RcuAssumption DEF Init
  <2>3. /\ rpc \in [Readers -> {"ready"}]
        /\ ref \in [Readers -> {None}]
        /\ it \in [Readers -> {None}]
        /\ source \in [Readers -> Readers]
        /\ wpc \in [Writers -> {"ready"}]
    BY DEF Init
  <2>4. strayed \in BOOLEAN /\ cursor \in Nat /\ nodesMutex = None
        /\ currentMutex = None
    BY DEF Init
  <2>5. QED
    BY <1>1, <1>2, <2>1, <2>2, <2>3, <2>4 DEF TypeOK
<1>4. MutexOwned /\ ReadersApart /\ CleanupApart
  BY DEF Init, MutexOwned, ReadersApart, CleanupApart
<1>5. CurrentIsLast
  BY <1>1, <1>2 DEF Init, CurrentIsLast
<1>6. PinsCounted
  <2>1. Pins(a) = {}
    BY RcuAssumption DEF Init, Pins
  <2>2. Cardinality(Pins(a)) = 0 /\ refcount[a] = 0
    BY <2>1, FS_EmptySet DEF Init
  <2>3. QED
    BY <1>2, <2>2 DEF Init, PinsCounted
<1>7. QED
  BY <1>3, <1>4, <1>5, <1>6 DEF RcuInv

LEMMA NextInv == RcuInv /\ [Next]_vars => RcuInv'
<1> SUFFICES ASSUME RcuInv, [Next]_vars PROVE RcuInv'
  OBVIOUS
<1>1. ASSUME NEW h \in Readers, ReadLock(h) \/ ReaderStep(h) PROVE RcuInv'
  BY <1>1, ReadLockInv, ReadPinInv, ReadReturnInv, ReleaseWalkInv,
     ReleaseFoundInv, ReleaseMissedInv DEF ReaderStep
<1>2. ASSUME NEW h \in Readers, NEW g \in Readers,
             ReaderMove(h, g) \/ ReleaseBegin(h, g)
      PROVE  RcuInv'
  BY <1>2, ReaderMoveInv, ReleaseBeginInv
<1>3. ASSUME NEW w \in Writers, WriteLock(w) \/ UpdateLock(w) \/ WriterStep(w)
      PROVE  RcuInv'
  BY <1>3, WriteLockInv, UpdateLockInv, WriteCopyInv, WriteThrowInv,
     UpdatePublishInv, CleanPickInv, CleanEraseInv, CleanKeepInv, CleanDoneInv
     DEF WriterStep
<1>4. ASSUME NEW w \in Writers, NEW v \in Values, WriterEdit(w, v)
      PROVE  RcuInv'
  BY <1>4, WriterEditInv
<1>5. ASSUME NEW x \in Writers, NEW w \in Writers, WriterMove(x, w)
      PROVE  RcuInv'
  BY <1>5, WriterMoveInv
<1>6. CASE UNCHANGED vars
  <2>1. \A a : Pins(a)' = Pins(a)
    BY <1>6 DEF vars, Pins
  <2>2. PinsCounted'
    BY <1>6, <2>1 DEF vars, RcuInv, PinsCounted, Live
  <2>3. QED
    BY <1>6, <2>2 DEF vars, RcuInv, TypeOK, MutexOwned, ReadersApart,
                      CurrentIsLast, CleanupApart, Live
<1>7. QED
  BY <1>1, <1>2, <1>3, <1>4, <1>5, <1>6 DEF Next

\* The inductive invariant holds in every reachable state: the mutexes are
\* owned by those who are past their lock(), the current node is the last one
\* unless a draft follows it, the cleanup only picks nodes without readers,
\* and every reader is counted in its node.
THEOREM RcuInvariant == Spec => []RcuInv
<1>1. Init => RcuInv
  BY InitInv
<1>2. RcuInv /\ [Next]_vars => RcuInv'
  BY NextInv
<1>3. QED
  BY <1>1, <1>2, PTL DEF Spec

\* Every variable keeps its type, whatever the threads do.
THEOREM RcuTypes == Spec => []TypeOK
<1>1. RcuInv => TypeOK
  BY DEF RcuInv
<1>2. QED
  BY <1>1, RcuInvariant, PTL

\* No reader ever refers to a freed node, for any number of threads and any
\* interleaving of read(), release(), write() and update(), although release()
\* takes no lock and may walk over erased nodes.
THEOREM ReadersNeverDangle == Spec => []PinnedNodesAlive
<1>1. RcuInv => PinnedNodesAlive
  BY DEF RcuInv, CurrentIsLast, PinsCounted, PinnedNodesAlive
<1>2. QED
  BY <1>1, RcuInvariant, PTL

\* The value a reader holds is never written: the writer writes to a node to
\* which no reader refers, and so do the constructor of a node and the erasure.
LEMMA StableStep ==
    ASSUME RcuInv, [Next]_vars
    PROVE  \A h \in Readers : ref[h] # None /\ ref'[h] = ref[h]
                                 => value'[ref[h]] = value[ref[h]]
<1> SUFFICES ASSUME NEW h \in Readers, ref[h] # None
             PROVE  value'[ref[h]] = value[ref[h]]
  OBVIOUS
<1>1. ref[h] \in Live /\ ref[h] \in Addr
  BY NodesFacts DEF RcuInv, PinsCounted
<1>2. ASSUME NEW w \in Writers, WriteCopy(w)
      PROVE  value'[ref[h]] = value[ref[h]]
  BY <1>1, <1>2 DEF WriteCopy, RcuInv, TypeOK
<1>3. ASSUME NEW w \in Writers, NEW v \in Values, WriterEdit(w, v)
      PROVE  value'[ref[h]] = value[ref[h]]
  BY <1>1, <1>3 DEF WriterEdit, RcuInv, TypeOK, CurrentIsLast
<1>4. ASSUME NEW w \in Writers, CleanErase(w)
      PROVE  value'[ref[h]] = value[ref[h]]
  BY <1>1, <1>4 DEF CleanErase, RcuInv, TypeOK, CleanupApart
<1>5. \/ UNCHANGED value
      \/ \E w \in Writers : WriteCopy(w) \/ CleanErase(w)
      \/ \E w \in Writers, v \in Values : WriterEdit(w, v)
  BY DEF Next, vars, ReaderStep, WriterStep, listVars, mutexVars, readerVars,
         writerVars, ReadLock, ReadPin, ReadReturn, ReaderMove, ReleaseBegin,
         ReleaseNext, ReleaseStray, ReleaseFound, ReleaseMissed, WriteLock,
         WriteThrow, WriterMove, UpdateLock, UpdatePublish, CleanPick,
         CleanKeep, CleanDone
<1>6. QED
  BY <1>2, <1>3, <1>4, <1>5

\* What a reader sees never changes while it holds it.
THEOREM SnapshotsAreStable == Spec => SnapshotStable
<1>1. RcuInv /\ [Next]_vars
         => [\A h \in Readers : ref[h] # None /\ ref'[h] = ref[h]
                                  => value'[ref[h]] = value[ref[h]]]_vars
  BY StableStep
<1>2. QED
  BY <1>1, RcuInvariant, PTL DEF Spec, SnapshotStable

-------------------------------------------------------------------------------
(* The refinement of VersionedValue *)

\* What Promise substitutes for the variables snap and draft.
Snap == [h \in Readers |-> IF ref[h] = None \/ rpc[h] = "finding" THEN None
                           ELSE value[ref[h]]]
Draft == IF \E w \in Writers : wpc[w] \in {"editing", "publishing"}
         THEN value[Last(nodes)] ELSE None

\* A step that writes to no node and moves neither current_ nor a reader, nor
\* a writer into or out of its draft, is a stuttering step.
LEMMA HiddenStep ==
    ASSUME RcuInv,
           UNCHANGED <<nodes, value, current, ref>>,
           \A h \in Readers : rpc'[h] = "finding" <=> rpc[h] = "finding",
           (\E w \in Writers : wpc'[w] \in {"editing", "publishing"})
              <=> (\E w \in Writers : wpc[w] \in {"editing", "publishing"})
    PROVE  UNCHANGED Promise!absVars
<1>1. Snap' = Snap
  BY DEF Snap
<1>2. Draft' = Draft
  BY DEF Draft
<1>3. QED
  BY <1>1, <1>2 DEF Promise!absVars, Snap, Draft

LEMMA ReadReturnIsRead ==
    ASSUME RcuInv, NEW h \in Readers, ReadReturn(h)
    PROVE  Promise!Read(h)
<1> USE DEF ReadReturn, RcuInv, TypeOK, listVars, writerVars
<1>1. ref[h] = None /\ current # None
  BY NodesFacts DEF ReadersApart, CurrentIsLast
<1>2. Snap[h] = None
  BY <1>1 DEF Snap
<1>3. Snap' = [Snap EXCEPT ![h] = value[current]]
  BY <1>1 DEF Snap
<1>4. Draft' = Draft
  BY DEF Draft
<1>5. QED
  BY <1>2, <1>3, <1>4 DEF Promise!Read, Snap, Draft

LEMMA ReaderMoveIsMove ==
    ASSUME RcuInv, NEW h \in Readers, NEW g \in Readers, ReaderMove(h, g)
    PROVE  Promise!Move(h, g)
<1> USE DEF ReaderMove, RcuInv, TypeOK, listVars, mutexVars, writerVars
<1>1. Snap[h] = None
  BY DEF Snap
<1>2. Snap' = [Snap EXCEPT ![h] = Snap[g], ![g] = None]
  BY DEF Snap
<1>3. Draft' = Draft
  BY DEF Draft
<1>4. QED
  BY <1>1, <1>2, <1>3 DEF Promise!Move, Snap, Draft

LEMMA ReleaseBeginIsDrop ==
    ASSUME RcuInv, NEW h \in Readers, NEW g \in Readers, ReleaseBegin(h, g)
    PROVE  Promise!Drop(h)
<1> USE DEF ReleaseBegin, RcuInv, TypeOK, listVars, mutexVars, writerVars
<1>1. Snap' = [Snap EXCEPT ![h] = None]
  BY DEF Snap
<1>2. Draft' = Draft
  BY DEF Draft
<1>3. QED
  BY <1>1, <1>2 DEF Promise!Drop, Snap, Draft

\* The end of release() hands the right-hand side g over to h.
LEMMA ReleasedIsMove ==
    ASSUME RcuInv, NEW h \in Readers, NEW g \in Readers, source[h] = g,
           ReleaseFound(h) \/ ReleaseMissed(h)
    PROVE  Promise!Move(h, g)
<1> USE DEF RcuInv, TypeOK
<1>1. /\ rpc[h] = "finding" /\ Released(h)
      /\ UNCHANGED <<nodes, value, current, wpc>>
  BY DEF ReleaseFound, ReleaseMissed, listVars, writerVars
<1>2. g # h => rpc[g] = "source"
  BY <1>1 DEF ReadersApart
<1>3. Snap[h] = None
  BY <1>1 DEF Snap
<1>4. Snap' = [Snap EXCEPT ![h] = Snap[g], ![g] = None]
  BY <1>1, <1>2 DEF Snap, Released
<1>5. Draft' = Draft
  BY <1>1 DEF Draft
<1>6. QED
  BY <1>1, <1>3, <1>4, <1>5 DEF Promise!Move, Snap, Draft

LEMMA WriteCopyIsBegin ==
    ASSUME RcuInv, NEW w \in Writers, WriteCopy(w)
    PROVE  Promise!Begin
<1> USE DEF RcuInv, TypeOK
<1>1. PICK a \in Addr \ Live :
         /\ nodes' = Append(nodes, a)
         /\ value' = [value EXCEPT ![a] = value[Last(nodes)]]
  BY DEF WriteCopy
<1>2. /\ wpc[w] = "locked" /\ wpc' = [wpc EXCEPT ![w] = "editing"]
      /\ UNCHANGED <<current, ref, rpc>>
  BY DEF WriteCopy, readerVars
<1>3. \A x \in Writers : wpc[x] \notin {"editing", "publishing"}
  BY <1>2, OneWriter
<1>4. current = Last(nodes) /\ current \in Live
  BY <1>3 DEF CurrentIsLast
<1>5. Last(nodes)' = a
  BY <1>1, AppendFresh DEF Live
<1>6. \A h \in Readers : ref[h] # a
  BY NodesFacts DEF PinsCounted
<1>7. Draft = None /\ Draft' = value[current]
  BY <1>1, <1>2, <1>3, <1>4, <1>5 DEF Draft
<1>8. Snap' = Snap
  <2>1. \A h \in Readers : ref[h] # None => value'[ref[h]] = value[ref[h]]
    BY <1>1, <1>6
  <2>2. QED
    BY <1>2, <2>1 DEF Snap
<1>9. value'[current'] = value[current]
  BY <1>1, <1>2, <1>4
<1>10. QED
  BY <1>7, <1>8, <1>9 DEF Promise!Begin, Snap, Draft

LEMMA WriterEditIsEdit ==
    ASSUME RcuInv, NEW w \in Writers, NEW v \in Values, WriterEdit(w, v)
    PROVE  Promise!Edit(v)
<1> USE DEF WriterEdit, RcuInv, TypeOK, mutexVars, readerVars, writerVars
<1>1. /\ current # Last(nodes) /\ \A h \in Readers : ref[h] # Last(nodes)
  BY DEF CurrentIsLast
<1>2. Last(nodes) \in Addr
  BY NodesFacts
<1>3. Draft # None
  BY <1>2, RcuAssumption DEF Draft
<1>4. Draft' = v
  BY <1>2 DEF Draft
<1>5. Snap' = Snap
  <2>1. \A h \in Readers : ref[h] # None => value'[ref[h]] = value[ref[h]]
    BY <1>1
  <2>2. QED
    BY <2>1 DEF Snap
<1>6. value'[current'] = value[current]
  BY <1>1
<1>7. QED
  BY <1>3, <1>4, <1>5, <1>6 DEF Promise!Edit, Snap, Draft

LEMMA UpdatePublishIsCommit ==
    ASSUME RcuInv, NEW w \in Writers, UpdatePublish(w)
    PROVE  Promise!Commit
<1> USE DEF UpdatePublish, RcuInv, TypeOK, listVars, readerVars
<1>1. Last(nodes) \in Addr
  BY NodesFacts
<1>2. Draft = value[Last(nodes)]
  BY DEF Draft
<1>3. Draft # None
  BY <1>1, <1>2, RcuAssumption
<1>4. Draft' = None
  BY OneWriter DEF Draft
<1>5. Snap' = Snap
  BY DEF Snap
<1>6. value'[current'] = Draft
  BY <1>2
<1>7. QED
  BY <1>3, <1>4, <1>5, <1>6 DEF Promise!Commit, Snap, Draft

\* An erased node was neither current nor referred to by a reader.
LEMMA CleanEraseIsHidden ==
    ASSUME RcuInv, NEW w \in Writers, CleanErase(w)
    PROVE  UNCHANGED Promise!absVars
<1> USE DEF CleanErase, RcuInv, TypeOK, mutexVars, readerVars
<1>1. /\ nodes[cursor] # current /\ \A h \in Readers : ref[h] # nodes[cursor]
  BY ErasedNotCurrent DEF CleanupApart
<1>2. Snap' = Snap
  <2>1. \A h \in Readers : ref[h] # None => value'[ref[h]] = value[ref[h]]
    BY <1>1
  <2>2. QED
    BY <2>1 DEF Snap
<1>3. Draft = None /\ Draft' = None
  BY OneWriter DEF Draft
<1>4. value'[current'] = value[current]
  BY <1>1
<1>5. QED
  BY <1>2, <1>3, <1>4 DEF Promise!absVars, Snap, Draft

\* The remaining steps of readers and writers are hidden.
LEMMA OtherStepsAreHidden ==
    ASSUME RcuInv,
           \/ \E h \in Readers : ReadLock(h) \/ ReadPin(h) \/ ReleaseNext(h)
                                 \/ ReleaseStray(h)
           \/ \E w \in Writers : WriteLock(w) \/ WriteThrow(w) \/ UpdateLock(w)
                                 \/ CleanPick(w) \/ CleanKeep(w) \/ CleanDone(w)
           \/ \E x, w \in Writers : WriterMove(x, w)
           \/ UNCHANGED vars
    PROVE  UNCHANGED Promise!absVars
<1> USE DEF RcuInv, TypeOK, listVars, mutexVars, readerVars, writerVars
<1>1. ASSUME NEW h \in Readers,
             ReadLock(h) \/ ReadPin(h) \/ ReleaseNext(h) \/ ReleaseStray(h)
      PROVE  UNCHANGED Promise!absVars
  BY <1>1, HiddenStep DEF ReadLock, ReadPin, ReleaseNext, ReleaseStray
<1>2. ASSUME NEW w \in Writers,
             WriteLock(w) \/ WriteThrow(w) \/ UpdateLock(w) \/ CleanPick(w)
             \/ CleanKeep(w) \/ CleanDone(w)
      PROVE  UNCHANGED Promise!absVars
  <2>1. UNCHANGED <<nodes, value, current, ref, rpc>>
    BY <1>2 DEF WriteLock, WriteThrow, UpdateLock, CleanPick, CleanKeep, CleanDone
  <2>2. \A x \in Writers : wpc'[x] \in {"editing", "publishing"}
                              <=> wpc[x] \in {"editing", "publishing"}
    BY <1>2 DEF WriteLock, WriteThrow, UpdateLock, CleanPick, CleanKeep, CleanDone
  <2>3. QED
    BY <2>1, <2>2, HiddenStep
<1>3. ASSUME NEW x \in Writers, NEW w \in Writers, WriterMove(x, w)
      PROVE  UNCHANGED Promise!absVars
  BY <1>3, HiddenStep DEF WriterMove
<1>4. CASE UNCHANGED vars
  BY <1>4, HiddenStep DEF vars
<1>5. QED
  BY <1>1, <1>2, <1>3, <1>4

\* Rcu implements VersionedValue: readers see one published value at one
\* instant and never a draft, and no update is lost, for any number of readers
\* and writers and with a release() that takes no lock.
THEOREM RcuRefinesVersionedValue == Spec => ImplementsVersionedValue
<1>1. Init => Promise!Init
  <2> SUFFICES ASSUME Init PROVE Promise!Init
    OBVIOUS
  <2>1. value[current] = InitVal
    BY DEF Init
  <2>2. Snap = [h \in Readers |-> None] /\ Draft = None
    BY DEF Init, Snap, Draft
  <2>3. QED
    BY <2>1, <2>2 DEF Promise!Init, Snap, Draft
<1>2. RcuInv /\ [Next]_vars => [Promise!Next]_(Promise!absVars)
  <2> SUFFICES ASSUME RcuInv, [Next]_vars
               PROVE  Promise!Next \/ UNCHANGED Promise!absVars
    BY DEF Promise!absVars
  <2>1. ASSUME NEW h \in Readers, ReadReturn(h) PROVE Promise!Next
    BY <2>1, ReadReturnIsRead DEF Promise!Next
  <2>2. ASSUME NEW h \in Readers, ReleaseFound(h) \/ ReleaseMissed(h)
        PROVE  Promise!Next
    <3>1. PICK g \in Readers : source[h] = g
      BY DEF RcuInv, TypeOK
    <3>2. Promise!Move(h, g)
      BY <2>2, <3>1, ReleasedIsMove
    <3>3. QED
      BY <3>1, <3>2 DEF Promise!Next
  <2>3. ASSUME NEW h \in Readers, NEW g \in Readers,
               ReaderMove(h, g) \/ ReleaseBegin(h, g)
        PROVE  Promise!Next
    BY <2>3, ReaderMoveIsMove, ReleaseBeginIsDrop DEF Promise!Next
  <2>4. ASSUME NEW w \in Writers, WriteCopy(w) \/ UpdatePublish(w)
        PROVE  Promise!Next
    BY <2>4, WriteCopyIsBegin, UpdatePublishIsCommit DEF Promise!Next
  <2>5. ASSUME NEW w \in Writers, NEW v \in Values, WriterEdit(w, v)
        PROVE  Promise!Next
    BY <2>5, WriterEditIsEdit DEF Promise!Next
  <2>6. ASSUME NEW w \in Writers, CleanErase(w)
        PROVE  UNCHANGED Promise!absVars
    BY <2>6, CleanEraseIsHidden
  <2>7. QED
    BY <2>1, <2>2, <2>3, <2>4, <2>5, <2>6, OtherStepsAreHidden
       DEF Next, ReaderStep, WriterStep
<1>3. QED
  BY <1>1, <1>2, RcuInvariant, PTL DEF Spec, ImplementsVersionedValue, Promise!Spec

-------------------------------------------------------------------------------
(* The counts are exact as long as no release() has strayed: a walk that goes from *)
(* node to node is never past the one it looks for.                                *)

\* The walk of a release() stands on the node of its reader, or before it.
Before(h) ==
    \E i, j \in 1 .. Len(nodes) : nodes[i] = it[h] /\ nodes[j] = ref[h] /\ i <= j

CountsExact == \A a \in Live : refcount[a] = Cardinality(Pins(a))

CountInv ==
    ~strayed => /\ CountsExact
                /\ \A h \in Readers : rpc[h] = "finding" => Before(h)

-------------------------------------------------------------------------------

\* Most steps change neither the list, the counts, nor a walk.
LEMMA QuietCount ==
    ASSUME RcuInv, CountInv,
           UNCHANGED <<nodes, refcount, strayed>>,
           \A h \in Readers : rpc'[h] = "finding" =>
              rpc[h] = "finding" /\ it'[h] = it[h] /\ ref'[h] = ref[h],
           \A a \in Live : Cardinality(Pins(a)') = Cardinality(Pins(a))
    PROVE  CountInv'
<1> SUFFICES ASSUME ~strayed PROVE CountsExact' /\ \A h \in Readers :
                                      rpc'[h] = "finding" => Before(h)'
  BY DEF CountInv
<1>1. CountsExact'
  BY DEF CountInv, CountsExact, Live
<1>2. ASSUME NEW h \in Readers, rpc'[h] = "finding" PROVE Before(h)'
  BY <1>2 DEF CountInv, Before
<1>3. QED
  BY <1>1, <1>2

\* The walk that is not past its node stands on a node of the list.
LEMMA BeforeIsLive ==
    ASSUME RcuInv, NEW h \in Readers, Before(h)
    PROVE  it[h] \in Live /\ it[h] # None
BY NodesFacts DEF RcuInv, Before

-------------------------------------------------------------------------------
(* Readers *)

LEMMA ReadLockCount ==
    ASSUME RcuInv, CountInv, NEW h \in Readers, ReadLock(h)
    PROVE  CountInv'
<1> USE DEF ReadLock, RcuInv, TypeOK, listVars, writerVars
<1>1. \A a \in Live : Pins(a)' = Pins(a)
  BY DEF Pins
<1>2. \A r \in Readers : rpc'[r] = "finding" =>
         rpc[r] = "finding" /\ it'[r] = it[r] /\ ref'[r] = ref[r]
  OBVIOUS
<1>3. QED
  BY <1>1, <1>2, QuietCount

LEMMA ReadPinCount ==
    ASSUME RcuInv, CountInv, NEW h \in Readers, ReadPin(h)
    PROVE  CountInv'
<1> USE DEF ReadPin, RcuInv, listVars, mutexVars, writerVars
<1> SUFFICES ASSUME ~strayed PROVE CountsExact' /\ \A r \in Readers :
                                      rpc'[r] = "finding" => Before(r)'
  BY DEF CountInv
<1>1. current \in Addr /\ None \notin Addr /\ ref[h] = None
  BY RcuAssumption DEF TypeOK, ReadersApart
<1>2. Pins(current)' = Pins(current) \cup {h} /\ h \notin Pins(current)
  BY <1>1 DEF Pins, TypeOK
<1>3. Pins(current) \in SUBSET Readers
  BY DEF Pins
<1>4. Cardinality(Pins(current)') = Cardinality(Pins(current)) + 1
  BY <1>2, <1>3, ReaderSets
<1>5. ASSUME NEW a \in Live PROVE refcount'[a] = Cardinality(Pins(a)')
  <2>1. CASE a = current
    BY <1>1, <1>4, <2>1 DEF CountInv, CountsExact, TypeOK
  <2>2. CASE a # current
    <3>1. Pins(a)' = Pins(a)
      BY <1>1, <2>2 DEF Pins, TypeOK
    <3>2. QED
      BY <2>2, <3>1 DEF CountInv, CountsExact, TypeOK
  <2>3. QED
    BY <2>1, <2>2
<1>6. CountsExact'
  BY <1>5 DEF CountsExact, Live
<1>7. ASSUME NEW r \in Readers, rpc'[r] = "finding" PROVE Before(r)'
  <2>1. rpc[r] = "finding"
    BY <1>7 DEF TypeOK
  <2>2. QED
    BY <2>1 DEF CountInv, Before
<1>8. QED
  BY <1>6, <1>7

LEMMA ReadReturnCount ==
    ASSUME RcuInv, CountInv, NEW h \in Readers, ReadReturn(h)
    PROVE  CountInv'
<1> USE DEF ReadReturn, RcuInv, listVars, writerVars
<1>1. ref[h] = None /\ current \in Live
  BY DEF ReadersApart, CurrentIsLast
<1>2. \A a \in Live : Pins(a)' = Pins(a)
  BY <1>1, NodesFacts DEF Pins, TypeOK
<1>3. \A r \in Readers : rpc'[r] = "finding" =>
         rpc[r] = "finding" /\ it'[r] = it[r] /\ ref'[r] = ref[r]
  BY DEF TypeOK
<1>4. QED
  BY <1>2, <1>3, QuietCount

LEMMA ReaderMoveCount ==
    ASSUME RcuInv, CountInv, NEW h \in Readers, NEW g \in Readers,
           ReaderMove(h, g)
    PROVE  CountInv'
<1> USE DEF ReaderMove, RcuInv, listVars, mutexVars, writerVars
<1>1. h # g
  OBVIOUS
<1>2. ASSUME NEW a \in Live
      PROVE  Cardinality(Pins(a)') = Cardinality(Pins(a))
  <2>1. Pins(a) \in SUBSET Readers
    BY DEF Pins
  <2>2. CASE a = ref[g]
    <3>1. /\ Pins(a)' = (Pins(a) \ {g}) \cup {h}
          /\ g \in Pins(a) /\ h \notin Pins(a)
      BY <1>1, <2>2, NodesFacts DEF Pins, TypeOK
    <3>2. QED
      BY <2>1, <3>1, ReaderSets
  <2>3. CASE a # ref[g]
    <3>1. Pins(a)' = Pins(a)
      BY <1>1, <2>3, NodesFacts DEF Pins, TypeOK
    <3>2. QED
      BY <3>1
  <2>4. QED
    BY <2>2, <2>3
<1>3. \A r \in Readers : rpc'[r] = "finding" =>
         rpc[r] = "finding" /\ it'[r] = it[r] /\ ref'[r] = ref[r]
  BY DEF TypeOK
<1>4. QED
  BY <1>2, <1>3, QuietCount

\* The walk begins with the first node.
LEMMA ReleaseBeginCount ==
    ASSUME RcuInv, CountInv, NEW h \in Readers, NEW g \in Readers,
           ReleaseBegin(h, g)
    PROVE  CountInv'
<1> USE DEF ReleaseBegin, RcuInv, listVars, mutexVars, writerVars
<1> SUFFICES ASSUME ~strayed PROVE CountsExact' /\ \A r \in Readers :
                                      rpc'[r] = "finding" => Before(r)'
  BY DEF CountInv
<1>1. CountsExact'
  <2>1. \A a \in Live : Pins(a)' = Pins(a)
    BY DEF Pins, TypeOK
  <2>2. QED
    BY <2>1 DEF CountInv, CountsExact, Live
<1>2. ASSUME NEW r \in Readers, rpc'[r] = "finding" PROVE Before(r)'
  <2>1. CASE r = h
    <3>1. ref[h] \in Live
      BY DEF PinsCounted
    <3>2. PICK j \in 1 .. Len(nodes) : nodes[j] = ref[h]
      BY <3>1, NodesFacts DEF Live, ToSet
    <3>3. 1 \in 1 .. Len(nodes) /\ Head(nodes) = nodes[1] /\ 1 <= j
      BY NodesFacts DEF TypeOK
    <3>4. it'[h] = nodes[1]
      BY <3>3 DEF TypeOK
    <3>5. QED
      BY <2>1, <3>2, <3>3, <3>4 DEF Before
  <2>2. CASE r # h
    <3>1. rpc[r] = "finding" /\ it'[r] = it[r]
      BY <1>2, <2>2 DEF TypeOK
    <3>2. QED
      BY <3>1 DEF CountInv, Before
  <2>3. QED
    BY <2>1, <2>2
<1>3. QED
  BY <1>1, <1>2

\* The walk goes on from a node before the one it looks for.
LEMMA ReleaseNextCount ==
    ASSUME RcuInv, CountInv, NEW h \in Readers, ReleaseNext(h)
    PROVE  CountInv'
<1> USE DEF ReleaseNext, RcuInv, listVars, mutexVars, writerVars
<1> SUFFICES ASSUME ~strayed PROVE CountsExact' /\ \A r \in Readers :
                                      rpc'[r] = "finding" => Before(r)'
  BY DEF CountInv
<1>1. CountsExact'
  <2>1. \A a \in Live : Pins(a)' = Pins(a)
    BY DEF Pins
  <2>2. QED
    BY <2>1 DEF CountInv, CountsExact, Live
<1>2. ASSUME NEW r \in Readers, rpc'[r] = "finding" PROVE Before(r)'
  <2>1. CASE r = h
    <3>1. PICK i, j \in 1 .. Len(nodes) :
             nodes[i] = it[h] /\ nodes[j] = ref[h] /\ i <= j
      BY DEF CountInv, Before
    <3>2. PICK k \in 1 .. Len(nodes) :
             /\ nodes[k] = it[h]
             /\ it' = [it EXCEPT ![h] = IF k = Len(nodes) THEN None
                                        ELSE nodes[k + 1]]
      BY NodesFacts
    <3>3. k = i
      BY <3>1, <3>2, NodesFacts DEF TypeOK, IsInjective
    <3>4. i # j
      BY <3>1
    <3>5. k + 1 \in 1 .. Len(nodes) /\ k + 1 <= j /\ k # Len(nodes)
      <4>1. Len(nodes) \in Nat
        BY NodesFacts
      <4>2. QED
        BY <3>1, <3>3, <3>4, <4>1
    <3>6. it'[h] = nodes[k + 1]
      BY <3>2, <3>5 DEF TypeOK
    <3>7. QED
      BY <2>1, <3>1, <3>5, <3>6 DEF Before
  <2>2. CASE r # h
    <3>1. rpc[r] = "finding" /\ it'[r] = it[r]
      BY <1>2, <2>2 DEF TypeOK
    <3>2. QED
      BY <3>1 DEF CountInv, Before
  <2>3. QED
    BY <2>1, <2>2
<1>3. QED
  BY <1>1, <1>2

\* It neither leaves the list nor reaches its end.
LEMMA NoStrayNoMiss ==
    ASSUME RcuInv, CountInv, NEW h \in Readers,
           ReleaseStray(h) \/ ReleaseMissed(h)
    PROVE  CountInv'
<1>1. rpc[h] = "finding" /\ strayed' = strayed
      /\ (it[h] = None \/ it[h] \notin Live)
  BY DEF ReleaseStray, ReleaseMissed
<1>2. strayed
  BY <1>1, BeforeIsLive DEF CountInv
<1>3. QED
  BY <1>1, <1>2 DEF CountInv

LEMMA ReleaseFoundCount ==
    ASSUME RcuInv, CountInv, NEW h \in Readers, ReleaseFound(h)
    PROVE  CountInv'
<1>1. /\ rpc[h] = "finding" /\ Released(h)
      /\ refcount' = [refcount EXCEPT ![ref[h]] = @ - 1]
      /\ UNCHANGED <<nodes, value, current, nodesMutex, currentMutex, wpc,
                     cursor, strayed>>
  BY DEF ReleaseFound, listVars, mutexVars, writerVars
<1> SUFFICES ASSUME ~strayed PROVE CountsExact' /\ \A r \in Readers :
                                      rpc'[r] = "finding" => Before(r)'
  BY <1>1 DEF CountInv
<1>2. ASSUME NEW a \in Live PROVE refcount'[a] = Cardinality(Pins(a)')
  <2>1. a \in Addr /\ refcount[a] = Cardinality(Pins(a)) /\ refcount[a] \in Int
    BY NodesFacts DEF RcuInv, TypeOK, CountInv, CountsExact
  <2>2. refcount'[a] = IF a = ref[h] THEN refcount[a] - 1 ELSE refcount[a]
    BY <1>1, <2>1 DEF RcuInv, TypeOK
  <2>3. QED
    BY <1>1, <2>1, <2>2, ReleasedPins
<1>3. CountsExact'
  BY <1>1, <1>2 DEF CountsExact, Live
<1>4. ASSUME NEW r \in Readers, rpc'[r] = "finding" PROVE Before(r)'
  <2>1. source[h] \in Readers /\ (source[h] # h => rpc[source[h]] = "source")
    BY <1>1 DEF RcuInv, TypeOK, ReadersApart
  <2>2. rpc[r] = "finding" /\ it'[r] = it[r] /\ ref'[r] = ref[r]
    BY <1>1, <1>4, <2>1 DEF Released, RcuInv, TypeOK
  <2>3. QED
    BY <1>1, <2>2 DEF CountInv, Before
<1>5. QED
  BY <1>3, <1>4

-------------------------------------------------------------------------------
(* Writers *)

\* The steps of a writer that leave the list and the counts alone; a publication
\* changes no pin, because nobody is counted in read() meanwhile.
LEMMA WriterQuiet ==
    ASSUME RcuInv, CountInv,
           \/ \E w \in Writers :
                 \/ WriteLock(w) \/ WriteThrow(w) \/ UpdateLock(w)
                 \/ UpdatePublish(w) \/ CleanPick(w) \/ CleanKeep(w)
                 \/ CleanDone(w)
           \/ \E w \in Writers, v \in Values : WriterEdit(w, v)
           \/ \E x, w \in Writers : WriterMove(x, w)
           \/ UNCHANGED vars
    PROVE  CountInv'
<1>1. /\ UNCHANGED <<nodes, refcount, strayed, rpc, ref, it>>
      /\ current' = current \/ \E w \in Writers : wpc[w] = "publishing"
  BY DEF WriteLock, WriteThrow, UpdateLock, UpdatePublish, CleanPick, CleanKeep,
         CleanDone, WriterEdit, WriterMove, vars, listVars, mutexVars,
         readerVars, writerVars
<1>2. \A a : Pins(a)' = Pins(a)
  <2>1. CASE current' = current
    BY <1>1, <2>1 DEF Pins
  <2>2. CASE \E w \in Writers : wpc[w] = "publishing"
    <3>1. \A h \in Readers : rpc[h] # "pinned"
      BY <2>2, RcuAssumption DEF RcuInv, MutexOwned
    <3>2. QED
      BY <1>1, <3>1 DEF Pins
  <2>3. QED
    BY <1>1, <2>1, <2>2
<1>3. QED
  BY <1>1, <1>2, QuietCount

\* The new node comes after all that are looked for.
LEMMA WriteCopyCount ==
    ASSUME RcuInv, CountInv, NEW w \in Writers, WriteCopy(w)
    PROVE  CountInv'
<1>1. PICK a \in Addr \ Live :
         /\ nodes' = Append(nodes, a)
         /\ refcount' = [refcount EXCEPT ![a] = 0]
  BY DEF WriteCopy
<1>2. UNCHANGED <<current, rpc, ref, it, strayed>>
  BY DEF WriteCopy, readerVars
<1> SUFFICES ASSUME ~strayed PROVE CountsExact' /\ \A r \in Readers :
                                      rpc'[r] = "finding" => Before(r)'
  BY <1>2 DEF CountInv
<1>3. Live' = Live \cup {a}
  BY <1>1, AppendFresh DEF RcuInv, TypeOK, Live
<1>4. Cardinality(Pins(a)) = 0
  <2>1. Pins(a) = {}
    BY NodesFacts DEF RcuInv, PinsCounted, Pins, CurrentIsLast
  <2>2. QED
    BY <2>1, FS_EmptySet
<1>5. \A b : Pins(b)' = Pins(b)
  BY <1>2 DEF Pins
<1>6. ASSUME NEW b \in Live' PROVE refcount'[b] = Cardinality(Pins(b)')
  <2>1. CASE b = a
    BY <1>1, <1>4, <1>5, <2>1 DEF RcuInv, TypeOK
  <2>2. CASE b # a
    BY <1>1, <1>3, <1>5, <2>2 DEF CountInv, CountsExact, RcuInv, TypeOK
  <2>3. QED
    BY <2>1, <2>2
<1>7. CountsExact'
  BY <1>6 DEF CountsExact
<1>8. ASSUME NEW r \in Readers, rpc'[r] = "finding" PROVE Before(r)'
  <2>1. PICK i, j \in 1 .. Len(nodes) :
           nodes[i] = it[r] /\ nodes[j] = ref[r] /\ i <= j
    BY <1>2, <1>8 DEF CountInv, Before
  <2>2. /\ Len(nodes') = Len(nodes) + 1
        /\ \A k \in 1 .. Len(nodes) : nodes'[k] = nodes[k]
    BY <1>1, AppendProperties DEF RcuInv, TypeOK
  <2>3. i \in 1 .. Len(nodes') /\ j \in 1 .. Len(nodes')
    BY <2>2, NodesFacts DEF RcuInv
  <2>4. nodes'[i] = it'[r] /\ nodes'[j] = ref'[r]
    BY <1>2, <2>1, <2>2
  <2>5. QED
    BY <2>1, <2>3, <2>4 DEF Before
<1>9. QED
  BY <1>7, <1>8

\* The erased node is neither looked for nor, unless the walk strays, stood on:
\* what is left keeps its order.
LEMMA CleanEraseCount ==
    ASSUME RcuInv, CountInv, NEW w \in Writers, CleanErase(w)
    PROVE  CountInv'
<1>1. /\ wpc[w] = "erasing" /\ nodes' = RemoveAt(nodes, cursor)
      /\ UNCHANGED <<refcount, current, rpc, ref, it>>
      /\ strayed' = (strayed \/ \E h \in Readers : it[h] = nodes[cursor])
  BY DEF CleanErase, readerVars
<1> SUFFICES ASSUME ~strayed, \A h \in Readers : it[h] # nodes[cursor]
             PROVE  CountsExact' /\ \A r \in Readers :
                       rpc'[r] = "finding" => Before(r)'
  BY <1>1 DEF CountInv
<1>2. /\ cursor \in 1 .. Len(nodes) /\ cursor # Len(nodes)
      /\ \A h \in Readers : ref[h] # nodes[cursor]
  BY <1>1, ErasedNotCurrent DEF RcuInv, CleanupApart
<1>3. /\ Len(nodes') = Len(nodes) - 1
      /\ \A k \in 1 .. Len(nodes) - 1 :
            nodes'[k] = IF k < cursor THEN nodes[k] ELSE nodes[k + 1]
      /\ Live' = Live \ {nodes[cursor]}
  <2>1. nodes \in Seq(Addr) /\ IsInjective(nodes)
    BY DEF RcuInv, TypeOK
  <2>2. QED
    BY <1>1, <1>2, <2>1, RemoveAtShifts, RemoveAtInjective DEF Live
<1>4. CountsExact'
  <2>1. \A a : Pins(a)' = Pins(a)
    BY <1>1 DEF Pins
  <2>2. QED
    BY <1>1, <1>3, <2>1 DEF CountInv, CountsExact
<1>5. ASSUME NEW r \in Readers, rpc'[r] = "finding" PROVE Before(r)'
  <2>1. PICK i, j \in 1 .. Len(nodes) :
           nodes[i] = it[r] /\ nodes[j] = ref[r] /\ i <= j
    BY <1>1, <1>5 DEF CountInv, Before
  <2>2. i # cursor /\ j # cursor
    BY <1>2, <2>1
  <2> DEFINE Moved(k) == IF k < cursor THEN k ELSE k - 1
  <2>3. /\ Moved(i) \in 1 .. Len(nodes) - 1 /\ Moved(j) \in 1 .. Len(nodes) - 1
        /\ Moved(i) <= Moved(j)
    <3>1. Len(nodes) \in Nat
      BY NodesFacts DEF RcuInv
    <3>2. QED
      BY <1>2, <2>1, <2>2, <3>1
  <2>4. nodes'[Moved(i)] = nodes[i] /\ nodes'[Moved(j)] = nodes[j]
    BY <1>2, <1>3, <2>2, <2>3, NodesFacts DEF RcuInv
  <2> HIDE DEF Moved
  <2>5. QED
    BY <1>1, <1>3, <2>1, <2>3, <2>4 DEF Before
<1>6. QED
  BY <1>4, <1>5

-------------------------------------------------------------------------------

LEMMA InitCount == Init => CountInv
<1> SUFFICES ASSUME Init PROVE CountInv
  OBVIOUS
<1>1. PICK a \in Addr : nodes = <<a>> /\ current = a
  BY DEF Init
<1>2. Live = {a}
  BY <1>1 DEF Live, ToSet
<1>3. Pins(a) = {} /\ refcount[a] = 0
  BY RcuAssumption DEF Init, Pins
<1>4. Cardinality(Pins(a)) = 0
  BY <1>3, FS_EmptySet
<1>5. QED
  BY <1>2, <1>3, <1>4 DEF Init, CountInv, CountsExact

LEMMA NextCount == RcuInv /\ CountInv /\ [Next]_vars => CountInv'
<1> SUFFICES ASSUME RcuInv, CountInv, [Next]_vars PROVE CountInv'
  OBVIOUS
<1>1. ASSUME NEW h \in Readers, ReadLock(h) \/ ReaderStep(h) PROVE CountInv'
  BY <1>1, ReadLockCount, ReadPinCount, ReadReturnCount, ReleaseNextCount,
     NoStrayNoMiss, ReleaseFoundCount DEF ReaderStep
<1>2. ASSUME NEW h \in Readers, NEW g \in Readers,
             ReaderMove(h, g) \/ ReleaseBegin(h, g)
      PROVE  CountInv'
  BY <1>2, ReaderMoveCount, ReleaseBeginCount
<1>3. ASSUME NEW w \in Writers, WriteCopy(w) \/ CleanErase(w) PROVE CountInv'
  BY <1>3, WriteCopyCount, CleanEraseCount
<1>4. QED
  BY <1>1, <1>2, <1>3, WriterQuiet DEF Next, WriterStep

\* The invariant of the walks and of the counts.
LEMMA CountInvariant == Spec => []CountInv
<1>1. Init => CountInv
  BY InitCount
<1>2. RcuInv /\ CountInv /\ [Next]_vars => CountInv'
  BY NextCount
<1>3. QED
  BY <1>1, <1>2, RcuInvariant, PTL DEF Spec

\* As long as no release() has strayed, the count of each node is the number of
\* its readers, for any number of threads: no pin is lost by a move, an assignment
\* or a release() that takes no lock, and none leaks (Rcu.h:110-124).
THEOREM CountsAreExact == Spec => []RefcountExact
<1>1. CountInv => RefcountExact
  BY DEF CountInv, CountsExact, RefcountExact
<1>2. QED
  BY <1>1, CountInvariant, PTL

-------------------------------------------------------------------------------
(* Why release() ends *)

\* An element of a sequence without repetition has one position.
LEMMA PositionIsUnique ==
    ASSUME NEW s, IsInjective(s), NEW i \in DOMAIN s
    PROVE  (CHOOSE k \in DOMAIN s : s[k] = s[i]) = i
BY DEF IsInjective

\* The distance of a walk that stands at i from its node at j.
LEMMA DistanceOf ==
    ASSUME RcuInv, NEW h \in Readers,
           NEW i \in 1 .. Len(nodes), NEW j \in 1 .. Len(nodes),
           nodes[i] = it[h], nodes[j] = ref[h]
    PROVE  Distance(h) = j - i
<1>1. IsInjective(nodes) /\ DOMAIN nodes = 1 .. Len(nodes)
  BY NodesFacts DEF RcuInv, TypeOK
<1>2. Position(nodes[i]) = i /\ Position(nodes[j]) = j
  BY <1>1, PositionIsUnique DEF Position
<1>3. QED
  BY <1>2 DEF Distance

\* The steps that touch a walk or the list that it goes through.
LEMMA WalkKinds ==
    ASSUME RcuInv, [Next]_vars, NEW h \in Readers,
           rpc[h] = "finding", rpc'[h] = "finding"
    PROVE  \/ nodes' = nodes /\ it'[h] = it[h] /\ ref'[h] = ref[h]
                /\ strayed' = strayed
           \/ ReleaseNext(h) \/ ReleaseStray(h)
           \/ \E w \in Writers : WriteCopy(w) \/ CleanErase(w)
<1> DEFINE Same == /\ nodes' = nodes /\ it'[h] = it[h] /\ ref'[h] = ref[h]
                   /\ strayed' = strayed
<1>1. ASSUME NEW r \in Readers, ReadLock(r) \/ ReadPin(r) \/ ReadReturn(r)
      PROVE  Same
  BY <1>1 DEF ReadLock, ReadPin, ReadReturn, RcuInv, TypeOK, listVars,
              writerVars, mutexVars
<1>2. ASSUME NEW r \in Readers, r # h, ReleaseNext(r) \/ ReleaseStray(r)
      PROVE  Same
  BY <1>2 DEF ReleaseNext, ReleaseStray, RcuInv, TypeOK, listVars
<1>3. ASSUME NEW r \in Readers, ReleaseFound(r) \/ ReleaseMissed(r)
      PROVE  Same
  <2>1. rpc[r] = "finding" /\ Released(r) /\ nodes' = nodes /\ strayed' = strayed
    BY <1>3 DEF ReleaseFound, ReleaseMissed, listVars
  <2>2. source[r] \in Readers /\ (source[r] # r => rpc[source[r]] = "source")
    BY <2>1 DEF RcuInv, TypeOK, ReadersApart
  <2>3. h # r /\ h # source[r]
    BY <2>1, <2>2 DEF Released, RcuInv, TypeOK
  <2>4. QED
    BY <2>1, <2>2, <2>3 DEF Released, RcuInv, TypeOK
<1>4. ASSUME NEW r \in Readers, NEW g \in Readers,
             ReaderMove(r, g) \/ ReleaseBegin(r, g)
      PROVE  Same
  BY <1>4 DEF ReaderMove, ReleaseBegin, RcuInv, TypeOK, listVars
<1>5. ASSUME NEW w \in Writers,
             \/ WriteLock(w) \/ UpdateLock(w) \/ WriteThrow(w)
             \/ UpdatePublish(w) \/ CleanPick(w) \/ CleanKeep(w) \/ CleanDone(w)
      PROVE  Same
  BY <1>5 DEF WriteLock, UpdateLock, WriteThrow, UpdatePublish, CleanPick,
              CleanKeep, CleanDone, listVars, readerVars
<1>6. ASSUME NEW w \in Writers, NEW v \in Values, WriterEdit(w, v)
      PROVE  Same
  BY <1>6 DEF WriterEdit, readerVars
<1>7. ASSUME NEW x \in Writers, NEW w \in Writers, WriterMove(x, w)
      PROVE  Same
  BY <1>7 DEF WriterMove, listVars, readerVars
<1>8. ASSUME UNCHANGED vars PROVE Same
  BY <1>8 DEF vars
<1> DEFINE Kind == \/ Same \/ ReleaseNext(h) \/ ReleaseStray(h)
                   \/ \E w \in Writers : WriteCopy(w) \/ CleanErase(w)
<1> HIDE DEF Same
<1>9. ASSUME NEW r \in Readers, ReadLock(r) \/ ReaderStep(r) PROVE Kind
  BY <1>1, <1>2, <1>3, <1>9 DEF ReaderStep
<1>10. ASSUME NEW w \in Writers, WriteLock(w) \/ UpdateLock(w) \/ WriterStep(w)
       PROVE  Kind
  BY <1>5, <1>10 DEF WriterStep
<1>11. ASSUME NEW r \in Readers, NEW g \in Readers,
              ReaderMove(r, g) \/ ReleaseBegin(r, g)
       PROVE  Kind
  BY <1>4, <1>11
<1>12. ASSUME NEW w \in Writers, NEW v \in Values, WriterEdit(w, v) PROVE Kind
  BY <1>6, <1>12
<1>13. ASSUME NEW x \in Writers, NEW w \in Writers, WriterMove(x, w) PROVE Kind
  BY <1>7, <1>13
<1>14. ASSUME UNCHANGED vars PROVE Kind
  BY <1>8, <1>14
<1> HIDE DEF Kind
<1>15. Kind
  BY <1>9, <1>10, <1>11, <1>12, <1>13, <1>14 DEF Next
<1>16. QED
  BY <1>15 DEF Kind, Same

\* Each step of a walk shortens the way to its node; an insertion at the end of
\* the list leaves it as it is, an erasure may shorten it.
LEMMA WalkStep ==
    ASSUME RcuInv, CountInv, RcuInv', [Next]_vars, NEW h \in Readers,
           rpc[h] = "finding", rpc'[h] = "finding", ~strayed'
    PROVE  /\ Distance(h)' \in 0 .. Distance(h)
           /\ it'[h] # it[h] => Distance(h)' # Distance(h)
<1> DEFINE Closer == /\ Distance(h)' \in 0 .. Distance(h)
                     /\ it'[h] # it[h] => Distance(h)' # Distance(h)
<1>1. ~strayed
  BY WalkKinds DEF ReleaseNext, ReleaseStray, WriteCopy, CleanErase
<1>2. PICK i, j \in 1 .. Len(nodes) :
         nodes[i] = it[h] /\ nodes[j] = ref[h] /\ i <= j
  BY <1>1 DEF CountInv, Before
<1>3. Len(nodes) \in Nat /\ DOMAIN nodes = 1 .. Len(nodes)
  BY NodesFacts DEF RcuInv
<1>4. Distance(h) = j - i
  BY <1>2, DistanceOf
<1>5. ASSUME NEW k \in 1 .. Len(nodes'), NEW l \in 1 .. Len(nodes'),
             nodes'[k] = it'[h], nodes'[l] = ref'[h], k <= l,
             l - k <= j - i, it'[h] # it[h] => l - k # j - i
      PROVE  Closer
  <2>1. IsInjective(nodes') /\ nodes' \in Seq(Addr)
    BY DEF RcuInv, TypeOK
  <2>2. DOMAIN nodes' = 1 .. Len(nodes') /\ Len(nodes') \in Nat
    BY <2>1, LenProperties
  <2>3. (CHOOSE m \in DOMAIN nodes' : nodes'[m] = it'[h]) = k
    BY <1>5, <2>1, <2>2, PositionIsUnique
  <2>4. (CHOOSE m \in DOMAIN nodes' : nodes'[m] = ref'[h]) = l
    BY <1>5, <2>1, <2>2, PositionIsUnique
  <2>5. Distance(h)' = l - k
    BY <2>3, <2>4 DEF Distance, Position
  <2>6. l - k \in 0 .. j - i
    BY <1>2, <1>3, <1>5, <2>2
  <2>7. QED
    BY <1>4, <1>5, <2>5, <2>6
<1>6. ASSUME nodes' = nodes /\ it'[h] = it[h] /\ ref'[h] = ref[h]
      PROVE  Closer
  <2>1. j - i <= j - i
    BY <1>3
  <2>2. QED
    BY <1>2, <1>5, <1>6, <2>1
<1>7. ASSUME ReleaseNext(h) PROVE Closer
  <2>1. /\ nodes' = nodes /\ ref' = ref /\ it[h] # ref[h]
        /\ \E k \in DOMAIN nodes :
              /\ nodes[k] = it[h]
              /\ it' = [it EXCEPT ![h] = IF k = Len(nodes) THEN None
                                         ELSE nodes[k + 1]]
    BY <1>7 DEF ReleaseNext, listVars
  <2>2. PICK k \in 1 .. Len(nodes) :
           /\ nodes[k] = it[h]
           /\ it' = [it EXCEPT ![h] = IF k = Len(nodes) THEN None
                                      ELSE nodes[k + 1]]
    BY <1>3, <2>1
  <2>3. k = i /\ i # j
    <3>1. k \in DOMAIN nodes /\ i \in DOMAIN nodes /\ nodes[k] = nodes[i]
      BY <1>2, <1>3, <2>2
    <3>2. IsInjective(nodes)
      BY DEF RcuInv, TypeOK
    <3>3. k = i
      BY <3>1, <3>2 DEF IsInjective
    <3>4. QED
      BY <1>2, <2>1, <3>3
  <2>4. i + 1 \in 1 .. Len(nodes) /\ i + 1 <= j /\ i # Len(nodes)
        /\ j - (i + 1) <= j - i /\ j - (i + 1) # j - i
    BY <1>2, <1>3, <2>3
  <2>5. it'[h] = nodes[i + 1]
    BY <2>2, <2>3, <2>4 DEF RcuInv, TypeOK
  <2>6. QED
    BY <1>2, <1>5, <2>1, <2>4, <2>5
<1>8. ASSUME ReleaseStray(h) PROVE Closer
  BY <1>1, <1>8, BeforeIsLive DEF ReleaseStray, CountInv
<1>9. ASSUME NEW w \in Writers, WriteCopy(w) PROVE Closer
  <2>1. PICK a \in Addr \ Live : nodes' = Append(nodes, a)
    BY <1>9 DEF WriteCopy
  <2>2. UNCHANGED <<it, ref>>
    BY <1>9 DEF WriteCopy, readerVars
  <2>3. Len(nodes') = Len(nodes) + 1
        /\ \A k \in 1 .. Len(nodes) : nodes'[k] = nodes[k]
    BY <2>1, AppendProperties DEF RcuInv, TypeOK
  <2>4. i \in 1 .. Len(nodes') /\ j \in 1 .. Len(nodes') /\ j - i <= j - i
    BY <1>3, <2>3
  <2>5. QED
    BY <1>2, <1>5, <2>2, <2>3, <2>4
<1>10. ASSUME NEW w \in Writers, CleanErase(w) PROVE Closer
  <2>1. /\ wpc[w] = "erasing" /\ nodes' = RemoveAt(nodes, cursor)
        /\ UNCHANGED <<it, ref>>
        /\ it[h] # nodes[cursor]
    BY <1>10 DEF CleanErase, readerVars
  <2>2. cursor \in 1 .. Len(nodes) /\ ref[h] # nodes[cursor]
    BY <2>1, ErasedNotCurrent DEF RcuInv, CleanupApart
  <2>3. /\ Len(nodes') = Len(nodes) - 1
        /\ \A k \in 1 .. Len(nodes) - 1 :
              nodes'[k] = IF k < cursor THEN nodes[k] ELSE nodes[k + 1]
    BY <2>1, <2>2, RemoveAtShifts DEF RcuInv, TypeOK
  <2>4. i # cursor /\ j # cursor
    BY <1>2, <2>1, <2>2
  <2> DEFINE Moved(k) == IF k < cursor THEN k ELSE k - 1
  <2>5. /\ Moved(i) \in 1 .. Len(nodes) - 1 /\ Moved(j) \in 1 .. Len(nodes) - 1
        /\ Moved(i) <= Moved(j) /\ Moved(j) - Moved(i) <= j - i
    BY <1>2, <1>3, <2>2, <2>4
  <2>6. ASSUME NEW k \in 1 .. Len(nodes), k # cursor
        PROVE  nodes'[Moved(k)] = nodes[k]
    <3>1. CASE k < cursor
      BY <1>3, <2>2, <2>3, <2>6, <3>1
    <3>2. CASE k > cursor
      <4>1. k - 1 \in 1 .. Len(nodes) - 1 /\ ~(k - 1 < cursor) /\ (k - 1) + 1 = k
        BY <1>3, <2>2, <3>2
      <4>2. QED
        BY <2>3, <3>2, <4>1, <2>2
    <3>3. QED
      BY <1>3, <2>2, <2>6, <3>1, <3>2
  <2> HIDE DEF Moved
  <2>7. QED
    BY <1>2, <1>5, <2>1, <2>3, <2>4, <2>5, <2>6
<1> HIDE DEF Closer
<1>11. \/ nodes' = nodes /\ it'[h] = it[h] /\ ref'[h] = ref[h]
       \/ ReleaseNext(h) \/ ReleaseStray(h)
       \/ \E w \in Writers : WriteCopy(w) \/ CleanErase(w)
  BY WalkKinds
<1>12. Closer
  BY <1>6, <1>7, <1>8, <1>9, <1>10, <1>11
<1>13. QED
  BY <1>12 DEF Closer

\* Unless a node was erased under it, the walk of a release() comes closer to the
\* node it looks for with each of its steps and never passes it, for any number
\* of writers that append and erase nodes meanwhile: it takes as many steps as
\* there were nodes before that one, at most.
THEOREM WalksShorten == Spec => WalkShortens
<1> DEFINE Step ==
      \A h \in Readers :
         rpc[h] = "finding" /\ rpc'[h] = "finding" /\ ~strayed'
            => /\ Distance(h)' \in 0 .. Distance(h)
               /\ it'[h] # it[h] => Distance(h)' # Distance(h)
<1>1. RcuInv /\ CountInv /\ RcuInv' /\ [Next]_vars => [Step]_vars
  BY WalkStep
<1> HIDE DEF Step
<1>2. Spec => [][Step]_vars
  BY <1>1, RcuInvariant, CountInvariant, PTL DEF Spec
<1>3. QED
  BY <1>2 DEF WalkShortens, Step

-------------------------------------------------------------------------------
(* How many versions the list keeps *)

\* Unless a walk strayed: outside of update() and of the writer's turn the list has
\* one node per reader and the current one; the draft is one more; and each node
\* the cleanup has kept stands for a reader that holds none of those ahead.
BoundInv ==
    ~strayed =>
       /\ (\A w \in Writers : wpc[w] \in {"ready", "locked"})
             => Len(nodes) <= Cardinality(Readers) + 1
       /\ Len(nodes) <= Cardinality(Readers) + 2
       /\ \A w \in Writers : wpc[w] \in {"cleaning", "erasing"} =>
             cursor - 1 + Cardinality(Holders) <= Cardinality(Readers)

\* The part of a set of readers is not larger than the set.
LEMMA FewerReaders ==
    ASSUME NEW T \in SUBSET Readers, NEW S \in SUBSET T
    PROVE  /\ Cardinality(S) \in Nat /\ Cardinality(T) \in Nat
           /\ Cardinality(S) <= Cardinality(T)
<1>1. IsFiniteSet(T) /\ IsFiniteSet(S)
  BY FS_Subset, RcuAssumption
<1>2. QED
  BY <1>1, FS_Subset, FS_CardinalityType

\* Nobody becomes a reader of a node that the cleanup has still to look at: only
\* the last node gains readers.
LEMMA AheadIsOld ==
    ASSUME RcuInv, NEW w \in Writers, wpc[w] \in {"cleaning", "erasing"}
    PROVE  None \notin Ahead /\ current \notin Ahead
<1>1. /\ cursor \in 1 .. Len(nodes)
      /\ Len(nodes) \in Nat
      /\ DOMAIN nodes = 1 .. Len(nodes)
      /\ \A n \in 1 .. Len(nodes) : nodes[n] \in Addr
      /\ None \notin Addr
      /\ IsInjective(nodes)
  BY NodesFacts DEF RcuInv, TypeOK, CleanupApart
<1>2. \A x \in Writers : wpc[x] \notin {"editing", "publishing"}
  BY OneWriter
<1>3. current = nodes[Len(nodes)]
  BY <1>2 DEF RcuInv, CurrentIsLast, Last
<1>4. ASSUME NEW n \in cursor .. Len(nodes) - 1
      PROVE  nodes[n] # None /\ nodes[n] # current
  <2>1. cursor \in 1 .. Len(nodes) /\ Len(nodes) \in Nat
    BY <1>1
  <2>2. n \in 1 .. Len(nodes) /\ Len(nodes) \in 1 .. Len(nodes) /\ n # Len(nodes)
    BY <2>1
  <2>3. QED
    BY <1>1, <1>3, <2>2 DEF IsInjective
<1>5. QED
  BY <1>4 DEF Ahead

\* A step that leaves the list and the cleanup alone, and gives no node ahead of
\* the cleanup another reader.
LEMMA QuietBound ==
    ASSUME RcuInv, BoundInv,
           UNCHANGED <<nodes, cursor, strayed>>,
           (\A w \in Writers : wpc'[w] \in {"ready", "locked"})
              => \A w \in Writers : wpc[w] \in {"ready", "locked"},
           \A w \in Writers : wpc'[w] \in {"cleaning", "erasing"}
              => /\ wpc[w] \in {"cleaning", "erasing"}
                 /\ Cardinality(Holders') <= Cardinality(Holders)
    PROVE  BoundInv'
<1> SUFFICES ASSUME ~strayed PROVE BoundInv'
  BY DEF BoundInv
<1>1. ASSUME NEW w \in Writers, wpc'[w] \in {"cleaning", "erasing"}
      PROVE  cursor - 1 + Cardinality(Holders') <= Cardinality(Readers)
  <2>1. /\ cursor - 1 + Cardinality(Holders) <= Cardinality(Readers)
        /\ Cardinality(Holders') <= Cardinality(Holders)
    BY <1>1 DEF BoundInv
  <2>2. /\ Cardinality(Holders) \in Nat /\ Cardinality(Holders') \in Nat
        /\ Cardinality(Readers) \in Nat
    BY FewerReaders DEF Holders
  <2>3. cursor \in Int
    BY DEF RcuInv, TypeOK
  <2>4. QED
    BY <2>1, <2>2, <2>3
<1>2. QED
  BY <1>1 DEF BoundInv

\* The steps that do not change who refers to what.
LEMMA SameHolders ==
    ASSUME RcuInv, BoundInv,
           UNCHANGED <<nodes, cursor, strayed, ref>>,
           (\A w \in Writers : wpc'[w] \in {"ready", "locked"})
              => \A w \in Writers : wpc[w] \in {"ready", "locked"},
           \A w \in Writers : wpc'[w] \in {"cleaning", "erasing"}
              => wpc[w] \in {"cleaning", "erasing"}
    PROVE  BoundInv'
<1>1. Holders' = Holders
  BY DEF Holders, Ahead
<1>2. Cardinality(Holders') <= Cardinality(Holders)
  BY <1>1, FewerReaders DEF Holders
<1>3. QED
  BY <1>2, QuietBound

LEMMA ReadReturnBound ==
    ASSUME RcuInv, BoundInv, NEW h \in Readers, ReadReturn(h)
    PROVE  BoundInv'
<1>1. /\ UNCHANGED <<nodes, cursor, strayed, wpc>>
      /\ ref' = [ref EXCEPT ![h] = current]
      /\ Ahead' = Ahead
  BY DEF ReadReturn, listVars, writerVars, Ahead
<1>2. ASSUME NEW w \in Writers, wpc[w] \in {"cleaning", "erasing"}
      PROVE  Cardinality(Holders') <= Cardinality(Holders)
  <2>1. current \notin Ahead
    BY <1>2, AheadIsOld
  <2>2. Holders' \subseteq Holders
    BY <1>1, <2>1 DEF Holders, RcuInv, TypeOK
  <2>3. QED
    BY <2>2, FewerReaders DEF Holders
<1>3. QED
  BY <1>1, <1>2, QuietBound

\* What the move of a reader and the end of release() do to a set of readers: h
\* takes the place of s, if s was in it, and leaves it otherwise.
LEMMA Replaced ==
    ASSUME NEW T \in SUBSET Readers, NEW U \in SUBSET Readers,
           NEW h \in Readers, NEW s \in Readers,
           s \in T /\ s # h => U \subseteq (T \ {s}) \cup {h},
           ~(s \in T /\ s # h) => U \subseteq T
    PROVE  Cardinality(U) <= Cardinality(T)
<1>1. CASE s \in T /\ s # h
  <2>1. (T \ {s}) \cup {h} \in SUBSET Readers
    OBVIOUS
  <2>2. Cardinality(U) <= Cardinality((T \ {s}) \cup {h})
    BY <1>1, <2>1, FewerReaders
  <2>3. Cardinality((T \ {s}) \cup {h}) <= Cardinality(T)
    <3>1. CASE h \in T
      <4>1. (T \ {s}) \cup {h} \subseteq T
        BY <3>1
      <4>2. QED
        BY <4>1, FewerReaders
    <3>2. CASE h \notin T
      <4>1. Cardinality((T \ {s}) \cup {h}) = Cardinality(T)
        BY <1>1, <3>2, ReaderSets
      <4>2. QED
        BY <4>1, FewerReaders
    <3>3. QED
      BY <3>1, <3>2
  <2>4. QED
    <3>1. /\ Cardinality(U) \in Nat /\ Cardinality(T) \in Nat
          /\ Cardinality((T \ {s}) \cup {h}) \in Nat
      BY <2>1, FewerReaders
    <3>2. QED
      BY <2>2, <2>3, <3>1
<1>2. CASE ~(s \in T /\ s # h)
  BY <1>2, FewerReaders
<1>3. QED
  BY <1>1, <1>2

LEMMA ReaderMoveBound ==
    ASSUME RcuInv, BoundInv, NEW h \in Readers, NEW g \in Readers,
           ReaderMove(h, g)
    PROVE  BoundInv'
<1>1. /\ UNCHANGED <<nodes, cursor, strayed, wpc>>
      /\ ref' = [ref EXCEPT ![h] = ref[g], ![g] = None]
      /\ ref[h] = None /\ ref[g] # None
      /\ Ahead' = Ahead
  BY DEF ReaderMove, listVars, writerVars, Ahead
<1>2. ASSUME NEW w \in Writers, wpc[w] \in {"cleaning", "erasing"}
      PROVE  Cardinality(Holders') <= Cardinality(Holders)
  <2>1. None \notin Ahead
    BY <1>2, AheadIsOld
  <2>2. /\ g \in Holders /\ g # h => Holders' \subseteq (Holders \ {g}) \cup {h}
        /\ ~(g \in Holders /\ g # h) => Holders' \subseteq Holders
    BY <1>1, <2>1 DEF Holders, RcuInv, TypeOK
  <2>3. Holders \in SUBSET Readers /\ Holders' \in SUBSET Readers
    BY DEF Holders
  <2>4. QED
    BY <2>2, <2>3, Replaced
<1>3. QED
  BY <1>1, <1>2, QuietBound

LEMMA ReleasedBound ==
    ASSUME RcuInv, BoundInv, NEW h \in Readers,
           ReleaseFound(h) \/ ReleaseMissed(h)
    PROVE  BoundInv'
<1> DEFINE s == source[h]
<1>1. /\ UNCHANGED <<nodes, cursor, strayed, wpc>>
      /\ ref' = [ref EXCEPT ![h] = ref[s], ![s] = None]
      /\ Ahead' = Ahead
  BY DEF ReleaseFound, ReleaseMissed, Released, listVars, writerVars, Ahead
<1>2. s \in Readers
  BY DEF RcuInv, TypeOK
<1> HIDE DEF s
<1>3. ASSUME NEW w \in Writers, wpc[w] \in {"cleaning", "erasing"}
      PROVE  Cardinality(Holders') <= Cardinality(Holders)
  <2>1. None \notin Ahead
    BY <1>3, AheadIsOld
  <2>2. /\ s \in Holders /\ s # h => Holders' \subseteq (Holders \ {s}) \cup {h}
        /\ ~(s \in Holders /\ s # h) => Holders' \subseteq Holders
    BY <1>1, <1>2, <2>1 DEF Holders, RcuInv, TypeOK
  <2>3. Holders \in SUBSET Readers /\ Holders' \in SUBSET Readers
    BY DEF Holders
  <2>4. QED
    BY <1>2, <2>2, <2>3, Replaced
<1>4. QED
  BY <1>1, <1>3, QuietBound

\* Only the owner of nodes_mutex_ appends, and it does so once per turn.
LEMMA WriteCopyBound ==
    ASSUME RcuInv, BoundInv, NEW w \in Writers, WriteCopy(w)
    PROVE  BoundInv'
<1>1. /\ wpc[w] = "locked" /\ wpc' = [wpc EXCEPT ![w] = "editing"]
      /\ strayed' = strayed
      /\ \E a \in Addr \ Live : nodes' = Append(nodes, a)
  BY DEF WriteCopy
<1>2. Len(nodes') = Len(nodes) + 1 /\ Len(nodes) \in Nat
  BY <1>1, AppendProperties, NodesFacts DEF RcuInv, TypeOK
<1>3. \A x \in Writers : x # w => wpc[x] = "ready"
  BY <1>1, OneWriter
<1>4. wpc'[w] = "editing" /\ \A x \in Writers : x # w => wpc'[x] = "ready"
  BY <1>1, <1>3 DEF RcuInv, TypeOK
<1>5. \A x \in Writers : wpc[x] \in {"ready", "locked"}
  BY <1>1, <1>3
<1>6. Cardinality(Readers) \in Nat
  BY FewerReaders
<1>7. ~strayed => Len(nodes') <= Cardinality(Readers) + 2
  BY <1>2, <1>5, <1>6 DEF BoundInv
<1>8. QED
  BY <1>1, <1>4, <1>7 DEF BoundInv

\* The cleanup begins with all old nodes ahead.
LEMMA UpdatePublishBound ==
    ASSUME RcuInv, BoundInv, NEW w \in Writers, UpdatePublish(w)
    PROVE  BoundInv'
<1>1. /\ wpc' = [wpc EXCEPT ![w] = "cleaning"] /\ cursor' = 1
      /\ UNCHANGED <<nodes, strayed>>
  BY DEF UpdatePublish, listVars
<1>2. wpc'[w] = "cleaning"
  BY <1>1 DEF RcuInv, TypeOK
<1>3. /\ Cardinality(Holders') <= Cardinality(Readers)
      /\ Cardinality(Holders') \in Nat /\ Cardinality(Readers) \in Nat
  BY FewerReaders DEF Holders
<1>4. cursor' - 1 + Cardinality(Holders') <= Cardinality(Readers)
  BY <1>1, <1>3
<1>5. QED
  BY <1>1, <1>2, <1>4 DEF BoundInv

\* The erased node has no reader, and the others ahead remain.
LEMMA CleanEraseBound ==
    ASSUME RcuInv, BoundInv, NEW w \in Writers, CleanErase(w)
    PROVE  BoundInv'
<1>1. /\ wpc[w] = "erasing" /\ wpc' = [wpc EXCEPT ![w] = "cleaning"]
      /\ nodes' = RemoveAt(nodes, cursor)
      /\ UNCHANGED <<cursor, ref>>
      /\ strayed => strayed'
  BY DEF CleanErase, readerVars
<1>2. cursor \in 1 .. Len(nodes) /\ Len(nodes) \in Nat
  BY <1>1, ErasedNotCurrent, NodesFacts DEF RcuInv
<1>3. /\ Len(nodes') = Len(nodes) - 1
      /\ \A k \in 1 .. Len(nodes) - 1 :
            nodes'[k] = IF k < cursor THEN nodes[k] ELSE nodes[k + 1]
  BY <1>1, <1>2, RemoveAtShifts DEF RcuInv, TypeOK
<1>4. Ahead' \subseteq Ahead
  <2>1. ASSUME NEW n \in cursor .. Len(nodes') - 1 PROVE nodes'[n] \in Ahead
    <3>1. n \in 1 .. Len(nodes) - 1 /\ ~(n < cursor) /\ n + 1 \in cursor .. Len(nodes) - 1
      BY <1>2, <1>3
    <3>2. nodes'[n] = nodes[n + 1]
      BY <1>3, <3>1
    <3>3. QED
      BY <3>1, <3>2 DEF Ahead
  <2>2. QED
    BY <1>1, <2>1 DEF Ahead
<1>5. /\ Cardinality(Holders') <= Cardinality(Holders)
      /\ Cardinality(Holders') \in Nat /\ Cardinality(Holders) \in Nat
      /\ Cardinality(Readers) \in Nat
  <2>1. Holders' \subseteq Holders /\ Holders \subseteq Readers
    BY <1>1, <1>4 DEF Holders
  <2>2. QED
    BY <2>1, FewerReaders
<1>6. wpc'[w] = "cleaning"
  BY <1>1 DEF RcuInv, TypeOK
<1> SUFFICES ASSUME ~strayed PROVE BoundInv'
  BY <1>1 DEF BoundInv
<1>7. cursor - 1 + Cardinality(Holders') <= Cardinality(Readers)
  <2>1. cursor - 1 + Cardinality(Holders) <= Cardinality(Readers)
    BY <1>1 DEF BoundInv
  <2>2. QED
    BY <1>2, <1>5, <2>1
<1>8. Len(nodes') <= Cardinality(Readers) + 2
  <2>1. Len(nodes) <= Cardinality(Readers) + 2
    BY DEF BoundInv
  <2>2. QED
    BY <1>2, <1>3, <1>5, <2>1
<1>9. QED
  BY <1>1, <1>6, <1>7, <1>8 DEF BoundInv

\* A node is kept for a reader, which holds none of the nodes that are left: the
\* count says so, because it is exact.
LEMMA CleanKeepBound ==
    ASSUME RcuInv, CountInv, BoundInv, NEW w \in Writers, CleanKeep(w)
    PROVE  BoundInv'
<1>1. /\ wpc[w] = "cleaning" /\ cursor < Len(nodes)
      /\ refcount[nodes[cursor]] # 0
      /\ cursor' = cursor + 1
      /\ UNCHANGED <<nodes, ref, wpc, strayed>>
  BY DEF CleanKeep, listVars, readerVars
<1>2. cursor \in 1 .. Len(nodes) - 1 /\ Len(nodes) \in Nat
  BY <1>1, NodesFacts DEF RcuInv, TypeOK, CleanupApart
<1> SUFFICES ASSUME ~strayed PROVE BoundInv'
  BY <1>1 DEF BoundInv
<1>3. nodes[cursor] \in Live /\ nodes[cursor] \in Ahead
  BY <1>2, NodesFacts DEF RcuInv, Ahead
<1>4. nodes[cursor] # current
  BY <1>1, <1>3, AheadIsOld
<1>5. PICK h \in Readers : ref[h] = nodes[cursor]
  <2>1. Cardinality(Pins(nodes[cursor])) # 0
    BY <1>1, <1>3 DEF CountInv, CountsExact
  <2>2. Pins(nodes[cursor]) \in SUBSET Readers
    BY DEF Pins
  <2>3. Pins(nodes[cursor]) # {}
    BY <2>1, <2>2, ReaderSets
  <2>4. QED
    BY <1>4, <2>3 DEF Pins
<1>6. nodes[cursor] \notin Ahead'
  <2>1. ASSUME NEW n \in cursor + 1 .. Len(nodes) - 1
        PROVE  nodes[n] # nodes[cursor]
    <3>1. n \in 1 .. Len(nodes) /\ cursor \in 1 .. Len(nodes) /\ n # cursor
      BY <1>2
    <3>2. QED
      BY <3>1, NodesFacts DEF RcuInv, TypeOK, IsInjective
  <2>2. QED
    BY <1>1, <2>1 DEF Ahead
<1>7. Ahead' \subseteq Ahead
  <2>1. cursor + 1 .. Len(nodes) - 1 \subseteq cursor .. Len(nodes) - 1
    BY <1>2
  <2>2. QED
    BY <1>1, <2>1 DEF Ahead
<1>8. Holders' \subseteq Holders \ {h} /\ h \in Holders /\ Holders \in SUBSET Readers
  BY <1>1, <1>3, <1>5, <1>6, <1>7 DEF Holders
<1>9. /\ Cardinality(Holders') <= Cardinality(Holders) - 1
      /\ Cardinality(Holders') \in Nat /\ Cardinality(Holders) \in Nat
      /\ Cardinality(Readers) \in Nat
  <2>1. Cardinality(Holders \ {h}) = Cardinality(Holders) - 1
    BY <1>8, ReaderSets
  <2>2. QED
    BY <1>8, <2>1, FewerReaders
<1>10. cursor' - 1 + Cardinality(Holders') <= Cardinality(Readers)
  <2>1. cursor - 1 + Cardinality(Holders) <= Cardinality(Readers)
    BY <1>1 DEF BoundInv
  <2>2. QED
    BY <1>1, <1>2, <1>9, <2>1
<1>11. QED
  BY <1>1, <1>10 DEF BoundInv

\* When the cleanup is over, nothing but the current node is left beside the nodes
\* it has kept.
LEMMA CleanDoneBound ==
    ASSUME RcuInv, BoundInv, NEW w \in Writers, CleanDone(w)
    PROVE  BoundInv'
<1>1. /\ wpc[w] = "cleaning" /\ wpc' = [wpc EXCEPT ![w] = "ready"]
      /\ cursor >= Len(nodes) /\ UNCHANGED <<nodes, strayed>>
  BY DEF CleanDone, listVars
<1>2. \A x \in Writers : wpc'[x] = "ready"
  BY <1>1, OneWriter DEF RcuInv, TypeOK
<1>3. /\ cursor \in Nat /\ Len(nodes) \in Nat
      /\ Cardinality(Holders) \in Nat /\ Cardinality(Readers) \in Nat
  BY FewerReaders, NodesFacts DEF RcuInv, TypeOK, Holders
<1>4. ~strayed => Len(nodes) <= Cardinality(Readers) + 1
  <2>1. ~strayed => cursor - 1 + Cardinality(Holders) <= Cardinality(Readers)
    BY <1>1 DEF BoundInv
  <2>2. QED
    BY <1>1, <1>3, <2>1
<1>5. Len(nodes) <= Cardinality(Readers) + 1 => Len(nodes) <= Cardinality(Readers) + 2
  BY <1>3
<1>6. QED
  BY <1>1, <1>2, <1>4, <1>5 DEF BoundInv

LEMMA InitBound == Init => BoundInv
<1> SUFFICES ASSUME Init PROVE BoundInv
  OBVIOUS
<1>1. Len(nodes) = 1
  BY DEF Init
<1>2. Cardinality(Readers) \in Nat
  BY FewerReaders
<1>3. Len(nodes) <= Cardinality(Readers) + 1 /\ Len(nodes) <= Cardinality(Readers) + 2
  BY <1>1, <1>2
<1>4. \A w \in Writers : wpc[w] = "ready"
  BY DEF Init
<1>5. QED
  BY <1>3, <1>4 DEF BoundInv

LEMMA NextBound == RcuInv /\ CountInv /\ BoundInv /\ [Next]_vars => BoundInv'
<1> SUFFICES ASSUME RcuInv, CountInv, BoundInv, [Next]_vars PROVE BoundInv'
  OBVIOUS
<1>1. ASSUME NEW h \in Readers, ReadLock(h) \/ ReaderStep(h) PROVE BoundInv'
  <2>1. ASSUME ReadLock(h) \/ ReadPin(h) \/ ReleaseNext(h) \/ ReleaseStray(h)
        PROVE  BoundInv'
    <3>1. UNCHANGED <<nodes, cursor, strayed, ref, wpc>>
      BY <2>1 DEF ReadLock, ReadPin, ReleaseNext, ReleaseStray, listVars, writerVars
    <3>2. QED
      BY <3>1, SameHolders
  <2>2. QED
    BY <1>1, <2>1, ReadReturnBound, ReleasedBound DEF ReaderStep
<1>2. ASSUME NEW h \in Readers, NEW g \in Readers,
             ReaderMove(h, g) \/ ReleaseBegin(h, g)
      PROVE  BoundInv'
  <2>1. ASSUME ReleaseBegin(h, g) PROVE BoundInv'
    <3>1. UNCHANGED <<nodes, cursor, strayed, ref, wpc>>
      BY <2>1 DEF ReleaseBegin, listVars, writerVars
    <3>2. QED
      BY <3>1, SameHolders
  <2>2. QED
    BY <1>2, <2>1, ReaderMoveBound
<1>3. ASSUME NEW w \in Writers, WriteLock(w) \/ UpdateLock(w) \/ WriterStep(w)
      PROVE  BoundInv'
  <2>1. ASSUME WriteLock(w) \/ WriteThrow(w) \/ UpdateLock(w) \/ CleanPick(w)
        PROVE  BoundInv'
    <3>1. /\ UNCHANGED <<nodes, cursor, strayed, ref>>
          /\ \/ wpc[w] = "ready" /\ wpc' = [wpc EXCEPT ![w] = "locked"]
             \/ wpc[w] = "locked" /\ wpc' = [wpc EXCEPT ![w] = "ready"]
             \/ wpc[w] = "editing" /\ wpc' = [wpc EXCEPT ![w] = "publishing"]
             \/ wpc[w] = "cleaning" /\ wpc' = [wpc EXCEPT ![w] = "erasing"]
      BY <2>1 DEF WriteLock, WriteThrow, UpdateLock, CleanPick, listVars, readerVars
    <3>2. wpc \in [Writers -> {"ready", "locked", "editing", "publishing",
                               "cleaning", "erasing"}]
      BY DEF RcuInv, TypeOK
    <3>3. QED
      BY <3>1, <3>2, SameHolders
  <2>2. QED
    BY <1>3, <2>1, WriteCopyBound, UpdatePublishBound, CleanEraseBound,
       CleanKeepBound, CleanDoneBound DEF WriterStep
<1>4. ASSUME NEW w \in Writers, NEW v \in Values, WriterEdit(w, v)
      PROVE  BoundInv'
  BY <1>4, SameHolders DEF WriterEdit, readerVars, writerVars
<1>5. ASSUME NEW x \in Writers, NEW w \in Writers, WriterMove(x, w)
      PROVE  BoundInv'
  <2>1. /\ UNCHANGED <<nodes, cursor, strayed, ref>>
        /\ wpc[x] = "ready" /\ wpc[w] = "editing"
        /\ wpc' = [wpc EXCEPT ![x] = "editing", ![w] = "ready"]
    BY <1>5 DEF WriterMove, listVars, readerVars
  <2>2. wpc'[x] = "editing"
    BY <2>1 DEF RcuInv, TypeOK
  <2>3. \A y \in Writers : wpc'[y] \in {"cleaning", "erasing"}
                              => wpc[y] \in {"cleaning", "erasing"}
    BY <2>1 DEF RcuInv, TypeOK
  <2>4. QED
    BY <2>1, <2>2, <2>3, SameHolders
<1>6. ASSUME UNCHANGED vars PROVE BoundInv'
  BY <1>6, SameHolders DEF vars
<1>7. QED
  BY <1>1, <1>2, <1>3, <1>4, <1>5, <1>6 DEF Next

\* Unless a walk strayed, the list never holds more versions than there are
\* readers, beside the current one and a draft, and the cleanup never keeps more
\* old versions than readers can account for: for any number of readers that come,
\* go and move while writers append and erase (Rcu.h:137-154).
THEOREM VersionsAreBounded == Spec => []VersionsBounded
<1>1. Init => BoundInv
  BY InitBound
<1>2. RcuInv /\ CountInv /\ BoundInv /\ [Next]_vars => BoundInv'
  BY NextBound
<1>3. RcuInv /\ BoundInv => VersionsBounded
  <2>1. SUFFICES ASSUME RcuInv, BoundInv PROVE VersionsBounded
    OBVIOUS
  <2>2. nodesMutex = None => \A w \in Writers : wpc[w] = "ready"
    BY <2>1, RcuAssumption DEF RcuInv, MutexOwned
  <2>3. QED
    BY <2>1, <2>2 DEF BoundInv, VersionsBounded
<1>4. QED
  BY <1>1, <1>2, <1>3, RcuInvariant, CountInvariant, PTL DEF Spec

-------------------------------------------------------------------------------
(* Why update() ends *)

\* While a writer cleans, it alone changes the list and its place in it.
LEMMA CleanupStep ==
    ASSUME RcuInv, RcuInv', [Next]_vars, NEW w \in Writers,
           wpc[w] \in {"cleaning", "erasing"}, wpc'[w] # "ready"
    PROVE  /\ (Len(nodes) - cursor)' \in 0 .. Len(nodes) - cursor
           /\ (nodes' # nodes \/ cursor' # cursor)
                 => (Len(nodes) - cursor)' # Len(nodes) - cursor
<1>1. nodesMutex = w /\ \A x \in Writers : x # w => wpc[x] = "ready"
  BY OneWriter
<1>2. cursor \in 1 .. Len(nodes) /\ Len(nodes) \in Nat
  BY NodesFacts DEF RcuInv, CleanupApart
<1>3. \/ nodes' = nodes /\ cursor' = cursor
      \/ CleanErase(w) \/ CleanKeep(w)
  <2> DEFINE Kind == \/ nodes' = nodes /\ cursor' = cursor
                     \/ CleanErase(w) \/ CleanKeep(w)
  <2>1. ASSUME NEW h \in Readers, ReadLock(h) \/ ReaderStep(h) PROVE Kind
    BY <2>1 DEF ReaderStep, ReadLock, ReadPin, ReadReturn, ReleaseNext,
       ReleaseStray, ReleaseFound, ReleaseMissed, listVars, writerVars
  <2>2. ASSUME NEW h \in Readers, NEW g \in Readers,
               ReaderMove(h, g) \/ ReleaseBegin(h, g)
        PROVE  Kind
    BY <2>2 DEF ReaderMove, ReleaseBegin, listVars, writerVars
  <2>3. ASSUME NEW x \in Writers, WriteLock(x) \/ UpdateLock(x) \/ WriterStep(x)
        PROVE  Kind
    <3>1. CASE x = w
      <4>1. ~CleanDone(w)
        BY DEF CleanDone, RcuInv, TypeOK
      <4>2. QED
        BY <2>3, <3>1, <4>1 DEF WriterStep, WriteLock, UpdateLock, WriteCopy,
           WriteThrow, UpdatePublish, CleanPick, listVars
    <3>2. CASE x # w
      <4>1. wpc[x] = "ready" /\ nodesMutex # None
        BY <1>1, <3>2, RcuAssumption
      <4>2. QED
        BY <2>3, <4>1 DEF WriterStep, WriteLock, UpdateLock, WriteCopy,
           WriteThrow, UpdatePublish, CleanPick, CleanErase, CleanKeep, CleanDone
    <3>3. QED
      BY <3>1, <3>2
  <2>4. ASSUME NEW x \in Writers, NEW v \in Values, WriterEdit(x, v) PROVE Kind
    BY <2>4 DEF WriterEdit, writerVars
  <2>5. ASSUME NEW x \in Writers, NEW y \in Writers, WriterMove(x, y) PROVE Kind
    BY <2>5 DEF WriterMove, listVars
  <2>6. ASSUME UNCHANGED vars PROVE Kind
    BY <2>6 DEF vars
  <2> HIDE DEF Kind
  <2>7. Kind
    BY <2>1, <2>2, <2>3, <2>4, <2>5, <2>6 DEF Next
  <2>8. QED
    BY <2>7 DEF Kind
<1>4. CASE nodes' = nodes /\ cursor' = cursor
  BY <1>2, <1>4
<1>5. CASE CleanErase(w)
  <2>1. /\ wpc[w] = "erasing" /\ nodes' = RemoveAt(nodes, cursor)
        /\ cursor' = cursor
    BY <1>5 DEF CleanErase
  <2>2. Len(nodes') = Len(nodes) - 1
    BY <1>2, <2>1, RemoveAtShifts DEF RcuInv, TypeOK
  <2>3. cursor # Len(nodes)
    BY <2>1, ErasedNotCurrent
  <2>4. QED
    BY <1>2, <2>1, <2>2, <2>3
<1>6. CASE CleanKeep(w)
  <2>1. cursor < Len(nodes) /\ cursor' = cursor + 1 /\ nodes' = nodes
    BY <1>6 DEF CleanKeep, listVars
  <2>2. QED
    BY <1>2, <2>1
<1>7. QED
  BY <1>3, <1>4, <1>5, <1>6

\* The loop of update() has fewer nodes left with each of its steps and more never,
\* whatever readers and other writers do: it looks at each node of the list
\* once at most (Rcu.h:145-151).
THEOREM CleanupsAdvance == Spec => CleanupAdvances
<1> DEFINE Step ==
      \A w \in Writers :
         wpc[w] \in {"cleaning", "erasing"} /\ wpc'[w] # "ready"
            => /\ (Len(nodes) - cursor)' \in 0 .. Len(nodes) - cursor
               /\ (nodes' # nodes \/ cursor' # cursor)
                     => (Len(nodes) - cursor)' # Len(nodes) - cursor
<1>1. RcuInv /\ RcuInv' /\ [Next]_vars => [Step]_vars
  BY CleanupStep
<1> HIDE DEF Step
<1>2. Spec => [][Step]_vars
  BY <1>1, RcuInvariant, PTL DEF Spec
<1>3. QED
  BY <1>2 DEF CleanupAdvances, Step
===============================================================================
