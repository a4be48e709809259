--------------------------- MODULE CircularConcProofs ----------------------------
(***************************************************************************)
(* Any capacity, any number of writes and ends of a process: whatever the  *)
(* interleaving of the accesses, the variables of CircularConc keep their  *)
(* types and the writer stays inside the array; and as long as no access   *)
(* is disturbed, a read takes the next element or the oldest that is left. *)
(***************************************************************************)
EXTENDS CircularConc, TLAPS

Places == {"down", "read_head", "write_head", "key", "crc", "idle", "advance",
           "reset", "lap", "copy_lap", "copy_index", "take", "store",
           "store_lap", "store_index"}

\* The index is N only between ++head.index and head.index = 0, and after an end
\* of the writer there, until its constructor has seen it.
IndexBounded ==
    pc["writer"] \in {"key", "crc", "idle", "advance", "lap"} => writeHead.index < N

\* A write that has begun was within the bound.
WriteCounted ==
    pc["writer"] \in {"advance", "reset", "lap"} => count < MaxWrites

ConcInv ==
    /\ pc \in [Sides -> Places]
    /\ TypeOK
    /\ IndexBounded
    /\ WriteCounted

-------------------------------------------------------------------------------

LEMMA ConcConstants ==
    /\ N \in Nat /\ N >= 2 /\ LapMod \in Nat /\ LapMod >= 2
    /\ MaxWrites \in Nat /\ MaxCrashes \in Nat /\ WideCopies \subseteq BOOLEAN
    /\ Zero \in [index : 0 .. N, lap : Laps] /\ Zero.index = 0 /\ Zero.lap = 0
    /\ Zero \in [index : 0 .. N + 1, lap : Laps]
    /\ Garbage \in [index : 0 .. N, lap : Laps]
    /\ Garbage \in [index : 0 .. N + 1, lap : Laps]
BY CircularAssumption, ConcAssumption DEF Zero, Garbage, Laps

LEMMA LapTypes ==
    ASSUME NEW l \in Laps
    PROVE  LapAfter(l) \in Laps /\ LapBefore(l) \in Laps
BY ConcConstants DEF Laps, LapAfter, LapBefore

\* The switch gives the reader its own head, its own lap with the index of the
\* copy, or the head of the copy a lap back.
LEMMA CatchUpTypes ==
    ASSUME NEW read \in [index : 0 .. N + 1, lap : Laps],
           NEW write \in [index : 0 .. N, lap : Laps]
    PROVE  CatchUp(read, write) \in [index : 0 .. N + 1, lap : Laps]
<1>1. /\ write.index \in 0 .. N + 1 /\ LapBefore(write.lap) \in Laps
      /\ read.lap \in Laps
  BY LapTypes, ConcConstants
<1>2. \/ CatchUp(read, write) = read
      \/ CatchUp(read, write) = [read EXCEPT !.index = write.index]
      \/ CatchUp(read, write) = [index |-> write.index, lap |-> LapBefore(write.lap)]
  BY DEF CatchUp
<1>3. QED
  BY <1>1, <1>2

LEMMA AdvanceCopyTypes ==
    ASSUME head \in [index : 0 .. N + 1, lap : Laps]
    PROVE  AdvanceCopy \in [index : 0 .. N + 1, lap : Laps]
<1>1. head.index \in 0 .. N + 1 /\ head.lap \in Laps /\ LapAfter(head.lap) \in Laps
  BY LapTypes
<1>2. CASE head.index > N
  BY <1>2 DEF AdvanceCopy
<1>3. CASE ~(head.index > N)
  <2>1. head.index + 1 \in 0 .. N + 1 /\ 0 \in 0 .. N + 1
    BY <1>1, <1>3, ConcConstants
  <2>2. AdvanceCopy = Advance(head)
    BY <1>3 DEF AdvanceCopy
  <2>3. QED
    BY <1>1, <2>1, <2>2 DEF Advance
<1>4. QED
  BY <1>2, <1>3

-------------------------------------------------------------------------------

LEMMA ConcInit == Init => ConcInv
<1> SUFFICES ASSUME Init PROVE ConcInv
  OBVIOUS
<1>1. pc = [s \in Sides |-> "down"] /\ pc["writer"] = "down" /\ pc["reader"] = "down"
  BY DEF Init, Sides
<1>2. pc \in [Sides -> Places]
  BY <1>1 DEF Places
<1>3. data \in [0 .. N - 1 -> 0 .. MaxWrites]
  BY ConcConstants DEF Init
<1>4. TypeOK
  <2>1. /\ writeHead \in [index : 0 .. N, lap : Laps]
        /\ readHead \in [index : 0 .. N + 1, lap : Laps]
        /\ copy \in [index : 0 .. N, lap : Laps]
        /\ head \in [index : 0 .. N + 1, lap : Laps]
    BY ConcConstants DEF Init
  <2>2. /\ value \in 0 .. MaxWrites /\ count \in 0 .. MaxWrites
        /\ last \in 0 .. MaxWrites /\ seen \in 0 .. MaxWrites
        /\ crashes \in 0 .. MaxCrashes
    BY ConcConstants DEF Init
  <2>3. /\ key \in BOOLEAN /\ crc \in BOOLEAN /\ sound \in BOOLEAN
        /\ wide \in WideCopies
    BY DEF Init
  <2>4. QED
    BY <1>1, <1>3, <2>1, <2>2, <2>3 DEF TypeOK
<1>5. QED
  BY <1>1, <1>2, <1>4 DEF ConcInv, IndexBounded, WriteCounted

\* The constructor of either side: what the writer finds in its place, or zero.
LEMMA ConstructConc ==
    ASSUME ConcInv, NEW s \in Sides, Construct(s)
    PROVE  ConcInv'
<1> USE DEF Construct, Goto, ConcInv, TypeOK, Sides, Places,
            shared, local, history, setup
<1>1. pc' \in [Sides -> Places] /\ TypeOK'
  OBVIOUS
<1>2. IndexBounded' /\ WriteCounted'
  BY DEF IndexBounded, WriteCounted, ValidPair
<1>3. QED
  BY <1>1, <1>2

LEMMA InitializingConc ==
    ASSUME ConcInv, NEW s \in Sides, Initializing(s)
    PROVE  ConcInv'
<1> USE ConcConstants DEF Goto, ConcInv, TypeOK, Sides, Places,
        shared, local, history, setup
<1>1. CASE InitReadHead(s)
  BY <1>1 DEF InitReadHead, IndexBounded, WriteCounted
<1>2. CASE InitWriteHead(s)
  BY <1>2 DEF InitWriteHead, IndexBounded, WriteCounted
<1>3. CASE InitKey(s)
  BY <1>3 DEF InitKey, IndexBounded, WriteCounted
<1>4. CASE InitCrc(s)
  BY <1>4 DEF InitCrc, IndexBounded, WriteCounted
<1>5. QED
  BY <1>1, <1>2, <1>3, <1>4 DEF Initializing

LEMMA CrashConc ==
    ASSUME ConcInv, NEW s \in Sides, Crash(s)
    PROVE  ConcInv'
BY ConcConstants DEF Crash, ConcInv, TypeOK, IndexBounded, WriteCounted, Sides,
   Places, shared, local

-------------------------------------------------------------------------------
(* The writer *)

LEMMA WriteSlotConc ==
    ASSUME ConcInv, WriteSlot
    PROVE  ConcInv'
<1> USE ConcConstants DEF WriteSlot, Goto, ConcInv, Sides, local, history, setup
<1>1. /\ pc["writer"] = "idle" /\ pc' = [pc EXCEPT !["writer"] = "advance"]
      /\ count + 1 \in 0 .. MaxWrites /\ writeHead' = writeHead
  BY DEF TypeOK
<1>2. data' \in [0 .. N - 1 -> 0 .. MaxWrites]
  BY <1>1 DEF TypeOK
<1>3. pc' \in [Sides -> Places] /\ TypeOK'
  BY <1>1, <1>2 DEF TypeOK, Places
<1>4. IndexBounded' /\ WriteCounted'
  BY <1>1 DEF IndexBounded, WriteCounted
<1>5. QED
  BY <1>3, <1>4

LEMMA AdvancingConc ==
    ASSUME ConcInv, Advancing
    PROVE  ConcInv'
<1> USE ConcConstants DEF Goto, ConcInv, Sides, Places, local, history, setup
<1>1. CASE AdvanceIndex
  <2>1. writeHead.index \in 0 .. N - 1 /\ count + 1 \in 0 .. MaxWrites
    <3>1. pc["writer"] = "advance"
      BY <1>1 DEF AdvanceIndex
    <3>2. writeHead.index < N /\ count < MaxWrites
      BY <3>1 DEF IndexBounded, WriteCounted
    <3>3. writeHead.index \in 0 .. N /\ count \in 0 .. MaxWrites
      BY DEF TypeOK
    <3>4. QED
      BY <3>2, <3>3
  <2>2. writeHead' \in [index : 0 .. N, lap : Laps]
        /\ writeHead'.index = writeHead.index + 1
    <3>1. writeHead' = [writeHead EXCEPT !.index = writeHead.index + 1]
      BY <1>1 DEF AdvanceIndex
    <3>2. writeHead.index + 1 \in 0 .. N
      BY <2>1
    <3>3. writeHead \in [index : 0 .. N, lap : Laps]
      BY DEF TypeOK
    <3>4. QED
      BY <3>1, <3>2, <3>3
  <2>3. pc' \in [Sides -> Places] /\ TypeOK'
    <3>1. /\ pc' \in [Sides -> Places]
          /\ pc'["writer"] \in {"reset", "idle"} /\ pc'["reader"] = pc["reader"]
      BY <1>1 DEF AdvanceIndex
    <3>2. count' \in 0 .. MaxWrites
      BY <1>1, <2>1 DEF AdvanceIndex, TypeOK
    <3>3. UNCHANGED <<data, readHead, key, crc, local, last, seen, sound, setup>>
      BY <1>1 DEF AdvanceIndex
    <3>4. QED
      BY <2>2, <3>1, <3>2, <3>3 DEF TypeOK
  <2>4. IndexBounded'
    <3>1. \/ pc'["writer"] = "reset"
          \/ pc'["writer"] = "idle" /\ writeHead.index + 1 # N
      BY <1>1 DEF AdvanceIndex
    <3>2. writeHead.index + 1 # N => writeHead'.index < N
      BY <2>1, <2>2
    <3>3. QED
      BY <3>1, <3>2 DEF IndexBounded
  <2>5. WriteCounted'
    BY <1>1, <2>1 DEF AdvanceIndex, WriteCounted
  <2>6. QED
    BY <2>3, <2>4, <2>5
<1>2. CASE ResetIndex
  <2>1. writeHead' \in [index : 0 .. N, lap : Laps] /\ writeHead'.index = 0
    <3>1. writeHead' = [writeHead EXCEPT !.index = 0] /\ 0 \in 0 .. N
      BY <1>2 DEF ResetIndex
    <3>2. writeHead \in [index : 0 .. N, lap : Laps]
      BY DEF TypeOK
    <3>3. QED
      BY <3>1, <3>2
  <2>2. QED
    <3>1. pc' \in [Sides -> Places] /\ TypeOK'
      BY <1>2, <2>1 DEF ResetIndex, TypeOK
    <3>2. IndexBounded' /\ WriteCounted'
      BY <1>2, <2>1 DEF ResetIndex, IndexBounded, WriteCounted
    <3>3. QED
      BY <3>1, <3>2
<1>3. CASE AdvanceLap
  <2>1. writeHead' \in [index : 0 .. N, lap : Laps]
        /\ writeHead'.index = writeHead.index /\ count + 1 \in 0 .. MaxWrites
    <3>1. /\ writeHead' = [writeHead EXCEPT !.lap = LapAfter(writeHead.lap)]
          /\ pc["writer"] = "lap"
      BY <1>3 DEF AdvanceLap
    <3>2. /\ writeHead \in [index : 0 .. N, lap : Laps]
          /\ LapAfter(writeHead.lap) \in Laps
      BY LapTypes DEF TypeOK
    <3>3. count + 1 \in 0 .. MaxWrites
      <4>1. count < MaxWrites
        BY <3>1 DEF WriteCounted
      <4>2. count \in 0 .. MaxWrites
        BY DEF TypeOK
      <4>3. QED
        BY <4>1, <4>2
    <3>4. QED
      BY <3>1, <3>2, <3>3
  <2>2. QED
    BY <1>3, <2>1 DEF AdvanceLap, TypeOK, IndexBounded, WriteCounted
<1>4. QED
  BY <1>1, <1>2, <1>3 DEF Advancing

-------------------------------------------------------------------------------
(* The reader *)

\* It changes nothing that the bounds of the writer are about.
LEMMA ReadingBounds ==
    ASSUME ConcInv, Reading
    PROVE  /\ pc' \in [Sides -> Places]
           /\ pc'["writer"] = pc["writer"]
           /\ UNCHANGED <<data, writeHead, key, crc, count, crashes, wide>>
           /\ IndexBounded' /\ WriteCounted'
<1>1. /\ \E from, to \in Places : Goto("reader", from, to)
      /\ UNCHANGED <<data, writeHead, key, crc, count, crashes, wide>>
  <2> USE DEF shared, local, history, setup, Places
  <2>1. CASE CopyIndex \/ CopyLap
    BY <2>1 DEF CopyIndex, CopyLap
  <2>2. CASE CopyWide \/ CopySecond
    BY <2>2 DEF CopyWide, CopySecond, Decide
  <2>3. CASE TakeSlot
    BY <2>3 DEF TakeSlot
  <2>4. CASE StoreWide \/ StoreFirst \/ StoreSecond
    BY <2>4 DEF StoreWide, StoreFirst, StoreSecond
  <2>5. QED
    BY <2>1, <2>2, <2>3, <2>4 DEF Reading
<1>2. pc' \in [Sides -> Places] /\ pc'["writer"] = pc["writer"]
  BY <1>1 DEF Goto, ConcInv, Sides
<1>3. QED
  BY <1>1, <1>2 DEF ConcInv, IndexBounded, WriteCounted

LEMMA DecideTypes ==
    ASSUME ConcInv, NEW from, NEW write \in [index : 0 .. N, lap : Laps],
           Decide(from, write)
    PROVE  /\ copy' \in [index : 0 .. N, lap : Laps]
           /\ head' \in [index : 0 .. N + 1, lap : Laps]
           /\ seen' \in 0 .. MaxWrites /\ sound' \in BOOLEAN
           /\ pc'["reader"] \in {"idle", "take"}
           /\ UNCHANGED <<readHead, value, last>>
<1> USE DEF Decide, ConcInv, TypeOK, Goto, Sides, shared
<1>1. sound' \in BOOLEAN
  OBVIOUS
<1>2. CatchUp(readHead, write) \in [index : 0 .. N + 1, lap : Laps]
  BY CatchUpTypes
<1>3. QED
  BY <1>1, <1>2

LEMMA ReadingConc ==
    ASSUME ConcInv, Reading
    PROVE  ConcInv'
<1> USE DEF ConcInv, Goto, Sides
<1>1. /\ pc'["writer"] = pc["writer"]
      /\ UNCHANGED <<data, writeHead, key, crc, count, crashes, wide>>
      /\ pc' \in [Sides -> Places] /\ IndexBounded' /\ WriteCounted'
  BY ReadingBounds
<1>2. CASE CopyIndex \/ CopyLap
  <2>1. copy' \in [index : 0 .. N, lap : Laps]
    BY <1>2 DEF CopyIndex, CopyLap, TypeOK
  <2>2. QED
    BY <1>1, <1>2, <2>1 DEF CopyIndex, CopyLap, TypeOK, shared, history, setup
<1>3. CASE CopyWide \/ CopySecond
  <2>1. PICK from, write : /\ Decide(from, write)
                           /\ write \in [index : 0 .. N, lap : Laps]
    <3>1. CASE CopyWide
      BY <3>1 DEF CopyWide, TypeOK
    <3>2. /\ [copy EXCEPT !.lap = writeHead.lap] \in [index : 0 .. N, lap : Laps]
          /\ [copy EXCEPT !.index = writeHead.index]
                \in [index : 0 .. N, lap : Laps]
      BY DEF TypeOK
    <3>3. CASE CopySecond
      BY <3>2, <3>3 DEF CopySecond
    <3>4. QED
      BY <1>3, <3>1, <3>3
  <2>2. QED
    BY <1>1, <2>1, DecideTypes DEF TypeOK
<1>4. CASE TakeSlot
  <2>1. value' \in 0 .. MaxWrites
    <3>1. head.index < N => head.index \in 0 .. N - 1
      BY ConcConstants DEF TypeOK
    <3>2. QED
      BY <1>4, <3>1, ConcConstants DEF TakeSlot, TypeOK, Stray
  <2>2. head' \in [index : 0 .. N + 1, lap : Laps]
    BY <1>4, AdvanceCopyTypes DEF TakeSlot, TypeOK
  <2>3. pc'["reader"] = "store" /\ sound' \in BOOLEAN
        /\ UNCHANGED <<readHead, copy, last, seen>>
    BY <1>4 DEF TakeSlot, TypeOK, shared
  <2>4. QED
    BY <1>1, <2>1, <2>2, <2>3 DEF TypeOK
<1>5. CASE StoreWide \/ StoreFirst \/ StoreSecond
  <2>1. readHead' \in [index : 0 .. N + 1, lap : Laps]
    BY <1>5 DEF StoreWide, StoreFirst, StoreSecond, TypeOK
  <2>2. /\ pc'["reader"] \in {"idle", "store_lap", "store_index"}
        /\ last' \in 0 .. MaxWrites
        /\ UNCHANGED <<copy, head, value, seen, sound>>
    BY <1>5 DEF StoreWide, StoreFirst, StoreSecond, TypeOK, local, history
  <2>3. QED
    BY <1>1, <2>1, <2>2 DEF TypeOK
<1>6. QED
  BY <1>2, <1>3, <1>4, <1>5 DEF Reading

-------------------------------------------------------------------------------

LEMMA ConcStep == ConcInv /\ [Next]_vars => ConcInv'
<1> SUFFICES ASSUME ConcInv, [Next]_vars PROVE ConcInv'
  OBVIOUS
<1>1. CASE UNCHANGED vars
  BY <1>1 DEF vars, shared, local, history, setup, ConcInv, TypeOK, IndexBounded,
              WriteCounted
<1>2. QED
  BY <1>1, ConstructConc, InitializingConc, CrashConc, WriteSlotConc,
     AdvancingConc, ReadingConc DEF Next

LEMMA ConcInvariant == Spec => []ConcInv
<1>1. Spec => Init /\ [][Next]_vars
  BY DEF Spec
<1>2. QED
  BY <1>1, ConcInit, ConcStep, PTL

\* Each variable keeps its type, although the constructors store what they want
\* at any moment (Circular.h:126, 191-205).
THEOREM ConcTypes == Spec => []TypeOK
<1>1. ConcInv => TypeOK
  BY DEF ConcInv
<1>2. QED
  BY <1>1, ConcInvariant, PTL

\* The writer stores to a slot of the array (Circular.h:140), whatever the
\* capacity, the interleaving and the point where a process ended before, although
\* its index is N for a moment (Circular.h:220).
THEOREM WriterInData == Spec => []WriterStaysInData
<1>1. ConcInv => WriterStaysInData
  BY DEF ConcInv, IndexBounded, WriterStaysInData
<1>2. QED
  BY <1>1, ConcInvariant, PTL

-------------------------------------------------------------------------------
(* Counts and heads *)

LEMMA Digits ==
    ASSUME NEW n \in Nat
    PROVE  n % N \in 0 .. N - 1 /\ n \div N \in Nat /\ n % N = n - N * (n \div N)
<1>1. n % N \in 0 .. N - 1
  BY ConcConstants
<1>2. n \div N \in Nat
  BY ConcConstants
<1>3. n % N = n - N * (n \div N)
  BY ConcConstants
<1>4. QED
  BY <1>1, <1>2, <1>3

LEMMA Multiples ==
    ASSUME NEW a \in Int, NEW b \in Int
    PROVE  /\ N * a \in Int
           /\ N * (a + 1) = N * a + N
           /\ a <= b => N * a <= N * b
<1>1. N * a \in Int /\ N * (a + 1) = N * a + N
  BY ConcConstants
<1>2. a <= b => N * a <= N * b
  BY ConcConstants
<1>3. QED
  BY <1>1, <1>2

\* There is only one way to write n as N * lap + index.
LEMMA DigitsUnique ==
    ASSUME NEW n \in Nat, NEW q \in Int, NEW r \in 0 .. N - 1, n = N * q + r
    PROVE  n \div N = q /\ n % N = r
<1> DEFINE p == n \div N
           s == n % N
<1>1. p \in Int /\ s \in 0 .. N - 1 /\ s = n - N * p
  BY Digits
<1> HIDE DEF p, s
<1>2. /\ N * p \in Int /\ N * q \in Int
      /\ N * (p + 1) = N * p + N /\ N * (q + 1) = N * q + N
  BY <1>1, Multiples
<1>3. ~(q < p)
  <2> SUFFICES ASSUME q < p PROVE FALSE
    OBVIOUS
  <2>1. q + 1 \in Int /\ q + 1 <= p
    BY <1>1
  <2>2. N * (q + 1) <= N * p
    BY <1>1, <2>1, Multiples
  <2>3. QED
    BY <1>1, <1>2, <2>2, ConcConstants
<1>4. ~(p < q)
  <2> SUFFICES ASSUME p < q PROVE FALSE
    OBVIOUS
  <2>1. p + 1 \in Int /\ p + 1 <= q
    BY <1>1
  <2>2. N * (p + 1) <= N * q
    BY <1>1, <2>1, Multiples
  <2>3. QED
    BY <1>1, <1>2, <2>2, ConcConstants
<1>5. p = q
  BY <1>1, <1>3, <1>4
<1>6. s = r
  BY <1>1, <1>2, <1>5
<1>7. QED
  BY <1>5, <1>6 DEF p, s

LEMMA DigitsOfZero == HeadAfter(0) = Zero /\ 0 % N = 0
<1>1. 0 = N * 0 + 0 /\ 0 \in 0 .. N - 1
  BY ConcConstants
<1>2. 0 \div N = 0 /\ 0 % N = 0
  BY <1>1, DigitsUnique
<1>3. QED
  BY <1>2 DEF HeadAfter, Zero

\* One element more: the next index, or the first of the next lap.
LEMMA NextDigits ==
    ASSUME NEW n \in Nat
    PROVE  IF (n % N) + 1 = N
           THEN (n + 1) % N = 0 /\ (n + 1) \div N = n \div N + 1
           ELSE (n + 1) % N = (n % N) + 1 /\ (n + 1) \div N = n \div N
<1> DEFINE p == n \div N
           s == n % N
<1>1. p \in Int /\ s \in 0 .. N - 1 /\ s = n - N * p
  BY Digits
<1> HIDE DEF p, s
<1>2. N * p \in Int /\ N * (p + 1) = N * p + N
  BY <1>1, Multiples
<1>3. CASE s + 1 = N
  <2>1. n + 1 \in Nat /\ n + 1 = N * (p + 1) + 0 /\ 0 \in 0 .. N - 1 /\ p + 1 \in Int
    BY <1>1, <1>2, <1>3, ConcConstants
  <2>2. (n + 1) % N = 0 /\ (n + 1) \div N = p + 1
    BY <2>1, DigitsUnique
  <2>3. QED
    BY <1>3, <2>2 DEF p, s
<1>4. CASE s + 1 # N
  <2>1. n + 1 \in Nat /\ n + 1 = N * p + (s + 1) /\ s + 1 \in 0 .. N - 1
    BY <1>1, <1>2, <1>4, ConcConstants
  <2>2. (n + 1) % N = s + 1 /\ (n + 1) \div N = p
    BY <1>1, <2>1, DigitsUnique
  <2>3. QED
    BY <1>4, <2>2 DEF p, s
<1>5. QED
  BY <1>3, <1>4

LEMMA LapsGrow ==
    ASSUME NEW m \in Nat, NEW n \in Nat, m <= n
    PROVE  m \div N <= n \div N
<1> DEFINE p == m \div N
           q == n \div N
           r == m % N
           s == n % N
<1>1. /\ p \in Int /\ r \in 0 .. N - 1 /\ r = m - N * p
      /\ q \in Int /\ s \in 0 .. N - 1 /\ s = n - N * q
  BY Digits
<1> HIDE DEF p, q, r, s
<1>2. ~(q < p)
  <2> SUFFICES ASSUME q < p PROVE FALSE
    OBVIOUS
  <2>1. q + 1 \in Int /\ q + 1 <= p
    BY <1>1
  <2>2. N * (q + 1) <= N * p /\ N * (q + 1) = N * q + N
    BY <1>1, <2>1, Multiples
  <2>3. N * p \in Int /\ N * q \in Int
    BY <1>1, Multiples
  <2>4. QED
    BY <1>1, <2>2, <2>3, ConcConstants
<1>3. p <= q
  BY <1>1, <1>2
<1>4. QED
  BY <1>3 DEF p, q

\* advance() of the head after n elements, as long as the lap counter does not
\* wrap.
LEMMA AdvanceHead ==
    ASSUME NEW n \in Nat, (n + 1) \div N < LapMod
    PROVE  Advance(HeadAfter(n)) = HeadAfter(n + 1) /\ HeadAfter(n).index < N
<1>1. n % N \in 0 .. N - 1 /\ n \div N \in Nat
  BY Digits
<1>2. n % N < N
  BY <1>1, ConcConstants
<1>3. HeadAfter(n) = [index |-> n % N, lap |-> n \div N]
  BY DEF HeadAfter
<1>4. CASE (n % N) + 1 = N
  <2>1. (n + 1) % N = 0 /\ (n + 1) \div N = n \div N + 1
    BY <1>4, NextDigits
  <2>2. LapAfter(n \div N) = (n + 1) \div N
    BY <1>1, <2>1, ConcConstants DEF LapAfter
  <2>3. QED
    BY <1>2, <1>3, <1>4, <2>1, <2>2 DEF Advance, HeadAfter
<1>5. CASE (n % N) + 1 # N
  <2>1. (n + 1) % N = (n % N) + 1 /\ (n + 1) \div N = n \div N
    BY <1>5, NextDigits
  <2>2. QED
    BY <1>2, <1>3, <1>5, <2>1 DEF Advance, HeadAfter
<1>6. QED
  BY <1>4, <1>5

\* Of N successive numbers, only one has a given remainder.
LEMMA OneOfALap ==
    ASSUME NEW m \in Nat, NEW n \in Nat, m <= n, n < m + N, n % N = m % N
    PROVE  n = m
<1> DEFINE p == m \div N
           q == n \div N
           r == m % N
<1>1. /\ p \in Int /\ r \in 0 .. N - 1 /\ r = m - N * p
      /\ q \in Int /\ r = n - N * q
  BY Digits
<1>2. p <= q
  BY LapsGrow
<1> HIDE DEF p, q, r
<1>3. N * p \in Int /\ N * q \in Int /\ N * (p + 1) = N * p + N
  BY <1>1, Multiples
<1>4. ~(p < q)
  <2> SUFFICES ASSUME p < q PROVE FALSE
    OBVIOUS
  <2>1. p + 1 \in Int /\ p + 1 <= q
    BY <1>1
  <2>2. N * (p + 1) <= N * q
    BY <1>1, <2>1, Multiples
  <2>3. QED
    BY <1>1, <1>3, <2>2, ConcConstants
<1>5. p = q
  BY <1>1, <1>2, <1>4
<1>6. QED
  BY <1>1, <1>3, <1>5

\* Of N successive elements, only one belongs in a slot.
LEMMA OneInASlot ==
    ASSUME NEW v \in Nat, NEW w \in Nat, 1 <= w, w <= v, v < w + N,
           (v - 1) % N = (w - 1) % N
    PROVE  v = w
<1>1. /\ v - 1 \in Nat /\ w - 1 \in Nat
      /\ w - 1 <= v - 1 /\ v - 1 < (w - 1) + N
  BY ConcConstants
<1>2. v - 1 = w - 1
  BY <1>1, OneOfALap
<1>3. QED
  BY <1>2

\* The switch moves a reader that is behind to the oldest element that is left.
LEMMA CatchUpHead ==
    ASSUME NEW m \in Nat, NEW n \in Nat, m < n,
           m \div N \in Laps, n \div N \in Laps
    PROVE  CatchUp(HeadAfter(m), HeadAfter(n)) = HeadAfter(Larger(m, n - N))
<1> DEFINE p == m \div N
           q == n \div N
           r == m % N
           s == n % N
<1>1. /\ p \in Int /\ r \in 0 .. N - 1 /\ r = m - N * p
      /\ q \in Int /\ s \in 0 .. N - 1 /\ s = n - N * q
  BY Digits
<1>2. p <= q
  BY LapsGrow
<1>3. p \in Laps /\ q \in Laps
  OBVIOUS
<1>4. HeadAfter(m) = [index |-> r, lap |-> p] /\ HeadAfter(n) = [index |-> s, lap |-> q]
  BY DEF HeadAfter
<1> HIDE DEF p, q, r, s
<1>5. LapsBehind(HeadAfter(m), HeadAfter(n)) = q - p
  BY <1>2, <1>4 DEF LapsBehind
<1>6. N * p \in Int /\ N * q \in Int /\ N * (p + 1) = N * p + N /\ q - 1 \in Int
      /\ N * (q - 1) = N * q - N
  <2>1. q - 1 \in Int /\ (q - 1) + 1 = q
    BY <1>1
  <2>2. N * ((q - 1) + 1) = N * (q - 1) + N /\ N * (q - 1) \in Int
    BY <2>1, Multiples
  <2>3. QED
    BY <1>1, <2>1, <2>2, Multiples, ConcConstants
<1>7. n - N \in Nat => HeadAfter(n - N) = [index |-> s, lap |-> q - 1]
  <2> SUFFICES ASSUME n - N \in Nat PROVE HeadAfter(n - N) = [index |-> s, lap |-> q - 1]
    OBVIOUS
  <2>1. n - N = N * (q - 1) + s
    BY <1>1, <1>6, ConcConstants
  <2>2. (n - N) \div N = q - 1 /\ (n - N) % N = s
    BY <1>1, <1>6, <2>1, DigitsUnique
  <2>3. QED
    BY <2>2 DEF HeadAfter
<1>8. CASE q = p
  <2>1. m > n - N
    BY <1>1, <1>6, <1>8, ConcConstants
  <2>2. CatchUp(HeadAfter(m), HeadAfter(n)) = HeadAfter(m)
    <3>1. LapsBehind(HeadAfter(m), HeadAfter(n)) = 0
      BY <1>1, <1>5, <1>8
    <3>2. QED
      BY <3>1 DEF CatchUp
  <2>3. QED
    BY <2>1, <2>2 DEF Larger
<1>9. CASE q = p + 1
  <2>1. LapsBehind(HeadAfter(m), HeadAfter(n)) = 1
    BY <1>1, <1>5, <1>9
  <2>2. CatchUp(HeadAfter(m), HeadAfter(n)) =
           IF s > r THEN [index |-> s, lap |-> p] ELSE HeadAfter(m)
    BY <1>4, <2>1 DEF CatchUp
  <2>3. n - m = N + s - r
    BY <1>1, <1>6, <1>9, ConcConstants
  <2>4. CASE s > r
    <3>1. n - N \in Nat /\ ~(m > n - N)
      BY <1>1, <2>3, <2>4, ConcConstants
    <3>2. q - 1 = p
      BY <1>1, <1>9
    <3>3. QED
      BY <1>7, <2>2, <2>4, <3>1, <3>2 DEF Larger
  <2>5. CASE ~(s > r)
    <3>1. m > n - N \/ m = n - N
      BY <1>1, <2>3, <2>5, ConcConstants
    <3>2. Larger(m, n - N) = m
      BY <3>1 DEF Larger
    <3>3. QED
      BY <2>2, <2>5, <3>2
  <2>6. QED
    BY <2>4, <2>5
<1>10. CASE q > p + 1
  <2>1. /\ LapsBehind(HeadAfter(m), HeadAfter(n)) # 0
        /\ LapsBehind(HeadAfter(m), HeadAfter(n)) # 1
    BY <1>1, <1>5, <1>10
  <2>2. CatchUp(HeadAfter(m), HeadAfter(n)) = [index |-> s, lap |-> LapBefore(q)]
    BY <1>4, <2>1 DEF CatchUp
  <2>3. LapBefore(q) = q - 1
    BY <1>3, <1>10, ConcConstants DEF LapBefore, Laps
  <2>4. N * (p + 1) <= N * (q - 1)
    <3>1. p + 1 \in Int /\ p + 1 <= q - 1
      BY <1>1, <1>10
    <3>2. QED
      BY <1>6, <3>1, Multiples
  <2>5. n - N \in Nat /\ ~(m > n - N)
    BY <1>1, <1>6, <2>4, ConcConstants
  <2>6. QED
    BY <1>7, <2>2, <2>3, <2>5 DEF Larger
<1>11. QED
  BY <1>1, <1>2, <1>8, <1>9, <1>10
-------------------------------------------------------------------------------
-------------------------------------------------------------------------------
(* What holds as long as nothing has disturbed an access *)

Storing == {"store_lap", "store_index"}

\* Before the first element: who has passed the stores of initialize(), or found
\* the buffer valid, has heads that are zero.
Fresh ==
    count = 0 =>
        /\ readHead \in {Zero, Garbage} /\ writeHead \in {Zero, Garbage}
        /\ last = 0
        /\ pc["writer"] \notin {"reset", "lap"}
        /\ pc["reader"] \notin {"take", "store"} \cup Storing
        /\ \A s \in Sides :
              /\ pc[s] \notin {"down", "read_head"} => readHead = Zero
              /\ pc[s] \notin {"down", "read_head", "write_head"} => writeHead = Zero

\* Where advance() has come to.
WriterAt ==
    count > 0 =>
        /\ pc["writer"] = "reset" => writeHead.index = N
        /\ pc["writer"] = "lap" => writeHead.index = 0
        /\ pc["writer"] \in {"reset", "lap"} => count % N = N - 1
        /\ pc["writer"] \notin {"reset", "lap"} => writeHead.index = count % N

\* A slot holds an element that belongs there, the last one or a later one.
SlotsHold ==
    /\ \A i \in 0 .. N - 1 : data[i] # 0 => (data[i] - 1) % N = i
    /\ \A k \in 1 .. count : data[(k - 1) % N] >= k
    /\ pc["writer"] \in {"advance", "reset", "lap"} => data[count % N] = count + 1

\* The element the reader is to take.
Wanted == Larger(last + 1, seen - N + 1)

ReaderAt ==
    count > 0 =>
        /\ last <= count
        /\ pc["reader"] \notin Storing => readHead = HeadAfter(last)
        /\ pc["reader"] \in {"take", "store"} \cup Storing => last < seen /\ seen <= count
        /\ pc["reader"] = "take" => copy = HeadAfter(seen) /\ head = HeadAfter(Wanted - 1)
        /\ pc["reader"] \in {"store"} \cup Storing => value = Wanted /\ head = HeadAfter(value)
        /\ pc["reader"] = "store_lap" => readHead.index = head.index
        /\ pc["reader"] = "store_index" => readHead.lap = head.lap

Undisturbed == Fresh /\ WriterAt /\ SlotsHold /\ ReaderAt
ReadInv == ConcInv /\ (sound => Undisturbed)

-------------------------------------------------------------------------------

LEMMA ReadInit == Init => ReadInv
<1> SUFFICES ASSUME Init PROVE ReadInv
  OBVIOUS
<1>1. ConcInv
  BY ConcInit
<1>2. pc["writer"] = "down" /\ pc["reader"] = "down" /\ \A s \in Sides : pc[s] = "down"
  BY DEF Init, Sides
<1>3. /\ count = 0 /\ last = 0
      /\ readHead \in {Zero, Garbage} /\ writeHead \in {Zero, Garbage}
      /\ \A i \in 0 .. N - 1 : data[i] = 0
  BY DEF Init
<1>4. Fresh /\ WriterAt /\ ReaderAt
  BY <1>2, <1>3 DEF Fresh, WriterAt, ReaderAt, Storing
<1>5. SlotsHold
  BY <1>2, <1>3 DEF SlotsHold
<1>6. QED
  BY <1>1, <1>4, <1>5 DEF ReadInv, Undisturbed

\* The constructor that finds a valid pair before the first element finds zeros.
LEMMA ConstructRead ==
    ASSUME ConcInv, Undisturbed, NEW s \in Sides, Construct(s)
    PROVE  Undisturbed'
<1> USE DEF Construct, Goto, Sides, shared, local, history, setup, Undisturbed, Storing
<1>1. /\ UNCHANGED <<data, writeHead, readHead, copy, head, value, count, last, seen>>
      /\ pc[s] = "down"
      /\ \/ pc' = [pc EXCEPT ![s] = "read_head"]
         \/ pc' = [pc EXCEPT ![s] = "idle"] /\ ValidPair(readHead, writeHead)
  OBVIOUS
<1>2. /\ pc'[s] \in {"read_head", "idle"}
      /\ \A t \in Sides \ {s} : pc'[t] = pc[t]
      /\ pc'[s] = "idle" => ValidPair(readHead, writeHead)
  BY <1>1 DEF ConcInv
<1>3. Fresh'
  <2>1. ValidPair(readHead, writeHead) => readHead # Garbage /\ writeHead # Garbage
    BY ConcConstants DEF ValidPair, Garbage
  <2>2. QED
    BY <1>1, <1>2, <2>1 DEF Fresh
<1>4. WriterAt' /\ SlotsHold' /\ ReaderAt'
  <2>1. s = "writer" \/ s = "reader"
    OBVIOUS
  <2>2. WriterAt'
    BY <1>1, <1>2, <2>1 DEF WriterAt
  <2>3. SlotsHold'
    BY <1>1, <1>2, <2>1 DEF SlotsHold
  <2>4. ReaderAt'
    BY <1>1, <1>2, <2>1 DEF ReaderAt, Wanted, HeadAfter
  <2>5. QED
    BY <2>2, <2>3, <2>4
<1>5. QED
  BY <1>3, <1>4

LEMMA InitializingRead ==
    ASSUME ConcInv, Undisturbed, NEW s \in Sides, Initializing(s), sound'
    PROVE  Undisturbed'
<1> USE DEF Goto, Sides, local, history, setup, Undisturbed, Storing
<1>1. CASE InitReadHead(s) \/ InitWriteHead(s)
  <2>1. /\ UNCHANGED <<data, count, last, seen, copy, head, value>> /\ count = 0
        /\ pc[s] \in {"read_head", "write_head"}
        /\ pc' = [pc EXCEPT ![s] = IF pc[s] = "read_head" THEN "write_head" ELSE "key"]
        /\ IF pc[s] = "read_head" THEN readHead' = Zero /\ writeHead' = writeHead
           ELSE writeHead' = Zero /\ readHead' = readHead
    BY <1>1 DEF InitReadHead, InitWriteHead
  <2>2. /\ pc'[s] = IF pc[s] = "read_head" THEN "write_head" ELSE "key"
        /\ \A t \in Sides \ {s} : pc'[t] = pc[t]
    BY <2>1 DEF ConcInv
  <2>3. Fresh'
    BY <2>1, <2>2 DEF Fresh
  <2>4. WriterAt' /\ ReaderAt'
    BY <2>1 DEF WriterAt, ReaderAt
  <2>5. SlotsHold'
    BY <2>1, <2>2 DEF SlotsHold
  <2>6. QED
    BY <2>3, <2>4, <2>5
<1>2. CASE InitKey(s) \/ InitCrc(s)
  <2>1. /\ UNCHANGED <<data, writeHead, readHead, count, last, seen, copy, head, value>>
        /\ pc[s] \in {"key", "crc"}
        /\ pc' = [pc EXCEPT ![s] = IF pc[s] = "key" THEN "crc" ELSE "idle"]
    BY <1>2 DEF InitKey, InitCrc
  <2>2. /\ pc'[s] \in {"crc", "idle"}
        /\ \A t \in Sides \ {s} : pc'[t] = pc[t]
    BY <2>1 DEF ConcInv
  <2>3. Fresh'
    BY <2>1, <2>2 DEF Fresh
  <2>4. s = "writer" \/ s = "reader"
    OBVIOUS
  <2>5. WriterAt' /\ SlotsHold'
    BY <2>1, <2>2, <2>4 DEF WriterAt, SlotsHold
  <2>6. ReaderAt'
    BY <2>1, <2>2, <2>4 DEF ReaderAt, Wanted, HeadAfter
  <2>7. QED
    BY <2>3, <2>5, <2>6
<1>3. QED
  BY <1>1, <1>2 DEF Initializing

\* An end leaves the heads whole, unless it comes amid an access to one.
LEMMA CrashRead ==
    ASSUME ConcInv, Undisturbed, NEW s \in Sides, Crash(s), sound'
    PROVE  Undisturbed'
<1> USE DEF Crash, Sides, shared, local, Undisturbed, Storing
<1>1. /\ UNCHANGED <<data, writeHead, readHead, count, last, seen, copy, head, value>>
      /\ pc' = [pc EXCEPT ![s] = "down"]
      /\ pc[s] \notin {"reset", "lap"} \cup Storing
  OBVIOUS
<1>2. pc'[s] = "down" /\ \A t \in Sides \ {s} : pc'[t] = pc[t]
  BY <1>1 DEF ConcInv
<1>3. s = "writer" \/ s = "reader"
  OBVIOUS
<1>4. Fresh'
  BY <1>1, <1>2 DEF Fresh
<1>5. WriterAt' /\ SlotsHold'
  BY <1>1, <1>2, <1>3 DEF WriterAt, SlotsHold
<1>6. ReaderAt'
  BY <1>1, <1>2, <1>3 DEF ReaderAt, Wanted, HeadAfter
<1>7. QED
  BY <1>4, <1>5, <1>6
-------------------------------------------------------------------------------
(* The writer *)

\* Where the writer stores, with the heads as they are.
LEMMA WriterSlot ==
    ASSUME ConcInv, Undisturbed, pc["writer"] \in {"idle", "advance"}
    PROVE  writeHead.index = count % N
<1>1. CASE count = 0
  <2>1. writeHead = Zero
    BY <1>1 DEF Undisturbed, Fresh, Sides
  <2>2. QED
    BY <1>1, <2>1, DigitsOfZero, ConcConstants
<1>2. CASE count # 0
  <2>1. count > 0
    BY <1>2, ConcConstants DEF ConcInv, TypeOK
  <2>2. QED
    BY <2>1 DEF Undisturbed, WriterAt
<1>3. QED
  BY <1>1, <1>2

\* The new element belongs in its slot and is later than the one it replaces.
LEMMA WriteSlotRead ==
    ASSUME ConcInv, Undisturbed, WriteSlot
    PROVE  Undisturbed'
<1> DEFINE slot == count % N
<1>1. /\ UNCHANGED <<writeHead, readHead, count, last, seen, copy, head, value>>
      /\ data' = [data EXCEPT ![writeHead.index] = count + 1]
      /\ pc["writer"] = "idle" /\ pc' = [pc EXCEPT !["writer"] = "advance"]
  BY DEF WriteSlot, Goto, local, history
<1>2. pc'["writer"] = "advance" /\ pc'["reader"] = pc["reader"]
  BY <1>1 DEF ConcInv, Sides
<1>3. count \in Nat /\ count <= MaxWrites
      /\ data \in [0 .. N - 1 -> 0 .. MaxWrites]
  BY ConcConstants DEF ConcInv, TypeOK
<1>4. slot \in 0 .. N - 1 /\ writeHead.index = slot
  BY <1>1, <1>3, WriterSlot, Digits
<1>5. \A i \in 0 .. N - 1 : data'[i] = IF i = slot THEN count + 1 ELSE data[i]
  BY <1>1, <1>3, <1>4
<1>6. Fresh'
  BY <1>1, <1>2 DEF Undisturbed, Fresh, Sides, Storing
<1>7. WriterAt'
  BY <1>1, <1>2 DEF Undisturbed, WriterAt
<1>8. ReaderAt'
  BY <1>1, <1>2 DEF Undisturbed, ReaderAt, Wanted, HeadAfter, Storing
<1>9. SlotsHold'
  <2>1. ASSUME NEW i \in 0 .. N - 1, data'[i] # 0
        PROVE  (data'[i] - 1) % N = i
    <3>1. CASE i = slot
      <4>1. data'[i] - 1 = count
        BY <1>3, <1>5, <3>1
      <4>2. QED
        BY <3>1, <4>1
    <3>2. CASE i # slot
      BY <1>5, <2>1, <3>2 DEF Undisturbed, SlotsHold
    <3>3. QED
      BY <3>1, <3>2
  <2>2. ASSUME NEW k \in 1 .. count
        PROVE  data'[(k - 1) % N] >= k
    <3>1. (k - 1) % N \in 0 .. N - 1
      <4>1. k - 1 \in Nat
        BY <1>3
      <4>2. QED
        BY <4>1, Digits
    <3>2. data[(k - 1) % N] >= k
      BY DEF Undisturbed, SlotsHold
    <3> HIDE DEF slot
    <3>3. data'[(k - 1) % N] = count + 1 \/ data'[(k - 1) % N] = data[(k - 1) % N]
      BY <1>5, <3>1
    <3>4. count + 1 >= k
      BY <1>3
    <3>5. QED
      BY <3>2, <3>3, <3>4
  <2>3. data'[slot] = count + 1
    BY <1>4, <1>5
  <2>4. QED
    BY <1>1, <2>1, <2>2, <2>3 DEF SlotsHold
<1>10. QED
  BY <1>6, <1>7, <1>8, <1>9 DEF Undisturbed

\* An advance that is complete makes the element in the slot the last one.
LEMMA CountedRead ==
    ASSUME ConcInv, Undisturbed, pc["writer"] \in {"advance", "lap"},
           count' = count + 1, pc' = [pc EXCEPT !["writer"] = "idle"],
           writeHead'.index = (count + 1) % N,
           UNCHANGED <<data, readHead, last, seen, copy, head, value>>
    PROVE  Undisturbed'
<1>1. pc'["writer"] = "idle" /\ pc'["reader"] = pc["reader"]
  BY DEF ConcInv, Sides
<1>2. /\ count \in Nat /\ last \in Nat /\ seen \in Nat
      /\ count' \in Nat /\ count' # 0 /\ count' > 0
  BY ConcConstants DEF ConcInv, TypeOK
<1>3. Fresh' /\ WriterAt'
  BY <1>1, <1>2 DEF Fresh, WriterAt
<1>4. ReaderAt'
  <2>1. CASE count = 0
    <3>1. /\ last = 0 /\ pc'["reader"] \notin {"take", "store"} \cup Storing
      BY <1>1, <2>1 DEF Undisturbed, Fresh
    <3>2. readHead = Zero
      BY <2>1 DEF Undisturbed, Fresh, Sides
    <3>3. readHead' = HeadAfter(last)'
      BY <3>1, <3>2, DigitsOfZero DEF HeadAfter
    <3>4. last' <= count'
      BY <1>2, <3>1
    <3>5. QED
      BY <3>1, <3>3, <3>4 DEF ReaderAt, Storing
  <2>2. CASE count # 0
    <3>1. /\ last <= count'
          /\ pc["reader"] \in {"take", "store"} \cup Storing
                => last < seen /\ seen <= count'
      BY <1>2, <2>2 DEF Undisturbed, ReaderAt
    <3>2. count > 0
      BY <1>2, <2>2
    <3>3. QED
      BY <1>1, <3>1, <3>2 DEF Undisturbed, ReaderAt, Wanted, HeadAfter, Storing
  <2>3. QED
    BY <2>1, <2>2
<1>5. SlotsHold'
  <2>1. ASSUME NEW k \in 1 .. count + 1
        PROVE  data[(k - 1) % N] >= k
    <3>1. CASE k = count + 1
      <4>1. k - 1 = count
        BY <1>2, <3>1
      <4>2. data[count % N] = count + 1
        BY DEF Undisturbed, SlotsHold
      <4>3. QED
        BY <1>2, <3>1, <4>1, <4>2
    <3>2. CASE k # count + 1
      <4>1. k \in 1 .. count
        BY <1>2, <3>2
      <4>2. QED
        BY <4>1 DEF Undisturbed, SlotsHold
    <3>3. QED
      BY <3>1, <3>2
  <2>2. QED
    BY <1>1, <2>1 DEF Undisturbed, SlotsHold
<1>6. QED
  BY <1>3, <1>4, <1>5 DEF Undisturbed

LEMMA AdvancingRead ==
    ASSUME ConcInv, Undisturbed, Advancing
    PROVE  Undisturbed'
<1>1. /\ count \in Nat /\ count % N \in 0 .. N - 1
      /\ writeHead \in [index : 0 .. N, lap : Laps]
  <2>1. count \in Nat /\ writeHead \in [index : 0 .. N, lap : Laps]
    BY ConcConstants DEF ConcInv, TypeOK
  <2>2. QED
    BY <2>1, Digits
<1>2. CASE AdvanceIndex
  <2>1. /\ pc["writer"] = "advance"
        /\ writeHead' = [writeHead EXCEPT !.index = writeHead.index + 1]
        /\ UNCHANGED <<data, readHead, last, seen, copy, head, value>>
    BY <1>2 DEF AdvanceIndex, Goto, local
  <2>2. writeHead.index = count % N /\ writeHead'.index = (count % N) + 1
    <3>1. writeHead.index = count % N
      BY <2>1, WriterSlot
    <3>2. writeHead'.index = writeHead.index + 1
      BY <1>1, <2>1
    <3>3. QED
      BY <3>1, <3>2
  <2>3. CASE writeHead.index + 1 = N
    <3>1. pc' = [pc EXCEPT !["writer"] = "reset"] /\ count' = count
      BY <1>2, <2>3 DEF AdvanceIndex, Goto
    <3>2. pc'["writer"] = "reset" /\ pc'["reader"] = pc["reader"]
      BY <3>1 DEF ConcInv, Sides
    <3>3. count # 0 /\ count > 0
      BY <1>1, <2>2, <2>3, DigitsOfZero, ConcConstants
    <3>4. count % N = N - 1 /\ writeHead'.index = N
      BY <1>1, <2>2, <2>3, ConcConstants
    <3>5. Fresh' /\ WriterAt'
      BY <3>1, <3>2, <3>3, <3>4 DEF Fresh, WriterAt
    <3>6. SlotsHold'
      BY <2>1, <3>1, <3>2 DEF Undisturbed, SlotsHold
    <3>7. ReaderAt'
      BY <2>1, <3>1, <3>2 DEF Undisturbed, ReaderAt, Wanted, HeadAfter, Storing
    <3>8. QED
      BY <3>5, <3>6, <3>7 DEF Undisturbed
  <2>4. CASE writeHead.index + 1 # N
    <3>1. pc' = [pc EXCEPT !["writer"] = "idle"] /\ count' = count + 1
      BY <1>2, <2>4 DEF AdvanceIndex, Goto
    <3>2. (count + 1) % N = (count % N) + 1
      BY <1>1, <2>2, <2>4, NextDigits
    <3>3. QED
      BY <2>1, <2>2, <3>1, <3>2, CountedRead
  <2>5. QED
    BY <2>3, <2>4
<1>3. CASE ResetIndex
  <2>1. /\ pc["writer"] = "reset" /\ pc' = [pc EXCEPT !["writer"] = "lap"]
        /\ writeHead' = [writeHead EXCEPT !.index = 0]
        /\ UNCHANGED <<data, readHead, count, last, seen, copy, head, value>>
    BY <1>3 DEF ResetIndex, Goto, local, history
  <2>2. /\ pc'["writer"] = "lap" /\ pc'["reader"] = pc["reader"]
        /\ writeHead'.index = 0
    BY <1>1, <2>1 DEF ConcInv, Sides
  <2>3. count # 0
    BY <2>1 DEF Undisturbed, Fresh
  <2>4. Fresh' /\ WriterAt'
    BY <2>1, <2>2, <2>3 DEF Undisturbed, Fresh, WriterAt
  <2>5. SlotsHold'
    BY <2>1, <2>2 DEF Undisturbed, SlotsHold
  <2>6. ReaderAt'
    BY <2>1, <2>2 DEF Undisturbed, ReaderAt, Wanted, HeadAfter, Storing
  <2>7. QED
    BY <2>4, <2>5, <2>6 DEF Undisturbed
<1>4. CASE AdvanceLap
  <2>1. /\ pc["writer"] = "lap" /\ pc' = [pc EXCEPT !["writer"] = "idle"]
        /\ writeHead' = [writeHead EXCEPT !.lap = LapAfter(writeHead.lap)]
        /\ count' = count + 1
        /\ UNCHANGED <<data, readHead, last, seen, copy, head, value>>
    BY <1>4 DEF AdvanceLap, Goto, local
  <2>2. count # 0 /\ count > 0
    BY <1>1, <2>1 DEF Undisturbed, Fresh
  <2>3. writeHead.index = 0 /\ count % N = N - 1
    BY <2>1, <2>2 DEF Undisturbed, WriterAt
  <2>4. writeHead'.index = 0
    BY <1>1, <2>1, <2>3
  <2>5. (count + 1) % N = 0
    <3>1. (count % N) + 1 = N
      BY <1>1, <2>3, ConcConstants
    <3>2. QED
      BY <1>1, <3>1, NextDigits
  <2>6. QED
    BY <2>1, <2>4, <2>5, CountedRead
<1>5. QED
  BY <1>2, <1>3, <1>4 DEF Advancing
-------------------------------------------------------------------------------
(* The reader *)

\* What no step of the reader changes.
LEMMA ReadingFrame ==
    ASSUME ConcInv, Undisturbed, Reading
    PROVE  /\ UNCHANGED <<data, writeHead, count>>
           /\ pc'["writer"] = pc["writer"]
           /\ pc["reader"] \notin {"down", "read_head", "write_head"}
           /\ WriterAt' /\ SlotsHold'
<1>1. UNCHANGED <<data, writeHead, count>> /\ pc'["writer"] = pc["writer"]
  BY ReadingBounds
<1>2. pc["reader"] \notin {"down", "read_head", "write_head"}
  <2>1. CASE CopyIndex \/ CopyLap \/ TakeSlot
    BY <2>1 DEF CopyIndex, CopyLap, TakeSlot, Goto
  <2>2. CASE CopyWide \/ CopySecond
    BY <2>2 DEF CopyWide, CopySecond, Decide, Goto
  <2>3. CASE StoreWide \/ StoreFirst \/ StoreSecond
    BY <2>3 DEF StoreWide, StoreFirst, StoreSecond, Goto
  <2>4. QED
    BY <2>1, <2>2, <2>3 DEF Reading
<1>3. WriterAt' /\ SlotsHold'
  BY <1>1 DEF Undisturbed, WriterAt, SlotsHold
<1>4. QED
  BY <1>1, <1>2, <1>3

\* The first field of write_head is copied.
LEMMA CopyRead ==
    ASSUME ConcInv, Undisturbed, CopyIndex \/ CopyLap
    PROVE  Undisturbed'
<1>1. /\ UNCHANGED <<readHead, writeHead, count, last, seen>>
      /\ pc["reader"] = "idle"
      /\ \E to \in {"copy_lap", "copy_index"} : pc' = [pc EXCEPT !["reader"] = to]
  BY DEF CopyIndex, CopyLap, Goto, shared, history
<1>2. pc'["reader"] \in {"copy_lap", "copy_index"} /\ pc'["writer"] = pc["writer"]
  BY <1>1 DEF ConcInv, Sides
<1>3. WriterAt' /\ SlotsHold'
  BY ReadingFrame DEF Reading
<1>4. Fresh'
  BY <1>1, <1>2 DEF Undisturbed, Fresh, Sides, Storing
<1>5. ReaderAt'
  BY <1>1, <1>2 DEF Undisturbed, ReaderAt, HeadAfter, Storing
<1>6. QED
  BY <1>3, <1>4, <1>5 DEF Undisturbed

\* A whole copy of write_head: the buffer is empty when the last element was
\* read, or else the switch takes the reader to the element it wants.
LEMMA DecideRead ==
    ASSUME ConcInv, Undisturbed, Reading, NEW from,
           pc["reader"] \notin {"take", "store"} \cup Storing,
           NEW write \in [index : 0 .. N, lap : Laps],
           Decide(from, write), sound'
    PROVE  Undisturbed'
<1>1. /\ copy' = write /\ seen' = count /\ write = HeadAfter(count)
      /\ UNCHANGED <<readHead, last>>
      /\ IF readHead = write
         THEN pc' = [pc EXCEPT !["reader"] = "idle"]
         ELSE pc' = [pc EXCEPT !["reader"] = "take"] /\ head' = CatchUp(readHead, write)
  BY DEF Decide, IsEmpty, Goto, shared
<1>2. /\ UNCHANGED <<data, writeHead, count>> /\ pc'["writer"] = pc["writer"]
      /\ pc["reader"] \notin {"down", "read_head", "write_head"}
      /\ WriterAt' /\ SlotsHold'
  BY ReadingFrame
<1>3. pc'["reader"] = IF readHead = write THEN "idle" ELSE "take"
  BY <1>1 DEF ConcInv, Sides
<1>4. count \in Nat /\ last \in Nat
  BY ConcConstants DEF ConcInv, TypeOK
<1>5. Fresh'
  <2> SUFFICES ASSUME count' = 0 PROVE Fresh'
    BY DEF Fresh
  <2>1. count = 0 /\ readHead = Zero
    BY <1>2 DEF Undisturbed, Fresh, Sides
  <2>2. pc'["reader"] = "idle"
    BY <1>1, <1>3, <2>1, DigitsOfZero
  <2>3. QED
    BY <1>1, <1>2, <2>1, <2>2 DEF Undisturbed, Fresh, Sides, Storing
<1>6. ReaderAt'
  <2> SUFFICES ASSUME count' > 0 PROVE ReaderAt'
    BY DEF ReaderAt
  <2>1. count > 0 /\ last <= count /\ readHead = HeadAfter(last)
    BY <1>2 DEF Undisturbed, ReaderAt
  <2>2. readHead' = HeadAfter(last)' /\ last' <= count'
    BY <1>1, <1>2, <2>1 DEF HeadAfter
  <2>3. CASE readHead = write
    BY <1>3, <2>2, <2>3 DEF ReaderAt, Storing
  <2>4. CASE readHead # write
    <3>1. last # count /\ last < count
      BY <1>1, <1>4, <2>1, <2>4
    <3>2. last \div N \in Laps /\ count \div N \in Laps
      <4>1. HeadAfter(last).lap \in Laps /\ HeadAfter(count).lap \in Laps
        BY <1>1, <2>1 DEF ConcInv, TypeOK
      <4>2. QED
        BY <4>1 DEF HeadAfter
    <3>3. head' = HeadAfter(Larger(last, count - N))
      BY <1>1, <1>4, <2>1, <2>4, <3>1, <3>2, CatchUpHead
    <3>4. Wanted' - 1 = Larger(last, count - N)
      <4>1. Wanted' = Larger(last + 1, count - N + 1)
        BY <1>1 DEF Wanted, Larger
      <4>2. QED
        BY <1>4, <4>1, ConcConstants DEF Larger
    <3>5. head' = HeadAfter(Wanted - 1)'
      BY <3>3, <3>4 DEF HeadAfter
    <3>6. copy' = HeadAfter(seen)' /\ last' < seen' /\ seen' <= count'
      <4>1. copy' = HeadAfter(seen)'
        BY <1>1 DEF HeadAfter
      <4>2. last' < seen' /\ seen' <= count'
        BY <1>1, <1>2, <1>4, <3>1
      <4>3. QED
        BY <4>1, <4>2
    <3>7. pc'["reader"] = "take"
      BY <1>3, <2>4
    <3>8. QED
      BY <2>2, <3>5, <3>6, <3>7 DEF ReaderAt, Storing
  <2>5. QED
    BY <2>3, <2>4
<1>7. QED
  BY <1>2, <1>5, <1>6 DEF Undisturbed

\* The element taken is the one wanted: its slot holds that one or one a lap or
\* more later, and none so late was written when write_head was copied.
LEMMA TakeSlotRead ==
    ASSUME ConcInv, Undisturbed, TakeSlot, sound'
    PROVE  Undisturbed'
<1>1. /\ pc["reader"] = "take" /\ pc' = [pc EXCEPT !["reader"] = "store"]
      /\ value' = IF head.index < N THEN data[head.index] ELSE Stray
      /\ head' = AdvanceCopy /\ value' <= seen
      /\ UNCHANGED <<readHead, writeHead, count, last, seen, copy>>
  BY DEF TakeSlot, Goto, shared
<1>2. pc'["reader"] = "store" /\ pc'["writer"] = pc["writer"]
  BY <1>1 DEF ConcInv, Sides
<1>3. /\ count \in Nat /\ last \in Nat /\ seen \in Nat
      /\ data \in [0 .. N - 1 -> 0 .. MaxWrites] /\ copy.lap \in Laps
  BY ConcConstants DEF ConcInv, TypeOK
<1>4. count # 0 /\ count > 0
  BY <1>1, <1>3 DEF Undisturbed, Fresh
<1>5. /\ last < seen /\ seen <= count
      /\ copy = HeadAfter(seen) /\ head = HeadAfter(Wanted - 1)
      /\ readHead = HeadAfter(last) /\ last <= count
  BY <1>1, <1>4 DEF Undisturbed, ReaderAt, Storing
<1>6. /\ Wanted \in 1 .. count /\ Wanted - 1 \in Nat /\ Wanted - 1 + 1 = Wanted
      /\ Wanted \in Nat /\ Wanted <= seen /\ seen < Wanted + N
  BY <1>3, <1>5, ConcConstants DEF Wanted, Larger
<1>7. Wanted \div N < LapMod
  <2>1. Wanted \div N <= seen \div N
    BY <1>3, <1>6, LapsGrow
  <2>2. seen \div N \in Laps
    BY <1>3, <1>5 DEF HeadAfter
  <2>3. Wanted \div N \in Nat /\ seen \div N \in Nat
    BY <1>3, <1>6, Digits
  <2>4. QED
    BY <2>1, <2>2, <2>3, ConcConstants DEF Laps
<1>8. head.index < N /\ head' = HeadAfter(Wanted)
  <2>1. Advance(HeadAfter(Wanted - 1)) = HeadAfter(Wanted)
        /\ HeadAfter(Wanted - 1).index < N
    BY <1>6, <1>7, AdvanceHead
  <2>2. head.index < N
    BY <1>5, <2>1
  <2>3. ~(head.index > N)
    BY <2>2, ConcConstants DEF ConcInv, TypeOK
  <2>4. QED
    BY <1>1, <1>5, <2>1, <2>2, <2>3 DEF AdvanceCopy
<1>9. value' = Wanted
  <2> DEFINE slot == (Wanted - 1) % N
  <2>1. slot \in 0 .. N - 1 /\ head.index = slot
    BY <1>5, <1>6, Digits DEF HeadAfter
  <2>2. value' = data[slot] /\ data[slot] >= Wanted
    BY <1>1, <1>6, <1>8, <2>1 DEF Undisturbed, SlotsHold
  <2>3. data[slot] \in Nat
    <3> HIDE DEF slot
    <3>1. QED
      BY <1>3, <2>1, ConcConstants
  <2>4. value' \in Nat /\ value' >= Wanted /\ value' # 0 /\ value' - 1 \in Nat
    BY <1>6, <2>2, <2>3
  <2>5. (value' - 1) % N = slot
    <3>1. data[slot] # 0
      BY <2>2, <2>4
    <3>2. \A i \in 0 .. N - 1 : data[i] # 0 => (data[i] - 1) % N = i
      BY DEF Undisturbed, SlotsHold
    <3> HIDE DEF slot
    <3>3. QED
      BY <2>1, <2>2, <3>1, <3>2
  <2>6. 1 <= Wanted /\ Wanted <= value' /\ value' < Wanted + N
    BY <1>1, <1>3, <1>6, <2>4, ConcConstants
  <2>7. QED
    BY <1>6, <2>4, <2>5, <2>6, OneInASlot
<1>10. WriterAt' /\ SlotsHold'
  BY ReadingFrame DEF Reading
<1>11. Fresh'
  BY <1>1, <1>4 DEF Fresh
<1>12. ReaderAt'
  <2>1. value' = Wanted' /\ head' = HeadAfter(value)'
    BY <1>1, <1>8, <1>9 DEF Wanted, Larger, HeadAfter
  <2>2. /\ readHead' = HeadAfter(last)' /\ last' <= count'
        /\ last' < seen' /\ seen' <= count'
    BY <1>1, <1>5 DEF HeadAfter
  <2>3. QED
    BY <1>2, <2>1, <2>2 DEF ReaderAt, Storing
<1>13. QED
  BY <1>10, <1>11, <1>12 DEF Undisturbed

\* read_head is stored, in one access or in two.
LEMMA StoreRead ==
    ASSUME ConcInv, Undisturbed, StoreWide \/ StoreFirst \/ StoreSecond
    PROVE  Undisturbed'
<1>1. /\ UNCHANGED <<writeHead, count, seen, copy, head, value>>
      /\ pc["reader"] \in {"store"} \cup Storing
  BY DEF StoreWide, StoreFirst, StoreSecond, Goto, local, history, Storing
<1>2. /\ count \in Nat /\ last \in Nat /\ seen \in Nat
      /\ readHead \in [index : 0 .. N + 1, lap : Laps]
      /\ head \in [index : 0 .. N + 1, lap : Laps]
  BY ConcConstants DEF ConcInv, TypeOK
<1>3. count # 0 /\ count > 0
  BY <1>1, <1>2 DEF Undisturbed, Fresh
<1>4. /\ last < seen /\ seen <= count /\ value = Wanted /\ head = HeadAfter(value)
      /\ pc["reader"] = "store_lap" => readHead.index = head.index
      /\ pc["reader"] = "store_index" => readHead.lap = head.lap
  BY <1>1, <1>3 DEF Undisturbed, ReaderAt
<1>5. value <= count
  BY <1>2, <1>4, ConcConstants DEF Wanted, Larger
<1>6. WriterAt' /\ SlotsHold'
  BY ReadingFrame DEF Reading
<1>7. Fresh'
  BY <1>1, <1>3 DEF Fresh
<1>8. ReaderAt'
  <2>1. CASE StoreWide \/ StoreSecond
    <3>1. /\ last' = value /\ pc' = [pc EXCEPT !["reader"] = "idle"]
      BY <2>1 DEF StoreWide, StoreSecond, Goto
    <3>2. readHead' = head
      <4>1. CASE StoreWide
        BY <4>1 DEF StoreWide
      <4>2. CASE StoreSecond
        <5>1. \/ /\ readHead' = [readHead EXCEPT !.lap = head.lap]
                 /\ readHead.index = head.index
              \/ /\ readHead' = [readHead EXCEPT !.index = head.index]
                 /\ readHead.lap = head.lap
          BY <1>4, <4>2 DEF StoreSecond, Goto
        <5>2. QED
          BY <1>2, <5>1
      <4>3. QED
        BY <2>1, <4>1, <4>2
    <3>3. pc'["reader"] = "idle"
      BY <3>1 DEF ConcInv, Sides
    <3>4. readHead' = HeadAfter(last)' /\ last' <= count'
      BY <1>1, <1>4, <1>5, <3>1, <3>2 DEF HeadAfter
    <3>5. QED
      BY <3>3, <3>4 DEF ReaderAt, Storing
  <2>2. CASE StoreFirst
    <3>1. /\ last' = last
          /\ \/ /\ pc' = [pc EXCEPT !["reader"] = "store_lap"]
                /\ readHead' = [readHead EXCEPT !.index = head.index]
             \/ /\ pc' = [pc EXCEPT !["reader"] = "store_index"]
                /\ readHead' = [readHead EXCEPT !.lap = head.lap]
      BY <2>2 DEF StoreFirst, Goto, history
    <3>2. \/ pc'["reader"] = "store_lap" /\ readHead'.index = head'.index
          \/ pc'["reader"] = "store_index" /\ readHead'.lap = head'.lap
      BY <1>1, <1>2, <3>1 DEF ConcInv, Sides
    <3>3. /\ last' <= count' /\ last' < seen' /\ seen' <= count'
      BY <1>1, <1>2, <1>4, <3>1
    <3>4. value' = Wanted' /\ head' = HeadAfter(value)'
      BY <1>1, <1>4, <3>1 DEF Wanted, Larger, HeadAfter
    <3>5. QED
      BY <3>2, <3>3, <3>4 DEF ReaderAt, Storing
  <2>3. QED
    BY <2>1, <2>2
<1>9. QED
  BY <1>6, <1>7, <1>8 DEF Undisturbed

LEMMA ReadingRead ==
    ASSUME ConcInv, Undisturbed, Reading, sound'
    PROVE  Undisturbed'
<1>1. CASE CopyIndex \/ CopyLap
  BY <1>1, CopyRead
<1>2. CASE CopyWide \/ CopySecond
  <2>1. /\ writeHead \in [index : 0 .. N, lap : Laps]
        /\ [copy EXCEPT !.lap = writeHead.lap] \in [index : 0 .. N, lap : Laps]
        /\ [copy EXCEPT !.index = writeHead.index] \in [index : 0 .. N, lap : Laps]
    BY DEF ConcInv, TypeOK
  <2>2. PICK from \in {"idle", "copy_lap", "copy_index"},
             write \in [index : 0 .. N, lap : Laps] : Decide(from, write)
    BY <1>2, <2>1 DEF CopyWide, CopySecond
  <2>3. pc["reader"] \notin {"take", "store"} \cup Storing
    BY <2>2 DEF Decide, Goto, Storing
  <2>4. QED
    BY <2>2, <2>3, DecideRead
<1>3. CASE TakeSlot
  BY <1>3, TakeSlotRead
<1>4. CASE StoreWide \/ StoreFirst \/ StoreSecond
  BY <1>4, StoreRead
<1>5. QED
  BY <1>1, <1>2, <1>3, <1>4 DEF Reading

-------------------------------------------------------------------------------

\* An access that was disturbed stays so.
LEMMA SoundBefore ==
    ASSUME ConcInv, Next, sound'
    PROVE  sound
<1> USE DEF history
<1>1. CASE \E s \in Sides : Construct(s) \/ Initializing(s) \/ Crash(s)
  BY <1>1 DEF Construct, Initializing, InitReadHead, InitWriteHead, InitKey, InitCrc, Crash
<1>2. CASE WriteSlot \/ Advancing
  BY <1>2 DEF WriteSlot, Advancing, AdvanceIndex, ResetIndex, AdvanceLap
<1>3. CASE Reading
  <2>1. CASE CopyIndex \/ CopyLap \/ TakeSlot
    BY <2>1 DEF CopyIndex, CopyLap, TakeSlot
  <2>2. CASE CopyWide \/ CopySecond
    BY <2>2 DEF CopyWide, CopySecond, Decide
  <2>3. CASE StoreWide \/ StoreFirst \/ StoreSecond
    BY <2>3 DEF StoreWide, StoreFirst, StoreSecond
  <2>4. QED
    BY <1>3, <2>1, <2>2, <2>3 DEF Reading
<1>4. QED
  BY <1>1, <1>2, <1>3 DEF Next

LEMMA ReadStep == ReadInv /\ [Next]_vars => ReadInv'
<1> SUFFICES ASSUME ReadInv, [Next]_vars PROVE ReadInv'
  OBVIOUS
<1>1. ConcInv /\ ConcInv'
  BY ConcStep DEF ReadInv
<1>2. ASSUME sound' PROVE Undisturbed'
  <2>1. CASE UNCHANGED vars
    <3>1. Undisturbed
      BY <1>2, <2>1 DEF ReadInv, vars, history
    <3>2. Fresh' /\ WriterAt' /\ SlotsHold'
      BY <2>1, <3>1 DEF Undisturbed, Fresh, WriterAt, SlotsHold, vars, shared, local, history
    <3>3. ReaderAt'
      BY <2>1, <3>1 DEF Undisturbed, ReaderAt, Wanted, HeadAfter, Larger,
                            vars, shared, local, history
    <3>4. QED
      BY <3>2, <3>3 DEF Undisturbed
  <2>2. CASE Next
    <3>1. Undisturbed
      BY <1>1, <1>2, <2>2, SoundBefore DEF ReadInv
    <3>2. QED
      BY <1>1, <1>2, <2>2, <3>1, ConstructRead, InitializingRead, CrashRead,
         WriteSlotRead, AdvancingRead, ReadingRead DEF Next
  <2>3. QED
    BY <2>1, <2>2
<1>3. QED
  BY <1>1, <1>2 DEF ReadInv

LEMMA ReadInvariant == Spec => []ReadInv
<1>1. Spec => Init /\ [][Next]_vars
  BY DEF Spec
<1>2. QED
  BY <1>1, ReadInit, ReadStep, PTL

\* Whatever the capacity and the interleaving, and wherever a process ends, as
\* long as no access is disturbed do_read takes the next element, or the oldest
\* that is left, and leaves read_head there (Circular.h:151-176).
THEOREM ReadExactly == Spec => []ReadsExact
<1>1. ReadInv => ReadsExact
  <2> SUFFICES ASSUME ReadInv, sound
      PROVE  /\ pc["reader"] \in {"store", "store_lap", "store_index"}
                   => value = Larger(last + 1, seen - N + 1)
             /\ count > 0 /\ pc["reader"] \notin {"store_lap", "store_index"}
                   => readHead = HeadAfter(last)
    BY DEF ReadsExact
  <2>1. Fresh /\ ReaderAt /\ count \in Nat
    BY ConcConstants DEF ReadInv, Undisturbed, ConcInv, TypeOK
  <2>2. pc["reader"] \in {"store", "store_lap", "store_index"} => count > 0
    BY <2>1 DEF Fresh, Storing
  <2>3. QED
    BY <2>1, <2>2 DEF ReaderAt, Storing, Wanted
<1>2. QED
  BY <1>1, ReadInvariant, PTL

\* The end of a read, in one store or in two.
LEMMA LastKinds ==
    ASSUME [Next]_vars, last' # last
    PROVE  StoreWide \/ StoreSecond
<1> USE DEF history
<1>1. CASE \E s \in Sides : Construct(s) \/ Initializing(s) \/ Crash(s)
  BY <1>1 DEF Construct, Initializing, InitReadHead, InitWriteHead, InitKey, InitCrc, Crash
<1>2. CASE WriteSlot \/ Advancing
  BY <1>2 DEF WriteSlot, Advancing, AdvanceIndex, ResetIndex, AdvanceLap
<1>3. CASE Reading
  BY <1>3 DEF Reading, CopyIndex, CopyLap, CopyWide, CopySecond, Decide, TakeSlot,
              StoreFirst
<1>4. CASE UNCHANGED vars
  BY <1>4 DEF vars
<1>5. QED
  BY <1>1, <1>2, <1>3, <1>4 DEF Next

\* What the reader takes comes after the last it has read, and what lies between
\* them is at least one lap behind the write head.
LEMMA InOrderStep ==
    ASSUME ReadInv, [Next]_vars, sound', last' # last
    PROVE  /\ last < last' /\ last' <= count
           /\ \A k \in last + 1 .. last' - 1 : data[(k - 1) % N] # k
<1>1. StoreWide \/ StoreSecond
  BY LastKinds
<1>2. /\ pc["reader"] \in {"store"} \cup Storing
      /\ sound /\ last' = value
  BY <1>1 DEF StoreWide, StoreSecond, Goto, Storing
<1>3. /\ count \in Nat /\ last \in Nat /\ seen \in Nat /\ value \in Nat
      /\ N \in Nat /\ N >= 1
      /\ \A i \in 0 .. N - 1 : data[i] \in Nat
  BY <1>2, ConcConstants DEF ReadInv, ConcInv, TypeOK
<1>4. count > 0
  BY <1>2, <1>3 DEF ReadInv, Undisturbed, Fresh
<1>5. /\ value = Larger(last + 1, seen - N + 1)
      /\ last < seen /\ seen <= count
  BY <1>2, <1>4 DEF ReadInv, Undisturbed, ReaderAt, Wanted
<1>6. last < last' /\ last' <= count
  BY <1>2, <1>3, <1>5 DEF Larger
<1>7. ASSUME NEW k \in last + 1 .. last' - 1
      PROVE  data[(k - 1) % N] # k
  <2>1. k \in Nat /\ k >= 1 /\ k < value
    BY <1>2, <1>3
  <2>2. k + N <= seen /\ k + N \in 1 .. count
    BY <1>3, <1>5, <2>1 DEF Larger
  <2>3. data[((k + N) - 1) % N] >= k + N
    <3>1. \A j \in 1 .. count : data[(j - 1) % N] >= j
      BY <1>2 DEF ReadInv, Undisturbed, SlotsHold
    <3>2. QED
      BY <2>2, <3>1
  <2>4. ((k + N) - 1) % N = (k - 1) % N
    <3> DEFINE q == (k - 1) \div N
               r == (k - 1) % N
    <3>1. k - 1 \in Nat /\ (k + N) - 1 \in Nat
      BY <1>3, <2>1
    <3>2. q \in Int /\ r \in 0 .. N - 1 /\ r = (k - 1) - N * q
      BY <3>1, Digits
    <3> HIDE DEF q, r
    <3>3. N * q \in Int /\ N * (q + 1) = N * q + N
      BY <3>2, Multiples
    <3>4. (k + N) - 1 = N * (q + 1) + r /\ q + 1 \in Int
      BY <1>3, <2>1, <3>2, <3>3
    <3>5. ((k + N) - 1) % N = r
      BY <3>1, <3>2, <3>4, DigitsUnique
    <3>6. QED
      BY <3>5 DEF r
  <2>5. QED
    BY <1>3, <2>1, <2>3, <2>4
<1>8. QED
  BY <1>6, <1>7

\* Whatever the capacity and the interleaving, and wherever a process ends, as
\* long as no access is disturbed the reader gets each element at most once, in
\* order and after its write, and misses none that is still in the buffer
\* (Circular.h:61-64).
THEOREM ReadInOrder == Spec => SoundReadsInOrder
<1> DEFINE Step ==
      sound' => /\ last < last' /\ last' <= count
                /\ \A k \in last + 1 .. last' - 1 : data[(k - 1) % N] # k
<1>1. ReadInv /\ [Next]_vars => [Step]_last
  BY InOrderStep
<1> HIDE DEF Step
<1>2. Spec => [][Next]_vars
  BY DEF Spec
<1>3. Spec => [][Step]_last
  BY <1>1, <1>2, ReadInvariant, PTL
<1>4. QED
  BY <1>3 DEF SoundReadsInOrder, Step
===============================================================================
