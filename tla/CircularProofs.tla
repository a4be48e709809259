----------------------------- MODULE CircularProofs -----------------------------
(***************************************************************************)
(* Proofs about Circular for any capacity N >= 2 and any width of the lap  *)
(* counter (LapMod >= 2, 2^32 in the code): the heads stay in order, and   *)
(* the buffer implements LossyQueue.                                       *)
(***************************************************************************)
EXTENDS Circular, SequenceTheorems, TLAPS

\* The arithmetic of the lap counter.
LEMMA LapArithmetic ==
    ASSUME NEW r \in Heads, NEW w \in Heads
    PROVE  /\ LapsBehind(r, w) \in 0 .. LapMod - 1
           /\ LapsBehind(r, w) = 0 <=> r.lap = w.lap
           /\ Advance(w) \in Heads
           /\ Advance(w).lap = w.lap
                 => LapsBehind(r, Advance(w)) = LapsBehind(r, w)
           /\ Advance(w).lap # w.lap
                 => LapsBehind(r, Advance(w))
                       = IF LapsBehind(r, w) = LapMod - 1 THEN 0
                         ELSE LapsBehind(r, w) + 1
           /\ Advance(r).lap = r.lap
                 => LapsBehind(Advance(r), w) = LapsBehind(r, w)
           /\ Advance(r).lap # r.lap /\ LapsBehind(r, w) # 0
                 => LapsBehind(Advance(r), w) = LapsBehind(r, w) - 1
<1> USE CircularAssumption DEF Heads, Advance, LapsBehind, LapAfter
<1>1. /\ LapsBehind(r, w) \in 0 .. LapMod - 1
      /\ LapsBehind(r, w) = 0 <=> r.lap = w.lap
      /\ Advance(w) \in Heads
  OBVIOUS
<1>2. /\ Advance(w).lap = w.lap
            => LapsBehind(r, Advance(w)) = LapsBehind(r, w)
      /\ Advance(w).lap # w.lap
            => LapsBehind(r, Advance(w))
                  = IF LapsBehind(r, w) = LapMod - 1 THEN 0
                    ELSE LapsBehind(r, w) + 1
  OBVIOUS
<1>3. /\ Advance(r).lap = r.lap
            => LapsBehind(Advance(r), w) = LapsBehind(r, w)
      /\ Advance(r).lap # r.lap /\ LapsBehind(r, w) # 0
            => LapsBehind(Advance(r), w) = LapsBehind(r, w) - 1
  OBVIOUS
<1>4. QED
  BY <1>1, <1>2, <1>3

\* Where advance() leads.
LEMMA AdvanceIndex ==
    ASSUME NEW h \in Heads
    PROVE  /\ Advance(h) \in Heads
           /\ h.index = N - 1 => /\ Advance(h).index = 0
                                 /\ Advance(h).lap # h.lap
           /\ h.index # N - 1 => /\ Advance(h).index = h.index + 1
                                 /\ Advance(h).lap = h.lap
BY CircularAssumption DEF Heads, Advance, LapAfter

\* The reader that catches up is on the lap of the writer or one behind, and
\* not past it.
LEMMA CatchUpHead ==
    ASSUME NEW r \in Heads, NEW w \in Heads, r # w,
           LapsBehind(r, w) = 0 => r.index <= w.index
    PROVE  /\ CatchUp(r, w) \in Heads
           /\ \/ /\ LapsBehind(r, w) = 0
                 /\ CatchUp(r, w) = r
                 /\ r.index < w.index
              \/ /\ LapsBehind(r, w) = 1
                 /\ w.index <= r.index
                 /\ CatchUp(r, w) = r
              \/ /\ LapsBehind(r, w) = 1 => w.index > r.index
                 /\ LapsBehind(r, w) # 0
                 /\ LapsBehind(CatchUp(r, w), w) = 1
                 /\ CatchUp(r, w).index = w.index
<1>1. LapsBehind(r, w) \in 0 .. LapMod - 1
  BY LapArithmetic
<1>2. CASE LapsBehind(r, w) = 0
  BY <1>2, CircularAssumption DEF CatchUp, Heads, LapsBehind
<1>3. CASE LapsBehind(r, w) = 1
  BY <1>3, CircularAssumption DEF CatchUp, Heads, LapsBehind
<1>4. CASE LapsBehind(r, w) \notin {0, 1}
  <2>1. CatchUp(r, w) = [index |-> w.index, lap |-> LapBefore(w.lap)]
    BY <1>4 DEF CatchUp
  <2>2. QED
    BY <1>1, <1>4, <2>1, CircularAssumption DEF Heads, LapsBehind, LapBefore
<1>5. QED
  BY <1>2, <1>3, <1>4

\* How a write changes what is pending, and where its slots are.
LEMMA WriteWindow ==
    ASSUME NEW r \in Heads, NEW w \in Heads,
           LapsBehind(r, w) = 0 => r.index <= w.index,
           Advance(w).index = 0 => LapsBehind(r, Advance(w)) # 0
    PROVE  /\ Unread(r, w) \in 0 .. N
           /\ Unread(r, Advance(w))
                 = IF Unread(r, w) < N THEN Unread(r, w) + 1 ELSE N
           /\ LapsBehind(r, Advance(w)) = 0 => r.index <= Advance(w).index
<1>1. LapsBehind(r, w) \in 0 .. LapMod - 1
  BY LapArithmetic
<1>2. CASE w.index = N - 1
  <2>1. /\ Advance(w).index = 0
        /\ Advance(w).lap # w.lap
    BY <1>2, AdvanceIndex
  <2>2. /\ LapsBehind(r, Advance(w)) = LapsBehind(r, w) + 1
        /\ LapsBehind(r, Advance(w)) \in 1 .. LapMod - 1
    BY <2>1, <1>1, LapArithmetic, CircularAssumption
  <2>3. QED
    BY <1>1, <1>2, <2>1, <2>2, CircularAssumption DEF Unread, Heads
<1>3. CASE w.index # N - 1
  <2>1. /\ Advance(w).index = w.index + 1
        /\ Advance(w).lap = w.lap
        /\ LapsBehind(r, Advance(w)) = LapsBehind(r, w)
    BY <1>3, AdvanceIndex, LapArithmetic
  <2>2. QED
    BY <1>1, <1>3, <2>1, CircularAssumption DEF Unread, Heads
<1>4. QED
  BY <1>2, <1>3

\* How a read changes what is pending, and which slot it takes.
LEMMA ReadWindow ==
    ASSUME NEW r \in Heads, NEW w \in Heads, r # w,
           LapsBehind(r, w) = 0 => r.index <= w.index
    PROVE  LET c == CatchUp(r, w)
           IN  /\ Unread(r, w) \in 1 .. N
               /\ c \in Heads
               /\ c.index = SlotBefore(w.index, Unread(r, w))
               /\ Advance(c) \in Heads
               /\ Unread(Advance(c), w) = Unread(r, w) - 1
               /\ LapsBehind(Advance(c), w) = 0 => Advance(c).index <= w.index
<1> DEFINE c == CatchUp(r, w)
<1>1. c \in Heads
  BY CatchUpHead
<1>2. /\ LapsBehind(r, w) \in 0 .. LapMod - 1
      /\ LapsBehind(c, w) \in 0 .. LapMod - 1
  BY <1>1, LapArithmetic
<1>3. /\ Advance(c) \in Heads
      /\ c.index = N - 1 => /\ Advance(c).index = 0
                            /\ Advance(c).lap # c.lap
      /\ c.index # N - 1 => /\ Advance(c).index = c.index + 1
                            /\ Advance(c).lap = c.lap
      /\ c.index = N - 1 /\ LapsBehind(c, w) # 0
            => LapsBehind(Advance(c), w) = LapsBehind(c, w) - 1
      /\ c.index # N - 1 => LapsBehind(Advance(c), w) = LapsBehind(c, w)
  BY <1>1, AdvanceIndex, LapArithmetic
<1> HIDE DEF c
<1>4. /\ w.index \in 0 .. N - 1 /\ r.index \in 0 .. N - 1 /\ c.index \in 0 .. N - 1
  BY <1>1 DEF Heads
<1>5. CASE LapsBehind(r, w) = 0 /\ c = r /\ r.index < w.index
  <2>1. Unread(r, w) = w.index - r.index
    BY <1>5 DEF Unread
  <2>2. /\ LapsBehind(Advance(c), w) = 0
        /\ Advance(c).index = r.index + 1
    BY <1>3, <1>4, <1>5, CircularAssumption
  <2>3. Unread(Advance(c), w) = w.index - (r.index + 1)
    BY <2>2 DEF Unread
  <2>4. c.index = SlotBefore(w.index, Unread(r, w))
    BY <2>1, <1>4, <1>5, CircularAssumption DEF SlotBefore
  <2>5. QED
    BY <2>1, <2>2, <2>3, <2>4, <1>1, <1>3, <1>4, <1>5, CircularAssumption DEF c
<1>6. CASE LapsBehind(r, w) = 1 /\ w.index <= r.index /\ c = r
  <2>1. Unread(r, w) = N + w.index - r.index
    BY <1>6 DEF Unread
  <2>2. c.index = SlotBefore(w.index, Unread(r, w))
    BY <2>1, <1>4, <1>6, CircularAssumption DEF SlotBefore
  <2>3. Unread(Advance(c), w) = Unread(r, w) - 1
    BY <2>1, <1>3, <1>4, <1>6, CircularAssumption DEF Unread
  <2>4. LapsBehind(Advance(c), w) = 0 => Advance(c).index <= w.index
    BY <1>3, <1>4, <1>6, CircularAssumption
  <2>5. QED
    BY <2>1, <2>2, <2>3, <2>4, <1>1, <1>3, <1>4, <1>6, CircularAssumption DEF c
<1>7. CASE /\ LapsBehind(r, w) = 1 => w.index > r.index
           /\ LapsBehind(r, w) # 0
           /\ LapsBehind(c, w) = 1
           /\ c.index = w.index
  <2>1. Unread(r, w) = N
    BY <1>2, <1>4, <1>7, CircularAssumption DEF Unread
  <2>2. c.index = SlotBefore(w.index, Unread(r, w))
    BY <2>1, <1>4, <1>7, CircularAssumption DEF SlotBefore
  <2>3. Unread(Advance(c), w) = N - 1
    BY <1>3, <1>4, <1>7, CircularAssumption DEF Unread
  <2>4. LapsBehind(Advance(c), w) = 0 => Advance(c).index <= w.index
    BY <1>3, <1>4, <1>7, CircularAssumption
  <2>5. QED
    BY <2>1, <2>2, <2>3, <2>4, <1>1, <1>3, <1>4, <1>7, CircularAssumption DEF c
<1>8. QED
  BY <1>5, <1>6, <1>7, CatchUpHead DEF c

-------------------------------------------------------------------------------
(* The windows as sequences *)

LEMMA WindowIsSequence ==
    ASSUME NEW d \in [0 .. N - 1 -> Values], NEW i \in 0 .. N - 1, NEW n \in 0 .. N
    PROVE  /\ \A k \in 1 .. n : SlotBefore(i, k) \in 0 .. N - 1
           /\ LastWritten(d, i, n) \in Seq(Values)
           /\ Len(LastWritten(d, i, n)) = n
           /\ \A k \in 1 .. n :
                 LastWritten(d, i, n)[k] = d[SlotBefore(i, n + 1 - k)]
<1>1. \A k \in 1 .. n : SlotBefore(i, k) \in 0 .. N - 1
  BY CircularAssumption DEF SlotBefore
<1>2. \A k \in 1 .. n : d[SlotBefore(i, n + 1 - k)] \in Values
  <2>1. \A k \in 1 .. n : n + 1 - k \in 1 .. n
    BY CircularAssumption
  <2>2. QED
    BY <1>1, <2>1
<1>3. LastWritten(d, i, n) \in [1 .. n -> Values]
  BY <1>2 DEF LastWritten
<1>4. n \in Nat
  BY CircularAssumption
<1>5. QED
  BY <1>1, <1>3, <1>4 DEF LastWritten

\* Writing a slot and advancing appends the element to the window.
LEMMA PutWindow ==
    ASSUME NEW d \in [0 .. N - 1 -> Values], NEW w \in Heads, NEW v \in Values,
           NEW n \in 0 .. N
    PROVE  LET q == LastWritten(d, w.index, n)
               m == IF n < N THEN n + 1 ELSE N
           IN  LastWritten([d EXCEPT ![w.index] = v], Advance(w).index, m)
                  = IF Len(q) < N THEN Append(q, v) ELSE Append(Tail(q), v)
<1> DEFINE q == LastWritten(d, w.index, n)
           m == IF n < N THEN n + 1 ELSE N
           d2 == [d EXCEPT ![w.index] = v]
           j == Advance(w).index
           p == LastWritten(d2, j, m)
           t == IF Len(q) < N THEN Append(q, v) ELSE Append(Tail(q), v)
<1>1. /\ w.index \in 0 .. N - 1
      /\ j \in 0 .. N - 1
      /\ j = IF w.index = N - 1 THEN 0 ELSE w.index + 1
  BY AdvanceIndex DEF Heads
<1>2. /\ m \in 1 .. N
      /\ d2 \in [0 .. N - 1 -> Values]
      /\ d2[w.index] = v
      /\ \A i \in 0 .. N - 1 : i # w.index => d2[i] = d[i]
  BY <1>1, CircularAssumption
<1> HIDE DEF d2, j, m
<1>3. /\ q \in Seq(Values)
      /\ Len(q) = n
      /\ \A k \in 1 .. n : q[k] = d[SlotBefore(w.index, n + 1 - k)]
  BY <1>1, WindowIsSequence
<1>4. /\ p \in Seq(Values)
      /\ Len(p) = m
      /\ \A k \in 1 .. m : p[k] = d2[SlotBefore(j, m + 1 - k)]
  <2>1. m \in 0 .. N
    BY <1>2, CircularAssumption
  <2>2. QED
    BY <2>1, <1>1, <1>2, WindowIsSequence
<1>5. /\ SlotBefore(j, 1) = w.index
      /\ \A k \in 1 .. N - 1 : /\ SlotBefore(j, k + 1) = SlotBefore(w.index, k)
                              /\ SlotBefore(w.index, k) # w.index
                              /\ SlotBefore(w.index, k) \in 0 .. N - 1
  BY <1>1, CircularAssumption DEF SlotBefore
<1>6. p[m] = v
  <2>1. m \in 1 .. m /\ m + 1 - m = 1
    BY <1>2, CircularAssumption
  <2>2. p[m] = d2[SlotBefore(j, m + 1 - m)]
    BY <2>1, <1>4
  <2>3. QED
    BY <2>1, <2>2, <1>2, <1>5
<1>7. \A k \in 1 .. m - 1 : p[k] = d[SlotBefore(w.index, m - k)]
  <2>1. TAKE k \in 1 .. m - 1
  <2>2. /\ k \in 1 .. m
        /\ m - k \in 1 .. N - 1
        /\ m + 1 - k = (m - k) + 1
    BY <2>1, <1>2, CircularAssumption
  <2>3. p[k] = d2[SlotBefore(j, m + 1 - k)]
    BY <2>2, <1>4
  <2>4. SlotBefore(j, (m - k) + 1) = SlotBefore(w.index, m - k)
    BY <2>2, <1>5
  <2>5. d2[SlotBefore(w.index, m - k)] = d[SlotBefore(w.index, m - k)]
    BY <2>2, <1>5, <1>2
  <2>6. QED
    BY <2>2, <2>3, <2>4, <2>5
<1>8. CASE n < N
  <2>1. m = n + 1
    BY <1>8, CircularAssumption DEF m
  <2>2. /\ t = Append(q, v)
        /\ Append(q, v) \in Seq(Values)
        /\ Len(Append(q, v)) = m
        /\ Append(q, v)[m] = v
        /\ \A k \in 1 .. n : Append(q, v)[k] = q[k]
    BY <2>1, <1>3, <1>8, AppendProperties
  <2>3. \A k \in 1 .. m : p[k] = Append(q, v)[k]
    <3>1. TAKE k \in 1 .. m
    <3>2. CASE k = m
      BY <3>2, <2>2, <1>6
    <3>3. CASE k # m
      <4>1. k \in 1 .. n /\ k \in 1 .. m - 1 /\ m - k = n + 1 - k
        BY <3>1, <3>3, <2>1, CircularAssumption
      <4>2. QED
        BY <4>1, <2>2, <1>3, <1>7
    <3>4. QED
      BY <3>2, <3>3
  <2>4. p = Append(q, v)
    BY <2>2, <2>3, <1>4, SeqEqual
  <2>5. QED
    BY <2>2, <2>4 DEF m, d2, j
<1>9. CASE n = N
  <2>1. m = N
    BY <1>9, CircularAssumption DEF m
  <2>2. q # <<>>
    BY <1>3, <1>9, CircularAssumption
  <2>3. /\ Tail(q) \in Seq(Values)
        /\ Len(Tail(q)) = N - 1
        /\ \A k \in 1 .. N - 1 : Tail(q)[k] = q[k + 1]
    BY <2>2, <1>3, <1>9, HeadTailProperties
  <2>4. /\ t = Append(Tail(q), v)
        /\ Append(Tail(q), v) \in Seq(Values)
        /\ Len(Append(Tail(q), v)) = N
        /\ Append(Tail(q), v)[N] = v
        /\ \A k \in 1 .. N - 1 : Append(Tail(q), v)[k] = Tail(q)[k]
    <3>1. Len(Tail(q)) + 1 = N
      BY <2>3, CircularAssumption
    <3>2. ~(Len(q) < N)
      BY <1>3, <1>9, CircularAssumption
    <3>3. QED
      BY <3>1, <3>2, <2>3, AppendProperties
  <2>5. \A k \in 1 .. m : p[k] = Append(Tail(q), v)[k]
    <3>1. TAKE k \in 1 .. m
    <3>2. CASE k = N
      BY <3>2, <2>1, <2>4, <1>6
    <3>3. CASE k # N
      <4>1. k \in 1 .. N - 1 /\ k + 1 \in 1 .. n /\ m - k = n + 1 - (k + 1)
            /\ k \in 1 .. m - 1
        BY <3>1, <3>3, <2>1, <1>9, CircularAssumption
      <4>2. Append(Tail(q), v)[k] = q[k + 1]
        BY <4>1, <2>3, <2>4
      <4>3. q[k + 1] = d[SlotBefore(w.index, n + 1 - (k + 1))]
        BY <4>1, <1>3
      <4>4. QED
        BY <4>1, <4>2, <4>3, <1>7
    <3>4. QED
      BY <3>2, <3>3
  <2>6. p = Append(Tail(q), v)
    BY <2>1, <2>4, <2>5, <1>4, SeqEqual
  <2>7. QED
    BY <2>4, <2>6 DEF m, d2, j
<1>10. n < N \/ n = N
  BY CircularAssumption
<1>11. QED
  BY <1>8, <1>9, <1>10

\* The window that is one shorter is the tail, and its slot was the head.
LEMMA GetWindow ==
    ASSUME NEW d \in [0 .. N - 1 -> Values], NEW i \in 0 .. N - 1, NEW n \in 1 .. N
    PROVE  LET q == LastWritten(d, i, n)
           IN  /\ q # <<>>
               /\ Head(q) = d[SlotBefore(i, n)]
               /\ LastWritten(d, i, n - 1) = Tail(q)
<1> DEFINE q == LastWritten(d, i, n)
           p == LastWritten(d, i, n - 1)
<1>1. n \in 0 .. N /\ n - 1 \in 0 .. N /\ 1 \in 1 .. n /\ n + 1 - 1 = n
  BY CircularAssumption
<1>2. /\ q \in Seq(Values)
      /\ Len(q) = n
      /\ \A k \in 1 .. n : q[k] = d[SlotBefore(i, n + 1 - k)]
  BY <1>1, WindowIsSequence
<1>3. /\ p \in Seq(Values)
      /\ Len(p) = n - 1
      /\ \A k \in 1 .. n - 1 : p[k] = d[SlotBefore(i, (n - 1) + 1 - k)]
  BY <1>1, WindowIsSequence
<1>4. q # <<>>
  BY <1>1, <1>2, CircularAssumption
<1>5. /\ Head(q) = q[1]
      /\ Tail(q) \in Seq(Values)
      /\ Len(Tail(q)) = n - 1
      /\ \A k \in 1 .. n - 1 : Tail(q)[k] = q[k + 1]
  BY <1>2, <1>4, HeadTailProperties
<1>6. q[1] = d[SlotBefore(i, n)]
  BY <1>1, <1>2
<1>7. \A k \in 1 .. n - 1 : p[k] = Tail(q)[k]
  <2>1. TAKE k \in 1 .. n - 1
  <2>2. k + 1 \in 1 .. n /\ n + 1 - (k + 1) = (n - 1) + 1 - k
    BY <2>1, CircularAssumption
  <2>3. QED
    BY <2>1, <2>2, <1>2, <1>3, <1>5
<1>8. p = Tail(q)
  BY <1>3, <1>5, <1>7, SeqEqual
<1>9. QED
  BY <1>4, <1>5, <1>6, <1>8

-------------------------------------------------------------------------------
(* The invariant *)

CircularInv == TypeOK /\ HeadsInOrder

LEMMA ZeroIsOrdered ==
    /\ Zero \in Heads
    /\ LapsBehind(Zero, Zero) = 0
    /\ Unread(Zero, Zero) = 0
BY CircularAssumption DEF Zero, Heads, LapsBehind, Unread

LEMMA OpenKeepsInv ==
    ASSUME CircularInv, NEW s \in Sides, Open(s)
    PROVE  CircularInv'
<1>1. opened' \in SUBSET Sides /\ result' \in Values \cup {Nothing}
  BY DEF CircularInv, TypeOK, Open
<1>2. CASE IsInitialized
  <2>1. stamped /\ UNCHANGED memory
    BY <1>2 DEF Open, IsInitialized
  <2>2. QED
    BY <1>1, <2>1 DEF CircularInv, TypeOK, HeadsInOrder, memory
<1>3. CASE ~IsInitialized
  <2>1. Initialize
    BY <1>3 DEF Open
  <2>2. Zero \in [index : 0 .. N, lap : 0 .. LapMod - 1]
    BY CircularAssumption DEF Zero
  <2>3. TypeOK'
    BY <1>1, <2>1, <2>2 DEF Initialize, CircularInv, TypeOK
  <2>4. HeadsInOrder'
    BY <2>1, ZeroIsOrdered DEF Initialize, HeadsInOrder, Zero
  <2>5. QED
    BY <2>3, <2>4 DEF CircularInv
<1>4. QED
  BY <1>2, <1>3

LEMMA WriteKeepsInv ==
    ASSUME CircularInv, NEW v \in Values, Write(v)
    PROVE  CircularInv'
<1>1. /\ stamped
      /\ writeHead \in Heads /\ readHead \in Heads
      /\ LapsBehind(readHead, writeHead) = 0 => readHead.index <= writeHead.index
      /\ Advance(writeHead).index = 0 => LapsBehind(readHead, Advance(writeHead)) # 0
  BY DEF CircularInv, HeadsInOrder, Write, LapBound
<1>2. /\ Advance(writeHead) \in Heads
      /\ LapsBehind(readHead, Advance(writeHead)) = 0
            => readHead.index <= Advance(writeHead).index
  BY <1>1, AdvanceIndex, WriteWindow
<1>3. data' \in [0 .. N - 1 -> Values]
  BY DEF CircularInv, TypeOK, Write
<1>4. Advance(writeHead) \in [index : 0 .. N, lap : 0 .. LapMod - 1]
  BY <1>2, CircularAssumption DEF Heads
<1>5. QED
  BY <1>1, <1>2, <1>3, <1>4 DEF CircularInv, TypeOK, HeadsInOrder, Write

LEMMA ReadKeepsInv ==
    ASSUME CircularInv, Read
    PROVE  CircularInv'
<1> DEFINE c == CatchUp(readHead, writeHead)
<1>1. /\ stamped
      /\ writeHead \in Heads /\ readHead \in Heads
      /\ readHead # writeHead
      /\ LapsBehind(readHead, writeHead) = 0 => readHead.index <= writeHead.index
  BY DEF CircularInv, HeadsInOrder, Read
<1>2. /\ c \in Heads
      /\ Advance(c) \in Heads
      /\ LapsBehind(Advance(c), writeHead) = 0
            => Advance(c).index <= writeHead.index
  BY <1>1, ReadWindow
<1>3. readHead' = Advance(c) /\ result' = data[c.index]
  BY DEF Read
<1> HIDE DEF c
<1>4. result' \in Values
  BY <1>2, <1>3 DEF CircularInv, TypeOK, Heads
<1>5. readHead' \in [index : 0 .. N, lap : 0 .. LapMod - 1]
  BY <1>2, <1>3, CircularAssumption DEF Heads
<1>6. QED
  BY <1>1, <1>2, <1>3, <1>4, <1>5 DEF CircularInv, TypeOK, HeadsInOrder, Read

LEMMA InvStep == CircularInv /\ [Next]_vars => CircularInv'
<1> SUFFICES ASSUME CircularInv, [Next]_vars
             PROVE  CircularInv'
  OBVIOUS
<1>1. CASE \E s \in Sides : Open(s)
  BY <1>1, OpenKeepsInv
<1>2. CASE \E s \in Sides : Close(s)
  BY <1>2 DEF Close, CircularInv, TypeOK, HeadsInOrder, memory
<1>3. CASE \E v \in Values : Write(v)
  BY <1>3, WriteKeepsInv
<1>4. CASE ReadNothing
  BY <1>4 DEF ReadNothing, CircularInv, TypeOK, HeadsInOrder, memory
<1>5. CASE Read
  BY <1>5, ReadKeepsInv
<1>6. CASE UNCHANGED vars
  BY <1>6 DEF CircularInv, TypeOK, HeadsInOrder, vars
<1>7. QED
  BY <1>1, <1>2, <1>3, <1>4, <1>5, <1>6 DEF Next

\* The memory keeps its types, and once it is stamped both heads designate
\* slots and the reader is not ahead of the writer (Circular.h:191-194).
THEOREM CircularHeadsInOrder == Spec => [](TypeOK /\ HeadsInOrder)
<1>1. Init => CircularInv
  BY DEF Init, CircularInv, TypeOK, HeadsInOrder
<1>2. QED
  BY <1>1, InvStep, PTL DEF Spec, CircularInv

\* The slots hold elements, a head its index and a lap of the width of the counter,
\* whatever the memory held before it was stamped (Circular.h:108-113).
THEOREM CircularTypes == Spec => []TypeOK
<1>1. TypeOK /\ HeadsInOrder => TypeOK
  OBVIOUS
<1>2. QED
  BY <1>1, CircularHeadsInOrder, PTL

-------------------------------------------------------------------------------
(* The refinement *)

LEMMA OpenPromise ==
    ASSUME CircularInv, NEW s \in Sides, Open(s)
    PROVE  [Promise!Next]_(Promise!queueVars)
<1>1. CASE IsInitialized
  BY <1>1 DEF Open, memory, Promise!queueVars, Pending
<1>2. CASE ~IsInitialized
  <2>1. Initialize /\ UNCHANGED result
    BY <1>2 DEF Open
  <2>2. Pending' = <<>>
    <3>1. Unread(readHead', writeHead') = 0
      BY <2>1, ZeroIsOrdered DEF Initialize
    <3>2. Pending' = LastWritten(data', writeHead'.index, 0)
      BY <2>1, <3>1 DEF Pending, Initialize
    <3>3. QED
      BY <3>2 DEF LastWritten
  <2>3. CASE ~stamped
    <3>1. Pending = <<>>
      BY <2>3 DEF Pending, LastWritten
    <3>2. QED
      BY <2>1, <2>2, <3>1 DEF Promise!queueVars
  <2>4. CASE stamped
    <3>1. readHead.lap > writeHead.lap
      <4>1. /\ readHead \in Heads /\ writeHead \in Heads
            /\ LapsBehind(readHead, writeHead) = 0 => readHead.index <= writeHead.index
        BY <2>4 DEF CircularInv, HeadsInOrder
      <4>2. readHead.lap = writeHead.lap => readHead.index <= writeHead.index
        BY <4>1, LapArithmetic
      <4>3. ~ValidPair(readHead, writeHead)
        BY <1>2, <2>4 DEF IsInitialized
      <4>4. QED
        BY <4>1, <4>2, <4>3, CircularAssumption DEF ValidPair, Heads
    <3>2. Promise!Forget
      BY <2>1, <2>2, <3>1 DEF Promise!Forget
    <3>3. QED
      BY <3>2 DEF Promise!Next
  <2>5. QED
    BY <2>3, <2>4
<1>3. QED
  BY <1>1, <1>2

LEMMA WritePromise ==
    ASSUME CircularInv, NEW v \in Values, Write(v)
    PROVE  Promise!Put(v)
<1> DEFINE n == Unread(readHead, writeHead)
<1>1. /\ stamped
      /\ writeHead \in Heads /\ readHead \in Heads
      /\ LapsBehind(readHead, writeHead) = 0 => readHead.index <= writeHead.index
      /\ Advance(writeHead).index = 0 => LapsBehind(readHead, Advance(writeHead)) # 0
  BY DEF CircularInv, HeadsInOrder, Write, LapBound
<1>2. /\ n \in 0 .. N
      /\ Unread(readHead, Advance(writeHead)) = IF n < N THEN n + 1 ELSE N
  BY <1>1, WriteWindow
<1> HIDE DEF n
<1>3. Pending = LastWritten(data, writeHead.index, n)
  BY <1>1 DEF Pending, n
<1>4. Pending' = LastWritten([data EXCEPT ![writeHead.index] = v],
                             Advance(writeHead).index, IF n < N THEN n + 1 ELSE N)
  BY <1>1, <1>2 DEF Pending, Write
<1>5. data \in [0 .. N - 1 -> Values]
  BY DEF CircularInv, TypeOK
<1>6. Pending' = IF Len(Pending) < N THEN Append(Pending, v) ELSE Append(Tail(Pending), v)
  BY <1>1, <1>2, <1>3, <1>4, <1>5, PutWindow
<1>7. QED
  BY <1>6 DEF Promise!Put, Write

LEMMA ReadPromise ==
    ASSUME CircularInv, Read
    PROVE  Promise!Get
<1> DEFINE n == Unread(readHead, writeHead)
           c == CatchUp(readHead, writeHead)
<1>1. /\ stamped
      /\ writeHead \in Heads /\ readHead \in Heads
      /\ readHead # writeHead
      /\ LapsBehind(readHead, writeHead) = 0 => readHead.index <= writeHead.index
  BY DEF CircularInv, HeadsInOrder, Read
<1>2. /\ n \in 1 .. N
      /\ c.index = SlotBefore(writeHead.index, n)
      /\ Unread(Advance(c), writeHead) = n - 1
  BY <1>1, ReadWindow
<1>3. readHead' = Advance(c) /\ result' = data[c.index]
  BY DEF Read
<1> HIDE DEF c
<1>4. Pending = LastWritten(data, writeHead.index, n)
  BY <1>1 DEF Pending
<1> HIDE DEF n
<1>5. Pending' = LastWritten(data, writeHead.index, n - 1)
  BY <1>1, <1>2, <1>3 DEF Pending, Read
<1>6. data \in [0 .. N - 1 -> Values] /\ writeHead.index \in 0 .. N - 1
  BY <1>1 DEF CircularInv, TypeOK, Heads
<1>7. /\ Pending # <<>>
      /\ Head(Pending) = data[SlotBefore(writeHead.index, n)]
      /\ Pending' = Tail(Pending)
  BY <1>2, <1>4, <1>5, <1>6, GetWindow
<1>8. QED
  BY <1>2, <1>3, <1>7 DEF Promise!Get

LEMMA ReadNothingPromise ==
    ASSUME CircularInv, ReadNothing
    PROVE  Promise!GetNothing
<1>1. stamped /\ readHead = writeHead /\ writeHead \in Heads
  BY DEF CircularInv, HeadsInOrder, ReadNothing
<1>2. Unread(readHead, writeHead) = 0
  BY <1>1, CircularAssumption DEF Unread, LapsBehind, Heads
<1>3. Pending = <<>>
  BY <1>1, <1>2 DEF Pending, LastWritten
<1>4. Pending' = Pending
  BY DEF ReadNothing, memory, Pending
<1>5. QED
  BY <1>3, <1>4 DEF Promise!GetNothing, ReadNothing

\* do_write and do_read, whatever the capacity and the width of the lap
\* counter, and whichever objects are destroyed and constructed again between
\* them, behave as the queue of LossyQueue: elements come out in the order in
\* which they went in, only the oldest are dropped, and only when it is full.
THEOREM CircularRefinesLossyQueue == Spec => ImplementsLossyQueue
<1>1. Init => Promise!Init
  BY DEF Init, Promise!Init, Pending, LastWritten
<1>2. CircularInv /\ [Next]_vars => [Promise!Next]_(Promise!queueVars)
  <2> SUFFICES ASSUME CircularInv, [Next]_vars
               PROVE  [Promise!Next]_(Promise!queueVars)
    OBVIOUS
  <2>1. CASE \E s \in Sides : Open(s)
    BY <2>1, OpenPromise
  <2>2. CASE \E s \in Sides : Close(s)
    BY <2>2 DEF Close, memory, Promise!queueVars, Pending
  <2>3. CASE \E v \in Values : Write(v)
    BY <2>3, WritePromise DEF Promise!Next
  <2>4. CASE ReadNothing
    BY <2>4, ReadNothingPromise DEF Promise!Next
  <2>5. CASE Read
    BY <2>5, ReadPromise DEF Promise!Next
  <2>6. CASE UNCHANGED vars
    BY <2>6 DEF vars, Promise!queueVars, Pending
  <2>7. QED
    BY <2>1, <2>2, <2>3, <2>4, <2>5, <2>6 DEF Next
<1>3. Spec => []CircularInv
  BY CircularHeadsInOrder DEF CircularInv
<1>4. QED
  BY <1>1, <1>2, <1>3, PTL DEF Spec, ImplementsLossyQueue, Promise!Spec
===============================================================================
