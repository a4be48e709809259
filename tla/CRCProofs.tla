-------------------------------- MODULE CRCProofs --------------------------------
(***************************************************************************)
(* Proofs about CRC for messages of any length: what the two loops and the *)
(* overload for values look up byte by byte is the division of the whole   *)
(* message, bit by bit.                                                    *)
(***************************************************************************)
EXTENDS CRC, SequenceTheorems, TLAPS

LowByte == 0 .. 7

-------------------------------------------------------------------------------
(* The division of eight bits *)

\* A bit of the sum is divided as the bits of the two words are.
LEMMA DivideBitIsLinear ==
    ASSUME NEW a, NEW b
    PROVE  DivideBit(Xor(a, b)) = Xor(DivideBit(a), DivideBit(b))
<1>1. ShiftRight(Xor(a, b), 1) = Xor(ShiftRight(a, 1), ShiftRight(b, 1))
  BY DEF ShiftRight, Xor
<1>2. 0 \in Xor(a, b) <=> ~(0 \in a <=> 0 \in b)
  BY DEF Xor
<1> DEFINE sa == ShiftRight(a, 1)
           sb == ShiftRight(b, 1)
<1> HIDE DEF sa, sb
<1>3. /\ Xor(Xor(sa, Polynomial), Xor(sb, Polynomial)) = Xor(sa, sb)
      /\ Xor(Xor(sa, Polynomial), sb) = Xor(Xor(sa, sb), Polynomial)
      /\ Xor(sa, Xor(sb, Polynomial)) = Xor(Xor(sa, sb), Polynomial)
  BY DEF Xor
<1>4. QED
  BY <1>1, <1>2, <1>3 DEF DivideBit, sa, sb

LEMMA DivideByteIsLinear ==
    ASSUME NEW a, NEW b
    PROVE  DivideByte(Xor(a, b)) = Xor(DivideByte(a), DivideByte(b))
<1>1. \A x, y : DivideTwo(Xor(x, y)) = Xor(DivideTwo(x), DivideTwo(y))
  BY DivideBitIsLinear DEF DivideTwo
<1>2. QED
  BY <1>1 DEF DivideByte

\* Where the low byte has no bit, the division is a shift.
LEMMA DivideHighBits ==
    ASSUME NEW w, w \cap LowByte = {}
    PROVE  DivideByte(w) = ShiftRight(w, 8)
<1> DEFINE Shifted(n) == ShiftRight(w, n)
<1>1. ASSUME NEW n \in 1 .. 7
      PROVE  DivideBit(ShiftRight(w, n)) = ShiftRight(w, n + 1)
  <2>1. 0 \notin ShiftRight(w, n)
    BY DEF ShiftRight, LowByte
  <2>2. ShiftRight(ShiftRight(w, n), 1) = ShiftRight(w, n + 1)
    <3>1. ASSUME NEW i
          PROVE  i \in ShiftRight(ShiftRight(w, n), 1) <=> i \in ShiftRight(w, n + 1)
      <4>1. CASE i \in Int
        BY <4>1 DEF ShiftRight
      <4>2. CASE i \notin Int
        BY <4>2 DEF ShiftRight
      <4>3. QED
        BY <4>1, <4>2
    <3>2. QED
      BY <3>1
  <2>3. QED
    BY <2>1, <2>2 DEF DivideBit
<1>2. DivideBit(w) = ShiftRight(w, 1)
  BY DEF DivideBit, LowByte
<1>3. /\ DivideTwo(w) = ShiftRight(w, 2)
      /\ DivideTwo(ShiftRight(w, 2)) = ShiftRight(w, 4)
      /\ DivideTwo(ShiftRight(w, 4)) = ShiftRight(w, 6)
      /\ DivideTwo(ShiftRight(w, 6)) = ShiftRight(w, 8)
  BY <1>1, <1>2 DEF DivideTwo
<1>4. QED
  BY <1>3 DEF DivideByte

\* A lookup and a shift divide a byte: what DO1 computes (CRC.cpp:46).
LEMMA LookupDivides ==
    ASSUME NEW w, NEW b \in Bytes
    PROVE  DO1(w, b) = DivideByte(Xor(w, b))
<1> DEFINE v == Xor(w, b)
           low == v \cap LowByte
           high == v \ LowByte
<1>1. v = Xor(low, high)
  BY DEF Xor
<1>2. low \in Bytes
  BY DEF Bytes, LowByte
<1>3. DivideByte(low) = Lookup(low)
  BY <1>2, TableAssumption
<1>4. ShiftRight(high, 8) = ShiftRight(w, 8)
  <2>1. ASSUME NEW i \in 0 .. 31 - 8
        PROVE  i + 8 \in high <=> i + 8 \in w
    <3>1. i + 8 \notin LowByte
      BY DEF LowByte
    <3>2. i + 8 \notin b
      BY <3>1 DEF Bytes, LowByte
    <3>3. QED
      BY <3>1, <3>2 DEF Xor
  <2>2. QED
    BY <2>1 DEF ShiftRight
<1>5. DivideByte(high) = ShiftRight(w, 8)
  <2>1. high \cap LowByte = {}
    OBVIOUS
  <2>2. QED
    BY <1>4, <2>1, DivideHighBits
<1>6. DivideByte(Xor(low, high)) = Xor(Lookup(low), ShiftRight(w, 8))
  BY <1>3, <1>5, DivideByteIsLinear
<1>7. QED
  BY <1>1, <1>6 DEF DO1, LowByte

-------------------------------------------------------------------------------
(* The division of a message *)

\* One step of the division that defines the checksum.
Follows(f, m, n) == f[n] = IF n = 0 THEN Ones ELSE DivideByte(Xor(f[n - 1], m[n]))

\* What the division of the first k bytes of m leaves is w.  A function that follows
\* the definition exists, and all that do agree: Checksum is one of them.
Divided(m, k, w) ==
    /\ \E f : /\ f = [n \in 0 .. k |->
                         IF n = 0 THEN Ones ELSE DivideByte(Xor(f[n - 1], m[n]))]
              /\ f[k] = w
    /\ \A f : (\A n \in 0 .. k : Follows(f, m, n)) => f[k] = w

LEMMA DividedNone ==
    ASSUME NEW m
    PROVE  Divided(m, 0, Ones)
<1>1. \E f : /\ f = [n \in 0 .. 0 |->
                        IF n = 0 THEN Ones ELSE DivideByte(Xor(f[n - 1], m[n]))]
             /\ f[0] = Ones
  <2> DEFINE g == [n \in 0 .. 0 |-> Ones]
  <2>1. g = [n \in 0 .. 0 |-> IF n = 0 THEN Ones ELSE DivideByte(Xor(g[n - 1], m[n]))]
    <3>1. \A n \in 0 .. 0 : n = 0
      OBVIOUS
    <3>2. QED
      BY <3>1
  <2>2. g[0] = Ones
    OBVIOUS
  <2> HIDE DEF g
  <2>3. QED
    BY <2>1, <2>2
<1>2. QED
  BY <1>1 DEF Divided, Follows

\* The next byte.
LEMMA DividedNext ==
    ASSUME NEW m, NEW k \in Nat, NEW w, m[k + 1] \in Bytes, Divided(m, k, w)
    PROVE  Divided(m, k + 1, DO1(w, m[k + 1]))
<1> DEFINE next == DivideByte(Xor(w, m[k + 1]))
<1>1. DO1(w, m[k + 1]) = next
  BY LookupDivides
<1>2. PICK f : /\ f = [n \in 0 .. k |->
                          IF n = 0 THEN Ones ELSE DivideByte(Xor(f[n - 1], m[n]))]
               /\ f[k] = w
  BY DEF Divided
<1> HIDE DEF next
<1>3. \E g : /\ g = [n \in 0 .. k + 1 |->
                        IF n = 0 THEN Ones ELSE DivideByte(Xor(g[n - 1], m[n]))]
             /\ g[k + 1] = next
  <2> DEFINE g == [n \in 0 .. k + 1 |-> IF n = k + 1 THEN next ELSE f[n]]
             Term(n) == IF n = 0 THEN Ones ELSE DivideByte(Xor(g[n - 1], m[n]))
  <2>1. ASSUME NEW n \in 0 .. k + 1
        PROVE  g[n] = Term(n)
    <3>1. CASE n = k + 1
      <4>1. n # 0 /\ n - 1 = k /\ k \in 0 .. k + 1 /\ k # k + 1
        BY <3>1
      <4>2. g[n - 1] = w
        BY <1>2, <4>1
      <4>3. QED
        BY <3>1, <4>1, <4>2 DEF next
    <3>2. CASE n # k + 1 /\ n # 0
      <4>1. n \in 0 .. k /\ n - 1 \in 0 .. k + 1 /\ n - 1 # k + 1
        BY <3>2
      <4>2. g[n] = f[n] /\ g[n - 1] = f[n - 1]
        BY <3>2, <4>1
      <4>3. f[n] = DivideByte(Xor(f[n - 1], m[n]))
        BY <1>2, <3>2, <4>1
      <4>4. QED
        BY <3>2, <4>2, <4>3
    <3>3. CASE n = 0
      <4>1. 0 \in 0 .. k /\ 0 # k + 1
        OBVIOUS
      <4>2. f[0] = Ones
        BY <1>2, <4>1
      <4>3. QED
        BY <3>3, <4>1, <4>2
    <3>4. QED
      BY <3>1, <3>2, <3>3
  <2>2. g = [n \in 0 .. k + 1 |-> Term(n)]
    BY <2>1
  <2>3. g[k + 1] = next
    BY <2>1
  <2>4. QED
    BY <2>2, <2>3
<1>4. ASSUME NEW g, \A n \in 0 .. k + 1 : Follows(g, m, n)
      PROVE  g[k + 1] = next
  <2>1. \A n \in 0 .. k : Follows(g, m, n)
    BY <1>4
  <2>2. g[k] = w
    BY <2>1 DEF Divided
  <2>3. Follows(g, m, k + 1) /\ k + 1 # 0 /\ (k + 1) - 1 = k
    BY <1>4
  <2>4. QED
    BY <2>2, <2>3 DEF Follows, next
<1>5. QED
  BY <1>1, <1>3, <1>4 DEF Divided

\* The checksum is the complement of what the division of all bytes leaves.
LEMMA DividedAll ==
    ASSUME NEW m, NEW w, Len(m) \in Nat, Divided(m, Len(m), w)
    PROVE  Checksum(m) = Xor(w, Ones)
<1> DEFINE Is(f) == f = [n \in 0 .. Len(m) |->
                            IF n = 0 THEN Ones ELSE DivideByte(Xor(f[n - 1], m[n]))]
           after == CHOOSE f : Is(f)
<1>1. \E f : Is(f)
  BY DEF Divided
<1>2. Is(after)
  <2> HIDE DEF Is
  <2>1. QED
    BY <1>1
<1>3. \A n \in 0 .. Len(m) : Follows(after, m, n)
  BY <1>2 DEF Follows
<1>4. after[Len(m)] = w
  BY <1>3 DEF Divided
<1>5. QED
  BY <1>4 DEF Checksum

-------------------------------------------------------------------------------
(* The loops *)

\* rest is what follows the first k bytes, which crc is the division of.
At(k) ==
    /\ Len(rest) = Len(message) - k
    /\ \A i \in 1 .. Len(rest) : rest[i] = message[k + i]
    /\ Divided(message, k, crc)

CRCInv ==
    /\ message \in Seq(Bytes) /\ rest \in Seq(Bytes)
    /\ ~returned => \E k \in Nat : At(k)
    /\ returned => rest = <<>> /\ crc = Checksum(message)

LEMMA CRCInit == Init => CRCInv
<1> SUFFICES ASSUME Init PROVE CRCInv
  OBVIOUS
<1>1. message \in Seq(Bytes) /\ rest = message /\ crc = Ones /\ returned = FALSE
  BY MessagesAssumption DEF Init
<1>2. At(0)
  BY <1>1, DividedNone DEF At
<1>3. QED
  BY <1>1, <1>2 DEF CRCInv

\* One byte: a round of the loop over the rest, or a step of the overload for values.
LEMMA OneByteInv ==
    ASSUME CRCInv, ~returned, rest # <<>>, crc' = DO1(crc, Head(rest)),
           rest' = Tail(rest), UNCHANGED <<message, returned>>
    PROVE  CRCInv'
<1>1. PICK k \in Nat : At(k)
  BY DEF CRCInv
<1>2. /\ message \in Seq(Bytes) /\ rest \in Seq(Bytes)
      /\ Len(message) \in Nat /\ Len(rest) \in Nat /\ Len(rest) >= 1
  BY DEF CRCInv
<1>3. rest' \in Seq(Bytes) /\ Len(rest') = Len(rest) - 1
      /\ \A i \in 1 .. Len(rest) - 1 : rest'[i] = rest[i + 1]
  BY <1>2
<1>4. Head(rest) = message[k + 1] /\ Head(rest) \in Bytes
  BY <1>1, <1>2 DEF At
<1>5. Divided(message, k + 1, crc')
  BY <1>1, <1>4, DividedNext DEF At
<1>6. ASSUME NEW i \in 1 .. Len(rest')
      PROVE  rest'[i] = message[(k + 1) + i]
  <2>1. i \in Nat /\ i \in 1 .. Len(rest) - 1 /\ i + 1 \in 1 .. Len(rest)
    BY <1>2, <1>3
  <2>2. rest'[i] = rest[i + 1] /\ rest[i + 1] = message[k + (i + 1)]
    BY <1>1, <1>3, <2>1 DEF At
  <2>3. k + (i + 1) = (k + 1) + i
    BY <2>1
  <2>4. QED
    BY <2>2, <2>3
<1>7. At(k + 1)'
  BY <1>1, <1>2, <1>3, <1>5, <1>6 DEF At
<1>8. QED
  BY <1>2, <1>3, <1>7 DEF CRCInv

\* What is left behind eight bytes.
LEMMA DropEight ==
    ASSUME NEW s \in Seq(Bytes), Len(s) >= 8
    PROVE  LET tail == SubSeq(s, 9, Len(s))
           IN  /\ tail \in Seq(Bytes) /\ Len(tail) = Len(s) - 8
               /\ \A i \in 1 .. Len(s) - 8 : tail[i] = s[i + 8]
<1> DEFINE n == Len(s)
           tail == SubSeq(s, 9, n)
<1>1. n \in Nat /\ n >= 8
  OBVIOUS
<1>2. \A i \in 9 .. n : s[i] \in Bytes
  OBVIOUS
<1> HIDE DEF n
<1>3. /\ tail \in Seq(Bytes)
      /\ Len(tail) = IF 9 <= n THEN n - 9 + 1 ELSE 0
      /\ \A i \in 1 .. n - 9 + 1 : tail[i] = s[9 + i - 1]
  BY <1>1, <1>2, SubSeqProperties
<1> HIDE DEF tail
<1>4. Len(tail) = n - 8
  BY <1>1, <1>3
<1>5. ASSUME NEW i \in 1 .. n - 8
      PROVE  tail[i] = s[i + 8]
  <2>1. i \in 1 .. n - 9 + 1 /\ 9 + i - 1 = i + 8
    BY <1>1
  <2>2. QED
    BY <1>3, <2>1
<1>6. QED
  BY <1>3, <1>4, <1>5 DEF tail, n

\* Eight bytes, as DO8 takes them.
LEMMA EightBytesInv ==
    ASSUME CRCInv, ~returned, Len(rest) >= 8, crc' = DO8(crc, rest, 1),
           rest' = SubSeq(rest, 9, Len(rest)), UNCHANGED <<message, returned>>
    PROVE  CRCInv'
<1>1. PICK k \in Nat : At(k)
  BY DEF CRCInv
<1>2. /\ message \in Seq(Bytes) /\ rest \in Seq(Bytes)
      /\ Len(message) \in Nat /\ Len(rest) \in Nat
  BY DEF CRCInv
<1>3. /\ rest' \in Seq(Bytes) /\ Len(rest') = Len(rest) - 8
      /\ \A i \in 1 .. Len(rest) - 8 : rest'[i] = rest[i + 8]
  BY <1>2, DropEight
<1>4. ASSUME NEW i \in 1 .. 8, NEW w, Divided(message, k + i - 1, w)
      PROVE  Divided(message, k + i, DO1(w, rest[i]))
  <2>1. i \in 1 .. Len(rest)
    BY <1>2
  <2>2. rest[i] = message[k + i] /\ rest[i] \in Bytes
    BY <1>1, <1>2, <2>1 DEF At
  <2>3. k + i - 1 \in Nat /\ (k + i - 1) + 1 = k + i
    OBVIOUS
  <2>4. QED
    BY <1>4, <2>2, <2>3, DividedNext
<1>5. ASSUME NEW i \in {1, 3, 5, 7}, NEW w, Divided(message, k + i - 1, w)
      PROVE  Divided(message, k + i + 1, DO2(w, rest, i))
  <2>1. Divided(message, k + i, DO1(w, rest[i]))
    <3>1. i \in 1 .. 8
      OBVIOUS
    <3>2. QED
      BY <1>4, <1>5, <3>1
  <2>2. i + 1 \in 1 .. 8 /\ k + (i + 1) - 1 = k + i /\ k + (i + 1) = k + i + 1
    OBVIOUS
  <2>3. QED
    BY <1>4, <2>1, <2>2 DEF DO2
<1>6. ASSUME NEW i \in {1, 5}, NEW w, Divided(message, k + i - 1, w)
      PROVE  Divided(message, k + i + 3, DO4(w, rest, i))
  <2>1. Divided(message, k + i + 1, DO2(w, rest, i))
    BY <1>5, <1>6
  <2>2. i + 2 \in {1, 3, 5, 7} /\ k + (i + 2) - 1 = k + i + 1 /\ k + (i + 2) + 1 = k + i + 3
    OBVIOUS
  <2>3. QED
    BY <1>5, <2>1, <2>2 DEF DO4
<1>7. Divided(message, k + 8, crc')
  <2>1. Divided(message, k, crc) /\ k + 1 - 1 = k
    BY <1>1 DEF At
  <2>2. Divided(message, k + 1 + 3, DO4(crc, rest, 1))
    BY <1>6, <2>1
  <2>3. k + 5 - 1 = k + 1 + 3 /\ k + 5 + 3 = k + 8 /\ 1 + 4 = 5
    OBVIOUS
  <2>4. Divided(message, k + 5 + 3, DO4(DO4(crc, rest, 1), rest, 5))
    BY <1>6, <2>2, <2>3
  <2>5. QED
    BY <2>3, <2>4 DEF DO8
<1>8. ASSUME NEW i \in 1 .. Len(rest')
      PROVE  rest'[i] = message[(k + 8) + i]
  <2>1. i \in Nat /\ i \in 1 .. Len(rest) - 8 /\ i + 8 \in 1 .. Len(rest)
    BY <1>2, <1>3
  <2>2. rest'[i] = rest[i + 8] /\ rest[i + 8] = message[k + (i + 8)]
    BY <1>1, <1>3, <2>1 DEF At
  <2>3. k + (i + 8) = (k + 8) + i
    BY <2>1
  <2>4. QED
    BY <2>2, <2>3
<1>9. At(k + 8)'
  BY <1>1, <1>2, <1>3, <1>7, <1>8 DEF At
<1>10. QED
  BY <1>2, <1>3, <1>9 DEF CRCInv

LEMMA ReturnInv == ASSUME CRCInv, Return PROVE CRCInv'
<1>1. PICK k \in Nat : At(k)
  BY DEF CRCInv, Return
<1>2. /\ message \in Seq(Bytes) /\ Len(message) \in Nat /\ rest = <<>>
      /\ crc' = Xor(crc, Ones) /\ returned' /\ UNCHANGED <<message, rest>>
  BY DEF CRCInv, Return
<1>3. k = Len(message)
  BY <1>1, <1>2 DEF At
<1>4. Checksum(message) = Xor(crc, Ones)
  BY <1>1, <1>2, <1>3, DividedAll DEF At
<1>5. Checksum(message)' = Checksum(message)
  BY <1>2
<1>6. QED
  BY <1>2, <1>4, <1>5 DEF CRCInv

\* The checksum of the message when the call returns.
LEMMA CRCInvariant == Spec => []CRCInv
<1>1. Init => CRCInv
  BY CRCInit
<1>2. CRCInv /\ [Next]_vars => CRCInv'
  <2> SUFFICES ASSUME CRCInv, [Next]_vars PROVE CRCInv'
    OBVIOUS
  <2>1. CASE EightBytes
    <3>1. ~returned /\ UNCHANGED <<message, returned>>
      BY <2>1 DEF EightBytes, CRCInv
    <3>2. QED
      BY <2>1, <3>1, EightBytesInv DEF EightBytes
  <2>2. CASE Rest \/ Value
    <3>1. /\ ~returned /\ rest # <<>> /\ crc' = DO1(crc, Head(rest))
          /\ rest' = Tail(rest) /\ UNCHANGED <<message, returned>>
      BY <2>2 DEF Rest, Value, CRCInv
    <3>2. QED
      BY <3>1, OneByteInv
  <2>3. CASE Return
    BY <2>3, ReturnInv
  <2>4. CASE UNCHANGED vars
    BY <2>4 DEF vars, CRCInv, At
  <2>5. QED
    BY <2>1, <2>2, <2>3, <2>4 DEF Next
<1>3. QED
  BY <1>1, <1>2, PTL DEF Spec

\* Whatever the length of the buffer, the two loops and the table give the CRC-32 of
\* its bytes (CRC.cpp:53-65).
THEOREM BufferIsChecked == Spec => []BufferChecked
<1>1. CRCInv => BufferChecked
  BY DEF CRCInv, BufferChecked
<1>2. QED
  BY <1>1, CRCInvariant, PTL

\* The eight steps of the overload for values give the CRC-32 of the bytes of the
\* value, the lowest first (CRC.cpp:68-86).
THEOREM ValueIsChecked == Spec => []ValueChecked
<1>1. CRCInv => ValueChecked
  BY DEF CRCInv, ValueChecked
<1>2. QED
  BY <1>1, CRCInvariant, PTL
==================================================================================
