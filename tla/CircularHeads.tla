----------------------------- MODULE CircularHeads -----------------------------
(***************************************************************************)
(* The cursors of brasa::buffer::detail::Circular: how they advance, when  *)
(* a pair of them is valid, and how the reader's is moved forward after an *)
(* overrun.  Laps count modulo LapMod, which is 2^32 in the code.          *)
(***************************************************************************)
EXTENDS Integers

CONSTANTS
    N,          \* capacity in elements
    LapMod      \* number of values of the lap counter

ASSUME CircularAssumption ==
    /\ N \in Nat /\ N >= 2
    /\ LapMod \in Nat /\ LapMod >= 2

Heads == [index : 0 .. N - 1, lap : 0 .. LapMod - 1]
Zero == [index |-> 0, lap |-> 0]

\* Mutation of LapAfter: a counter that does not wrap.
LapAfterWide(lap) == lap + 1

\* Mutation of LapBefore: a signed counter.
LapBeforeSigned(lap) == lap - 1

\* ++lap and --lap on an unsigned counter.
LapAfter(lap)  == IF lap = LapMod - 1 THEN 0 ELSE lap + 1
LapBefore(lap) == IF lap = 0 THEN LapMod - 1 ELSE lap - 1

Advance(head) ==
    IF head.index + 1 = N THEN [index |-> 0, lap |-> LapAfter(head.lap)]
    ELSE [head EXCEPT !.index = @ + 1]

\* write_head.lap - read_head.lap on unsigned counters.
LapsBehind(read, write) ==
    IF read.lap <= write.lap THEN write.lap - read.lap
    ELSE write.lap - read.lap + LapMod

\* is_valid(read_head, write_head)
ValidPair(read, write) ==
    /\ read.index < N /\ write.index < N
    /\ \/ read.lap < write.lap
       \/ read.lap = write.lap /\ read.index <= write.index

\* Mutations of CatchUp: a reader one lap behind is never moved; a reader
\* further behind is moved to the lap of the writer.
CatchUpLate(read, write) ==
    CASE LapsBehind(read, write) \in {0, 1} -> read
      [] OTHER -> [index |-> write.index, lap |-> LapBefore(write.lap)]
CatchUpTooFar(read, write) ==
    CASE LapsBehind(read, write) = 0 -> read
      [] LapsBehind(read, write) = 1 ->
            IF write.index > read.index THEN [read EXCEPT !.index = write.index]
            ELSE read
      [] OTHER -> write

\* The switch of do_read.
CatchUp(read, write) ==
    CASE LapsBehind(read, write) = 0 -> read
      [] LapsBehind(read, write) = 1 ->
            IF write.index > read.index THEN [read EXCEPT !.index = write.index]
            ELSE read
      [] OTHER -> [index |-> write.index, lap |-> LapBefore(write.lap)]

-------------------------------------------------------------------------------
(* What the heads mean; no code computes these. *)

\* How many elements a reader at read can still get.
Unread(read, write) ==
    CASE LapsBehind(read, write) = 0 -> write.index - read.index
      [] LapsBehind(read, write) = 1 /\ write.index <= read.index ->
            N + write.index - read.index
      [] OTHER -> N

\* The slot that is n writes older than the slot at index.
SlotBefore(index, n) == IF index < n THEN index - n + N ELSE index - n

\* The n elements of slots that were written last, oldest first.
LastWritten(slots, index, n) == [k \in 1 .. n |-> slots[SlotBefore(index, n + 1 - k)]]
===============================================================================
