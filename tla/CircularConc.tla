------------------------------ MODULE CircularConc ------------------------------
(***************************************************************************)
(* One CircularWriter and one CircularReader that run at the same time     *)
(* over shared memory, with one action per access to that memory, and      *)
(* either process ending and starting again at any access.  Nothing in     *)
(* the code orders the accesses of one side with those of the other.       *)
(*                                                                         *)
(* The k-th element written is the number k.  The variables count, last,   *)
(* seen and sound are history: no code reads them.                         *)
(***************************************************************************)
EXTENDS CircularHeads

CONSTANTS
    WideCopies, \* the builds: a Head is copied in one access, or field by field
    MaxWrites,  \* bound: elements written
    MaxCrashes  \* bound: ends of a process

ASSUME ConcAssumption ==
    /\ WideCopies \subseteq BOOLEAN
    /\ MaxWrites \in Nat /\ MaxCrashes \in Nat

VARIABLES
    data,       \* data: the element in each slot, 0 if none was written
    writeHead,  \* write_head
    readHead,   \* read_head
    key,        \* key is that of this buffer
    crc,        \* crc is that of this buffer
    pc,         \* where each side is
    copy,       \* do_read: its copy of write_head
    head,       \* do_read: its copy of read_head
    value,      \* do_read: the element taken
    count,      \* history: how often the write head was advanced
    last,       \* history: the last element whose read is complete
    seen,       \* history: count when write_head was copied
    sound,      \* history: no access has been disturbed so far
    crashes,    \* bound: counts the ends of a process
    wide        \* this build copies a Head in one access

shared == <<data, writeHead, readHead, key, crc>>
local == <<copy, head, value>>
history == <<count, last, seen, sound>>
setup == <<crashes, wide>>
vars == <<shared, pc, local, history, setup>>

Sides == {"writer", "reader"}

\* What a read finds outside data: the bytes of the heads, key and crc.
Stray == 0

\* Where n elements leave a head.  The counter of laps is not reduced here: a
\* copy of a head whose counter has wrapped is not sound, and Circular is where
\* the wrap is checked.
HeadAfter(n) == [index |-> n % N, lap |-> n \div N]

\* Memory that was never stamped holds anything.
Garbage == [index |-> N, lap |-> 1]

Init ==
    /\ data = [i \in 0 .. N - 1 |-> 0]
    /\ writeHead \in {Zero, Garbage}
    /\ readHead \in {Zero, Garbage}
    /\ key = FALSE
    /\ crc = FALSE
    /\ pc = [s \in Sides |-> "down"]
    /\ copy = Zero
    /\ head = Zero
    /\ value = 0
    /\ count = 0
    /\ last = 0
    /\ seen = 0
    /\ sound = TRUE
    /\ crashes = 0
    /\ wide \in WideCopies

Goto(s, from, to) ==
    /\ pc[s] = from
    /\ pc' = [pc EXCEPT ![s] = to]

-------------------------------------------------------------------------------
(* The constructor, the same for both sides *)

\* is_initialized().  Its loads are taken at one moment.
Construct(s) ==
    /\ IF ValidPair(readHead, writeHead) /\ key /\ crc
       THEN Goto(s, "down", "idle")
       ELSE Goto(s, "down", "read_head")
    /\ UNCHANGED <<shared, local, history, setup>>

\* initialize(), store by store.
InitReadHead(s) ==
    /\ Goto(s, "read_head", "write_head")
    /\ readHead' = Zero
    /\ sound' = (sound /\ count = 0)
    /\ UNCHANGED <<data, writeHead, key, crc, local, count, last, seen, setup>>

InitWriteHead(s) ==
    /\ Goto(s, "write_head", "key")
    /\ writeHead' = Zero
    /\ sound' = (sound /\ count = 0)
    /\ UNCHANGED <<data, readHead, key, crc, local, count, last, seen, setup>>

InitKey(s) ==
    /\ Goto(s, "key", "crc")
    /\ key' = TRUE
    /\ UNCHANGED <<data, writeHead, readHead, crc, local, history, setup>>

InitCrc(s) ==
    /\ Goto(s, "crc", "idle")
    /\ crc' = TRUE
    /\ UNCHANGED <<data, writeHead, readHead, key, local, history, setup>>

-------------------------------------------------------------------------------
(* do_write *)

\* Bound: MaxWrites.
WriteSlot ==
    /\ Goto("writer", "idle", "advance")
    /\ count < MaxWrites
    /\ data' = [data EXCEPT ![writeHead.index] = count + 1]
    /\ UNCHANGED <<writeHead, readHead, key, crc, local, history, setup>>

\* Mutation of AdvanceIndex: the wrap comes one slot late.
AdvanceIndexLate ==
    /\ IF writeHead.index = N
       THEN Goto("writer", "advance", "reset") /\ UNCHANGED count
       ELSE Goto("writer", "advance", "idle") /\ count' = count + 1
    /\ writeHead' = [writeHead EXCEPT !.index = @ + 1]
    /\ UNCHANGED <<data, readHead, key, crc, local, last, seen, sound, setup>>

\* ++head.index, and the comparison with N.
AdvanceIndex ==
    /\ IF writeHead.index + 1 = N
       THEN Goto("writer", "advance", "reset") /\ UNCHANGED count
       ELSE Goto("writer", "advance", "idle") /\ count' = count + 1
    /\ writeHead' = [writeHead EXCEPT !.index = @ + 1]
    /\ UNCHANGED <<data, readHead, key, crc, local, last, seen, sound, setup>>

\* head.index = 0
ResetIndex ==
    /\ Goto("writer", "reset", "lap")
    /\ writeHead' = [writeHead EXCEPT !.index = 0]
    /\ UNCHANGED <<data, readHead, key, crc, local, history, setup>>

\* ++head.lap
AdvanceLap ==
    /\ Goto("writer", "lap", "idle")
    /\ writeHead' = [writeHead EXCEPT !.lap = LapAfter(@)]
    /\ count' = count + 1
    /\ UNCHANGED <<data, readHead, key, crc, local, last, seen, sound, setup>>

-------------------------------------------------------------------------------
(* do_read *)

\* The first field of write_head.
CopyIndex ==
    /\ ~wide
    /\ Goto("reader", "idle", "copy_lap")
    /\ copy' = [copy EXCEPT !.index = writeHead.index]
    /\ UNCHANGED <<shared, head, value, history, setup>>

CopyLap ==
    /\ ~wide
    /\ Goto("reader", "idle", "copy_index")
    /\ copy' = [copy EXCEPT !.lap = writeHead.lap]
    /\ UNCHANGED <<shared, head, value, history, setup>>

\* Mutation of IsEmpty: the laps are not compared.
IsEmptyIndexOnly(read, write) == read.index = write.index

IsEmpty(read, write) == read = write

\* The rest of the copy of write_head, the return of false, or the switch.
Decide(from, write) ==
    /\ copy' = write
    /\ seen' = count
    /\ sound' = (sound /\ write = HeadAfter(count))
    /\ IF IsEmpty(readHead, write)
       THEN /\ Goto("reader", from, "idle")
            /\ UNCHANGED head
       ELSE /\ Goto("reader", from, "take")
            /\ head' = CatchUp(readHead, write)
    /\ UNCHANGED <<shared, value, count, last, setup>>

CopyWide == wide /\ Decide("idle", writeHead)
CopySecond ==
    \/ Decide("copy_lap", [copy EXCEPT !.lap = writeHead.lap])
    \/ Decide("copy_index", [copy EXCEPT !.index = writeHead.index])

\* advance(read_head).  Bound: an index past N + 1 is kept at N + 1; it stays
\* past every slot and every index of the writer until the switch replaces it.
AdvanceCopy == IF head.index > N THEN head ELSE Advance(head)

TakeSlot ==
    /\ Goto("reader", "take", "store")
    /\ value' = IF head.index < N THEN data[head.index] ELSE Stray
    /\ head' = AdvanceCopy
    /\ sound' = (sound /\ value' <= seen)
    /\ UNCHANGED <<shared, copy, count, last, seen, setup>>

\* buffer_data->read_head = read_head, and the return of true.
StoreWide ==
    /\ wide
    /\ Goto("reader", "store", "idle")
    /\ readHead' = head
    /\ last' = value
    /\ UNCHANGED <<data, writeHead, key, crc, local, count, seen, sound, setup>>

StoreFirst ==
    /\ ~wide
    /\ \/ /\ Goto("reader", "store", "store_lap")
          /\ readHead' = [readHead EXCEPT !.index = head.index]
       \/ /\ Goto("reader", "store", "store_index")
          /\ readHead' = [readHead EXCEPT !.lap = head.lap]
    /\ UNCHANGED <<data, writeHead, key, crc, local, history, setup>>

StoreSecond ==
    /\ \/ /\ Goto("reader", "store_lap", "idle")
          /\ readHead' = [readHead EXCEPT !.lap = head.lap]
       \/ /\ Goto("reader", "store_index", "idle")
          /\ readHead' = [readHead EXCEPT !.index = head.index]
    /\ last' = value
    /\ UNCHANGED <<data, writeHead, key, crc, local, count, seen, sound, setup>>

-------------------------------------------------------------------------------

\* The process of a side ends, wherever it is.  Bound: MaxCrashes.
Crash(s) ==
    /\ crashes < MaxCrashes
    /\ pc[s] # "down"
    /\ pc' = [pc EXCEPT ![s] = "down"]
    /\ crashes' = crashes + 1
    /\ sound' = (sound /\ pc[s] \notin {"reset", "lap", "store_lap", "store_index"})
    /\ UNCHANGED <<shared, local, count, last, seen, wide>>

Initializing(s) ==
    InitReadHead(s) \/ InitWriteHead(s) \/ InitKey(s) \/ InitCrc(s)
Advancing == AdvanceIndex \/ ResetIndex \/ AdvanceLap
Reading ==
    CopyIndex \/ CopyLap \/ CopyWide \/ CopySecond \/ TakeSlot
        \/ StoreWide \/ StoreFirst \/ StoreSecond

Next ==
    \/ \E s \in Sides : Construct(s) \/ Initializing(s) \/ Crash(s)
    \/ WriteSlot
    \/ Advancing
    \/ Reading

\* The writer that has begun a write goes on with it, and the reader is run,
\* and run again after each end, by a caller that keeps polling.  Nothing
\* makes the writer start, or write.
Fairness ==
    /\ WF_vars(Advancing)
    /\ WF_vars(Reading)
    /\ WF_vars(Construct("reader"))
    /\ \A s \in Sides : WF_vars(Initializing(s))

Spec == Init /\ [][Next]_vars /\ Fairness

-------------------------------------------------------------------------------
(* Properties *)

Laps == 0 .. LapMod - 1

\* Types: the write head has the index N while it wraps; the read head keeps
\* any index that was taken from it.
TypeOK ==
    /\ data \in [0 .. N - 1 -> 0 .. MaxWrites]
    /\ writeHead \in [index : 0 .. N, lap : Laps]
    /\ readHead \in [index : 0 .. N + 1, lap : Laps]
    /\ key \in BOOLEAN /\ crc \in BOOLEAN
    /\ pc["writer"] \in {"down", "read_head", "write_head", "key", "crc",
                         "idle", "advance", "reset", "lap"}
    /\ pc["reader"] \in {"down", "read_head", "write_head", "key", "crc",
                         "idle", "copy_lap", "copy_index", "take",
                         "store", "store_lap", "store_index"}
    /\ copy \in [index : 0 .. N, lap : Laps]
    /\ head \in [index : 0 .. N + 1, lap : Laps]
    /\ value \in 0 .. MaxWrites
    /\ count \in 0 .. MaxWrites /\ last \in 0 .. MaxWrites /\ seen \in 0 .. MaxWrites
    /\ sound \in BOOLEAN
    /\ crashes \in 0 .. MaxCrashes
    /\ wide \in WideCopies

\* The writer never stores outside data (Circular.h:140), whatever the other
\* side does and wherever either of them ended before.
WriterStaysInData == pc["writer"] = "idle" => writeHead.index < N

Larger(a, b) == IF a > b THEN a ELSE b

\* What a read finds is disturbed in several ways: the copy of write_head is one
\* that advance() left halfway, a mix of two, or made after the lap counter
\* wrapped; the slot holds an element newer than the copy, because it was
\* overwritten between the copy and the load, or before the copy by a writer
\* that stands, or ended, between the store into the slot and the store of
\* write_head; a process ends with its head halfway; a constructor initialises
\* over what was written, because it finds a head halfway or looked too early.
\* Each of them clears sound, for good.  While sound holds, a read takes the
\* next element, or the oldest that is left if the next is gone; and an empty
\* buffer is one whose last element was read (Circular.h:61-64), also after a
\* process ended and started again.
ReadsExact ==
    sound =>
        /\ pc["reader"] \in {"store", "store_lap", "store_index"}
              => value = Larger(last + 1, seen - N + 1)
        /\ count > 0 /\ pc["reader"] \notin {"store_lap", "store_index"}
              => readHead = HeadAfter(last)

\* While no access was disturbed in any of those ways, ReadsInOrder below is
\* true and more: each element is read at most once, in the order of the writes, after its
\* write, and those that the reader passes over have been overwritten
\* (Circular.h:61-64).
SoundReadsInOrder ==
    [][sound' => /\ last < last' /\ last' <= count
                 /\ \A k \in last + 1 .. last' - 1 : data[(k - 1) % N] # k]_last

\* If nothing goes wrong, every element that is written is read or overwritten
\* before it is read, and the last one is read, although the reader may end
\* and start again on the way.
ReaderDrains == []sound => <>[](last = count)

\* "The reader detects and recovers from overruns automatically"
\* (CircularWriter.h:16-18): whatever it read meanwhile, once the writer
\* pauses the reader finds the write head again and stays there, in a build that
\* copies a Head in one access and as long as no process ends.
ReaderRecovers == <>[](wide /\ crashes = 0 => readHead = writeHead)

-------------------------------------------------------------------------------
(* What the documentation says *)

\* Circular.h:57-59: "concurrent access by one writer and one reader is
\* supported provided accesses to individual slots are atomic": here the copy
\* of a Head is atomic too, and no process ends, and yet the elements that are
\* read are not in the order of the writes.
ReadsInOrder == [][last' > last]_last

\* Circular.h:31: index is the "slot index in the data array (0...N-1)"; do_read
\* loads data[read_head.index].
ReaderStaysInData == pc["reader"] = "take" => head.index < N
===============================================================================
