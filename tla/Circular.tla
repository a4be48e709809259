-------------------------------- MODULE Circular --------------------------------
(***************************************************************************)
(* CircularWriter and CircularReader over one memory area, with operations *)
(* that do not overlap: each action is a whole constructor, write or read. *)
(* Either side may be destroyed and constructed again at any time, while   *)
(* the memory stays.  CircularConc splits the operations into their        *)
(* accesses to the shared memory.                                          *)
(***************************************************************************)
EXTENDS CircularHeads, Sequences

CONSTANTS
    Values,     \* elements of TYPE_
    Nothing     \* "read returned false"

ASSUME NothingAssumption == Nothing \notin Values

VARIABLES
    data,       \* data: the slots
    writeHead,  \* write_head
    readHead,   \* read_head
    stamped,    \* key and crc are those of this buffer
    opened,     \* which of the two objects exist
    result      \* what the last read returned

memory == <<data, writeHead, readHead, stamped>>
vars == <<data, writeHead, readHead, stamped, opened, result>>

Sides == {"writer", "reader"}

\* Memory that was never stamped holds anything.
Init ==
    /\ data \in [0 .. N - 1 -> Values]
    /\ writeHead \in [index : 0 .. N, lap : 0 .. LapMod - 1]
    /\ readHead \in [index : 0 .. N, lap : 0 .. LapMod - 1]
    /\ stamped = FALSE
    /\ opened = {}
    /\ result = Nothing

IsInitialized == ValidPair(readHead, writeHead) /\ stamped

\* initialize()
Initialize ==
    /\ readHead' = Zero
    /\ writeHead' = Zero
    /\ stamped' = TRUE
    /\ UNCHANGED data

\* The constructor of either side.
Open(s) ==
    /\ s \notin opened
    /\ opened' = opened \cup {s}
    /\ IF IsInitialized THEN UNCHANGED memory ELSE Initialize
    /\ UNCHANGED result

\* The destructor does nothing; the process may also just end.
Close(s) ==
    /\ s \in opened
    /\ opened' = opened \ {s}
    /\ UNCHANGED <<memory, result>>

\* Bound: the writer never gets LapMod laps ahead of the reader, where the
\* lap counters cannot tell a full buffer from an empty one.
LapBound == Advance(writeHead).index = 0
                => LapsBehind(readHead, Advance(writeHead)) # 0

\* do_write
Write(v) ==
    /\ "writer" \in opened
    /\ LapBound
    /\ data' = [data EXCEPT ![writeHead.index] = v]
    /\ writeHead' = Advance(writeHead)
    /\ UNCHANGED <<readHead, stamped, opened, result>>

\* do_read when there is nothing to read.
ReadNothing ==
    /\ "reader" \in opened
    /\ readHead = writeHead
    /\ result' = Nothing
    /\ UNCHANGED <<memory, opened>>

\* do_read: catch up, take the element, advance.
Read ==
    /\ "reader" \in opened
    /\ readHead # writeHead
    /\ LET head == CatchUp(readHead, writeHead)
       IN  /\ result' = data[head.index]
           /\ readHead' = Advance(head)
    /\ UNCHANGED <<data, writeHead, stamped, opened>>

Next ==
    \/ \E s \in Sides : Open(s) \/ Close(s)
    \/ \E v \in Values : Write(v)
    \/ ReadNothing
    \/ Read

Spec == Init /\ [][Next]_vars

-------------------------------------------------------------------------------
(* Properties *)

\* Types; once the buffer is stamped its indices are those of slots, and the
\* reader is not ahead of the writer.
TypeOK ==
    /\ data \in [0 .. N - 1 -> Values]
    /\ writeHead \in [index : 0 .. N, lap : 0 .. LapMod - 1]
    /\ readHead \in [index : 0 .. N, lap : 0 .. LapMod - 1]
    /\ stamped \in BOOLEAN
    /\ opened \in SUBSET Sides
    /\ result \in Values \cup {Nothing}

\* A stamped buffer has heads that designate slots, and a reader that is on
\* the lap of the writer is not ahead of it; an open buffer is stamped.
HeadsInOrder ==
    /\ opened # {} => stamped
    /\ stamped =>
          /\ writeHead \in Heads /\ readHead \in Heads
          /\ LapsBehind(readHead, writeHead) = 0
                => readHead.index <= writeHead.index

\* What the reader has not got yet, oldest first.
Pending == LastWritten(data, writeHead.index,
                       IF stamped THEN Unread(readHead, writeHead) ELSE 0)

Promise == INSTANCE LossyQueue WITH
    queue      <- Pending,
    straddling <- readHead.lap > writeHead.lap

\* The reader gets the elements in the order of the writes, each of them once,
\* except those that were overwritten before it came; it is told that the
\* buffer is empty only when it is; and what it has not read survives the end
\* and the reconstruction of both objects, unless the lap counter has wrapped
\* between the reader and the writer.
ImplementsLossyQueue == Promise!Spec
===============================================================================
