------------------------------- MODULE BufferDemo -------------------------------
(***************************************************************************)
(* demos/buffer/buffer.cpp: a process that writes what it measures at the  *)
(* pace of a Waiter, a process that polls with another, and the process    *)
(* that starts them.  The accesses of the two to the buffer are those of   *)
(* CircularConc, each a step; what this module adds is time: how late a    *)
(* process may be between two readings of its clock.                       *)
(*                                                                         *)
(* The elements are numbered in the order of the writes, those that an     *)
(* earlier run left in the shared memory included.                         *)
(***************************************************************************)
EXTENDS Waiter

CONSTANTS
    N, LapMod,
    NumWrites,      \* NUM_WRITES
    StartSleep,     \* micro_sleep(2000) of main
    ChildSleep,     \* milli_sleep(1) of the consumer
    Leftovers       \* how many unread elements an earlier run may have left

\* The counter of laps does not wrap: 2^32 laps in the code, of which it uses 3.
ASSUME DemoAssumption ==
    /\ Processes = {"main", "producer", "consumer"}
    /\ Waiters = {"producer", "consumer"}
    /\ N \in Nat /\ N >= 2 /\ LapMod \in Nat /\ LapMod >= 2
    /\ NumWrites \in Nat \ {0} /\ NumWrites + N <= N * LapMod
    /\ StartSleep \in Nat /\ ChildSleep \in Nat
    /\ Leftovers \subseteq 0 .. N - 1

VARIABLES
    data, writeHead, readHead, key, crc,    \* as in CircularConc
    at,                                     \* its pc
    copy, head, value, count, last, seen, sound, crashes, wide,
    pc,
    elapsed,    \* producer: the time since begin
    written,    \* producer: the writes it has begun, with those before
    reads,      \* consumer: i
    left,       \* what the earlier run left
    halfway     \* history: the consumer looked at write_head in the middle of advance()

time == <<deadline, pause, lag>>
buffer == <<data, writeHead, readHead, key, crc, at,
            copy, head, value, count, last, seen, sound, crashes, wide>>
counts == <<written, reads, left>>
vars == <<time, buffer, pc, elapsed, counts, halfway>>

\* A Head, of eight bytes, is copied in one access, and no process is killed.
Buffer == INSTANCE CircularConc
          WITH pc <- at,
               WideCopies <- {TRUE}, MaxWrites <- N + NumWrites, MaxCrashes <- 0

\* shm_open does not empty a memory that exists; a new one holds zeros.
Init ==
    /\ WaiterInit
    /\ left \in Leftovers
    /\ data = [i \in 0 .. N - 1 |-> IF i < left THEN i + 1 ELSE 0]
    /\ readHead = Buffer!Zero
    /\ writeHead = [Buffer!Zero EXCEPT !.index = left]
    /\ key = (left > 0) /\ crc = (left > 0)
    /\ at = [s \in Buffer!Sides |-> "down"]
    /\ copy = Buffer!Zero /\ head = Buffer!Zero /\ value = 0
    /\ count = left /\ last = 0 /\ seen = 0 /\ sound = TRUE
    /\ crashes = 0 /\ wide = TRUE
    /\ pc = [main |-> "starting", producer |-> "opening", consumer |-> "absent"]
    /\ pause = [main |-> StartSleep, producer |-> 0, consumer |-> 0]
    /\ elapsed = 0 /\ written = 0 /\ reads = 0
    /\ halfway = FALSE

Goto(p, from, to) == pc[p] = from /\ pc' = [pc EXCEPT ![p] = to]

\* p accesses the buffer, between two readings of its clock.
Access(p) == pause[p] <= 0 /\ UNCHANGED time

-------------------------------------------------------------------------------
(* producer *)

\* The constructor of the writer.
OpenWriter ==
    /\ Goto("producer", "opening", "opening")
    /\ Access("producer")
    /\ Buffer!Construct("writer") \/ Buffer!Initializing("writer")
    /\ UNCHANGED <<elapsed, counts, halfway>>

\* begin = micro_now(), and the waiter.
Begin ==
    /\ at["writer"] = "idle"
    /\ Goto("producer", "opening", "resetting")
    /\ Runs("producer", 0)
    /\ ResetWaiter("producer")
    /\ elapsed' = 0
    /\ UNCHANGED <<buffer, counts, halfway>>

ResetProducer ==
    /\ Goto("producer", "resetting", "waiting")
    /\ Runs("producer", 0)
    /\ ResetWaiter("producer")
    /\ UNCHANGED <<buffer, elapsed, counts, halfway>>

WaitProducer ==
    /\ \/ Goto("producer", "waiting", "writing") /\ WaitOver("producer")
       \/ Goto("producer", "waiting", "waiting") /\ WaitLonger("producer")
    /\ UNCHANGED <<buffer, elapsed, counts, halfway>>

\* end = micro_now(), which is the next begin.
Measure ==
    /\ Goto("producer", "writing", "storing")
    /\ Runs("producer", 0)
    /\ elapsed' = 0
    /\ written' = written + 1
    /\ UNCHANGED <<deadline, buffer, reads, left, halfway>>

\* writer.write(): the store into the slot, and those of advance().
StoreElement ==
    /\ Goto("producer", "storing", "advancing")
    /\ Access("producer")
    /\ Buffer!WriteSlot
    /\ UNCHANGED <<elapsed, counts, halfway>>

AdvanceWriter ==
    /\ Access("producer")
    /\ Buffer!Advancing
    /\ Goto("producer", "advancing",
            IF at'["writer"] # "idle" THEN "advancing"
            ELSE IF written = NumWrites THEN "done" ELSE "resetting")
    /\ UNCHANGED <<elapsed, counts, halfway>>

-------------------------------------------------------------------------------
(* consumer *)

\* The consumer looks at write_head.
Look == halfway' = (halfway \/ at["writer"] \in {"reset", "lap"})

\* The constructor of the reader.
OpenReader ==
    /\ Goto("consumer", "opening", "opening")
    /\ Access("consumer")
    /\ \/ Buffer!Construct("reader") /\ Look
       \/ Buffer!Initializing("reader") /\ UNCHANGED halfway
    /\ UNCHANGED <<elapsed, counts>>

\* The waiter.
MakeWaiter ==
    /\ at["reader"] = "idle"
    /\ Goto("consumer", "opening", "resetting")
    /\ Runs("consumer", 0)
    /\ ResetWaiter("consumer")
    /\ UNCHANGED <<buffer, elapsed, counts, halfway>>

\* The head of the loop, and waiter.reset().
ResetConsumer ==
    /\ reads < NumWrites
    /\ Goto("consumer", "resetting", "reading")
    /\ Runs("consumer", 0)
    /\ ResetWaiter("consumer")
    /\ UNCHANGED <<buffer, elapsed, counts, halfway>>

LeaveConsumer ==
    /\ reads = NumWrites
    /\ Goto("consumer", "resetting", "done")
    /\ Runs("consumer", 0)
    /\ UNCHANGED <<deadline, buffer, elapsed, counts, halfway>>

\* Mutation of CopyWriteHead: an attempt that fails counts too.
CopyWriteHeadCounts ==
    /\ Access("consumer")
    /\ Buffer!CopyWide /\ Look
    /\ Goto("consumer", "reading", IF at'["reader"] = "idle" THEN "resetting" ELSE "reading")
    /\ reads' = IF at'["reader"] = "idle" THEN reads + 1 ELSE reads
    /\ UNCHANGED <<elapsed, written, left>>

\* reader.read(elapsed): the copy of write_head, after which it returns false or
\* goes on to the slot.
CopyWriteHead ==
    /\ Access("consumer")
    /\ Buffer!CopyWide /\ Look
    /\ Goto("consumer", "reading", IF at'["reader"] = "idle" THEN "waiting" ELSE "reading")
    /\ UNCHANGED <<elapsed, counts>>

TakeElement ==
    /\ Goto("consumer", "reading", "reading")
    /\ Access("consumer")
    /\ Buffer!TakeSlot
    /\ UNCHANGED <<elapsed, counts, halfway>>

\* The store of read_head; read returns true.
StoreReadHead ==
    /\ Goto("consumer", "reading", "resetting")
    /\ Access("consumer")
    /\ Buffer!StoreWide
    /\ reads' = reads + 1
    /\ UNCHANGED <<elapsed, written, left, halfway>>

\* The waiter is not reset between two attempts: only the first one is waited for.
WaitConsumer ==
    /\ \/ Goto("consumer", "waiting", "reading") /\ WaitOver("consumer")
       \/ Goto("consumer", "waiting", "waiting") /\ WaitLonger("consumer")
    /\ UNCHANGED <<buffer, elapsed, counts, halfway>>

-------------------------------------------------------------------------------
(* main *)

\* The sleep of main is over: fork, and the consumer sleeps first.
StartConsumer ==
    /\ pause["main"] <= 0
    /\ pc["main"] = "starting"
    /\ pc' = [pc EXCEPT !["main"] = "waiting", !["consumer"] = "opening"]
    /\ pause' = [pause EXCEPT !["main"] = 0, !["consumer"] = ChildSleep]
    /\ UNCHANGED <<deadline, lag, buffer, elapsed, counts, halfway>>


\* Both waitpid, then shm_unlink.
Finish ==
    /\ pc["producer"] = "done" /\ pc["consumer"] = "done"
    /\ Goto("main", "waiting", "done")
    /\ UNCHANGED <<time, buffer, elapsed, counts, halfway>>

-------------------------------------------------------------------------------

Produce ==
    \/ OpenWriter \/ Begin \/ ResetProducer \/ WaitProducer
    \/ Measure \/ StoreElement \/ AdvanceWriter
Consume ==
    \/ OpenReader \/ MakeWaiter \/ ResetConsumer \/ LeaveConsumer
    \/ CopyWriteHead \/ TakeElement \/ StoreReadHead \/ WaitConsumer
Main == StartConsumer \/ Finish

\* Those that run or sleep, rather than wait for a child.
Running == {p \in Processes :
               /\ pc[p] \notin {"absent", "done"}
               /\ p = "main" => pc[p] = "starting"}

Pass ==
    /\ Running # {}
    /\ Tick(Running)
    /\ elapsed' = IF pc["producer"] \in {"opening", "done"} THEN 0 ELSE elapsed + 1
    /\ UNCHANGED <<buffer, pc, counts, halfway>>

Next == Produce \/ Consume \/ Main \/ Pass

\* The system schedules each process, and time passes.
Spec == /\ Init /\ [][Next]_vars
        /\ WF_vars(Produce) /\ WF_vars(Consume) /\ WF_vars(Main) /\ WF_vars(Pass)

-------------------------------------------------------------------------------
(* Properties *)

\* Types.
TypeOK ==
    /\ Buffer!TypeOK
    /\ \A p \in Waiters : deadline[p] \in -Units[p] .. Units[p]
    /\ lag \in Lags
    /\ \A p \in Processes : pause[p] \in Int /\ pause[p] >= -lag[p]
    /\ pc["producer"] \in {"opening", "resetting", "waiting", "writing",
                           "storing", "advancing", "done"}
    /\ pc["consumer"] \in {"absent", "opening", "resetting", "reading", "waiting",
                           "done"}
    /\ pc["main"] \in {"starting", "waiting", "done"}
    /\ elapsed \in Nat
    /\ written \in 0 .. NumWrites /\ reads \in 0 .. NumWrites
    /\ left \in Leftovers
    /\ halfway \in BOOLEAN

\* "preparing a processing that would take roughly one millisecond each lap"
\* (buffer.cpp:50): what is measured is never less than the period of the
\* waiter, and more than it only by a tenth of it and by what the scheduler takes
\* three times: the waiter neither ends early nor drifts (Waiter.h:53-69).
Paced ==
    pc["producer"] = "writing" =>
        LET period == Units["producer"]
        IN  elapsed \in period .. period + period \div 10 + 3 * lag["producer"]

\* "consumption has to be faster than production, to avoid dirty reads"
\* (buffer.cpp:79), in numbers: the first read is over before the buffer is full;
\* the time from a read to the end of the next attempt is shorter than the period;
\* and the time from an attempt that fails, perhaps while an element is being
\* written, to the end of the next is shorter than two.
FirstRead == StartSleep + lag["main"] + ChildSleep + 3 * lag["consumer"]
KeepsUp ==
    /\ left + FirstRead \div Units["producer"] <= N
    /\ 2 * lag["consumer"] < Units["producer"]
    /\ Units["consumer"] + SleepSize("consumer") + 2 * lag["consumer"] + lag["producer"]
          < 2 * Units["producer"]

\* What "faster" buys, and what it does not.  A consumer that keeps up, and that
\* never happened to look at write_head while advance() was between ++head.index
\* and ++head.lap (Circular.h:220-223), has read every element up to the last
\* one, once and in order, what the earlier run left first, and each element
\* that it has not read is still in its slot.  The condition on its looks is not
\* one that any pace gives: a look that falls there, however fast the consumer
\* is, finds a head that is a lap behind or outside the array, and InStep says
\* nothing from there on.
InStep ==
    KeepsUp /\ ~halfway =>
        /\ last = reads
        /\ \A k \in last + 1 .. count : data[(k - 1) % N] = k

\* The elements that were overwritten before they were read.
Lost == left + written - reads - Buffer!Unread(readHead, writeHead)

===============================================================================
