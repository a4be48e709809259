---------------------------- MODULE BufferDemoProofs -----------------------------
(***************************************************************************)
(* Proofs about the demo for any periods, any lateness, any buffer and any *)
(* number of writes: what it measures is within the bounds that Waiter     *)
(* gives it; and a consumer that keeps up, and whose looks at the write    *)
(* head do not fall into advance(), gets every element in order.           *)
(***************************************************************************)
EXTENDS BufferDemo, TLAPS

P == "producer"

Places == {"starting", "opening", "resetting", "waiting", "writing", "storing",
           "advancing", "reading", "absent", "done"}

\* The types that the argument needs.
PaceTypes ==
    /\ pause \in [Processes -> Int]
    /\ deadline \in [Waiters -> Int]
    /\ lag \in [Processes -> Nat]
    /\ elapsed \in Nat
    /\ pause[P] >= -lag[P]
    /\ pc \in [Processes -> Places]

\* The lateness is consumed as pause[P] falls below zero, so that elapsed + pause[P]
\* does not change while time passes.
PaceResetting == elapsed + pause[P] <= 0

\* The deadline was set at most lag[P] after begin; a sleep begins before it.
PaceWaiting ==
    /\ elapsed + deadline[P] >= Units[P]
    /\ deadline[P] > -Units[P] => elapsed + deadline[P] <= Units[P] + lag[P]
    /\ elapsed + pause[P] <= Units[P] + Units[P] \div 10 + lag[P]

PaceWriting ==
    /\ elapsed >= Units[P]
    /\ elapsed + pause[P] <= Units[P] + Units[P] \div 10 + 2 * lag[P]

PaceInv ==
    /\ PaceTypes
    /\ pc[P] \in {"storing", "advancing", "resetting"} => PaceResetting
    /\ pc[P] = "waiting" => PaceWaiting
    /\ pc[P] = "writing" => PaceWriting

-------------------------------------------------------------------------------

\* The constants of the producer.
LEMMA ProducerConstants ==
    /\ P \in Processes /\ P \in Waiters
    /\ Units[P] \in Nat /\ Units[P] > 0
    /\ Units[P] \div 10 \in Nat
    /\ SleepSize(P) \in Nat /\ SleepSize(P) <= Units[P] \div 10 + 1
    /\ Waiters \subseteq Processes
<1>1. P \in Processes /\ P \in Waiters
  BY DemoAssumption DEF P
<1>2. Waiters \subseteq Processes
  BY WaiterAssumption DEF Waiters
<1>3. Units[P] \in Nat /\ Units[P] > 0
  <2>1. Units[P] \in Nat \ {0}
    BY <1>1, WaiterAssumption DEF Waiters
  <2> QED
    BY <2>1
<1>4. Units[P] \div 10 \in Nat
  BY <1>3
<1>5. SleepSize(P) \in Nat /\ SleepSize(P) <= Units[P] \div 10 + 1
  BY <1>3, <1>4 DEF SleepSize
<1> QED
  BY <1>1, <1>2, <1>3, <1>4, <1>5

LEMMA PaceInit == Init => PaceInv
<1> SUFFICES ASSUME Init PROVE PaceInv
  OBVIOUS
<1> USE ProducerConstants
<1>1. lag \in [Processes -> Nat] /\ deadline \in [Waiters -> Int]
  BY WaiterAssumption DEF Init, WaiterInit
<1>2. pause \in [Processes -> Int] /\ pause[P] = 0
  BY DemoAssumption DEF Init, P, Places
<1>3. elapsed = 0 /\ pc[P] = "opening" /\ pc \in [Processes -> Places]
  BY DemoAssumption DEF Init, P, Places
<1> QED
  BY <1>1, <1>2, <1>3 DEF PaceInv, PaceTypes, Places

-------------------------------------------------------------------------------
(* The steps of the producer *)

LEMMA BeginPace == PaceInv /\ Begin => PaceInv'
<1> SUFFICES ASSUME PaceInv, Begin PROVE PaceInv'
  OBVIOUS
<1> USE ProducerConstants
<1>1. /\ pc[P] = "opening" /\ pc' = [pc EXCEPT ![P] = "resetting"]
      /\ pause' = [pause EXCEPT ![P] = 0] /\ lag' = lag
      /\ deadline' = [deadline EXCEPT ![P] = Units[P]]
      /\ elapsed' = 0
  BY DEF Begin, Goto, Runs, ResetWaiter, P
<1>2. PaceTypes' /\ pause'[P] = 0 /\ pc'[P] = "resetting"
  BY <1>1 DEF PaceInv, PaceTypes, Places
<1> QED
  BY <1>1, <1>2 DEF PaceInv, PaceResetting

LEMMA ResetProducerPace == PaceInv /\ ResetProducer => PaceInv'
<1> SUFFICES ASSUME PaceInv, ResetProducer PROVE PaceInv'
  OBVIOUS
<1> USE ProducerConstants
<1>1. /\ pc[P] = "resetting" /\ pc' = [pc EXCEPT ![P] = "waiting"]
      /\ pause' = [pause EXCEPT ![P] = 0] /\ lag' = lag
      /\ deadline' = [deadline EXCEPT ![P] = Units[P]]
      /\ elapsed' = elapsed
  BY DEF ResetProducer, Goto, Runs, ResetWaiter, P
<1>2. /\ PaceTypes' /\ pause'[P] = 0 /\ pc'[P] = "waiting" /\ deadline'[P] = Units[P]
      /\ pause[P] \in Int /\ lag[P] \in Nat /\ elapsed \in Nat /\ lag'[P] = lag[P]
  BY <1>1 DEF PaceInv, PaceTypes, Places
<1>3. elapsed <= lag[P]
  BY <1>1, <1>2 DEF PaceInv, PaceTypes, PaceResetting
<1>4. PaceWaiting'
  BY <1>1, <1>2, <1>3 DEF PaceWaiting
<1> QED
  BY <1>2, <1>4 DEF PaceInv

LEMMA WaitProducerPace == PaceInv /\ WaitProducer => PaceInv'
<1> SUFFICES ASSUME PaceInv, WaitProducer PROVE PaceInv'
  OBVIOUS
<1> USE ProducerConstants
<1>1. /\ pc[P] = "waiting" /\ lag' = lag /\ deadline' = deadline /\ elapsed' = elapsed
      /\ pause[P] \in Int /\ lag[P] \in Nat /\ elapsed \in Nat /\ deadline[P] \in Int
      /\ pause[P] >= -lag[P]
  BY DEF WaitProducer, Goto, WaitOver, WaitLonger, Runs, P, PaceInv, PaceTypes
<1>2. PaceWaiting
  BY <1>1 DEF PaceInv
<1>3. CASE /\ pc' = [pc EXCEPT ![P] = "writing"] /\ deadline[P] <= 0
           /\ pause' = [pause EXCEPT ![P] = 0]
  <2>1. PaceTypes' /\ pause'[P] = 0 /\ pc'[P] = "writing"
    BY <1>1, <1>3 DEF PaceInv, PaceTypes, Places
  <2>2. PaceWriting'
    BY <1>1, <1>2, <1>3, <2>1 DEF PaceWaiting, PaceWriting
  <2> QED
    BY <2>1, <2>2 DEF PaceInv
<1>4. CASE /\ pc' = [pc EXCEPT ![P] = "waiting"] /\ ~(deadline[P] <= 0)
           /\ pause' = [pause EXCEPT ![P] = SleepSize(P)]
  <2>1. PaceTypes' /\ pause'[P] = SleepSize(P) /\ pc'[P] = "waiting"
    BY <1>1, <1>4 DEF PaceInv, PaceTypes, Places
  <2>2. elapsed <= Units[P] + lag[P] - 1
    BY <1>1, <1>2, <1>4 DEF PaceWaiting
  <2>3. PaceWaiting'
    BY <1>1, <1>2, <1>4, <2>1, <2>2 DEF PaceWaiting
  <2> QED
    BY <2>1, <2>3 DEF PaceInv
<1> QED
  BY <1>3, <1>4 DEF WaitProducer, Goto, WaitOver, WaitLonger, Runs, Elapsed, P

LEMMA MeasurePace == PaceInv /\ Measure => PaceInv'
<1> SUFFICES ASSUME PaceInv, Measure PROVE PaceInv'
  OBVIOUS
<1> USE ProducerConstants
<1>1. /\ pc' = [pc EXCEPT ![P] = "storing"]
      /\ pause' = [pause EXCEPT ![P] = 0] /\ lag' = lag
      /\ deadline' = deadline /\ elapsed' = 0
  BY DEF Measure, Goto, Runs, P
<1>2. PaceTypes' /\ pause'[P] = 0 /\ pc'[P] = "storing"
  BY <1>1 DEF PaceInv, PaceTypes, Places
<1> QED
  BY <1>1, <1>2 DEF PaceInv, PaceResetting

\* An access to the buffer takes no time.
LEMMA AccessPace ==
    PaceInv /\ (OpenWriter \/ StoreElement \/ AdvanceWriter) => PaceInv'
<1> SUFFICES ASSUME PaceInv, OpenWriter \/ StoreElement \/ AdvanceWriter
             PROVE PaceInv'
  OBVIOUS
<1> USE ProducerConstants
<1>1. /\ UNCHANGED <<deadline, pause, lag, elapsed>>
      /\ \/ pc[P] = "opening" /\ pc' = [pc EXCEPT ![P] = "opening"]
         \/ pc[P] = "storing" /\ pc' = [pc EXCEPT ![P] = "advancing"]
         \/ /\ pc[P] = "advancing"
            /\ \E to \in {"advancing", "done", "resetting"} : pc' = [pc EXCEPT ![P] = to]
  BY DEF OpenWriter, StoreElement, AdvanceWriter, Access, time, Goto, P
<1>2. PaceTypes'
  BY <1>1 DEF PaceInv, PaceTypes, Places
<1>3. \/ pc'[P] \in {"opening", "done"}
      \/ /\ pc[P] \in {"storing", "advancing"}
         /\ pc'[P] \in {"advancing", "resetting"}
  BY <1>1 DEF PaceInv, PaceTypes
<1> QED
  BY <1>1, <1>2, <1>3 DEF PaceInv, PaceResetting

-------------------------------------------------------------------------------
(* The others *)

\* A step that changes nothing of the producer keeps its pace.
LEMMA OthersPace ==
    ASSUME PaceInv, PaceTypes', elapsed' = elapsed, lag' = lag,
           pc'[P] = pc[P], pause'[P] = pause[P], deadline'[P] = deadline[P]
    PROVE  PaceInv'
BY DEF PaceInv, PaceResetting, PaceWaiting, PaceWriting

LEMMA ConsumerPace == PaceInv /\ Consume => PaceInv'
<1> SUFFICES ASSUME PaceInv, Consume PROVE PaceInv'
  OBVIOUS
<1> USE ProducerConstants
<1> DEFINE c == "consumer"
<1>1. c \in Processes /\ c \in Waiters /\ c # P
  BY DemoAssumption DEF P
<1>2. Units[c] \in Nat /\ SleepSize(c) \in Nat
  <2>1. Units[c] \in Nat \ {0}
    BY <1>1, WaiterAssumption DEF Waiters
  <2> QED
    BY <2>1 DEF SleepSize
<1>3. /\ elapsed' = elapsed /\ lag' = lag
      /\ \E pcOf : pc' = [pc EXCEPT ![c] = pcOf]
                   /\ pcOf \in {"opening", "resetting", "reading", "waiting", "done"}
      /\ \/ pause' = pause
         \/ \E sleep \in {0, SleepSize(c)} : pause' = [pause EXCEPT ![c] = sleep]
      /\ deadline' = deadline \/ deadline' = [deadline EXCEPT ![c] = Units[c]]
  BY DEF Consume, OpenReader, MakeWaiter, ResetConsumer, LeaveConsumer, CopyWriteHead,
         TakeElement, StoreReadHead, WaitConsumer, Goto, Runs, WaitOver, WaitLonger,
         ResetWaiter, Access, time
<1>4. /\ pc' \in [Processes -> Places] /\ pc'[P] = pc[P]
      /\ pause' \in [Processes -> Int] /\ pause'[P] = pause[P]
      /\ deadline' \in [Waiters -> Int] /\ deadline'[P] = deadline[P]
  BY <1>1, <1>2, <1>3 DEF PaceInv, PaceTypes, Places
<1>5. PaceTypes'
  BY <1>3, <1>4 DEF PaceInv, PaceTypes, Places
<1> QED
  BY <1>3, <1>4, <1>5, OthersPace

LEMMA MainPace == PaceInv /\ Main => PaceInv'
<1> SUFFICES ASSUME PaceInv, Main PROVE PaceInv'
  OBVIOUS
<1> USE ProducerConstants
<1>1. "main" # P /\ "consumer" # P
  BY DEF P
<1>2. /\ elapsed' = elapsed /\ lag' = lag /\ deadline' = deadline
      /\ \/ pc' = [pc EXCEPT !["main"] = "waiting", !["consumer"] = "opening"]
         \/ pc' = [pc EXCEPT !["main"] = "done"]
      /\ \/ pause' = pause
         \/ pause' = [pause EXCEPT !["main"] = 0, !["consumer"] = ChildSleep]
  BY DEF Main, StartConsumer, Finish, Goto, time
<1>3. ChildSleep \in Int
  BY DemoAssumption
<1>4. /\ pc' \in [Processes -> Places] /\ pc'[P] = pc[P]
      /\ pause' \in [Processes -> Int] /\ pause'[P] = pause[P]
  BY <1>1, <1>2, <1>3 DEF PaceInv, PaceTypes, Places
<1>5. PaceTypes'
  BY <1>2, <1>4 DEF PaceInv, PaceTypes, Places
<1> QED
  BY <1>2, <1>4, <1>5, OthersPace

LEMMA PassPace == PaceInv /\ Pass => PaceInv'
<1> SUFFICES ASSUME PaceInv, Pass PROVE PaceInv'
  OBVIOUS
<1> USE ProducerConstants
<1>1. /\ pause' = [p \in Processes |-> IF p \in Running THEN pause[p] - 1 ELSE pause[p]]
      /\ deadline' = [p \in Waiters |->
                         IF p \in Running /\ deadline[p] > -Units[p]
                         THEN deadline[p] - 1 ELSE deadline[p]]
      /\ lag' = lag /\ pc' = pc
      /\ P \in Running => pause[P] > -lag[P]
      /\ elapsed' = IF pc[P] \in {"opening", "done"} THEN 0 ELSE elapsed + 1
  BY DEF Pass, Tick, P
<1>2. /\ pause[P] \in Int /\ lag[P] \in Nat /\ elapsed \in Nat /\ deadline[P] \in Int
      /\ pause[P] >= -lag[P]
  BY DEF PaceInv, PaceTypes, Places
<1>3. PaceTypes'
  <2>1. pause' \in [Processes -> Int]
    BY <1>1 DEF PaceInv, PaceTypes, Places
  <2>2. deadline' \in [Waiters -> Int]
    BY <1>1 DEF PaceInv, PaceTypes, Places
  <2>3. pause'[P] >= -lag'[P]
    BY <1>1, <1>2
  <2> QED
    BY <1>1, <2>1, <2>2, <2>3 DEF PaceInv, PaceTypes, Places
<1>4. ASSUME pc[P] \in {"storing", "advancing", "resetting", "waiting", "writing"}
      PROVE  /\ elapsed' = elapsed + 1 /\ pause'[P] = pause[P] - 1
             /\ deadline'[P] = IF deadline[P] > -Units[P] THEN deadline[P] - 1
                               ELSE deadline[P]
  <2>1. P \in Running
    BY <1>4 DEF Running, P
  <2> QED
    BY <1>1, <1>4, <2>1
<1>5. pc[P] \in {"storing", "advancing", "resetting"} => PaceResetting'
  BY <1>2, <1>4 DEF PaceInv, PaceResetting
<1>6. pc[P] = "waiting" => PaceWaiting'
  BY <1>1, <1>2, <1>4 DEF PaceInv, PaceWaiting
<1>7. pc[P] = "writing" => PaceWriting'
  BY <1>1, <1>2, <1>4 DEF PaceInv, PaceWriting
<1> QED
  BY <1>1, <1>3, <1>5, <1>6, <1>7 DEF PaceInv

-------------------------------------------------------------------------------

LEMMA NextPace == PaceInv /\ [Next]_vars => PaceInv'
<1> SUFFICES ASSUME PaceInv, [Next]_vars PROVE PaceInv'
  OBVIOUS
<1>1. CASE Produce
  BY <1>1, BeginPace, ResetProducerPace, WaitProducerPace, MeasurePace, AccessPace
     DEF Produce
<1>2. CASE Consume
  BY <1>2, ConsumerPace
<1>3. CASE Main
  BY <1>3, MainPace
<1>4. CASE Pass
  BY <1>4, PassPace
<1>5. CASE UNCHANGED vars
  BY <1>5 DEF vars, time, PaceInv, PaceTypes, PaceResetting, PaceWaiting, PaceWriting
<1> QED
  BY <1>1, <1>2, <1>3, <1>4, <1>5 DEF Next

\* What the producer measures is a period, and more only by a tenth of it and three
\* times the lateness of the scheduler (Waiter.h:38-69, buffer.cpp:50-60).
THEOREM ProducerPaced == Spec => []Paced
<1>1. Init => PaceInv
  BY PaceInit
<1>2. PaceInv => Paced
  <2> SUFFICES ASSUME PaceInv, pc[P] = "writing"
               PROVE elapsed \in Units[P] .. Units[P] + Units[P] \div 10 + 3 * lag[P]
    BY DEF Paced, P
  <2>1. /\ pause[P] \in Int /\ lag[P] \in Nat /\ elapsed \in Nat /\ pause[P] >= -lag[P]
    BY ProducerConstants DEF PaceInv, PaceTypes, Places
  <2>2. PaceWriting
    BY DEF PaceInv
  <2> QED
    BY <2>1, <2>2, ProducerConstants DEF PaceWriting
<1> QED
  BY <1>1, <1>2, NextPace, PTL DEF Spec

-------------------------------------------------------------------------------
(* The buffer *)
C == "consumer"
M == "main"
W == "writer"
R == "reader"

\* What is proved about CircularConc, for the buffer of the demo.
Proved == INSTANCE CircularConcProofs
          WITH pc <- at,
               WideCopies <- {TRUE}, MaxWrites <- N + NumWrites, MaxCrashes <- 0

Inits == {"read_head", "write_head", "key", "crc"}

\* How many elements the consumer has not got yet, the one being written included.
Kept == left + written - reads

PcTypes ==
    /\ pc \in [Processes -> Places]
    /\ pc[P] \in {"opening", "resetting", "waiting", "writing", "storing", "advancing",
                  "done"}
    /\ pc[C] \in {"absent", "opening", "resetting", "reading", "waiting", "done"}
    /\ pc[M] \in {"starting", "waiting", "done"}

TimeTypes ==
    /\ lag \in Lags
    /\ pause \in [Processes -> Int]
    /\ deadline \in [Waiters -> Int]
    /\ \A p \in Waiters : deadline[p] >= -Units[p] /\ deadline[p] <= Units[p]
    /\ \A p \in Processes : pause[p] >= -lag[p]

\* The write head was advanced once for each write that is over.
CountTypes ==
    /\ left \in Leftovers /\ elapsed \in Nat /\ halfway \in BOOLEAN
    /\ written \in 0 .. NumWrites /\ reads \in 0 .. NumWrites
    /\ pc[P] \in {"resetting", "waiting", "writing"} => written < NumWrites
    /\ pc[C] \in {"reading", "waiting"} => reads < NumWrites
    /\ count = IF pc[P] \in {"storing", "advancing"} THEN left + written - 1
               ELSE left + written

\* Where the two are in the code of the buffer.
AtPlaces ==
    /\ pc[P] = "opening" =>
          at[W] \in Inits \cup {"down", "idle"} /\ written = 0 /\ elapsed = 0
    /\ pc[P] \in {"resetting", "waiting", "writing", "storing", "done"} => at[W] = "idle"
    /\ pc[P] \in {"storing", "advancing"} => written > 0
    /\ pc[P] = "advancing" => at[W] \in {"advance", "reset", "lap"}
    /\ pc[C] = "absent" => at[R] = "down"
    /\ pc[C] = "opening" => at[R] \in Inits \cup {"down", "idle"}
    /\ pc[C] \in {"absent", "opening"} => reads = 0
    /\ pc[C] \in {"resetting", "waiting", "done"} => at[R] = "idle"
    /\ pc[C] = "reading" => at[R] \in {"idle", "take", "store"}
    /\ pc[C] = "absent" <=> pc[M] = "starting"
    /\ pc[C] = "done" => reads = NumWrites

\* The memory is stamped once the writer is open, and no slot holds an element that
\* was not written.
Stamped ==
    /\ wide = TRUE
    /\ at[W] \notin {"down", "read_head", "write_head", "key"} => key = TRUE
    /\ at[W] \notin Inits \cup {"down"} => crc = TRUE
    /\ left > 0 => key = TRUE /\ crc = TRUE
    /\ \A i \in 0 .. N - 1 : data[i] <= left + written

DemoInv ==
    /\ PcTypes /\ TimeTypes /\ CountTypes /\ AtPlaces /\ Stamped
    /\ Proved!ConcInv

LEMMA DemoConstants ==
    /\ P \in Processes /\ C \in Processes /\ M \in Processes
    /\ P \in Waiters /\ C \in Waiters
    /\ P # C /\ P # M /\ C # M
    /\ Processes = {M, P, C} /\ Waiters = {P, C}
    /\ \A p \in Waiters : Units[p] \in Nat /\ Units[p] > 0
    /\ \A p \in Waiters : SleepSize(p) \in Nat
    /\ \A l \in Lags : \A p \in Processes : l[p] \in Nat
    /\ N \in Nat /\ N >= 2 /\ NumWrites \in Nat /\ NumWrites > 0
    /\ StartSleep \in Nat /\ ChildSleep \in Nat
    /\ \A l \in Leftovers : l \in Nat /\ l < N
<1>1. /\ Processes = {M, P, C} /\ Waiters = {P, C}
      /\ P # C /\ P # M /\ C # M
  BY DemoAssumption DEF P, C, M
<1>2. ASSUME NEW p \in Waiters
      PROVE  Units[p] \in Nat /\ Units[p] > 0 /\ SleepSize(p) \in Nat
  <2>1. Units[p] \in Nat \ {0}
    BY WaiterAssumption DEF Waiters
  <2>2. QED
    BY <2>1 DEF SleepSize
<1>3. \A l \in Lags : \A p \in Processes : l[p] \in Nat
  BY WaiterAssumption
<1>4. /\ N \in Nat /\ N >= 2 /\ NumWrites \in Nat /\ NumWrites > 0
      /\ StartSleep \in Nat /\ ChildSleep \in Nat
      /\ \A l \in Leftovers : l \in Nat /\ l < N
  BY DemoAssumption
<1>5. QED
  BY <1>1, <1>2, <1>3, <1>4

LEMMA DemoProcesses ==
    /\ P \in Processes /\ C \in Processes /\ M \in Processes
    /\ P \in Waiters /\ C \in Waiters
    /\ P # C /\ P # M /\ C # M
BY DemoConstants

LEMMA BufferAssumptions == Proved!CircularAssumption /\ Proved!ConcAssumption
<1>1. N + NumWrites \in Nat
  BY DemoConstants
<1>2. N \in Nat /\ N >= 2 /\ LapMod \in Nat /\ LapMod >= 2
  BY DemoAssumption
<1>3. QED
  BY <1>1, <1>2 DEF Proved!CircularAssumption, Proved!ConcAssumption

\* The accesses of CircularConc under both names.
LEMMA BufferSteps ==
    /\ \A s \in Proved!Sides : Buffer!Construct(s) <=> Proved!Construct(s)
    /\ \A s \in Proved!Sides : Buffer!Initializing(s) <=> Proved!Initializing(s)
    /\ Buffer!WriteSlot <=> Proved!WriteSlot
    /\ Buffer!Advancing <=> Proved!Advancing
    /\ Buffer!CopyWide <=> Proved!CopyWide
    /\ Buffer!TakeSlot <=> Proved!TakeSlot
    /\ Buffer!StoreWide <=> Proved!StoreWide
<1> USE DEF Buffer!Goto, Proved!Goto, Buffer!shared, Proved!shared, Buffer!local,
            Proved!local, Buffer!history, Proved!history, Buffer!setup, Proved!setup,
            Buffer!Zero, Proved!Zero
<1>1. \A s \in Proved!Sides : Buffer!Construct(s) <=> Proved!Construct(s)
  BY DEF Buffer!Construct, Proved!Construct, Buffer!ValidPair, Proved!ValidPair
<1>2. \A s \in Proved!Sides : Buffer!Initializing(s) <=> Proved!Initializing(s)
  BY DEF Buffer!Initializing, Proved!Initializing,
         Buffer!InitReadHead, Proved!InitReadHead, Buffer!InitWriteHead,
         Proved!InitWriteHead, Buffer!InitKey, Proved!InitKey, Buffer!InitCrc,
         Proved!InitCrc
<1>3. Buffer!WriteSlot <=> Proved!WriteSlot
  BY DEF Buffer!WriteSlot, Proved!WriteSlot
<1>4. Buffer!Advancing <=> Proved!Advancing
  BY DEF Buffer!Advancing, Proved!Advancing, Buffer!AdvanceIndex, Proved!AdvanceIndex,
         Buffer!ResetIndex, Proved!ResetIndex, Buffer!AdvanceLap, Proved!AdvanceLap,
         Buffer!LapAfter, Proved!LapAfter
<1>5. Buffer!CopyWide <=> Proved!CopyWide
  BY DEF Buffer!CopyWide, Proved!CopyWide, Buffer!Decide, Proved!Decide,
         Buffer!IsEmpty, Proved!IsEmpty, Buffer!HeadAfter, Proved!HeadAfter,
         Buffer!CatchUp, Proved!CatchUp, Buffer!LapsBehind, Proved!LapsBehind,
         Buffer!LapBefore, Proved!LapBefore
<1>6. Buffer!TakeSlot <=> Proved!TakeSlot
  BY DEF Buffer!TakeSlot, Proved!TakeSlot, Buffer!Stray, Proved!Stray,
         Buffer!AdvanceCopy, Proved!AdvanceCopy, Buffer!Advance, Proved!Advance,
         Buffer!LapAfter, Proved!LapAfter
<1>7. Buffer!StoreWide <=> Proved!StoreWide
  BY DEF Buffer!StoreWide, Proved!StoreWide
<1>8. QED
  BY <1>1, <1>2, <1>3, <1>4, <1>5, <1>6, <1>7

\* The steps of the demo that touch the buffer are accesses of CircularConc.
LEMMA BufferNext ==
    ASSUME [Next]_vars
    PROVE  [Proved!Next]_(Proved!vars)
<1>1. W \in Proved!Sides /\ R \in Proved!Sides
  BY DEF Proved!Sides, W, R
<1>2. CASE UNCHANGED buffer
  BY <1>2 DEF buffer, Proved!vars, Proved!shared, Proved!local, Proved!history,
              Proved!setup
<1>3. CASE OpenWriter \/ OpenReader
  <2>1. \E s \in Proved!Sides : Buffer!Construct(s) \/ Buffer!Initializing(s)
    BY <1>1, <1>3 DEF OpenWriter, OpenReader, W, R
  <2>2. QED
    BY <2>1, BufferSteps DEF Proved!Next
<1>4. CASE StoreElement \/ AdvanceWriter
  BY <1>4, BufferSteps DEF StoreElement, AdvanceWriter, Proved!Next
<1>5. CASE CopyWriteHead \/ TakeElement \/ StoreReadHead
  BY <1>5, BufferSteps DEF CopyWriteHead, TakeElement, StoreReadHead, Proved!Next,
                           Proved!Reading
<1>6. CASE ~(\/ OpenWriter \/ OpenReader \/ StoreElement \/ AdvanceWriter
             \/ CopyWriteHead \/ TakeElement \/ StoreReadHead)
  <2>1. UNCHANGED buffer
    BY <1>6 DEF Next, Produce, Consume, Main, Begin, ResetProducer, WaitProducer, Measure,
                MakeWaiter, ResetConsumer, LeaveConsumer, WaitConsumer, StartConsumer,
                Finish, Pass, vars
  <2>2. QED
    BY <1>2, <2>1
<1>7. QED
  BY <1>3, <1>4, <1>5, <1>6

\* The types of the buffer.
LEMMA BufferTypes ==
    ASSUME Proved!ConcInv
    PROVE  /\ at \in [Proved!Sides -> Proved!Places] /\ W \in Proved!Sides
           /\ R \in Proved!Sides /\ W # R
           /\ count \in Nat /\ last \in Nat /\ seen \in Nat /\ value \in Nat
           /\ key \in BOOLEAN /\ crc \in BOOLEAN /\ sound \in BOOLEAN
           /\ data \in [0 .. N - 1 -> Nat]
           /\ (at[W] = "idle" => writeHead.index \in 0 .. N - 1)
<1>1. W \in Proved!Sides /\ R \in Proved!Sides /\ W # R
  BY DEF Proved!Sides, W, R
<1>2. Proved!TypeOK /\ at \in [Proved!Sides -> Proved!Places] /\ Proved!IndexBounded
  BY DEF Proved!ConcInv
<1>3. N + NumWrites \in Nat
  BY DemoConstants
<1>4. /\ count \in Nat /\ last \in Nat /\ seen \in Nat /\ value \in Nat
      /\ key \in BOOLEAN /\ crc \in BOOLEAN /\ sound \in BOOLEAN
      /\ data \in [0 .. N - 1 -> Nat]
  BY <1>2, <1>3 DEF Proved!TypeOK
<1>5. at[W] = "idle" => writeHead.index \in 0 .. N - 1
  <2>1. writeHead.index \in 0 .. N
    BY <1>2 DEF Proved!TypeOK
  <2>2. at[W] = "idle" => writeHead.index < N
    BY <1>2 DEF Proved!IndexBounded, W
  <2>3. QED
    BY <2>1, <2>2, DemoConstants
<1>6. QED
  BY <1>1, <1>2, <1>4, <1>5

\* A process takes a step, and then goes on at once or sleeps.
LEMMA Move ==
    ASSUME PcTypes, TimeTypes,
           NEW p \in Processes, NEW from, NEW to \in Places, NEW sleep \in Nat,
           Goto(p, from, to), Runs(p, sleep),
           deadline' = deadline \/ (p \in Waiters /\ ResetWaiter(p))
    PROVE  /\ pc[p] = from /\ pause[p] <= 0
           /\ pc' \in [Processes -> Places] /\ pc'[p] = to
           /\ pause'[p] = sleep /\ lag' = lag
           /\ \A q \in Processes : q # p => pc'[q] = pc[q] /\ pause'[q] = pause[q]
           /\ \A q \in Waiters : q # p => deadline'[q] = deadline[q]
           /\ TimeTypes'
<1>1. /\ pc[p] = from /\ pause[p] <= 0
      /\ pc' = [pc EXCEPT ![p] = to] /\ pause' = [pause EXCEPT ![p] = sleep]
      /\ lag' = lag
  BY DEF Goto, Runs
<1>2. /\ pc' \in [Processes -> Places] /\ pc'[p] = to
      /\ \A q \in Processes : q # p => pc'[q] = pc[q]
  BY <1>1 DEF PcTypes
<1>3. /\ pause' \in [Processes -> Int] /\ pause'[p] = sleep
      /\ \A q \in Processes : q # p => pause'[q] = pause[q]
  BY <1>1 DEF TimeTypes
<1>4. /\ deadline' \in [Waiters -> Int]
      /\ \A q \in Waiters : q # p => deadline'[q] = deadline[q]
      /\ \A q \in Waiters : deadline'[q] = deadline[q] \/ deadline'[q] = Units[q]
  <2>1. CASE deadline' = deadline
    BY <2>1 DEF TimeTypes
  <2>2. CASE p \in Waiters /\ ResetWaiter(p)
    BY <2>2, DemoConstants DEF TimeTypes, ResetWaiter
  <2>3. QED
    BY <2>1, <2>2
<1>5. ASSUME NEW q \in Waiters
      PROVE  deadline'[q] >= -Units[q] /\ deadline'[q] <= Units[q]
  <2>1. Units[q] \in Nat /\ deadline[q] >= -Units[q] /\ deadline[q] <= Units[q]
    BY DemoConstants DEF TimeTypes
  <2>2. QED
    BY <1>4, <2>1
<1>6. ASSUME NEW q \in Processes
      PROVE  pause'[q] >= -lag'[q]
  <2>1. lag[q] \in Nat /\ pause[q] >= -lag[q]
    BY DemoConstants DEF TimeTypes
  <2>2. CASE q = p
    BY <1>1, <1>3, <2>1, <2>2
  <2>3. CASE q # p
    BY <1>1, <1>3, <2>1, <2>3
  <2>4. QED
    BY <2>2, <2>3
<1>7. TimeTypes'
  BY <1>1, <1>3, <1>4, <1>5, <1>6 DEF TimeTypes
<1>8. QED
  BY <1>1, <1>2, <1>3, <1>4, <1>7

\* Whatever the demo does, the buffer keeps its types.
LEMMA ConcKept == ASSUME Proved!ConcInv, [Next]_vars PROVE Proved!ConcInv'
BY BufferNext, BufferAssumptions, Proved!ConcStep

\* The memory that main finds: zeros, or what an earlier run left.
LEMMA BufferInit == Init => Proved!ReadInv
<1> SUFFICES ASSUME Init PROVE Proved!ReadInv
  OBVIOUS
<1>1. /\ left \in Nat /\ left < N /\ N \in Nat /\ N >= 2 /\ N + NumWrites \in Nat
      /\ LapMod \in Nat /\ LapMod >= 2
  BY DemoConstants, DemoAssumption DEF Init
<1>2. /\ data = [i \in 0 .. N - 1 |-> IF i < left THEN i + 1 ELSE 0]
      /\ readHead = [index |-> 0, lap |-> 0] /\ writeHead = [index |-> left, lap |-> 0]
      /\ key = (left > 0) /\ crc = (left > 0)
      /\ copy = [index |-> 0, lap |-> 0] /\ head = [index |-> 0, lap |-> 0]
      /\ value = 0 /\ count = left /\ last = 0 /\ seen = 0 /\ sound = TRUE
      /\ crashes = 0 /\ wide = TRUE
  BY DEF Init, Buffer!Zero
<1>3. /\ at = [s \in Proved!Sides |-> "down"]
      /\ at["writer"] = "down" /\ at["reader"] = "down"
  BY DEF Init, Buffer!Sides, Proved!Sides
<1>4. Proved!TypeOK
  <2>1. data \in [0 .. N - 1 -> 0 .. N + NumWrites]
    BY <1>1, <1>2, DemoConstants
  <2>2. /\ 0 \in Proved!Laps /\ left \in 0 .. N /\ left \in 0 .. N + NumWrites
        /\ 0 \in 0 .. N /\ 0 \in 0 .. N + 1 /\ 0 \in 0 .. N + NumWrites
    BY <1>1, DemoConstants DEF Proved!Laps
  <2>3. key \in BOOLEAN /\ crc \in BOOLEAN
    <3>1. key = (left > 0)
      BY <1>2
    <3>2. crc = (left > 0)
      BY <1>2
    <3>3. (left > 0) \in BOOLEAN
      OBVIOUS
    <3>4. QED
      BY <3>1, <3>2, <3>3, Zenon
  <2>4. QED
    BY <1>2, <1>3, <2>1, <2>2, <2>3 DEF Proved!TypeOK
<1>5. Proved!ConcInv
  BY <1>3, <1>4 DEF Proved!ConcInv, Proved!Places, Proved!IndexBounded,
                    Proved!WriteCounted
<1>6. \A k \in 0 .. N - 1 : k % N = k
  <2> SUFFICES ASSUME NEW k \in 0 .. N - 1 PROVE k % N = k
    OBVIOUS
  <2>1. k \in Nat /\ k = N * 0 + k
    BY <1>1
  <2>2. QED
    BY <2>1, BufferAssumptions, Proved!DigitsUnique
<1>7. Proved!Fresh
  BY <1>1, <1>2, <1>3 DEF Proved!Fresh, Proved!Zero, Proved!Storing, Proved!Sides
<1>8. Proved!WriterAt
  <2>1. left % N = left
    BY <1>1, <1>6
  <2>2. QED
    BY <1>2, <1>3, <2>1 DEF Proved!WriterAt
<1>9. Proved!SlotsHold
  <2>1. ASSUME NEW i \in 0 .. N - 1, data[i] # 0
        PROVE  (data[i] - 1) % N = i
    <3>1. data[i] = i + 1 /\ (i + 1) - 1 = i
      BY <1>2, <2>1
    <3>2. QED
      BY <1>6, <3>1
  <2>2. ASSUME NEW k \in 1 .. count
        PROVE  data[(k - 1) % N] >= k
    <3>1. k - 1 \in 0 .. N - 1 /\ k - 1 < left /\ (k - 1) + 1 = k
      BY <1>1, <1>2, <2>2
    <3>2. (k - 1) % N = k - 1
      BY <1>6, <3>1
    <3>3. QED
      BY <1>2, <3>1, <3>2
  <2>3. QED
    BY <1>3, <2>1, <2>2 DEF Proved!SlotsHold
<1>10. Proved!ReaderAt
  <2>1. Proved!HeadAfter(0) = Proved!Zero
    BY BufferAssumptions, Proved!DigitsOfZero
  <2>2. readHead = Proved!HeadAfter(last)
    BY <1>2, <2>1 DEF Proved!Zero
  <2>3. QED
    BY <1>1, <1>2, <1>3, <2>2 DEF Proved!ReaderAt, Proved!Storing
<1>11. QED
  BY <1>5, <1>7, <1>8, <1>9, <1>10 DEF Proved!ReadInv, Proved!Undisturbed

LEMMA DemoInit == Init => DemoInv
<1> SUFFICES ASSUME Init PROVE DemoInv
  OBVIOUS
<1>1. PcTypes
  BY DemoConstants DEF Init, PcTypes, Places, P, C, M
<1>2. TimeTypes
  <2>1. lag \in Lags /\ deadline = [p \in Waiters |-> 0]
    BY DEF Init, WaiterInit
  <2>2. \A p \in Processes : pause[p] \in Nat
    BY DemoConstants DEF Init, P, C, M
  <2>3. pause \in [Processes -> Int]
    BY DemoConstants DEF Init, P, C, M
  <2>4. \A p \in Waiters : deadline[p] >= -Units[p] /\ deadline[p] <= Units[p]
    BY <2>1, DemoConstants
  <2>5. \A p \in Processes : pause[p] >= -lag[p]
    BY <2>1, <2>2, DemoConstants
  <2>6. QED
    BY <2>1, <2>3, <2>4, <2>5 DEF TimeTypes
<1>3. /\ left \in Leftovers /\ left \in Nat /\ elapsed = 0 /\ halfway = FALSE
      /\ written = 0 /\ reads = 0 /\ count = left
      /\ pc[P] = "opening" /\ pc[C] = "absent" /\ pc[M] = "starting"
      /\ at[W] = "down" /\ at[R] = "down" /\ wide = TRUE
      /\ key = (left > 0) /\ crc = (left > 0)
  BY DemoConstants DEF Init, P, C, M, W, R, Buffer!Sides
<1>4. CountTypes
  <2>1. count = left + written /\ 0 \in 0 .. NumWrites /\ elapsed \in Nat
    BY <1>3, DemoConstants
  <2>2. /\ pc[P] \notin {"resetting", "waiting", "writing"}
        /\ pc[C] \notin {"reading", "waiting"}
        /\ pc[P] \notin {"storing", "advancing"}
    BY <1>3
  <2>3. halfway \in BOOLEAN
    BY <1>3
  <2>4. QED
    BY <1>3, <2>1, <2>2, <2>3 DEF CountTypes
<1>5. AtPlaces
  BY <1>3, DemoConstants DEF AtPlaces
<1>6. Stamped
  <2>1. left > 0 => key = TRUE /\ crc = TRUE
    BY <1>3, Zenon
  <2>2. \A i \in 0 .. N - 1 : data[i] <= left + written
    <3>1. data = [i \in 0 .. N - 1 |-> IF i < left THEN i + 1 ELSE 0]
      BY DEF Init
    <3>2. QED
      BY <1>3, <3>1, DemoConstants
  <2>3. QED
    BY <1>3, <2>1, <2>2 DEF Stamped
<1>7. Proved!ConcInv
  BY BufferInit DEF Proved!ReadInv
<1>8. QED
  BY <1>1, <1>2, <1>4, <1>5, <1>6, <1>7 DEF DemoInv

-------------------------------------------------------------------------------
(* The steps keep the types and the places *)

\* An access of p takes no time and moves p within the code.
LEMMA AccessMove ==
    ASSUME PcTypes, TimeTypes, NEW p \in Processes, NEW from, NEW to \in Places,
           Goto(p, from, to), Access(p)
    PROVE  /\ pc[p] = from /\ pause[p] <= 0
           /\ pc' \in [Processes -> Places] /\ pc'[p] = to
           /\ \A q \in Processes : q # p => pc'[q] = pc[q]
           /\ UNCHANGED <<deadline, pause, lag>>
           /\ TimeTypes'
<1>1. /\ pc[p] = from /\ pc' = [pc EXCEPT ![p] = to] /\ pause[p] <= 0
      /\ UNCHANGED <<deadline, pause, lag>>
  BY DEF Goto, Access, time
<1>2. TimeTypes'
  BY <1>1 DEF TimeTypes
<1>3. QED
  BY <1>1, <1>2 DEF PcTypes

\* The producer goes on in its loop.
LEMMA ProducerRuns ==
    ASSUME DemoInv, Begin \/ ResetProducer \/ WaitProducer \/ Measure
    PROVE  DemoInv'
<1>1. /\ PcTypes /\ TimeTypes /\ CountTypes /\ AtPlaces /\ Stamped
      /\ UNCHANGED <<buffer, reads, left, halfway>>
  BY DEF DemoInv, Begin, ResetProducer, WaitProducer, Measure, counts
<1>2. /\ at[W] = "idle" /\ written \in Nat /\ written < NumWrites
      /\ count = left + written
  <2>1. NumWrites \in Nat /\ NumWrites > 0
    BY DemoConstants
  <2>2. pc[P] \in {"opening", "resetting", "waiting", "writing"}
    BY DEF Begin, ResetProducer, WaitProducer, Measure, Goto, P
  <2>3. at[W] = "idle"
    <3>1. CASE Begin
      BY <3>1 DEF Begin, W
    <3>2. CASE ResetProducer \/ WaitProducer \/ Measure
      <4>1. pc[P] \in {"resetting", "waiting", "writing"}
        BY <3>2 DEF ResetProducer, WaitProducer, Measure, Goto, P
      <4>2. QED
        BY <1>1, <4>1 DEF AtPlaces
    <3>3. QED
      BY <3>1, <3>2
  <2>4. written \in Nat /\ written < NumWrites
    BY <1>1, <2>1, <2>2 DEF AtPlaces, CountTypes
  <2>5. QED
    BY <1>1, <2>2, <2>3, <2>4 DEF CountTypes
<1>3. PICK from \in Places, to \in {"resetting", "waiting", "writing", "storing"},
           sleep \in Nat :
         /\ Goto(P, from, to) /\ Runs(P, sleep)
         /\ deadline' = deadline \/ ResetWaiter(P)
         /\ elapsed' \in Nat
         /\ \/ to # "storing" /\ written' = written
            \/ to = "storing" /\ written' = written + 1
  BY <1>1, DemoConstants
     DEF Begin, ResetProducer, WaitProducer, Measure, WaitOver, WaitLonger, P,
         counts, CountTypes, Places
<1>4. /\ pc[P] = from /\ pc' \in [Processes -> Places] /\ pc'[P] = to
      /\ pc'[C] = pc[C] /\ pc'[M] = pc[M] /\ TimeTypes'
  <2>1. to \in Places
    BY DEF Places
  <2>2. QED
    BY <1>1, <1>3, <2>1, DemoProcesses, Move
<1>5. UNCHANGED <<data, at, key, crc, count, wide>>
  BY <1>1 DEF buffer
<1>6. PcTypes'
  BY <1>1, <1>4 DEF PcTypes
<1>7. CountTypes'
  <2>1. left \in Nat
    BY <1>1, DemoConstants DEF CountTypes
  <2>2. written' \in 0 .. NumWrites
    BY <1>2, <1>3, DemoConstants
  <2>3. to = "storing" => count' = left + written' - 1
    BY <1>2, <1>3, <1>5, <2>1
  <2>4. to # "storing" => count' = left + written' /\ written' < NumWrites
    BY <1>2, <1>3, <1>5
  <2>5. QED
    BY <1>1, <1>3, <1>4, <2>2, <2>3, <2>4 DEF CountTypes
<1>8. AtPlaces'
  <2>1. to = "storing" => written' > 0
    BY <1>2, <1>3
  <2>2. QED
    BY <1>1, <1>2, <1>3, <1>4, <1>5, <2>1 DEF AtPlaces
<1>9. Stamped'
  <2>1. \A i \in 0 .. N - 1 : data'[i] <= left' + written'
    <3>1. left \in Nat /\ written' >= written /\ written' \in Nat
      BY <1>1, <1>2, <1>3, DemoConstants DEF CountTypes
    <3>2. \A i \in 0 .. N - 1 : data[i] \in Nat /\ data[i] <= left + written
      BY <1>1, BufferTypes DEF DemoInv, Stamped
    <3>3. QED
      BY <1>1, <1>2, <1>5, <3>1, <3>2
  <2>2. QED
    BY <1>1, <1>5, <2>1 DEF Stamped
<1>10. Proved!ConcInv'
  BY ConcKept DEF DemoInv, Next, Produce
<1>11. QED
  BY <1>4, <1>6, <1>7, <1>8, <1>9, <1>10 DEF DemoInv

\* The constructor of either side, access by access.
LEMMA OpeningSteps ==
    ASSUME Proved!ConcInv, NEW s \in Proved!Sides,
           Buffer!Construct(s) \/ Buffer!Initializing(s)
    PROVE  /\ at[s] \in Inits \cup {"down"}
           /\ at'[s] \in Inits \cup {"idle"}
           /\ \A z \in Proved!Sides : z # s => at'[z] = at[z]
           /\ UNCHANGED <<data, count, last, wide>>
           /\ key = TRUE => key' = TRUE
           /\ crc = TRUE => crc' = TRUE
           /\ at'[s] \in {"crc", "idle"} => at[s] = "crc" \/ key' = TRUE
           /\ at'[s] = "idle" => (at[s] = "crc" \/ key' = TRUE) /\ crc' = TRUE
           /\ Buffer!Construct(s) =>
                 /\ at[s] = "down" /\ UNCHANGED <<key, crc, readHead, writeHead, sound>>
                 /\ IF Proved!ValidPair(readHead, writeHead) /\ key /\ crc
                    THEN at'[s] = "idle" ELSE at'[s] = "read_head"
           /\ Buffer!Initializing(s) =>
                 at[s] # "down" /\ (sound' = sound \/ sound' = (sound /\ count = 0))
<1>1. Proved!Construct(s) \/ Proved!Initializing(s)
  BY BufferSteps
<1>2. /\ at \in [Proved!Sides -> Proved!Places]
      /\ key \in BOOLEAN /\ crc \in BOOLEAN
  BY BufferTypes
<1> USE DEF Proved!Goto, Proved!shared, Proved!local, Proved!history, Proved!setup, Inits
<1>3. CASE Proved!Construct(s)
  <2>1. ~Proved!Initializing(s)
    BY <1>3 DEF Proved!Construct, Proved!Initializing, Proved!InitReadHead,
                Proved!InitWriteHead, Proved!InitKey, Proved!InitCrc
  <2>2. UNCHANGED <<data, count, last, wide, key, crc, readHead, writeHead, sound>>
    BY <1>3 DEF Proved!Construct
  <2>3. /\ at[s] = "down"
        /\ IF Proved!ValidPair(readHead, writeHead) /\ key /\ crc
           THEN at' = [at EXCEPT ![s] = "idle"]
           ELSE at' = [at EXCEPT ![s] = "read_head"]
    BY <1>3 DEF Proved!Construct
  <2>4. IF Proved!ValidPair(readHead, writeHead) /\ key /\ crc
        THEN at'[s] = "idle" ELSE at'[s] = "read_head"
    BY <1>2, <2>3
  <2>5. \A z \in Proved!Sides : z # s => at'[z] = at[z]
    BY <1>2, <2>3
  <2>6. QED
    BY <1>2, <2>1, <2>2, <2>3, <2>4, <2>5, BufferSteps
<1>4. CASE Proved!Initializing(s)
  <2>1. ~Proved!Construct(s)
    BY <1>4 DEF Proved!Construct, Proved!Initializing, Proved!InitReadHead,
                Proved!InitWriteHead, Proved!InitKey, Proved!InitCrc
  <2>2. \/ /\ at[s] = "read_head" /\ at' = [at EXCEPT ![s] = "write_head"]
           /\ UNCHANGED <<key, crc>>
        \/ /\ at[s] = "write_head" /\ at' = [at EXCEPT ![s] = "key"]
           /\ UNCHANGED <<key, crc>>
        \/ /\ at[s] = "key" /\ at' = [at EXCEPT ![s] = "crc"]
           /\ key' = TRUE /\ crc' = crc
        \/ /\ at[s] = "crc" /\ at' = [at EXCEPT ![s] = "idle"]
           /\ key' = key /\ crc' = TRUE
    BY <1>4 DEF Proved!Initializing, Proved!InitReadHead, Proved!InitWriteHead,
                Proved!InitKey, Proved!InitCrc
  <2>3. UNCHANGED <<data, count, last, wide>>
    BY <1>4 DEF Proved!Initializing, Proved!InitReadHead, Proved!InitWriteHead,
                Proved!InitKey, Proved!InitCrc
  <2>4. sound' = sound \/ sound' = (sound /\ count = 0)
    BY <1>4 DEF Proved!Initializing, Proved!InitReadHead, Proved!InitWriteHead,
                Proved!InitKey, Proved!InitCrc
  <2>5. QED
    BY <1>2, <2>1, <2>2, <2>3, <2>4, BufferSteps
<1>5. QED
  BY <1>1, <1>3, <1>4

LEMMA OpenWriterDemo == ASSUME DemoInv, OpenWriter PROVE DemoInv'
<1>1. /\ PcTypes /\ TimeTypes /\ CountTypes /\ AtPlaces /\ Stamped /\ Proved!ConcInv
      /\ Goto(P, "opening", "opening") /\ Access(P)
      /\ Buffer!Construct(W) \/ Buffer!Initializing(W)
      /\ UNCHANGED <<elapsed, written, reads, left, halfway>>
  BY DEF DemoInv, OpenWriter, P, W, counts
<1>2. /\ pc[P] = "opening" /\ pc' \in [Processes -> Places]
      /\ pc'[P] = "opening" /\ pc'[C] = pc[C] /\ pc'[M] = pc[M] /\ TimeTypes'
  <2>1. "opening" \in Places
    BY DEF Places
  <2>2. QED
    BY <1>1, <2>1, DemoProcesses, AccessMove
<1>3. W \in Proved!Sides /\ R \in Proved!Sides /\ W # R
  BY <1>1, BufferTypes
<1>4. /\ at'[W] \in Inits \cup {"idle"} /\ at'[R] = at[R]
      /\ UNCHANGED <<data, count, wide>>
      /\ key = TRUE => key' = TRUE
      /\ crc = TRUE => crc' = TRUE
      /\ at'[W] \in {"crc", "idle"} => at[W] = "crc" \/ key' = TRUE
      /\ at'[W] = "idle" => crc' = TRUE
  BY <1>1, <1>3, OpeningSteps
<1>5. PcTypes' /\ CountTypes'
  BY <1>1, <1>2, <1>4 DEF PcTypes, CountTypes
<1>6. AtPlaces'
  BY <1>1, <1>2, <1>4 DEF AtPlaces
<1>7. Stamped'
  <2>1. at[W] = "crc" => key = TRUE
    BY <1>1 DEF Stamped
  <2>2. at'[W] \notin {"down", "read_head", "write_head", "key"} => key' = TRUE
    BY <1>4, <2>1 DEF Inits
  <2>3. at'[W] \notin Inits \cup {"down"} => crc' = TRUE
    BY <1>4
  <2>4. QED
    BY <1>1, <1>4, <2>2, <2>3 DEF Stamped
<1>8. Proved!ConcInv'
  BY ConcKept DEF DemoInv, Next, Produce
<1>9. QED
  BY <1>2, <1>5, <1>6, <1>7, <1>8 DEF DemoInv

LEMMA StoreElementDemo == ASSUME DemoInv, StoreElement PROVE DemoInv'
<1>1. /\ PcTypes /\ TimeTypes /\ CountTypes /\ AtPlaces /\ Stamped /\ Proved!ConcInv
      /\ Goto(P, "storing", "advancing") /\ Access(P) /\ Proved!WriteSlot
      /\ UNCHANGED <<elapsed, written, reads, left, halfway>>
  BY BufferSteps DEF DemoInv, StoreElement, P, counts
<1>2. /\ pc[P] = "storing" /\ pc' \in [Processes -> Places]
      /\ pc'[P] = "advancing" /\ pc'[C] = pc[C] /\ pc'[M] = pc[M] /\ TimeTypes'
  <2>1. "advancing" \in Places
    BY DEF Places
  <2>2. QED
    BY <1>1, <2>1, DemoProcesses, AccessMove
<1>3. /\ at[W] = "idle" /\ at' = [at EXCEPT ![W] = "advance"]
      /\ data' = [data EXCEPT ![writeHead.index] = count + 1]
      /\ UNCHANGED <<key, crc, count, wide>>
  BY <1>1 DEF Proved!WriteSlot, Proved!Goto, Proved!history, Proved!setup, W
<1>4. at'[W] = "advance" /\ at'[R] = at[R]
  BY <1>1, <1>3, BufferTypes
<1>5. PcTypes' /\ CountTypes'
  BY <1>1, <1>2, <1>3 DEF PcTypes, CountTypes
<1>6. AtPlaces'
  BY <1>1, <1>2, <1>4 DEF AtPlaces
<1>7. Stamped'
  <2>1. count + 1 = left + written
    <3>1. count = left + written - 1 /\ left \in Nat /\ written \in Nat
      BY <1>1, <1>2, DemoConstants DEF CountTypes
    <3>2. QED
      BY <3>1
  <2>2. ASSUME NEW i \in 0 .. N - 1
        PROVE  data'[i] <= left + written
    <3>1. data'[i] = data[i] \/ data'[i] = left + written
      BY <1>1, <1>3, <2>1, BufferTypes
    <3>2. left + written \in Nat
      BY <1>1, DemoConstants DEF CountTypes
    <3>3. QED
      BY <1>1, <3>1, <3>2 DEF Stamped
  <2>3. key = TRUE /\ crc = TRUE
    BY <1>1, <1>3 DEF Stamped, Inits
  <2>4. QED
    BY <1>1, <1>3, <1>4, <2>2, <2>3 DEF Stamped
<1>8. Proved!ConcInv'
  BY ConcKept DEF DemoInv, Next, Produce
<1>9. QED
  BY <1>2, <1>5, <1>6, <1>7, <1>8 DEF DemoInv

\* Either advance() goes on, or it is over and the write is counted.
LEMMA AdvanceSteps ==
    ASSUME Proved!ConcInv, Buffer!Advancing
    PROVE  /\ at[W] \in {"advance", "reset", "lap"} /\ at'[R] = at[R]
           /\ at'[W] \in {"reset", "lap", "idle"}
           /\ count' = IF at'[W] = "idle" THEN count + 1 ELSE count
           /\ UNCHANGED <<data, readHead, key, crc, last, seen, sound, wide>>
<1>1. Proved!Advancing
  BY BufferSteps
<1>2. /\ at \in [Proved!Sides -> Proved!Places] /\ W \in Proved!Sides
      /\ R \in Proved!Sides /\ W # R
  BY BufferTypes
<1> USE DEF Proved!Goto, Proved!shared, Proved!local, Proved!history, Proved!setup
<1>3. UNCHANGED <<data, readHead, key, crc, last, seen, sound, wide>>
  BY <1>1 DEF Proved!Advancing, Proved!AdvanceIndex, Proved!ResetIndex,
              Proved!AdvanceLap
<1>4. /\ at[W] \in {"advance", "reset", "lap"}
      /\ \/ at' = [at EXCEPT ![W] = "reset"] /\ count' = count
         \/ at' = [at EXCEPT ![W] = "lap"] /\ count' = count
         \/ at' = [at EXCEPT ![W] = "idle"] /\ count' = count + 1
  BY <1>1 DEF Proved!Advancing, Proved!AdvanceIndex, Proved!ResetIndex,
              Proved!AdvanceLap, W
<1>5. QED
  BY <1>2, <1>3, <1>4

LEMMA AdvanceWriterDemo == ASSUME DemoInv, AdvanceWriter PROVE DemoInv'
<1> DEFINE next == IF at'[W] # "idle" THEN "advancing"
                   ELSE IF written = NumWrites THEN "done" ELSE "resetting"
<1>1. /\ PcTypes /\ TimeTypes /\ CountTypes /\ AtPlaces /\ Stamped /\ Proved!ConcInv
      /\ Goto(P, "advancing", next) /\ Access(P) /\ Buffer!Advancing
      /\ UNCHANGED <<elapsed, written, reads, left, halfway>>
  BY DEF DemoInv, AdvanceWriter, P, W, counts
<1>2. /\ pc[P] = "advancing" /\ pc' \in [Processes -> Places]
      /\ pc'[P] = next /\ pc'[C] = pc[C] /\ pc'[M] = pc[M] /\ TimeTypes'
  <2>1. next \in Places
    BY DEF Places
  <2>2. QED
    BY <1>1, <2>1, DemoProcesses, AccessMove
<1>3. /\ at[W] \in {"advance", "reset", "lap"} /\ at'[R] = at[R]
      /\ at'[W] \in {"reset", "lap", "idle"}
      /\ count' = IF at'[W] = "idle" THEN count + 1 ELSE count
      /\ UNCHANGED <<data, key, crc, wide>>
  BY <1>1, AdvanceSteps
<1>4. /\ written \in Nat /\ written <= NumWrites /\ written > 0 /\ left \in Nat
      /\ count = left + written - 1 /\ NumWrites \in Nat
  BY <1>1, <1>2, DemoConstants DEF CountTypes, AtPlaces
<1>5. PcTypes'
  BY <1>1, <1>2 DEF PcTypes
<1>6. CountTypes'
  <2>1. CASE at'[W] # "idle"
    BY <1>1, <1>2, <1>3, <1>4, <2>1 DEF CountTypes
  <2>2. CASE at'[W] = "idle"
    <3>1. count' = left + written
      BY <1>3, <1>4, <2>2
    <3>2. next \in {"done", "resetting"} /\ (next = "resetting" => written < NumWrites)
      BY <1>4, <2>2
    <3>3. QED
      BY <1>1, <1>2, <3>1, <3>2 DEF CountTypes
  <2>3. QED
    BY <2>1, <2>2
<1>7. AtPlaces'
  <2>1. next \in {"advancing", "done", "resetting"}
    OBVIOUS
  <2>2. next = "advancing" <=> at'[W] # "idle"
    OBVIOUS
  <2> HIDE DEF next
  <2>3. QED
    BY <1>1, <1>2, <1>3, <1>4, <2>1, <2>2 DEF AtPlaces
<1>8. Stamped'
  <2>1. key = TRUE /\ crc = TRUE
    BY <1>1, <1>3 DEF Stamped, Inits
  <2>2. QED
    BY <1>1, <1>3, <2>1 DEF Stamped
<1>9. Proved!ConcInv'
  BY ConcKept DEF DemoInv, Next, Produce
<1>10. QED
  BY <1>2, <1>5, <1>6, <1>7, <1>8, <1>9 DEF DemoInv

\* The consumer goes on in its loop, or leaves it.
LEMMA ConsumerRuns ==
    ASSUME DemoInv, MakeWaiter \/ ResetConsumer \/ LeaveConsumer \/ WaitConsumer
    PROVE  DemoInv'
<1>1. /\ PcTypes /\ TimeTypes /\ CountTypes /\ AtPlaces /\ Stamped
      /\ UNCHANGED <<buffer, elapsed, written, reads, left, halfway>>
  BY DEF DemoInv, MakeWaiter, ResetConsumer, LeaveConsumer, WaitConsumer, counts
<1>2. PICK from \in {"opening", "resetting", "waiting"},
           to \in {"resetting", "reading", "waiting", "done"}, sleep \in Nat :
         /\ Goto(C, from, to) /\ Runs(C, sleep)
         /\ deadline' = deadline \/ ResetWaiter(C)
         /\ from = "opening" => at[R] = "idle"
         /\ from = "resetting" /\ to # "done" => reads < NumWrites
         /\ from = "waiting" => to # "done"
         /\ from = "opening" => to = "resetting"
         /\ to = "done" => reads = NumWrites
  BY DemoConstants
     DEF MakeWaiter, ResetConsumer, LeaveConsumer, WaitConsumer, WaitOver, WaitLonger, C, R
<1>3. /\ pc[C] = from /\ pc' \in [Processes -> Places] /\ pc'[C] = to
      /\ pc'[P] = pc[P] /\ pc'[M] = pc[M] /\ TimeTypes'
  <2>1. to \in Places
    BY DEF Places
  <2>2. QED
    BY <1>1, <1>2, <2>1, DemoProcesses, Move
<1>4. UNCHANGED <<data, at, key, crc, count, wide>>
  BY <1>1 DEF buffer
<1>5. at[R] = "idle"
  <2>1. CASE from = "opening"
    BY <1>2, <2>1
  <2>2. CASE from \in {"resetting", "waiting"}
    BY <1>1, <1>3, <2>2 DEF AtPlaces
  <2>3. QED
    BY <1>2, <2>1, <2>2
<1>6. PcTypes'
  BY <1>1, <1>3 DEF PcTypes
<1>7. CountTypes'
  <2>1. to \in {"reading", "waiting"} => reads < NumWrites
    BY <1>1, <1>2, <1>3 DEF CountTypes
  <2>2. QED
    BY <1>1, <1>3, <1>4, <2>1 DEF CountTypes
<1>8. AtPlaces'
  BY <1>1, <1>2, <1>3, <1>4, <1>5 DEF AtPlaces
<1>9. Stamped'
  BY <1>1, <1>4 DEF Stamped
<1>10. Proved!ConcInv'
  BY ConcKept DEF DemoInv, Next, Consume
<1>11. QED
  BY <1>3, <1>6, <1>7, <1>8, <1>9, <1>10 DEF DemoInv

LEMMA OpenReaderDemo == ASSUME DemoInv, OpenReader PROVE DemoInv'
<1>1. /\ PcTypes /\ TimeTypes /\ CountTypes /\ AtPlaces /\ Stamped /\ Proved!ConcInv
      /\ Goto(C, "opening", "opening") /\ Access(C)
      /\ Buffer!Construct(R) \/ Buffer!Initializing(R)
      /\ UNCHANGED <<elapsed, written, reads, left>>
  BY DEF DemoInv, OpenReader, C, R, counts
<1>2. /\ pc[C] = "opening" /\ pc' \in [Processes -> Places]
      /\ pc'[C] = "opening" /\ pc'[P] = pc[P] /\ pc'[M] = pc[M] /\ TimeTypes'
  <2>1. "opening" \in Places
    BY DEF Places
  <2>2. QED
    BY <1>1, <2>1, DemoProcesses, AccessMove
<1>3. W \in Proved!Sides /\ R \in Proved!Sides /\ W # R
  BY <1>1, BufferTypes
<1>4. /\ at'[R] \in Inits \cup {"idle"} /\ at'[W] = at[W]
      /\ UNCHANGED <<data, count, wide>>
      /\ key = TRUE => key' = TRUE
      /\ crc = TRUE => crc' = TRUE
  BY <1>1, <1>3, OpeningSteps
<1>5. halfway' \in BOOLEAN
  BY <1>1, Zenon DEF OpenReader, Look, CountTypes
<1>6. PcTypes' /\ CountTypes'
  BY <1>1, <1>2, <1>4, <1>5 DEF PcTypes, CountTypes
<1>7. AtPlaces'
  BY <1>1, <1>2, <1>4 DEF AtPlaces
<1>8. Stamped'
  BY <1>1, <1>4 DEF Stamped
<1>9. Proved!ConcInv'
  BY ConcKept DEF DemoInv, Next, Consume
<1>10. QED
  BY <1>2, <1>6, <1>7, <1>8, <1>9 DEF DemoInv

\* What an attempt to read does with the buffer.
LEMMA ReadSteps ==
    ASSUME Proved!ConcInv,
           Buffer!CopyWide \/ Buffer!TakeSlot \/ Buffer!StoreWide
    PROVE  /\ at'[W] = at[W]
           /\ UNCHANGED <<data, writeHead, key, crc, count, wide>>
           /\ Buffer!CopyWide =>
                 /\ at[R] = "idle" /\ at'[R] \in {"idle", "take"} /\ last' = last
                 /\ at'[R] = "idle" => readHead = writeHead
                 /\ sound' = (sound /\ writeHead = Proved!HeadAfter(count))
           /\ Buffer!TakeSlot =>
                 /\ at[R] = "take" /\ at'[R] = "store" /\ last' = last
                 /\ value' = IF head.index < N THEN data[head.index] ELSE Proved!Stray
                 /\ sound' = (sound /\ value' <= seen)
           /\ Buffer!StoreWide =>
                 /\ at[R] = "store" /\ at'[R] = "idle" /\ last' = value
                 /\ sound' = sound
<1>1. /\ at \in [Proved!Sides -> Proved!Places] /\ W \in Proved!Sides
      /\ R \in Proved!Sides /\ W # R
  BY BufferTypes
<1> USE DEF Proved!Goto, Proved!shared, Proved!local, Proved!history, Proved!setup
<1>2. ASSUME Proved!CopyWide
      PROVE  /\ at'[W] = at[W] /\ UNCHANGED <<data, writeHead, key, crc, count, wide>>
             /\ at[R] = "idle" /\ at'[R] \in {"idle", "take"} /\ last' = last
             /\ at'[R] = "idle" => readHead = writeHead
             /\ sound' = (sound /\ writeHead = Proved!HeadAfter(count))
  <2>1. /\ UNCHANGED <<data, writeHead, key, crc, count, last, wide>>
        /\ sound' = (sound /\ writeHead = Proved!HeadAfter(count))
    BY <1>2 DEF Proved!CopyWide, Proved!Decide
  <2>2. /\ at[R] = "idle"
        /\ \/ readHead = writeHead /\ at' = [at EXCEPT ![R] = "idle"]
           \/ at' = [at EXCEPT ![R] = "take"]
    BY <1>2 DEF Proved!CopyWide, Proved!Decide, Proved!IsEmpty, R
  <2>3. QED
    BY <1>1, <2>1, <2>2
<1>3. ASSUME Proved!TakeSlot
      PROVE  /\ at'[W] = at[W] /\ UNCHANGED <<data, writeHead, key, crc, count, wide>>
             /\ at[R] = "take" /\ at'[R] = "store" /\ last' = last
             /\ value' = IF head.index < N THEN data[head.index] ELSE Proved!Stray
             /\ sound' = (sound /\ value' <= seen)
  <2>1. /\ UNCHANGED <<data, writeHead, key, crc, count, last, wide>>
        /\ value' = IF head.index < N THEN data[head.index] ELSE Proved!Stray
        /\ sound' = (sound /\ value' <= seen)
        /\ at[R] = "take" /\ at' = [at EXCEPT ![R] = "store"]
    BY <1>3 DEF Proved!TakeSlot, R
  <2>2. QED
    BY <1>1, <2>1
<1>4. ASSUME Proved!StoreWide
      PROVE  /\ at'[W] = at[W] /\ UNCHANGED <<data, writeHead, key, crc, count, wide>>
             /\ at[R] = "store" /\ at'[R] = "idle" /\ last' = value
             /\ sound' = sound
  <2>1. /\ UNCHANGED <<data, writeHead, key, crc, count, wide, sound>>
        /\ last' = value
        /\ at[R] = "store" /\ at' = [at EXCEPT ![R] = "idle"]
    BY <1>4 DEF Proved!StoreWide, R
  <2>2. QED
    BY <1>1, <2>1
<1>5. QED
  BY <1>2, <1>3, <1>4, BufferSteps

LEMMA ReadingDemo ==
    ASSUME DemoInv, CopyWriteHead \/ TakeElement \/ StoreReadHead
    PROVE  DemoInv'
<1>1. /\ PcTypes /\ TimeTypes /\ CountTypes /\ AtPlaces /\ Stamped /\ Proved!ConcInv
      /\ Access(C) /\ UNCHANGED <<elapsed, written, left>>
      /\ Buffer!CopyWide \/ Buffer!TakeSlot \/ Buffer!StoreWide
  BY DEF DemoInv, CopyWriteHead, TakeElement, StoreReadHead, C, counts
<1>2. /\ at'[W] = at[W] /\ UNCHANGED <<data, key, crc, count, wide>>
  BY <1>1, ReadSteps
<1>3. PICK to \in {"reading", "waiting", "resetting"} :
         /\ Goto(C, "reading", to)
         /\ \/ to = "reading" /\ at'[R] \in {"take", "store"} /\ reads' = reads
            \/ to = "waiting" /\ at'[R] = "idle" /\ reads' = reads
            \/ to = "resetting" /\ at'[R] = "idle" /\ reads' = reads + 1
  <2>1. CASE CopyWriteHead
    <3>1. /\ Goto(C, "reading", IF at'[R] = "idle" THEN "waiting" ELSE "reading")
          /\ Buffer!CopyWide /\ reads' = reads
      BY <2>1 DEF CopyWriteHead, counts, C, R
    <3>2. at'[R] \in {"idle", "take"}
      BY <1>1, <3>1, ReadSteps
    <3>3. CASE at'[R] = "idle"
      BY <3>1, <3>3
    <3>4. CASE at'[R] = "take"
      BY <3>1, <3>4
    <3>5. QED
      BY <3>2, <3>3, <3>4
  <2>2. CASE TakeElement
    <3>1. Goto(C, "reading", "reading") /\ Buffer!TakeSlot /\ reads' = reads
      BY <2>2 DEF TakeElement, counts, C
    <3>2. at'[R] = "store"
      BY <1>1, <3>1, ReadSteps
    <3>3. QED
      BY <3>1, <3>2
  <2>3. CASE StoreReadHead
    <3>1. Goto(C, "reading", "resetting") /\ Buffer!StoreWide /\ reads' = reads + 1
      BY <2>3 DEF StoreReadHead, C
    <3>2. at'[R] = "idle"
      BY <1>1, <3>1, ReadSteps
    <3>3. QED
      BY <3>1, <3>2
  <2>4. QED
    BY <2>1, <2>2, <2>3
<1>4. /\ pc[C] = "reading" /\ pc' \in [Processes -> Places] /\ pc'[C] = to
      /\ pc'[P] = pc[P] /\ pc'[M] = pc[M] /\ TimeTypes'
  <2>1. to \in Places
    BY DEF Places
  <2>2. QED
    BY <1>1, <1>3, <2>1, DemoProcesses, AccessMove
<1>5. /\ reads \in Nat /\ reads < NumWrites /\ NumWrites \in Nat
  BY <1>1, <1>4, DemoConstants DEF CountTypes
<1>6. halfway' \in BOOLEAN
  BY <1>1, Zenon DEF CopyWriteHead, TakeElement, StoreReadHead, Look, CountTypes
<1>7. PcTypes'
  BY <1>1, <1>4 DEF PcTypes
<1>8. CountTypes'
  <2>1. reads' \in 0 .. NumWrites /\ (to \in {"reading", "waiting"} => reads' < NumWrites)
    BY <1>3, <1>5
  <2>2. QED
    BY <1>1, <1>2, <1>4, <1>6, <2>1 DEF CountTypes
<1>9. AtPlaces'
  BY <1>1, <1>2, <1>3, <1>4 DEF AtPlaces
<1>10. Stamped'
  BY <1>1, <1>2 DEF Stamped
<1>11. Proved!ConcInv'
  BY ConcKept DEF DemoInv, Next, Consume
<1>12. QED
  BY <1>4, <1>7, <1>8, <1>9, <1>10, <1>11 DEF DemoInv

LEMMA MainDemo == ASSUME DemoInv, Main PROVE DemoInv'
<1>1. /\ PcTypes /\ TimeTypes /\ CountTypes /\ AtPlaces /\ Stamped
      /\ UNCHANGED <<deadline, lag, buffer, elapsed, written, reads, left, halfway>>
  BY DEF DemoInv, Main, StartConsumer, Finish, time, counts
<1>2. /\ \/ /\ pc[M] = "starting"
            /\ pc' = [pc EXCEPT ![M] = "waiting", ![C] = "opening"]
            /\ pause' = [pause EXCEPT ![M] = 0, ![C] = ChildSleep]
         \/ /\ pc[M] = "waiting" /\ pc[P] = "done" /\ pc[C] = "done"
            /\ pc' = [pc EXCEPT ![M] = "done"]
            /\ pause' = pause
  BY DEF Main, StartConsumer, Finish, Goto, time, M, C, P
<1>3. /\ Proved!ConcInv'
      /\ UNCHANGED <<data, at, key, crc, count, wide>>
  BY <1>1, ConcKept DEF DemoInv, Next, buffer
<1>4. pc' \in [Processes -> Places] /\ pc'[P] = pc[P]
  BY <1>1, <1>2, DemoConstants DEF PcTypes, Places
<1>5. \/ /\ pc[M] = "starting" /\ pc'[M] = "waiting" /\ pc'[C] = "opening"
      \/ /\ pc[M] = "waiting" /\ pc'[M] = "done" /\ pc'[C] = pc[C]
  BY <1>1, <1>2, DemoConstants DEF PcTypes
<1>6. PcTypes'
  BY <1>1, <1>4, <1>5 DEF PcTypes
<1>7. TimeTypes'
  <2>1. ChildSleep \in Nat /\ pause \in [Processes -> Int]
        /\ \A p \in Processes : pause[p] >= -lag[p] /\ lag[p] \in Nat
    BY <1>1, DemoConstants DEF TimeTypes
  <2>2. /\ pause' \in [Processes -> Int]
        /\ \A p \in Processes : pause'[p] = pause[p] \/ pause'[p] \in Nat
    BY <1>2, <2>1, DemoConstants
  <2>3. \A p \in Processes : pause'[p] >= -lag[p]
    BY <2>1, <2>2
  <2>4. QED
    BY <1>1, <2>2, <2>3 DEF TimeTypes
<1>8. CountTypes'
  BY <1>1, <1>3, <1>4, <1>5 DEF CountTypes
<1>9. AtPlaces'
  BY <1>1, <1>3, <1>4, <1>5 DEF AtPlaces
<1>10. Stamped'
  BY <1>1, <1>3 DEF Stamped
<1>11. QED
  BY <1>3, <1>6, <1>7, <1>8, <1>9, <1>10 DEF DemoInv

LEMMA PassDemo == ASSUME DemoInv, Pass PROVE DemoInv'
<1>1. /\ PcTypes /\ TimeTypes /\ CountTypes /\ AtPlaces /\ Stamped
      /\ Tick(Running) /\ Running \subseteq Processes
      /\ elapsed' = IF pc[P] \in {"opening", "done"} THEN 0 ELSE elapsed + 1
      /\ UNCHANGED <<buffer, pc, written, reads, left, halfway>>
  BY DEF DemoInv, Pass, P, counts, Running
<1>2. /\ Proved!ConcInv'
      /\ UNCHANGED <<data, at, key, crc, count, wide>>
  BY <1>1, ConcKept DEF DemoInv, Next, buffer
<1>3. TimeTypes'
  <2>1. /\ lag' = lag
        /\ pause' = [p \in Processes |->
                        IF p \in Running THEN pause[p] - 1 ELSE pause[p]]
        /\ \A p \in Running : pause[p] > -lag[p]
        /\ deadline' = [p \in Waiters |->
                           IF p \in Running /\ deadline[p] > -Units[p]
                           THEN deadline[p] - 1 ELSE deadline[p]]
    BY <1>1 DEF Tick
  <2>2. ASSUME NEW p \in Processes
        PROVE  pause'[p] \in Int /\ pause'[p] >= -lag[p]
    <3>1. pause[p] \in Int /\ pause[p] >= -lag[p] /\ lag[p] \in Nat
      BY <1>1, DemoConstants DEF TimeTypes
    <3>2. \/ pause'[p] = pause[p]
          \/ pause'[p] = pause[p] - 1 /\ pause[p] > -lag[p]
      BY <2>1
    <3>3. QED
      BY <3>1, <3>2
  <2>3. ASSUME NEW p \in Waiters
        PROVE  /\ deadline'[p] \in Int
               /\ deadline'[p] >= -Units[p] /\ deadline'[p] <= Units[p]
    <3>1. /\ deadline[p] \in Int /\ Units[p] \in Nat
          /\ deadline[p] >= -Units[p] /\ deadline[p] <= Units[p]
      BY <1>1, DemoConstants DEF TimeTypes
    <3>2. \/ deadline'[p] = deadline[p]
          \/ deadline'[p] = deadline[p] - 1 /\ deadline[p] > -Units[p]
      BY <2>1
    <3>3. QED
      BY <3>1, <3>2
  <2>4. pause' \in [Processes -> Int] /\ deadline' \in [Waiters -> Int]
    BY <2>1, <2>2, <2>3
  <2>5. QED
    BY <1>1, <2>1, <2>2, <2>3, <2>4 DEF TimeTypes
<1>4. PcTypes'
  BY <1>1 DEF PcTypes
<1>5. CountTypes'
  <2>1. elapsed' \in Nat
    BY <1>1 DEF CountTypes
  <2>2. QED
    BY <1>1, <1>2, <2>1 DEF CountTypes
<1>6. AtPlaces' /\ Stamped'
  BY <1>1, <1>2 DEF AtPlaces, Stamped
<1>7. QED
  BY <1>2, <1>3, <1>4, <1>5, <1>6 DEF DemoInv

LEMMA StutterDemo == ASSUME DemoInv, UNCHANGED vars PROVE DemoInv'
<1>1. /\ PcTypes /\ TimeTypes /\ CountTypes /\ AtPlaces /\ Stamped
      /\ UNCHANGED <<deadline, pause, lag, buffer, pc, elapsed, written, reads, left, halfway>>
  BY DEF DemoInv, vars, time, counts
<1>2. /\ Proved!ConcInv'
      /\ UNCHANGED <<data, at, key, crc, count, wide>>
  BY <1>1, ConcKept DEF DemoInv, buffer
<1>3. PcTypes' /\ TimeTypes' /\ CountTypes' /\ AtPlaces' /\ Stamped'
  BY <1>1, <1>2 DEF PcTypes, TimeTypes, CountTypes, AtPlaces, Stamped
<1>4. QED
  BY <1>2, <1>3 DEF DemoInv

LEMMA NextDemo == DemoInv /\ [Next]_vars => DemoInv'
<1> SUFFICES ASSUME DemoInv, [Next]_vars PROVE DemoInv'
  OBVIOUS
<1>1. CASE Produce
  BY <1>1, ProducerRuns, OpenWriterDemo, StoreElementDemo, AdvanceWriterDemo DEF Produce
<1>2. CASE Consume
  BY <1>2, ConsumerRuns, OpenReaderDemo, ReadingDemo DEF Consume
<1>3. CASE Main \/ Pass \/ UNCHANGED vars
  BY <1>3, MainDemo, PassDemo, StutterDemo
<1>4. QED
  BY <1>1, <1>2, <1>3 DEF Next

-------------------------------------------------------------------------------
(* The consumer keeps up *)

\* Where advance() has left the write head.
WriterHead ==
    /\ count > 0 /\ at[W] \notin {"reset", "lap"} => writeHead = Proved!HeadAfter(count)
    /\ at[W] = "reset" => writeHead = [index |-> N, lap |-> count \div N]
    /\ at[W] = "lap" => writeHead = [index |-> 0, lap |-> count \div N]

\* Neither side initializes a buffer that the other has used: the reader looked
\* before the writer was open, and is done before the first write.
InitInTime ==
    /\ at[W] \in Inits => left = 0
    /\ at[R] \in Inits => left = 0 /\ written = 0 /\ elapsed + pause[C] <= 0

\* No access was disturbed.
Exact == sound = TRUE /\ WriterHead /\ InitInTime

\* What was written and not read has room in the buffer, and nothing was skipped.
Contents == Kept \in 0 .. N /\ last = reads

\* The next attempt to read is over within b.  A sleep of the waiter begins
\* before its deadline.
Reach(b) ==
    /\ pc[C] = "absent" => pause[M] + lag[M] + ChildSleep + 3 * lag[C] <= b
    /\ pc[C] = "opening" => pause[C] + 3 * lag[C] <= b
    /\ pc[C] = "resetting" => pause[C] + 2 * lag[C] <= b
    /\ pc[C] = "reading" => pause[C] + lag[C] <= b
    /\ pc[C] = "waiting" =>
          /\ pause[C] + 2 * lag[C] <= b
          /\ deadline[C] > 0 => deadline[C] - 1 + SleepSize(C) + 2 * lag[C] <= b

\* If nothing has been read, the time since the start and b make the first read;
\* what was written took a period each.
First(b) == reads = 0 /\ written * Units[P] + elapsed + b <= FirstRead

\* The next attempt is over before the write that would find the buffer full: the next
\* one if the buffer is full, the one after it if one slot is free.
Later(b) ==
    /\ b < 2 * Units[P]
    /\ Kept = N => elapsed + b < Units[P]
    /\ Kept = N - 1 => b < Units[P] \/ elapsed + b < 2 * Units[P]

InTime == pc[C] # "done" => \E b \in Nat : Reach(b) /\ (First(b) \/ Later(b))

StepInv == KeepsUp /\ ~halfway => Exact /\ Contents /\ InTime

\* The times and the counts are integers.
LEMMA Numbers ==
    ASSUME DemoInv
    PROVE  /\ pause[C] \in Int /\ lag[C] \in Nat /\ pause[C] >= -lag[C]
           /\ pause[M] \in Int /\ lag[M] \in Nat /\ pause[M] >= -lag[M]
           /\ deadline[C] \in Int /\ deadline[C] <= Units[C]
           /\ Units[P] \in Nat /\ Units[P] > 0 /\ Units[C] \in Nat /\ Units[C] > 0
           /\ SleepSize(C) \in Nat /\ ChildSleep \in Nat /\ StartSleep \in Nat
           /\ elapsed \in Nat /\ written \in Nat /\ reads \in Nat
           /\ left \in Nat /\ left < N /\ N \in Nat /\ N >= 2
           /\ Kept \in Int /\ FirstRead \in Nat
<1>1. TimeTypes /\ CountTypes
  BY DEF DemoInv
<1>2. /\ pause[C] \in Int /\ lag[C] \in Nat /\ pause[C] >= -lag[C]
      /\ pause[M] \in Int /\ lag[M] \in Nat /\ pause[M] >= -lag[M]
      /\ deadline[C] \in Int /\ deadline[C] <= Units[C]
  BY <1>1, DemoConstants DEF TimeTypes
<1>3. /\ elapsed \in Nat /\ written \in Nat /\ reads \in Nat
      /\ left \in Nat /\ left < N
  BY <1>1, DemoConstants DEF CountTypes
<1>4. Kept \in Int
  BY <1>3 DEF Kept
<1>5. FirstRead \in Nat
  BY <1>2, DemoConstants DEF FirstRead, M, C
<1>6. QED
  BY <1>2, <1>3, <1>4, <1>5, DemoConstants

\* Whether the consumer keeps up does not change.
LEMMA KeepsUpSame == lag' = lag /\ left' = left => (KeepsUp' <=> KeepsUp) /\ FirstRead' = FirstRead
BY DEF KeepsUp, FirstRead

\* The lap of a head does not wrap.
LEMMA LapsInBound ==
    ASSUME DemoInv, NEW n \in Nat, n <= left + NumWrites
    PROVE  n \div N \in Proved!Laps /\ n \div N < LapMod
<1> DEFINE q == n \div N
           r == n % N
<1>1. q \in Nat /\ r \in 0 .. N - 1 /\ r = n - N * q
  BY BufferAssumptions, Proved!Digits
<1> HIDE DEF q, r
<1>2. /\ LapMod \in Nat /\ N \in Nat /\ NumWrites \in Nat
      /\ NumWrites + N <= N * LapMod
  BY DemoAssumption
<1>3. n < N * LapMod
  <2>1. left \in Nat /\ left < N /\ N * LapMod \in Nat
    BY <1>2, Numbers
  <2>2. QED
    BY <1>2, <2>1
<1>4. N * q \in Int /\ (LapMod <= q => N * LapMod <= N * q)
  BY <1>1, <1>2, BufferAssumptions, Proved!Multiples
<1>5. ~(LapMod <= q)
  BY <1>1, <1>2, <1>3, <1>4
<1>6. q \in 0 .. LapMod - 1 /\ q < LapMod
  BY <1>1, <1>2, <1>5
<1>7. QED
  BY <1>6 DEF q, Proved!Laps

\* The constructor finds the heads of a buffer that was used valid.
LEMMA HeadsValid ==
    ASSUME NEW m \in Nat, NEW n \in Nat, m <= n
    PROVE  Proved!ValidPair(Proved!HeadAfter(m), Proved!HeadAfter(n))
<1> DEFINE p == m \div N
           q == n \div N
           r == m % N
           s == n % N
<1>1. /\ p \in Nat /\ r \in 0 .. N - 1 /\ r = m - N * p
      /\ q \in Nat /\ s \in 0 .. N - 1 /\ s = n - N * q
  BY BufferAssumptions, Proved!Digits
<1>2. p <= q
  BY BufferAssumptions, Proved!LapsGrow
<1>3. /\ Proved!HeadAfter(m) = [index |-> r, lap |-> p]
      /\ Proved!HeadAfter(n) = [index |-> s, lap |-> q]
  BY DEF Proved!HeadAfter
<1> HIDE DEF p, q, r, s
<1>4. r < N /\ s < N
  BY <1>1, DemoConstants
<1>5. p < q \/ (p = q /\ r <= s)
  <2>1. N * p \in Int /\ N * q \in Int
    BY <1>1, BufferAssumptions, Proved!Multiples
  <2>2. p = q => r <= s
    BY <1>1, <2>1
  <2>3. QED
    BY <1>1, <1>2, <2>2
<1>6. QED
  BY <1>3, <1>4, <1>5 DEF Proved!ValidPair

\* A head tells how many elements left it there.
LEMMA HeadsDiffer ==
    ASSUME NEW m \in Nat, NEW n \in Nat, Proved!HeadAfter(m) = Proved!HeadAfter(n)
    PROVE  m = n
<1> DEFINE p == m \div N
           q == n \div N
<1>1. m % N = n % N /\ p = q
  BY DEF Proved!HeadAfter
<1>2. /\ p \in Nat /\ m % N \in Int /\ m % N = m - N * p
      /\ q \in Nat /\ n % N \in Int /\ n % N = n - N * q
  BY DemoConstants, BufferAssumptions, Proved!Digits
<1> HIDE DEF p, q
<1>3. N * p \in Int
  BY <1>2, BufferAssumptions, Proved!Multiples
<1>4. QED
  BY <1>1, <1>2, <1>3

\* What holds of the two heads while no access was disturbed.
LEMMA HeadsNow ==
    ASSUME DemoInv, Proved!ReadInv, Exact
    PROVE  /\ last <= count /\ count <= left + written
           /\ count > 0 => readHead = Proved!HeadAfter(last)
           /\ at[R] \in {"take", "store"} => count > 0
           /\ at[R] = "idle" /\ at[W] \notin {"reset", "lap"} =>
                 readHead = Proved!HeadAfter(last) /\ writeHead = Proved!HeadAfter(count)
<1>1. Proved!Undisturbed
  BY DEF Exact, Proved!ReadInv
<1>2. at[R] \notin Proved!Storing
  BY DEF DemoInv, PcTypes, AtPlaces, Proved!Storing, Inits
<1>3. count \in Nat /\ last \in Nat
  BY BufferTypes DEF DemoInv
<1>4. count <= left + written
  BY Numbers DEF DemoInv, CountTypes
<1>5. count = 0 => last = 0 /\ at[R] \notin {"take", "store"}
  BY <1>1 DEF Proved!Undisturbed, Proved!Fresh, R
<1>6. count > 0 => last <= count /\ readHead = Proved!HeadAfter(last)
  BY <1>1, <1>2 DEF Proved!Undisturbed, Proved!ReaderAt, R
<1>7. ASSUME at[R] = "idle", at[W] \notin {"reset", "lap"}
      PROVE  readHead = Proved!HeadAfter(last) /\ writeHead = Proved!HeadAfter(count)
  <2>1. CASE count = 0
    <3>1. readHead = Proved!Zero /\ writeHead = Proved!Zero
      BY <1>1, <1>7, <2>1, BufferTypes
         DEF DemoInv, Proved!Undisturbed, Proved!Fresh, R
    <3>2. QED
      BY <1>5, <2>1, <3>1, BufferAssumptions, Proved!DigitsOfZero
  <2>2. CASE count > 0
    BY <1>6, <1>7, <2>2 DEF Exact, WriterHead
  <2>3. QED
    BY <1>3, <2>1, <2>2
<1>8. QED
  BY <1>3, <1>4, <1>5, <1>6, <1>7

-------------------------------------------------------------------------------
(* No access is disturbed *)

\* The reader initializes nothing once it is open.
LEMMA ReaderOpening ==
    ASSUME DemoInv, at[R] \in Inits
    PROVE  pc[C] = "opening" /\ reads = 0
BY DEF DemoInv, PcTypes, AtPlaces, Inits

\* A step that leaves the buffer alone, and the reader its time.
LEMMA ExactSame ==
    ASSUME DemoInv, Exact, UNCHANGED <<buffer, left>>,
           at[R] \in Inits => written' = written /\ elapsed' + pause'[C] <= 0
    PROVE  Exact'
<1>1. UNCHANGED <<writeHead, at, count, sound>>
  BY DEF buffer
<1>2. Proved!HeadAfter(count)' = Proved!HeadAfter(count)
  BY <1>1 DEF Proved!HeadAfter
<1>3. WriterHead'
  BY <1>1, <1>2 DEF Exact, WriterHead
<1>4. QED
  BY <1>1, <1>3 DEF Exact, InitInTime

LEMMA ProducerRunsExact ==
    ASSUME PaceInv, DemoInv, KeepsUp, Exact,
           Begin \/ ResetProducer \/ WaitProducer \/ Measure
    PROVE  Exact'
<1>1. /\ PcTypes /\ TimeTypes /\ CountTypes /\ AtPlaces
      /\ UNCHANGED <<buffer, left>>
  BY DEF DemoInv, Begin, ResetProducer, WaitProducer, Measure, counts
<1>2. /\ pause'[C] = pause[C]
      /\ elapsed' = 0 \/ elapsed' = elapsed
      /\ written' = written \/ pc[P] = "writing"
  <2>1. \E sleep : pause' = [pause EXCEPT ![P] = sleep]
    BY DEF Begin, ResetProducer, WaitProducer, Measure, WaitOver, WaitLonger, Runs, P
  <2>2. pause'[C] = pause[C]
    BY <1>1, <2>1, DemoProcesses DEF TimeTypes
  <2>3. QED
    BY <2>2 DEF Begin, ResetProducer, WaitProducer, Measure, Goto, P, counts
<1>3. ASSUME at[R] \in Inits
      PROVE  written' = written /\ elapsed' + pause'[C] <= 0
  <2>1. elapsed + pause[C] <= 0
    BY <1>3 DEF Exact, InitInTime
  <2>2. 0 + pause[C] <= 0
    BY <2>1, Numbers
  <2>3. pc[P] # "writing"
    <3> SUFFICES ASSUME pc[P] = "writing" PROVE FALSE
      OBVIOUS
    <3>1. elapsed >= Units[P]
      BY DEF PaceInv, PaceWriting
    <3>2. 2 * lag[C] < Units[P]
      BY DEF KeepsUp, P, C
    <3>3. QED
      BY <2>1, <3>1, <3>2, Numbers
  <2>4. QED
    BY <1>2, <2>1, <2>2, <2>3
<1>4. QED
  BY <1>1, <1>3, ExactSame

\* A step of the consumer that leaves the buffer alone.
LEMMA ConsumerRunsExact ==
    ASSUME DemoInv, Exact, MakeWaiter \/ ResetConsumer \/ LeaveConsumer \/ WaitConsumer
    PROVE  Exact'
<1>1. UNCHANGED <<buffer, left>>
  BY DEF MakeWaiter, ResetConsumer, LeaveConsumer, WaitConsumer, counts
<1>2. at[R] \notin Inits
  <2>1. at[R] = "idle" \/ pc[C] # "opening"
    BY DEF MakeWaiter, ResetConsumer, LeaveConsumer, WaitConsumer, Goto, C, R
  <2>2. QED
    BY <2>1, ReaderOpening DEF Inits
<1>3. QED
  BY <1>1, <1>2, ExactSame

LEMMA MainExact == ASSUME DemoInv, Exact, Main PROVE Exact'
<1>1. /\ UNCHANGED <<buffer, left, written, elapsed>>
      /\ pc[C] = "opening" => pause' = pause
  BY DEF Main, StartConsumer, Finish, time, counts, DemoInv, AtPlaces, M, C
<1>2. at[R] \in Inits => elapsed' + pause'[C] <= 0
  BY <1>1, ReaderOpening DEF Exact, InitInTime
<1>3. QED
  BY <1>1, <1>2, ExactSame

LEMMA PassExact == ASSUME DemoInv, Exact, Pass PROVE Exact'
<1>1. /\ UNCHANGED <<buffer, left, written>>
      /\ elapsed' = IF pc[P] \in {"opening", "done"} THEN 0 ELSE elapsed + 1
      /\ Tick(Running)
  BY DEF Pass, P, counts
<1>2. ASSUME at[R] \in Inits
      PROVE  elapsed' + pause'[C] <= 0
  <2>1. C \in Running
    <3>1. pc[C] = "opening"
      BY <1>2, ReaderOpening
    <3>2. QED
      BY <3>1, DemoConstants DEF Running, M
  <2>2. pause'[C] = pause[C] - 1
    BY <1>1, <2>1, DemoConstants DEF Tick
  <2>3. elapsed + pause[C] <= 0 /\ elapsed' \in Nat /\ elapsed' <= elapsed + 1
    BY <1>1, <1>2, Numbers DEF Exact, InitInTime
  <2>4. QED
    BY <2>2, <2>3, Numbers
<1>3. QED
  BY <1>1, <1>2, ExactSame

LEMMA OpenWriterExact ==
    ASSUME DemoInv, Proved!ReadInv, Exact, OpenWriter
    PROVE  Exact'
<1>1. /\ PcTypes /\ CountTypes /\ AtPlaces /\ Stamped /\ Proved!ConcInv
      /\ pc[P] = "opening" /\ UNCHANGED <<pause, elapsed, written, left>>
      /\ Buffer!Construct(W) \/ Buffer!Initializing(W)
      /\ W \in Proved!Sides /\ R \in Proved!Sides /\ W # R
  BY BufferTypes DEF DemoInv, OpenWriter, Goto, Access, time, counts, P, W
<1>2. written = 0 /\ count = left /\ left \in Nat
  BY <1>1, Numbers DEF AtPlaces, CountTypes
<1>3. /\ at'[W] \in Inits \cup {"idle"} /\ at'[R] = at[R] /\ count' = count
      /\ at[W] \in Inits \cup {"down"}
  BY <1>1, OpeningSteps
<1>4. CASE Buffer!Construct(W)
  <2>1. /\ at[W] = "down" /\ sound' = sound /\ writeHead' = writeHead
        /\ IF Proved!ValidPair(readHead, writeHead) /\ key /\ crc
           THEN at'[W] = "idle" ELSE at'[W] = "read_head"
    BY <1>1, <1>4, OpeningSteps
  <2>2. at'[W] \in Inits => left = 0
    <3> SUFFICES ASSUME left > 0 PROVE at'[W] = "idle"
      BY <1>2 DEF Inits
    <3>1. /\ readHead = Proved!HeadAfter(last) /\ writeHead = Proved!HeadAfter(count)
          /\ last <= count
      BY <1>2, <2>1, HeadsNow DEF Exact, WriterHead
    <3>2. Proved!ValidPair(readHead, writeHead)
      BY <1>1, <3>1, HeadsValid, BufferTypes
    <3>3. key /\ crc
      BY <1>1, Zenon DEF Stamped
    <3>4. QED
      BY <2>1, <3>2, <3>3
  <2>3. WriterHead'
    <3>1. Proved!HeadAfter(count)' = Proved!HeadAfter(count)
      BY <1>3 DEF Proved!HeadAfter
    <3>2. QED
      BY <1>3, <2>1, <3>1 DEF Exact, WriterHead, Inits
  <2>4. QED
    BY <1>1, <1>3, <2>1, <2>2, <2>3 DEF Exact, InitInTime
<1>5. CASE Buffer!Initializing(W)
  <2>1. at[W] # "down" /\ (sound' = sound \/ sound' = (sound /\ count = 0))
    BY <1>1, <1>5, OpeningSteps
  <2>2. left = 0
    BY <1>3, <2>1 DEF Exact, InitInTime
  <2>3. count = 0
    BY <1>2, <2>2
  <2>4. sound' = TRUE
    BY <2>1, <2>3 DEF Exact
  <2>5. WriterHead'
    BY <1>3, <2>3 DEF WriterHead, Inits
  <2>6. QED
    BY <1>1, <1>3, <2>2, <2>4, <2>5 DEF Exact, InitInTime
<1>6. QED
  BY <1>1, <1>4, <1>5

LEMMA StoreElementExact ==
    ASSUME DemoInv, Exact, StoreElement
    PROVE  Exact'
<1>1. /\ Proved!WriteSlot /\ Proved!ConcInv
      /\ UNCHANGED <<pause, elapsed, written, left>>
  BY BufferSteps DEF DemoInv, StoreElement, Access, time, counts
<1>2. /\ at[W] = "idle" /\ at' = [at EXCEPT ![W] = "advance"]
      /\ UNCHANGED <<writeHead, count, sound>>
  BY <1>1 DEF Proved!WriteSlot, Proved!Goto, Proved!history, W
<1>3. at'[W] = "advance" /\ at'[R] = at[R]
  BY <1>1, <1>2, BufferTypes
<1>4. Proved!HeadAfter(count)' = Proved!HeadAfter(count)
  BY <1>2 DEF Proved!HeadAfter
<1>5. WriterHead'
  BY <1>2, <1>3, <1>4 DEF Exact, WriterHead
<1>6. QED
  BY <1>1, <1>2, <1>3, <1>5 DEF Exact, InitInTime, Inits

LEMMA AdvanceWriterExact ==
    ASSUME DemoInv, Proved!ReadInv, Exact, AdvanceWriter
    PROVE  Exact'
<1>1. /\ PcTypes /\ CountTypes /\ Proved!ConcInv
      /\ Buffer!Advancing /\ Proved!Advancing
      /\ pc[P] = "advancing"
      /\ UNCHANGED <<pause, elapsed, written, left>>
  BY BufferSteps DEF DemoInv, AdvanceWriter, Access, time, counts, Goto, P
<1>2. /\ at[W] \in {"advance", "reset", "lap"} /\ at'[R] = at[R]
      /\ at'[W] \in {"reset", "lap", "idle"} /\ sound' = sound
      /\ count' = IF at'[W] = "idle" THEN count + 1 ELSE count
  BY <1>1, AdvanceSteps
<1>3. at \in [Proved!Sides -> Proved!Places] /\ W \in Proved!Sides /\ count \in Nat
  BY <1>1, BufferTypes
<1>4. /\ count + 1 <= left + NumWrites
      /\ (count + 1) \div N \in Proved!Laps /\ (count + 1) \div N < LapMod
  <2>1. count + 1 = left + written /\ written <= NumWrites
    BY <1>1, Numbers, DemoConstants DEF CountTypes
  <2>2. NumWrites \in Nat
    BY DemoConstants
  <2>3. count + 1 <= left + NumWrites
    BY <2>1, <2>2, Numbers
  <2>4. QED
    BY <1>3, <2>3, LapsInBound
<1>5. count % N \in 0 .. N - 1 /\ count \div N \in Nat
  BY <1>3, BufferAssumptions, Proved!Digits
<1>6. /\ (count % N) + 1 = N => /\ (count + 1) % N = 0
                                /\ (count + 1) \div N = count \div N + 1
      /\ (count % N) + 1 # N => /\ (count + 1) % N = (count % N) + 1
                                /\ (count + 1) \div N = count \div N
  BY <1>3, BufferAssumptions, Proved!NextDigits
<1>7. CASE Proved!AdvanceIndex
  <2>1. /\ at[W] = "advance"
        /\ writeHead' = [writeHead EXCEPT !.index = @ + 1]
        /\ IF writeHead.index + 1 = N
           THEN at' = [at EXCEPT ![W] = "reset"] /\ count' = count
           ELSE at' = [at EXCEPT ![W] = "idle"] /\ count' = count + 1
    BY <1>7 DEF Proved!AdvanceIndex, Proved!Goto, W
  <2>2. writeHead = [index |-> count % N, lap |-> count \div N]
    <3>1. CASE count > 0
      BY <2>1, <3>1 DEF Exact, WriterHead, Proved!HeadAfter
    <3>2. CASE count = 0
      <4>1. writeHead = Proved!Zero
        BY <1>3, <2>1, <3>2
           DEF Exact, Proved!ReadInv, Proved!Undisturbed, Proved!Fresh, W
      <4>2. QED
        BY <3>2, <4>1, BufferAssumptions, Proved!DigitsOfZero DEF Proved!HeadAfter
    <3>3. QED
      BY <1>3, <3>1, <3>2
  <2>3. writeHead' = [index |-> (count % N) + 1, lap |-> count \div N]
    BY <2>1, <2>2
  <2>4. ASSUME (count % N) + 1 = N PROVE WriterHead'
    <3>1. at'[W] = "reset" /\ count' = count
      BY <1>3, <2>1, <2>2, <2>4
    <3>2. QED
      BY <2>3, <2>4, <3>1 DEF WriterHead
  <2>5. ASSUME (count % N) + 1 # N PROVE WriterHead'
    <3>1. at'[W] = "idle" /\ count' = count + 1
      BY <1>3, <2>1, <2>2, <2>5
    <3>2. writeHead' = [index |-> (count + 1) % N, lap |-> (count + 1) \div N]
      BY <1>6, <2>3, <2>5
    <3>3. writeHead' = Proved!HeadAfter(count')
      BY <3>1, <3>2 DEF Proved!HeadAfter
    <3>4. Proved!HeadAfter(count)' = Proved!HeadAfter(count')
      BY DEF Proved!HeadAfter
    <3>5. QED
      BY <3>1, <3>3, <3>4 DEF WriterHead
  <2>6. WriterHead'
    BY <2>4, <2>5
  <2>7. QED
    BY <1>1, <1>2, <2>6 DEF Exact, InitInTime, Inits
<1>8. CASE Proved!ResetIndex
  <2>1. /\ at[W] = "reset" /\ at' = [at EXCEPT ![W] = "lap"] /\ count' = count
        /\ writeHead' = [writeHead EXCEPT !.index = 0]
    BY <1>8 DEF Proved!ResetIndex, Proved!Goto, Proved!history, W
  <2>2. at'[W] = "lap"
    BY <1>3, <2>1
  <2>3. writeHead' = [index |-> 0, lap |-> count \div N]
    BY <2>1 DEF Exact, WriterHead
  <2>4. WriterHead'
    BY <2>1, <2>2, <2>3 DEF WriterHead
  <2>5. QED
    BY <1>1, <1>2, <2>4 DEF Exact, InitInTime, Inits
<1>9. CASE Proved!AdvanceLap
  <2>1. /\ at[W] = "lap" /\ at' = [at EXCEPT ![W] = "idle"] /\ count' = count + 1
        /\ writeHead' = [writeHead EXCEPT !.lap = Proved!LapAfter(@)]
    BY <1>9 DEF Proved!AdvanceLap, Proved!Goto, W
  <2>2. at'[W] = "idle"
    BY <1>3, <2>1
  <2>3. count % N = N - 1
    <3>1. Proved!Undisturbed
      BY DEF Exact, Proved!ReadInv
    <3>2. count # 0
      BY <2>1, <3>1 DEF Proved!Undisturbed, Proved!Fresh, W
    <3>3. count > 0
      BY <1>3, <3>2
    <3>4. QED
      BY <2>1, <3>1, <3>3 DEF Proved!Undisturbed, Proved!WriterAt, W
  <2>4. (count + 1) % N = 0 /\ (count + 1) \div N = count \div N + 1
    <3>1. (count % N) + 1 = N
      BY <2>3, DemoConstants
    <3>2. QED
      BY <1>6, <3>1
  <2>5. Proved!LapAfter(count \div N) = (count + 1) \div N
    <3>1. count \div N # LapMod - 1
      BY <1>4, <1>5, <2>4, DemoAssumption
    <3>2. QED
      BY <2>4, <3>1 DEF Proved!LapAfter
  <2>6. writeHead = [index |-> 0, lap |-> count \div N]
    BY <2>1 DEF Exact, WriterHead
  <2>7. writeHead' = Proved!HeadAfter(count')
    BY <2>1, <2>4, <2>5, <2>6 DEF Proved!HeadAfter
  <2>8. Proved!HeadAfter(count)' = Proved!HeadAfter(count')
    BY DEF Proved!HeadAfter
  <2>9. WriterHead'
    BY <2>2, <2>7, <2>8 DEF WriterHead
  <2>10. QED
    BY <1>1, <1>2, <2>9 DEF Exact, InitInTime, Inits
<1>10. QED
  BY <1>1, <1>7, <1>8, <1>9 DEF Proved!Advancing

\* The reader looks at the heads when the writer is not in the middle of advance().
LEMMA OpenReaderExact ==
    ASSUME DemoInv, Proved!ReadInv, Exact, OpenReader, ~halfway'
    PROVE  Exact'
<1>1. /\ PcTypes /\ CountTypes /\ AtPlaces /\ Stamped /\ Proved!ConcInv
      /\ pause[C] <= 0 /\ UNCHANGED <<pause, elapsed, written, left>>
      /\ Buffer!Construct(R) \/ Buffer!Initializing(R)
      /\ W \in Proved!Sides /\ R \in Proved!Sides /\ W # R
  BY BufferTypes DEF DemoInv, OpenReader, Access, time, counts, C, R
<1>2. left \in Nat /\ written \in Nat /\ count \in Nat
  BY <1>1, Numbers, BufferTypes
<1>3. at'[R] \in Inits \cup {"idle"} /\ at'[W] = at[W] /\ count' = count
  BY <1>1, OpeningSteps
<1>4. CASE Buffer!Construct(R)
  <2>1. /\ at[R] = "down" /\ sound' = sound
        /\ UNCHANGED <<readHead, writeHead>>
        /\ IF Proved!ValidPair(readHead, writeHead) /\ key /\ crc
           THEN at'[R] = "idle" ELSE at'[R] = "read_head"
    BY <1>1, <1>4, OpeningSteps
  <2>2. at[W] \notin {"reset", "lap"}
    <3>1. ~Buffer!Initializing(R)
      BY <1>1, <2>1, OpeningSteps
    <3>2. QED
      BY <3>1 DEF OpenReader, Look, W, R
  <2>3. ASSUME pc[P] # "opening" \/ left > 0
        PROVE  at'[R] = "idle"
    <3>1. key /\ crc
      <4>1. pc[P] # "opening" => at[W] \notin Inits \cup {"down"}
        BY <1>1 DEF PcTypes, AtPlaces, Inits
      <4>2. key = TRUE /\ crc = TRUE
        BY <1>1, <2>3, <4>1 DEF Stamped, Inits
      <4>3. QED
        BY <4>2
    <3>2. Proved!ValidPair(readHead, writeHead)
      <4>1. CASE count > 0
        <5>1. /\ readHead = Proved!HeadAfter(last) /\ writeHead = Proved!HeadAfter(count)
              /\ last <= count
          BY <2>2, <4>1, HeadsNow DEF Exact, WriterHead
        <5>2. QED
          BY <1>1, <5>1, HeadsValid, BufferTypes
      <4>2. CASE count = 0
        <5>1. at[W] \notin Inits \cup {"down"}
          <6>1. pc[P] # "opening"
            BY <1>1, <1>2, <2>3, <4>2 DEF CountTypes, AtPlaces
          <6>2. QED
            BY <1>1, <6>1 DEF PcTypes, AtPlaces, Inits
        <5>2. readHead = Proved!Zero /\ writeHead = Proved!Zero
          BY <1>1, <4>2, <5>1
             DEF Exact, Proved!ReadInv, Proved!Undisturbed, Proved!Fresh, Inits
        <5>3. QED
          BY <5>2, DemoConstants DEF Proved!ValidPair, Proved!Zero
      <4>3. QED
        BY <1>2, <4>1, <4>2
    <3>3. QED
      BY <2>1, <3>1, <3>2
  <2>4. ASSUME at'[R] \in Inits
        PROVE  left = 0 /\ written = 0 /\ elapsed + pause[C] <= 0
    <3>1. pc[P] = "opening" /\ ~(left > 0)
      BY <2>3, <2>4 DEF Inits
    <3>2. left = 0 /\ written = 0 /\ elapsed = 0
      BY <1>1, <1>2, <3>1 DEF AtPlaces
    <3>3. QED
      BY <1>1, <3>2, Numbers
  <2>5. WriterHead'
    <3>1. Proved!HeadAfter(count)' = Proved!HeadAfter(count)
      BY <1>3 DEF Proved!HeadAfter
    <3>2. QED
      BY <1>3, <2>1, <3>1 DEF Exact, WriterHead
  <2>6. QED
    BY <1>1, <1>3, <2>1, <2>4, <2>5 DEF Exact, InitInTime
<1>5. CASE Buffer!Initializing(R)
  <2>1. at[R] # "down" /\ (sound' = sound \/ sound' = (sound /\ count = 0))
    BY <1>1, <1>5, OpeningSteps
  <2>2. at[R] \in Inits
    BY <1>1, <2>1, OpeningSteps
  <2>3. left = 0 /\ written = 0 /\ elapsed + pause[C] <= 0
    BY <2>2 DEF Exact, InitInTime
  <2>4. count = 0 /\ at[W] \notin {"reset", "lap"}
    BY <1>1, <1>2, <2>3 DEF CountTypes, AtPlaces, PcTypes, Inits
  <2>5. sound' = TRUE
    BY <2>1, <2>4 DEF Exact
  <2>6. WriterHead'
    BY <1>3, <2>4 DEF WriterHead
  <2>7. QED
    BY <1>1, <1>3, <2>3, <2>5, <2>6 DEF Exact, InitInTime
<1>6. QED
  BY <1>1, <1>4, <1>5

\* What was not read has room.
LEMMA UnreadFit == ASSUME DemoInv, Contents PROVE left + written <= last + N
<1>1. left \in Nat /\ written \in Nat /\ reads \in Nat /\ N \in Nat
  BY Numbers
<1>2. left + written - reads \in 0 .. N /\ last = reads
  BY DEF Contents, Kept
<1>3. QED
  BY <1>1, <1>2

\* The next element, and every one after it, is still in its slot.
LEMMA NextInSlot ==
    ASSUME DemoInv, Proved!ReadInv, Exact, Contents, NEW k \in Nat, last < k, k <= count
    PROVE  data[(k - 1) % N] = k
<1>1. /\ Stamped /\ Proved!SlotsHold /\ data \in [0 .. N - 1 -> Nat]
      /\ last \in Nat /\ count \in Nat /\ count <= left + written
  BY HeadsNow, BufferTypes DEF DemoInv, Exact, Proved!ReadInv, Proved!Undisturbed
<1>2. k \in 1 .. count /\ k - 1 \in Nat
  BY <1>1
<1>3. (k - 1) % N \in 0 .. N - 1
  BY <1>2, BufferAssumptions, Proved!Digits
<1> DEFINE d == data[(k - 1) % N]
<1>4. d \in Nat /\ d >= k /\ d <= left + written
  BY <1>1, <1>2, <1>3 DEF Stamped, Proved!SlotsHold
<1>5. d # 0 /\ d < k + N
  <2> HIDE DEF d
  <2>1. left + written <= last + N
    BY UnreadFit
  <2>2. left \in Nat /\ written \in Nat /\ N \in Nat
    BY Numbers
  <2>3. QED
    BY <1>1, <1>2, <1>4, <2>1, <2>2
<1>6. (d - 1) % N = (k - 1) % N
  BY <1>1, <1>3, <1>5 DEF Proved!SlotsHold
<1> HIDE DEF d
<1>7. d = k
  BY <1>2, <1>4, <1>5, <1>6, BufferAssumptions, Proved!OneInASlot
<1>8. QED
  BY <1>7 DEF d

\* The reader takes the next element, for none was skipped.
LEMMA WantedIsNext ==
    ASSUME DemoInv, Proved!ReadInv, Exact, Contents, at[R] \in {"take", "store"}
    PROVE  /\ Proved!Wanted = last + 1 /\ last < seen /\ seen <= count
           /\ at[R] = "take" => head = Proved!HeadAfter(last)
           /\ at[R] = "store" => value = last + 1
<1>1. /\ last \in Nat /\ count \in Nat /\ seen \in Nat
      /\ count <= left + written /\ count > 0
  BY HeadsNow, BufferTypes DEF DemoInv
<1>2. /\ last < seen /\ seen <= count
      /\ at[R] = "take" => head = Proved!HeadAfter(Proved!Wanted - 1)
      /\ at[R] = "store" => value = Proved!Wanted
  <2>1. Proved!ReaderAt
    BY DEF Exact, Proved!ReadInv, Proved!Undisturbed
  <2>2. QED
    BY <1>1, <2>1 DEF Proved!ReaderAt, R
<1>3. Proved!Wanted = last + 1
  <2>1. left + written <= last + N
    BY UnreadFit
  <2>2. ~(last + 1 > (seen - N) + 1) => (seen - N) + 1 = last + 1
    BY <1>1, <1>2, <2>1, Numbers
  <2>3. QED
    BY <2>2 DEF Proved!Wanted, Proved!Larger
<1>4. Proved!Wanted - 1 = last
  BY <1>1, <1>3
<1>5. QED
  BY <1>2, <1>3, <1>4

\* An attempt to read is not disturbed.
LEMMA ReadingExact ==
    ASSUME DemoInv, Proved!ReadInv, Exact, Contents,
           CopyWriteHead \/ TakeElement \/ StoreReadHead, ~halfway'
    PROVE  Exact'
<1>1. /\ AtPlaces /\ Proved!ConcInv /\ pc[C] = "reading"
      /\ UNCHANGED <<written, left>>
      /\ Buffer!CopyWide \/ Buffer!TakeSlot \/ Buffer!StoreWide
  BY DEF DemoInv, CopyWriteHead, TakeElement, StoreReadHead, C, counts, Goto
<1>2. /\ at'[W] = at[W] /\ UNCHANGED <<writeHead, count>>
      /\ at'[R] \in {"idle", "take", "store"}
  BY <1>1, ReadSteps
<1>3. WriterHead'
  <2>1. Proved!HeadAfter(count)' = Proved!HeadAfter(count)
    BY <1>2 DEF Proved!HeadAfter
  <2>2. QED
    BY <1>2, <2>1 DEF Exact, WriterHead
<1>4. InitInTime'
  BY <1>1, <1>2 DEF Exact, InitInTime, Inits
<1>5. sound' = TRUE
  <2>1. CASE CopyWriteHead
    <3>1. Buffer!CopyWide /\ at[W] \notin {"reset", "lap"}
      BY <2>1 DEF CopyWriteHead, Look, W
    <3>2. at[R] = "idle" /\ sound' = (sound /\ writeHead = Proved!HeadAfter(count))
      BY <1>1, <3>1, ReadSteps
    <3>3. writeHead = Proved!HeadAfter(count)
      BY <3>1, <3>2, HeadsNow
    <3>4. QED
      BY <3>2, <3>3 DEF Exact
  <2>2. CASE TakeElement
    <3>1. /\ at[R] = "take"
          /\ value' = IF head.index < N THEN data[head.index] ELSE Proved!Stray
          /\ sound' = (sound /\ value' <= seen)
      BY <1>1, <2>2, ReadSteps DEF TakeElement
    <3>2. /\ head = Proved!HeadAfter(last) /\ last < seen /\ seen <= count
          /\ last \in Nat /\ seen \in Nat /\ count \in Nat
      BY <1>1, <3>1, WantedIsNext, BufferTypes
    <3>3. data[((last + 1) - 1) % N] = last + 1
      <4>1. last + 1 \in Nat /\ last < last + 1 /\ last + 1 <= count
        BY <3>2
      <4>2. QED
        BY <4>1, NextInSlot
    <3>4. (last + 1) - 1 = last /\ last % N \in 0 .. N - 1
      BY <3>2, BufferAssumptions, Proved!Digits
    <3>5. head.index = last % N /\ last % N < N
      BY <3>2, <3>4, DemoConstants DEF Proved!HeadAfter
    <3>6. value' = last + 1
      BY <3>1, <3>3, <3>4, <3>5
    <3>7. value' <= seen
      BY <3>2, <3>6
    <3>8. QED
      BY <3>1, <3>7 DEF Exact
  <2>3. CASE StoreReadHead
    <3>1. sound' = sound
      BY <1>1, <2>3, ReadSteps DEF StoreReadHead
    <3>2. QED
      BY <3>1 DEF Exact
  <2>4. QED
    BY <1>1, <2>1, <2>2, <2>3 DEF CopyWriteHead, TakeElement, StoreReadHead
<1>6. QED
  BY <1>3, <1>4, <1>5 DEF Exact

\* No step disturbs an access.
LEMMA NextExact ==
    ASSUME PaceInv, DemoInv, Proved!ReadInv, KeepsUp, Exact, Contents,
           [Next]_vars, ~halfway'
    PROVE  Exact'
<1>1. CASE Begin \/ ResetProducer \/ WaitProducer \/ Measure
  BY <1>1, ProducerRunsExact
<1>2. CASE OpenWriter \/ StoreElement \/ AdvanceWriter
  BY <1>2, OpenWriterExact, StoreElementExact, AdvanceWriterExact
<1>3. CASE OpenReader \/ CopyWriteHead \/ TakeElement \/ StoreReadHead
  BY <1>3, OpenReaderExact, ReadingExact
<1>4. CASE MakeWaiter \/ ResetConsumer \/ LeaveConsumer \/ WaitConsumer
  BY <1>4, ConsumerRunsExact
<1>5. CASE Main \/ Pass
  BY <1>5, MainExact, PassExact
<1>6. CASE UNCHANGED vars
  <2>1. UNCHANGED <<buffer, left, written, elapsed, pause>>
    BY <1>6 DEF vars, counts, time
  <2>2. at[R] \in Inits => elapsed' + pause'[C] <= 0
    BY <2>1 DEF Exact, InitInTime
  <2>3. QED
    BY <2>1, <2>2, ExactSame
<1>7. QED
  BY <1>1, <1>2, <1>3, <1>4, <1>5, <1>6 DEF Next, Produce, Consume

-------------------------------------------------------------------------------
(* The next attempt comes in time *)

\* A step that the consumer does not notice: the next attempt comes no later.
LEMMA OthersInStep ==
    ASSUME DemoInv, Contents, InTime,
           UNCHANGED <<written, reads, left, elapsed, last, lag>>,
           pc'[C] = pc[C], pause'[C] = pause[C], deadline'[C] = deadline[C],
           pc[C] = "absent" => pause'[M] = pause[M]
    PROVE  Contents' /\ InTime'
<1>1. Contents' /\ Kept' = Kept
  BY DEF Contents, Kept
<1>2. ASSUME NEW b \in Nat, Reach(b)
      PROVE  Reach(b)'
  BY <1>2 DEF Reach
<1>3. ASSUME NEW b \in Nat
      PROVE  (First(b) => First(b)') /\ (Later(b) => Later(b)')
  BY <1>1 DEF First, Later, FirstRead
<1>4. InTime'
  BY <1>2, <1>3 DEF InTime
<1>5. QED
  BY <1>1, <1>4

LEMMA ProducerInStep ==
    ASSUME DemoInv, Contents, InTime,
           \/ OpenWriter \/ Begin \/ ResetProducer \/ WaitProducer
           \/ StoreElement \/ AdvanceWriter
    PROVE  Contents' /\ InTime'
<1>1. PcTypes /\ TimeTypes /\ AtPlaces /\ Proved!ConcInv
  BY DEF DemoInv
<1>2. CASE Begin \/ ResetProducer \/ WaitProducer
  <2>1. PICK sleep \in Nat, to \in {"resetting", "waiting", "writing"},
             from \in {"opening", "resetting", "waiting"} :
           /\ Goto(P, from, to) /\ Runs(P, sleep)
           /\ deadline' = deadline \/ ResetWaiter(P)
    BY <1>2, DemoConstants DEF Begin, ResetProducer, WaitProducer, WaitOver, WaitLonger, P
  <2>2. to \in Places
    BY DEF Places
  <2>3. /\ lag' = lag /\ pc'[C] = pc[C] /\ pause'[C] = pause[C]
        /\ pause'[M] = pause[M] /\ deadline'[C] = deadline[C]
    BY <1>1, <2>1, <2>2, DemoProcesses, Move
  <2>4. UNCHANGED <<written, reads, left, last>> /\ elapsed' = elapsed
    <3>1. UNCHANGED <<written, reads, left, last>>
      BY <1>2 DEF Begin, ResetProducer, WaitProducer, counts, buffer
    <3>2. CASE Begin
      <4>1. pc[P] = "opening" /\ elapsed' = 0
        BY <3>2 DEF Begin, Goto, P
      <4>2. QED
        BY <1>1, <3>1, <4>1 DEF AtPlaces
    <3>3. CASE ResetProducer \/ WaitProducer
      BY <3>1, <3>3 DEF ResetProducer, WaitProducer
    <3>4. QED
      BY <1>2, <3>2, <3>3, <3>1
  <2>5. QED
    BY <2>3, <2>4, OthersInStep
<1>3. CASE OpenWriter \/ StoreElement \/ AdvanceWriter
  <2>1. /\ \E from, to : Goto(P, from, to)
        /\ UNCHANGED <<deadline, pause, lag, elapsed, written, reads, left>>
    BY <1>3 DEF OpenWriter, StoreElement, AdvanceWriter, Access, time, counts, P
  <2>2. pc'[C] = pc[C]
    BY <1>1, <2>1, DemoProcesses DEF PcTypes, Goto
  <2>3. last' = last
    <3>1. CASE OpenWriter
      BY <1>1, <3>1, BufferTypes, OpeningSteps DEF OpenWriter, W
    <3>2. CASE StoreElement
      BY <3>2, BufferSteps DEF StoreElement, Proved!WriteSlot, Proved!history
    <3>3. CASE AdvanceWriter
      BY <1>1, <3>3, AdvanceSteps DEF AdvanceWriter
    <3>4. QED
      BY <1>3, <3>1, <3>2, <3>3
  <2>4. QED
    BY <2>1, <2>2, <2>3, OthersInStep
<1>4. QED
  BY <1>2, <1>3

\* A number of writes that fit in a time, a period each.
LEMMA WritesInTime ==
    ASSUME NEW w \in Nat, NEW u \in Nat, u > 0, NEW f \in Nat, NEW e \in Nat, NEW b \in Nat,
           e >= u, w * u + e + b <= f
    PROVE  /\ (w + 1) * u + b <= f
           /\ f \div u \in Nat /\ w + 1 <= f \div u
<1>1. (w + 1) * u = w * u + u /\ w * u \in Nat
  OBVIOUS
<1>2. (w + 1) * u + b <= f
  BY <1>1
<1>3. f \div u \in Nat /\ f < (f \div u + 1) * u
  OBVIOUS
<1>4. w + 1 < f \div u + 1
  <2> DEFINE q == f \div u
  <2>1. q \in Nat /\ (w + 1) * u < (q + 1) * u
    BY <1>1, <1>2, <1>3
  <2> HIDE DEF q
  <2>2. w + 1 < q + 1
    BY <2>1
  <2>3. QED
    BY <2>2 DEF q
<1>5. QED
  BY <1>2, <1>3, <1>4

\* A write finds a free slot.
LEMMA RoomToWrite ==
    ASSUME PaceInv, DemoInv, KeepsUp, Contents, InTime, pc[P] = "writing"
    PROVE  Kept < N
<1>1. elapsed >= Units[P]
  BY DEF PaceInv, PaceWriting
<1>2. Kept <= N /\ Kept = left + written - reads
  BY Numbers DEF Contents, Kept
<1>3. CASE pc[C] = "done"
  <2>1. reads = NumWrites /\ written < NumWrites /\ NumWrites \in Nat
    BY <1>3, DemoConstants DEF DemoInv, AtPlaces, CountTypes
  <2>2. QED
    BY <1>2, <2>1, Numbers
<1>4. CASE pc[C] # "done"
  <2>1. PICK b \in Nat : First(b) \/ Later(b)
    BY <1>4 DEF InTime
  <2>2. CASE First(b)
    <3>1. FirstRead \div Units[P] \in Nat /\ written + 1 <= FirstRead \div Units[P]
      BY <1>1, <2>2, Numbers, WritesInTime DEF First
    <3>2. left + FirstRead \div Units[P] <= N /\ reads = 0
      BY <2>2 DEF KeepsUp, First, P
    <3>3. QED
      BY <1>2, <3>1, <3>2, Numbers
  <2>3. CASE Later(b)
    BY <1>1, <1>2, <2>3, Numbers DEF Later
  <2>4. QED
    BY <2>1, <2>2, <2>3
<1>5. QED
  BY <1>3, <1>4

\* What was measured is about to be written.
LEMMA MeasureInStep ==
    ASSUME PaceInv, DemoInv, KeepsUp, Contents, InTime, Measure
    PROVE  Contents' /\ InTime'
<1>1. /\ PcTypes /\ TimeTypes
      /\ Goto(P, "writing", "storing") /\ Runs(P, 0) /\ deadline' = deadline
      /\ elapsed' = 0 /\ written' = written + 1 /\ UNCHANGED <<reads, left, last>>
  BY DEF DemoInv, Measure, P, buffer
<1>2. /\ pc[P] = "writing" /\ pc'[C] = pc[C] /\ pause'[C] = pause[C]
      /\ pause'[M] = pause[M] /\ deadline'[C] = deadline[C] /\ lag' = lag
  <2>1. "storing" \in Places /\ 0 \in Nat
    BY DEF Places
  <2>2. QED
    BY <1>1, <2>1, DemoProcesses, Move
<1>3. Kept \in 0 .. N /\ Kept < N
  BY <1>2, RoomToWrite DEF Contents
<1>4. Kept' = Kept + 1
  BY <1>1, Numbers DEF Kept
<1>5. Contents'
  <2>1. Kept + 1 \in 0 .. N
    BY <1>3, Numbers
  <2>2. Kept' \in 0 .. N'
    BY <1>4, <2>1
  <2>3. QED
    BY <1>1, <2>2 DEF Contents
<1>6. ASSUME pc[C] # "done"
      PROVE  \E b \in Nat : Reach(b)' /\ (First(b)' \/ Later(b)')
  <2>1. PICK b \in Nat : Reach(b) /\ (First(b) \/ Later(b))
    BY <1>6 DEF InTime
  <2>2. Reach(b)'
    BY <1>2, <2>1 DEF Reach
  <2>3. elapsed >= Units[P]
    BY <1>2 DEF PaceInv, PaceWriting
  <2>4. CASE First(b)
    <3>1. (written + 1) * Units[P] + b <= FirstRead /\ reads = 0
      BY <2>3, <2>4, Numbers, WritesInTime DEF First
    <3>2. FirstRead' = FirstRead
      BY <1>2 DEF FirstRead
    <3>3. written' * Units[P] + elapsed' + b <= FirstRead'
      <4>1. (written + 1) * Units[P] \in Nat
        BY Numbers
      <4>2. QED
        BY <1>1, <3>1, <3>2, <4>1
    <3>4. QED
      BY <1>1, <2>2, <3>1, <3>3 DEF First
  <2>5. CASE Later(b)
    <3>1. /\ b < 2 * Units[P]
          /\ Kept = N - 1 => b < Units[P] \/ elapsed + b < 2 * Units[P]
      BY <2>5 DEF Later
    <3>2. Kept' = N => b < Units[P]
      BY <1>3, <1>4, <2>3, <3>1, Numbers
    <3>3. Later(b)'
      BY <1>1, <3>1, <3>2, Numbers DEF Later
    <3>4. QED
      BY <2>2, <3>3
  <2>6. QED
    BY <2>1, <2>4, <2>5
<1>7. QED
  BY <1>2, <1>5, <1>6 DEF InTime

LEMMA MainInStep ==
    ASSUME DemoInv, Contents, InTime, Main
    PROVE  Contents' /\ InTime'
<1>1. /\ PcTypes /\ TimeTypes /\ AtPlaces
      /\ UNCHANGED <<deadline, lag, elapsed, written, reads, left, last>>
  BY DEF DemoInv, Main, StartConsumer, Finish, time, counts, buffer
<1>2. CASE Finish
  <2>1. pc[C] = "done" /\ pc' = [pc EXCEPT ![M] = "done"] /\ pause' = pause
    BY <1>2 DEF Finish, Goto, time, M, C
  <2>2. pc'[C] = pc[C]
    BY <1>1, <2>1, DemoConstants DEF PcTypes
  <2>3. QED
    BY <1>1, <2>1, <2>2, OthersInStep
<1>3. CASE StartConsumer
  <2>1. /\ pc[M] = "starting"
        /\ pc' = [pc EXCEPT ![M] = "waiting", ![C] = "opening"]
        /\ pause' = [pause EXCEPT ![M] = 0, ![C] = ChildSleep]
    BY <1>3 DEF StartConsumer, M, C
  <2>2. pc[C] = "absent" /\ pc'[C] = "opening" /\ pause'[C] = ChildSleep
    BY <1>1, <2>1, DemoConstants DEF AtPlaces, PcTypes, TimeTypes
  <2>3. Contents' /\ Kept' = Kept
    BY <1>1 DEF Contents, Kept
  <2>4. PICK b \in Nat : Reach(b) /\ (First(b) \/ Later(b))
    BY <2>2 DEF InTime
  <2>5. pause[M] + lag[M] + ChildSleep + 3 * lag[C] <= b
    BY <2>2, <2>4 DEF Reach
  <2>6. Reach(b)'
    BY <1>1, <2>2, <2>5, Numbers DEF Reach
  <2>7. First(b)' \/ Later(b)'
    BY <1>1, <2>3, <2>4 DEF First, Later, FirstRead
  <2>8. QED
    BY <2>3, <2>6, <2>7 DEF InTime
<1>4. QED
  BY <1>2, <1>3 DEF Main
-------------------------------------------------------------------------------
(* The steps of the consumer, and the passing of time *)

LEMMA QuietInStep ==
    ASSUME DemoInv, Contents, InTime,
           MakeWaiter \/ ResetConsumer \/ LeaveConsumer \/ WaitConsumer
    PROVE  Contents' /\ InTime'
<1>1. /\ PcTypes /\ TimeTypes
      /\ UNCHANGED <<elapsed, written, reads, left, last>>
  BY DEF DemoInv, MakeWaiter, ResetConsumer, LeaveConsumer, WaitConsumer, counts, buffer
<1>2. Contents' /\ Kept' = Kept
  BY <1>1 DEF Contents, Kept
<1>3. PICK to \in {"resetting", "reading", "waiting", "done"}, sleep \in Nat,
           from \in {"opening", "resetting", "waiting"} :
         /\ Goto(C, from, to) /\ Runs(C, sleep)
         /\ deadline' = deadline \/ ResetWaiter(C)
         /\ \/ from = "opening" /\ to = "resetting" /\ sleep = 0
            \/ from = "resetting" /\ to = "reading" /\ sleep = 0
            \/ from = "resetting" /\ to = "done"
            \/ from = "waiting" /\ to = "reading" /\ sleep = 0
            \/ /\ from = "waiting" /\ to = "waiting" /\ sleep = SleepSize(C)
               /\ deadline' = deadline /\ ~(deadline[C] <= 0)
  BY DemoConstants DEF MakeWaiter, ResetConsumer, LeaveConsumer, WaitConsumer,
                       WaitOver, WaitLonger, Elapsed, C
<1>4. to \in Places
  BY DEF Places
<1>5. /\ pc[C] = from /\ pc'[C] = to /\ pause'[C] = sleep /\ lag' = lag
  BY <1>1, <1>3, <1>4, DemoProcesses, Move
<1>6. ASSUME to # "done"
      PROVE  \E b \in Nat : Reach(b)' /\ (First(b)' \/ Later(b)')
  <2>1. PICK b \in Nat : Reach(b) /\ (First(b) \/ Later(b))
    BY <1>3, <1>5 DEF InTime
  <2>2. First(b)' \/ Later(b)'
    BY <1>1, <1>2, <1>5, <2>1 DEF First, Later, FirstRead
  <2>3. CASE from = "opening" /\ to = "resetting" /\ sleep = 0
    <3>1. pause[C] + 3 * lag[C] <= b
      BY <1>5, <2>1, <2>3 DEF Reach
    <3>2. 0 + 2 * lag[C] <= b
      BY <3>1, Numbers
    <3>3. Reach(b)'
      BY <1>5, <2>3, <3>2 DEF Reach
    <3>4. QED
      BY <2>2, <3>3
  <2>4. CASE from = "resetting" /\ to = "reading" /\ sleep = 0
    <3>1. pause[C] + 2 * lag[C] <= b
      BY <1>5, <2>1, <2>4 DEF Reach
    <3>2. 0 + lag[C] <= b
      BY <3>1, Numbers
    <3>3. Reach(b)'
      BY <1>5, <2>4, <3>2 DEF Reach
    <3>4. QED
      BY <2>2, <3>3
  <2>5. CASE from = "waiting" /\ to = "reading" /\ sleep = 0
    <3>1. pause[C] + 2 * lag[C] <= b
      BY <1>5, <2>1, <2>5 DEF Reach
    <3>2. 0 + lag[C] <= b
      BY <3>1, Numbers
    <3>3. Reach(b)'
      BY <1>5, <2>5, <3>2 DEF Reach
    <3>4. QED
      BY <2>2, <3>3
  <2>6. CASE /\ from = "waiting" /\ to = "waiting" /\ sleep = SleepSize(C)
             /\ deadline' = deadline /\ ~(deadline[C] <= 0)
    <3>1. deadline[C] > 0
      BY <2>6, Numbers
    <3>2. deadline[C] - 1 + SleepSize(C) + 2 * lag[C] <= b
      BY <1>5, <2>1, <2>6, <3>1 DEF Reach
    <3>3. SleepSize(C) + 2 * lag[C] <= b
      BY <3>1, <3>2, Numbers
    <3>4. Reach(b)'
      BY <1>5, <2>6, <3>2, <3>3 DEF Reach, SleepSize
    <3>5. QED
      BY <2>2, <3>4
  <2>7. QED
    BY <1>3, <1>6, <2>3, <2>4, <2>5, <2>6
<1>7. QED
  BY <1>2, <1>5, <1>6 DEF InTime

\* An access that leaves the consumer where it is.
LEMMA AccessInStep ==
    ASSUME DemoInv, Contents, InTime,
           OpenReader \/ TakeElement \/ (CopyWriteHead /\ at'[R] # "idle")
    PROVE  Contents' /\ InTime'
<1>1. /\ PcTypes /\ Proved!ConcInv
      /\ pc' = pc
      /\ UNCHANGED <<deadline, pause, lag, elapsed, written, reads, left>>
  <2>1. /\ PcTypes /\ Proved!ConcInv
        /\ \E from \in {"opening", "reading"} :
              pc[C] = from /\ pc' = [pc EXCEPT ![C] = from]
        /\ UNCHANGED <<deadline, pause, lag, elapsed, written, reads, left>>
    BY DEF DemoInv, OpenReader, TakeElement, CopyWriteHead, Access, time, counts, Goto,
           C, R
  <2>2. pc' = pc
    BY <2>1 DEF PcTypes
  <2>3. QED
    BY <2>1, <2>2
<1>2. last' = last
  <2>1. CASE OpenReader
    BY <1>1, <2>1, BufferTypes, OpeningSteps DEF OpenReader, R
  <2>2. CASE TakeElement \/ CopyWriteHead
    BY <1>1, <2>2, ReadSteps DEF TakeElement, CopyWriteHead
  <2>3. QED
    BY <2>1, <2>2
<1>3. QED
  BY <1>1, <1>2, OthersInStep

LEMMA ReadInStep ==
    ASSUME DemoInv, Proved!ReadInv, Exact, KeepsUp, Contents, StoreReadHead
    PROVE  Contents' /\ InTime'
<1>1. /\ PcTypes /\ TimeTypes /\ Proved!ConcInv
      /\ Goto(C, "reading", "resetting") /\ Access(C) /\ Buffer!StoreWide
      /\ reads' = reads + 1 /\ UNCHANGED <<elapsed, written, left>>
  BY DEF DemoInv, StoreReadHead, C
<1>2. pc'[C] = "resetting" /\ pause'[C] = pause[C] /\ pause[C] <= 0 /\ lag' = lag
  <2>1. "resetting" \in Places
    BY DEF Places
  <2>2. QED
    BY <1>1, <2>1, DemoProcesses, AccessMove
<1>3. at[R] = "store" /\ last' = value
  BY <1>1, ReadSteps
<1>4. /\ value = last + 1 /\ last < seen /\ seen <= count /\ count <= left + written
      /\ last \in Nat /\ seen \in Nat /\ count \in Nat
  BY <1>1, <1>3, WantedIsNext, HeadsNow, BufferTypes
<1>5. Kept' = Kept - 1
  BY <1>1, Numbers DEF Kept
<1>6. Kept >= 1 /\ Kept \in 0 .. N /\ last = reads
  <2>1. Kept \in 0 .. N /\ last = reads
    BY DEF Contents
  <2>2. left + written > reads
    BY <1>4, <2>1, Numbers
  <2>3. QED
    BY <2>1, <2>2, Numbers DEF Kept
<1>7. Kept' \in 0 .. N - 1
  BY <1>5, <1>6, Numbers
<1>8. Contents'
  <2>1. Kept' \in 0 .. N /\ last' = reads'
    BY <1>1, <1>3, <1>4, <1>6, <1>7, Numbers
  <2>2. QED
    BY <2>1 DEF Contents
<1>9. InTime'
  <2>1. PICK b \in Nat : b = 2 * lag[C]
    BY Numbers
  <2>2. pause'[C] + 2 * lag[C] <= b
    BY <1>2, <2>1, Numbers
  <2>3. Reach(b)'
    BY <1>2, <2>2 DEF Reach
  <2>4. b < Units[P] /\ b < 2 * Units[P]
    BY <2>1, Numbers DEF KeepsUp, P, C
  <2>5. Kept' # N
    BY <1>7, Numbers
  <2>6. Later(b)'
    BY <2>4, <2>5 DEF Later
  <2>7. QED
    BY <2>3, <2>6 DEF InTime
<1>10. QED
  BY <1>8, <1>9

\* The heads are equal only if nothing is left but what is being written.
LEMMA ReadNothingInStep ==
    ASSUME PaceInv, DemoInv, Proved!ReadInv, Exact, KeepsUp, Contents,
           CopyWriteHead, at'[R] = "idle", ~halfway'
    PROVE  Contents' /\ InTime'
<1>1. /\ PcTypes /\ TimeTypes /\ CountTypes /\ Proved!ConcInv
      /\ Goto(C, "reading", "waiting") /\ Access(C) /\ Buffer!CopyWide
      /\ at[W] \notin {"reset", "lap"}
      /\ UNCHANGED <<elapsed, written, reads, left>>
  BY DEF DemoInv, CopyWriteHead, Look, C, R, W, counts
<1>2. /\ pc'[C] = "waiting" /\ pause'[C] = pause[C] /\ pause[C] <= 0
      /\ lag' = lag /\ deadline' = deadline
  <2>1. "waiting" \in Places
    BY DEF Places
  <2>2. QED
    BY <1>1, <2>1, DemoProcesses, AccessMove
<1>3. at[R] = "idle" /\ last' = last /\ readHead = writeHead
  BY <1>1, ReadSteps
<1>4. last = count
  <2>1. Proved!HeadAfter(last) = Proved!HeadAfter(count) /\ last \in Nat /\ count \in Nat
    BY <1>1, <1>3, HeadsNow, BufferTypes
  <2>2. QED
    BY <2>1, HeadsDiffer
<1>5. Contents' /\ Kept' = Kept
  BY <1>1, <1>3 DEF Contents, Kept
<1>6. \/ Kept = 0
      \/ Kept = 1 /\ elapsed <= lag[P]
  <2>1. last = reads /\ reads \in Nat /\ left \in Nat /\ written \in Nat
    BY Numbers DEF Contents
  <2>2. CASE pc[P] \in {"storing", "advancing"}
    <3>1. PaceResetting /\ PaceTypes
      BY <2>2 DEF PaceInv
    <3>2. /\ elapsed + pause[P] <= 0 /\ pause[P] >= -lag[P]
          /\ pause[P] \in Int /\ lag[P] \in Nat
      BY <3>1, DemoProcesses DEF PaceResetting, PaceTypes
    <3>3. count = left + written - 1
      BY <1>1, <2>2 DEF CountTypes
    <3>4. Kept = 1
      <4>1. reads = left + written - 1
        BY <1>4, <2>1, <3>3
      <4>2. QED
        BY <2>1, <4>1 DEF Kept
    <3>5. elapsed <= lag[P]
      BY <3>2, Numbers
    <3>6. QED
      BY <3>4, <3>5
  <2>3. CASE pc[P] \notin {"storing", "advancing"}
    <3>1. count = left + written
      BY <1>1, <2>3 DEF CountTypes
    <3>2. Kept = 0
      <4>1. reads = left + written
        BY <1>4, <2>1, <3>1
      <4>2. QED
        BY <2>1, <4>1 DEF Kept
    <3>3. QED
      BY <3>2
  <2>4. QED
    BY <2>2, <2>3
<1>7. InTime'
  <2>1. PICK b \in Nat : b = Units[C] + SleepSize(C) + 2 * lag[C]
    BY Numbers
  <2>2. pause[C] + 2 * lag[C] <= b /\ deadline[C] - 1 + SleepSize(C) + 2 * lag[C] <= b
    BY <1>2, <2>1, Numbers
  <2>3. Reach(b)'
    BY <1>2, <2>2 DEF Reach, SleepSize
  <2>4. lag[P] \in Nat /\ b + lag[P] < 2 * Units[P]
    <3>1. lag[P] \in Nat
      BY DemoProcesses DEF PaceInv, PaceTypes
    <3>2. Units[C] + SleepSize(C) + 2 * lag[C] + lag[P] < 2 * Units[P]
      BY DEF KeepsUp, P, C
    <3>3. QED
      BY <2>1, <3>1, <3>2
  <2>5. b < 2 * Units[P] /\ Kept' # N
    BY <1>5, <1>6, <2>4, Numbers
  <2>6. Kept' = N - 1 => elapsed' + b < 2 * Units[P]
    BY <1>1, <1>5, <1>6, <2>4, Numbers
  <2>7. Later(b)'
    BY <2>5, <2>6 DEF Later
  <2>8. QED
    BY <2>3, <2>7 DEF InTime
<1>8. QED
  BY <1>5, <1>7

LEMMA PassInStep ==
    ASSUME DemoInv, Contents, InTime, Pass
    PROVE  Contents' /\ InTime'
<1>1. /\ PcTypes /\ TimeTypes /\ AtPlaces
      /\ UNCHANGED <<pc, written, reads, left, last>>
      /\ elapsed' = IF pc[P] \in {"opening", "done"} THEN 0 ELSE elapsed + 1
      /\ Tick(Running)
  BY DEF DemoInv, Pass, P, counts, buffer
<1>2. Contents' /\ Kept' = Kept
  BY <1>1 DEF Contents, Kept
<1>3. elapsed' \in Nat /\ elapsed' <= elapsed + 1
  BY <1>1, Numbers
<1>4. ASSUME pc[C] # "done"
      PROVE  \E b \in Nat : Reach(b)' /\ (First(b)' \/ Later(b)')
  <2>1. PICK b \in Nat : Reach(b) /\ (First(b) \/ Later(b))
    BY <1>4 DEF InTime
  <2>2. /\ lag' = lag
        /\ pc[C] = "absent" => pause'[M] = pause[M] - 1 /\ pause[M] > -lag[M]
        /\ pc[C] # "absent" =>
              /\ pause'[C] = pause[C] - 1 /\ pause[C] > -lag[C]
              /\ \/ deadline'[C] = deadline[C] - 1
                 \/ deadline'[C] = deadline[C] /\ ~(deadline[C] > -Units[C])
    <3>1. pc[C] = "absent" => M \in Running
      BY <1>1, DemoConstants DEF AtPlaces, Running, M
    <3>2. pc[C] # "absent" => C \in Running
      BY <1>4, DemoConstants DEF Running, M, C
    <3>3. QED
      BY <1>1, <3>1, <3>2, DemoConstants DEF Tick
  <2>3. b >= 1 /\ Reach(b - 1)'
    <3>1. CASE pc[C] = "absent"
      <4>1. pause[M] + lag[M] + ChildSleep + 3 * lag[C] <= b
        BY <2>1, <3>1 DEF Reach
      <4>2. /\ pause[M] - 1 + lag[M] + ChildSleep + 3 * lag[C] <= b - 1
            /\ b >= 1
        BY <2>2, <3>1, <4>1, Numbers
      <4>3. QED
        BY <1>1, <2>2, <3>1, <4>2 DEF Reach
    <3>2. CASE pc[C] = "opening"
      <4>1. pause[C] + 3 * lag[C] <= b
        BY <2>1, <3>2 DEF Reach
      <4>2. pause[C] - 1 + 3 * lag[C] <= b - 1 /\ b >= 1
        BY <2>2, <3>2, <4>1, Numbers
      <4>3. QED
        BY <1>1, <2>2, <3>2, <4>2 DEF Reach
    <3>3. CASE pc[C] = "resetting"
      <4>1. pause[C] + 2 * lag[C] <= b
        BY <2>1, <3>3 DEF Reach
      <4>2. pause[C] - 1 + 2 * lag[C] <= b - 1 /\ b >= 1
        BY <2>2, <3>3, <4>1, Numbers
      <4>3. QED
        BY <1>1, <2>2, <3>3, <4>2 DEF Reach
    <3>4. CASE pc[C] = "reading"
      <4>1. pause[C] + lag[C] <= b
        BY <2>1, <3>4 DEF Reach
      <4>2. pause[C] - 1 + lag[C] <= b - 1 /\ b >= 1
        BY <2>2, <3>4, <4>1, Numbers
      <4>3. QED
        BY <1>1, <2>2, <3>4, <4>2 DEF Reach
    <3>5. CASE pc[C] = "waiting"
      <4>1. /\ pause[C] + 2 * lag[C] <= b
            /\ deadline[C] > 0 => deadline[C] - 1 + SleepSize(C) + 2 * lag[C] <= b
        BY <2>1, <3>5 DEF Reach
      <4>2. pause[C] - 1 + 2 * lag[C] <= b - 1 /\ b >= 1
        BY <2>2, <3>5, <4>1, Numbers
      <4>3. deadline'[C] > 0 => deadline'[C] - 1 + SleepSize(C) + 2 * lag[C] <= b - 1
        BY <2>2, <3>5, <4>1, Numbers
      <4>4. QED
        BY <1>1, <2>2, <3>5, <4>2, <4>3 DEF Reach, SleepSize
    <3>6. QED
      BY <1>1, <1>4, <3>1, <3>2, <3>3, <3>4, <3>5 DEF PcTypes
  <2>4. b - 1 \in Nat /\ elapsed' + (b - 1) <= elapsed + b
    BY <1>3, <2>3, Numbers
  <2>5. CASE First(b)
    <3>1. written * Units[P] + elapsed + b <= FirstRead /\ reads = 0
      BY <2>5 DEF First
    <3>2. written * Units[P] \in Nat
      BY Numbers
    <3>3. written * Units[P] + elapsed' + (b - 1) <= FirstRead
      BY <1>3, <2>4, <3>1, <3>2, Numbers
    <3>4. First(b - 1)'
      BY <1>1, <2>2, <3>1, <3>3 DEF First, FirstRead
    <3>5. QED
      BY <2>3, <2>4, <3>4
  <2>6. CASE Later(b)
    <3>1. /\ b < 2 * Units[P]
          /\ Kept = N => elapsed + b < Units[P]
          /\ Kept = N - 1 => b < Units[P] \/ elapsed + b < 2 * Units[P]
      BY <2>6 DEF Later
    <3>2. /\ b - 1 < 2 * Units[P]
          /\ Kept = N => elapsed' + (b - 1) < Units[P]
          /\ Kept = N - 1 => b - 1 < Units[P] \/ elapsed' + (b - 1) < 2 * Units[P]
      BY <1>3, <2>4, <3>1, Numbers
    <3>3. Later(b - 1)'
      BY <1>2, <3>2 DEF Later
    <3>4. QED
      BY <2>3, <2>4, <3>3
  <2>7. QED
    BY <2>1, <2>5, <2>6
<1>5. QED
  BY <1>1, <1>2, <1>4 DEF InTime

-------------------------------------------------------------------------------

\* What a consumer that keeps up relies on goes on to hold, until it looks at a write
\* head that is halfway.
LEMMA NextInStep ==
    ASSUME PaceInv, DemoInv, Proved!ReadInv, StepInv, [Next]_vars
    PROVE  StepInv'
<1>1. lag' = lag /\ left' = left /\ (halfway => halfway')
  <2>1. CASE Produce
    BY <2>1 DEF Produce, OpenWriter, Begin, ResetProducer, WaitProducer, Measure,
                StoreElement, AdvanceWriter, Access, Runs, WaitOver, WaitLonger, time,
                counts
  <2>2. CASE OpenReader \/ CopyWriteHead
    <3>1. lag' = lag /\ left' = left
      BY <2>2 DEF OpenReader, CopyWriteHead, Access, time, counts
    <3>2. halfway => halfway'
      BY <2>2, Zenon DEF OpenReader, CopyWriteHead, Look
    <3>3. QED
      BY <3>1, <3>2
  <2>3. CASE \/ MakeWaiter \/ ResetConsumer \/ LeaveConsumer
             \/ TakeElement \/ StoreReadHead \/ WaitConsumer
    BY <2>3 DEF MakeWaiter, ResetConsumer, LeaveConsumer, TakeElement, StoreReadHead,
                WaitConsumer, Access, Runs, WaitOver, WaitLonger, time, counts
  <2>4. CASE Main \/ Pass \/ UNCHANGED vars
    BY <2>4 DEF Main, StartConsumer, Finish, Pass, Tick, vars, time, counts
  <2>5. QED
    BY <2>1, <2>2, <2>3, <2>4 DEF Next, Consume
<1>2. SUFFICES ASSUME KeepsUp, ~halfway'
               PROVE  Exact' /\ Contents' /\ InTime'
  BY <1>1, KeepsUpSame DEF StepInv
<1>3. Exact /\ Contents /\ InTime
  BY <1>1, <1>2 DEF StepInv
<1>4. Exact'
  BY <1>2, <1>3, NextExact
<1>5. ASSUME Produce
      PROVE  Contents' /\ InTime'
  BY <1>2, <1>3, <1>5, ProducerInStep, MeasureInStep DEF Produce
<1>6. ASSUME MakeWaiter \/ ResetConsumer \/ LeaveConsumer \/ WaitConsumer
      PROVE  Contents' /\ InTime'
  BY <1>3, <1>6, QuietInStep
<1>7. ASSUME OpenReader \/ TakeElement \/ CopyWriteHead
      PROVE  Contents' /\ InTime'
  BY <1>2, <1>3, <1>7, AccessInStep, ReadNothingInStep
<1>8. ASSUME StoreReadHead
      PROVE  Contents' /\ InTime'
  BY <1>2, <1>3, <1>8, ReadInStep
<1>9. ASSUME Main \/ Pass
      PROVE  Contents' /\ InTime'
  BY <1>3, <1>9, MainInStep, PassInStep
<1>10. ASSUME UNCHANGED vars
      PROVE  Contents' /\ InTime'
  <2>1. UNCHANGED <<deadline, pause, lag, last, pc, elapsed, written, reads, left>>
    BY <1>10 DEF vars, time, counts, buffer
  <2>2. QED
    BY <1>3, <2>1, OthersInStep
<1>11. Contents' /\ InTime'
  BY <1>5, <1>6, <1>7, <1>8, <1>9, <1>10 DEF Next, Consume
<1>12. QED
  BY <1>4, <1>11

\* Nothing is written before the start, and nothing that an earlier run left was read.
LEMMA InitInStep == ASSUME Init PROVE StepInv
<1> SUFFICES ASSUME KeepsUp PROVE Exact /\ Contents /\ InTime
  BY DEF StepInv
<1>1. DemoInv
  BY DemoInit
<1>2. /\ written = 0 /\ reads = 0 /\ elapsed = 0 /\ last = 0 /\ count = left
      /\ pc[C] = "absent" /\ pause[M] = StartSleep
      /\ at[W] = "down" /\ at[R] = "down" /\ sound = TRUE
      /\ writeHead = [index |-> left, lap |-> 0]
  BY DEF Init, M, C, W, R, Buffer!Sides, Buffer!Zero
<1>3. Kept = left
  BY <1>1, <1>2, Numbers DEF Kept
<1>4. Exact
  <2>1. left % N = left /\ left \div N = 0
    <3>1. left \in Nat /\ left \in 0 .. N - 1 /\ left = N * 0 + left
      BY <1>1, Numbers
    <3>2. QED
      BY <3>1, BufferAssumptions, Proved!DigitsUnique
  <2>2. writeHead = Proved!HeadAfter(count)
    BY <1>2, <2>1 DEF Proved!HeadAfter
  <2>3. QED
    BY <1>2, <2>2 DEF Exact, WriterHead, InitInTime, Inits
<1>5. Contents
  <2>1. left \in 0 .. N
    BY <1>1, Numbers
  <2>2. QED
    BY <1>2, <1>3, <2>1 DEF Contents
<1>6. InTime
  <2>1. Reach(FirstRead)
    BY <1>1, <1>2, Numbers DEF Reach, FirstRead, M, C
  <2>2. First(FirstRead)
    BY <1>1, <1>2, Numbers DEF First
  <2>3. QED
    BY <1>1, <2>1, <2>2, Numbers DEF InTime
<1>7. QED
  BY <1>4, <1>5, <1>6

-------------------------------------------------------------------------------

AllInv == PaceInv /\ DemoInv /\ Proved!ReadInv /\ StepInv

LEMMA NextInv == AllInv /\ [Next]_vars => AllInv'
<1> SUFFICES ASSUME AllInv, [Next]_vars PROVE AllInv'
  OBVIOUS
<1>1. PaceInv /\ DemoInv /\ Proved!ReadInv /\ StepInv
  BY DEF AllInv
<1>2. PaceInv' /\ DemoInv' /\ StepInv'
  BY <1>1, NextPace, NextDemo, NextInStep
<1>3. Proved!ReadInv'
  BY <1>1, BufferNext, BufferAssumptions, Proved!ReadStep
<1>4. QED
  BY <1>2, <1>3 DEF AllInv

LEMMA DemoInvariant == Spec => []AllInv
<1>1. Init => AllInv
  BY PaceInit, DemoInit, BufferInit, InitInStep DEF AllInv
<1>2. QED
  BY <1>1, NextInv, PTL DEF Spec

\* The counts, the times and the places in the code of the three processes, and the
\* buffer they share, are what buffer.cpp lets them be: no time runs away, and
\* neither side counts more than the NUM_WRITES elements it is there for.
THEOREM DemoTypes == Spec => []TypeOK
<1>1. AllInv => TypeOK
  <2> SUFFICES ASSUME DemoInv PROVE TypeOK
    BY DEF AllInv
  <2>1. PcTypes /\ TimeTypes /\ CountTypes /\ Proved!TypeOK
    BY DEF DemoInv, Proved!ConcInv
  <2>2. Buffer!TypeOK
    BY <2>1 DEF Buffer!TypeOK, Proved!TypeOK, Buffer!Laps, Proved!Laps
  <2>3. ASSUME NEW p \in Waiters
        PROVE  deadline[p] \in -Units[p] .. Units[p]
    <3>1. /\ deadline[p] \in Int /\ Units[p] \in Nat
          /\ deadline[p] >= -Units[p] /\ deadline[p] <= Units[p]
      BY <2>1, DemoConstants DEF TimeTypes
    <3>2. QED
      BY <3>1
  <2>4. \A p \in Processes : pause[p] \in Int /\ pause[p] >= -lag[p]
    BY <2>1 DEF TimeTypes
  <2>5. QED
    BY <2>1, <2>2, <2>3, <2>4 DEF TypeOK, PcTypes, TimeTypes, CountTypes, P, C, M
<1>2. QED
  BY <1>1, DemoInvariant, PTL

\* A consumer that keeps up, and whose looks at write_head do not fall into
\* advance(), gets every element, once and in order, and loses none: for any size
\* of the buffer, any number of writes and any lateness of the scheduler, in every
\* interleaving of the accesses of the two processes.
THEOREM ConsumerInStep == Spec => []InStep
<1>1. AllInv => InStep
  <2> SUFFICES ASSUME DemoInv, Proved!ReadInv, Exact, Contents
               PROVE  /\ last = reads
                      /\ \A k \in last + 1 .. count : data[(k - 1) % N] = k
    BY DEF AllInv, StepInv, InStep
  <2>1. last = reads /\ last \in Nat /\ count \in Nat
    BY BufferTypes DEF Contents, DemoInv
  <2>2. ASSUME NEW k \in last + 1 .. count
        PROVE  data[(k - 1) % N] = k
    <3>1. k \in Nat /\ last < k /\ k <= count
      BY <2>1
    <3>2. QED
      BY <3>1, NextInSlot
  <2>3. QED
    BY <2>1, <2>2
<1>2. QED
  BY <1>1, DemoInvariant, PTL
===============================================================================
