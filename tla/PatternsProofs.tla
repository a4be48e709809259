----------------------------- MODULE PatternsProofs ------------------------------
(***************************************************************************)
(* For any number of threads, ids and objects and any depth of calls:      *)
(* threads wait in a circle only after code that runs under a mutex has    *)
(* called against every order of the mutexes, and there is one instance of *)
(* a singleton at a time.                                                  *)
(***************************************************************************)
EXTENDS Patterns, SequenceTheorems, TLAPS

\* What a call is about, and where it holds its mutex: only where UnderMutex says.
FrameOK(f) ==
    /\ f.mutex \in {"factory", "repository"} => f.id \in Ids
    /\ f.mutex = "factory" /\ f.op = "add" => f.thing \in Creators
    /\ f.mutex = "repository" /\ f.op = "add" => f.thing \in Objects
    /\ f.mutex = "singleton" => f.thing \in Objects \cup {None}
    /\ f.op # "get" => f.mode = "exclusive"
    /\ f.op = "get" => f.mode = "shared"
    /\ f.pc \in {"copying", "found", "creating", "dropping"} => f.thing \in Creators
    /\ f.pc \in {"constructing", "building", "destroying"} => f.thing \in Objects
    /\ f.pc = "building" => f.holds /\ f.mutex = "singleton" /\ f.mode = "exclusive"
    /\ f.pc = "destroying" /\ f.op = "free" => f.holds
    /\ f.holds => UnderMutex(f)
    /\ f.pc = "waiting" /\ f.op \notin {"add", "adopt"} => f.thing = None
GoodFrame == {f \in Frame : FrameOK(f)}

\* A mutex is held by one call, or by several that share it.
HeldOnce ==
    \A t, u \in Threads : \A n \in 1 .. Len(stack[t]), k \in 1 .. Len(stack[u]) :
        /\ stack[t][n].holds /\ stack[u][k].holds
        /\ stack[t][n].mutex = stack[u][k].mutex
        => \/ t = u /\ n = k
           \/ stack[t][n].mode = "shared" /\ stack[u][k].mode = "shared"

StackInv ==
    /\ stack \in [Threads -> Seq(GoodFrame)]
    /\ HeldOnce

DataTypes ==
    /\ alive \subseteq Objects
    /\ creators \in [Ids -> Creators \cup {None}]
    /\ objects \in [Ids -> Objects \cup {None}]
    /\ instance \in Objects \cup {None}

\* While the constructor of the singleton runs, t_ is empty.
BuildingAlone ==
    \A t \in Threads : \A n \in 1 .. Len(stack[t]) :
        stack[t][n].pc = "building" => instance = None

PatternsInv == StackInv /\ DataTypes /\ BuildingAlone

-------------------------------------------------------------------------------
(* What a step does to the stack of its thread *)

\* A stack, its first call and its other calls.
LEMMA StackFacts ==
    ASSUME StackInv, NEW t \in Threads
    PROVE  /\ stack[t] \in Seq(GoodFrame)
           /\ Len(stack[t]) \in Nat /\ DOMAIN stack[t] = 1 .. Len(stack[t])
           /\ \A n \in 1 .. Len(stack[t]) :
                 /\ stack[t][n] \in Frame /\ FrameOK(stack[t][n])
                 /\ stack[t][n].mutex \in Mutexes
           /\ stack[t] # <<>> =>
                 /\ Len(stack[t]) >= 1 /\ Top(t) = stack[t][1]
                 /\ Top(t) \in Frame /\ FrameOK(Top(t))
<1>1. stack[t] \in Seq(GoodFrame)
  BY DEF StackInv
<1>2. Len(stack[t]) \in Nat /\ DOMAIN stack[t] = 1 .. Len(stack[t])
  BY <1>1, LenProperties
<1>3. \A n \in 1 .. Len(stack[t]) : stack[t][n] \in GoodFrame
  BY <1>1, ElementOfSeq
<1>4. \A n \in 1 .. Len(stack[t]) :
         /\ stack[t][n] \in Frame /\ FrameOK(stack[t][n])
         /\ stack[t][n].mutex \in Mutexes
  BY <1>3 DEF GoodFrame, Frame
<1>5. ASSUME stack[t] # <<>>
      PROVE  Len(stack[t]) >= 1 /\ Top(t) = stack[t][1]
  BY <1>1, <1>2, <1>5, EmptySeq DEF Top
<1>6. QED
  BY <1>1, <1>2, <1>4, <1>5

\* The stacks after a new call, and after a return.
LEMMA PushShape ==
    ASSUME StackInv, NEW t \in Threads, NEW f \in GoodFrame,
           stack' = [stack EXCEPT ![t] = <<f>> \o @]
    PROVE  /\ stack'[t] \in Seq(GoodFrame) /\ Len(stack[t]) \in Nat
           /\ Len(stack'[t]) = Len(stack[t]) + 1 /\ stack'[t][1] = f
           /\ \A n \in 2 .. Len(stack'[t]) : stack'[t][n] = stack[t][n - 1]
           /\ \A u \in Threads : u # t => stack'[u] = stack[u]
<1> DEFINE old == stack[t]
           new == stack'[t]
<1>1. /\ old \in Seq(GoodFrame) /\ Len(old) \in Nat
      /\ \A u \in Threads : u # t => stack'[u] = stack[u]
  BY StackFacts DEF StackInv
<1>2. new = <<f>> \o old
  BY DEF StackInv
<1>3. <<f>> \in Seq(GoodFrame) /\ Len(<<f>>) = 1 /\ <<f>>[1] = f
  OBVIOUS
<1>4. /\ <<f>> \o old \in Seq(GoodFrame)
      /\ Len(<<f>> \o old) = 1 + Len(old)
      /\ \A n \in 1 .. 1 + Len(old) :
            (<<f>> \o old)[n] = IF n <= 1 THEN <<f>>[n] ELSE old[n - 1]
  BY <1>1, <1>3, ConcatProperties
<1>5. QED
  BY <1>1, <1>2, <1>3, <1>4

LEMMA PopShape ==
    ASSUME StackInv, NEW t \in Threads, stack[t] # <<>>, Return(t)
    PROVE  /\ stack'[t] \in Seq(GoodFrame) /\ Len(stack[t]) \in Nat /\ Len(stack[t]) >= 1
           /\ Len(stack'[t]) = Len(stack[t]) - 1
           /\ \A n \in 1 .. Len(stack'[t]) : stack'[t][n] = stack[t][n + 1]
           /\ \A u \in Threads : u # t => stack'[u] = stack[u]
<1> DEFINE old == stack[t]
           new == stack'[t]
<1>1. /\ old \in Seq(GoodFrame) /\ Len(old) \in Nat /\ Len(old) >= 1
      /\ \A u \in Threads : u # t => stack'[u] = stack[u]
  BY StackFacts DEF StackInv, Return
<1>2. new = Tail(old)
  BY DEF StackInv, Return
<1>3. /\ new \in Seq(GoodFrame) /\ Len(new) = Len(old) - 1
      /\ \A n \in 1 .. Len(new) : new[n] = old[n + 1]
  BY <1>1, <1>2, HeadTailProperties
<1>4. QED
  BY <1>1, <1>3

\* A new call on top, which holds nothing yet.
LEMMA PushStack ==
    ASSUME StackInv, NEW t \in Threads, NEW f \in GoodFrame, ~f.holds,
           stack' = [stack EXCEPT ![t] = <<f>> \o @]
    PROVE  /\ StackInv'
           /\ \A u \in Threads : \A n \in 1 .. Len(stack'[u]) :
                 \/ stack'[u][n] = f
                 \/ \E k \in 1 .. Len(stack[u]) : stack'[u][n] = stack[u][k]
<1> DEFINE old == stack[t]
           new == stack'[t]
<1>1. /\ old \in Seq(GoodFrame) /\ Len(old) \in Nat
      /\ \A u \in Threads : u # t => stack'[u] = stack[u]
  BY StackFacts, PushShape
<1>2. /\ new \in Seq(GoodFrame) /\ Len(new) = Len(old) + 1
      /\ new[1] = f /\ \A n \in 2 .. Len(new) : new[n] = old[n - 1]
  BY PushShape
<1>3. stack' \in [Threads -> Seq(GoodFrame)]
  BY <1>2 DEF StackInv
<1> HIDE DEF old, new
<1>5. HeldOnce'
  <2> DEFINE Was(u, n) == IF u = t THEN n - 1 ELSE n
  <2>1. ASSUME NEW u \in Threads, NEW n \in 1 .. Len(stack'[u]),
               stack'[u][n].holds
        PROVE  /\ Was(u, n) \in 1 .. Len(stack[u])
               /\ stack'[u][n] = stack[u][Was(u, n)]
    <3>1. CASE u # t
      BY <1>1, <2>1, <3>1
    <3>2. CASE u = t
      <4>1. n # 1
        BY <1>2, <2>1, <3>2 DEF new
      <4>2. QED
        BY <1>1, <1>2, <2>1, <3>2, <4>1 DEF new, old
    <3>3. QED
      BY <3>1, <3>2
  <2>2. SUFFICES ASSUME NEW u \in Threads, NEW v \in Threads,
                        NEW n \in 1 .. Len(stack'[u]), NEW k \in 1 .. Len(stack'[v]),
                        stack'[u][n].holds, stack'[v][k].holds,
                        stack'[u][n].mutex = stack'[v][k].mutex,
                        ~(u = v /\ n = k)
                 PROVE  stack'[u][n].mode = "shared" /\ stack'[v][k].mode = "shared"
    BY DEF HeldOnce
  <2>3. Was(u, n) \in 1 .. Len(stack[u]) /\ stack'[u][n] = stack[u][Was(u, n)]
    BY <2>1, <2>2
  <2>4. Was(v, k) \in 1 .. Len(stack[v]) /\ stack'[v][k] = stack[v][Was(v, k)]
    BY <2>1, <2>2
  <2>5. ~(u = v /\ Was(u, n) = Was(v, k))
    BY <2>2
  <2> HIDE DEF Was
  <2>6. /\ stack[u][Was(u, n)].holds /\ stack[v][Was(v, k)].holds
        /\ stack[u][Was(u, n)].mutex = stack[v][Was(v, k)].mutex
    BY <2>2, <2>3, <2>4
  <2>7. stack[u][Was(u, n)].mode = "shared" /\ stack[v][Was(v, k)].mode = "shared"
    BY <2>3, <2>4, <2>5, <2>6 DEF HeldOnce, StackInv
  <2>8. QED
    BY <2>3, <2>4, <2>7
<1>6. ASSUME NEW u \in Threads, NEW n \in 1 .. Len(stack'[u])
      PROVE  \/ stack'[u][n] = f
             \/ \E k \in 1 .. Len(stack[u]) : stack'[u][n] = stack[u][k]
  <2>1. CASE u # t
    BY <1>1, <1>6, <2>1
  <2>2. CASE u = t /\ n = 1
    BY <1>2, <2>2 DEF new
  <2>3. CASE u = t /\ n # 1
    <3>1. n - 1 \in 1 .. Len(old) /\ new[n] = old[n - 1]
      BY <1>1, <1>2, <1>6, <2>3 DEF new
    <3>2. QED
      BY <2>3, <3>1 DEF new, old
  <2>4. QED
    BY <2>1, <2>2, <2>3
<1>7. StackInv'
  BY <1>3, <1>5 DEF StackInv
<1>8. QED
  BY <1>6, <1>7

\* The call on top returns.
LEMMA PopStack ==
    ASSUME StackInv, NEW t \in Threads, stack[t] # <<>>, Return(t)
    PROVE  /\ StackInv'
           /\ \A u \in Threads : \A n \in 1 .. Len(stack'[u]) :
                 \E k \in 1 .. Len(stack[u]) :
                    /\ stack'[u][n] = stack[u][k]
                    /\ u = t => k > 1
<1> DEFINE old == stack[t]
           new == stack'[t]
<1>1. /\ old \in Seq(GoodFrame) /\ Len(old) \in Nat /\ Len(old) >= 1
      /\ \A u \in Threads : u # t => stack'[u] = stack[u]
  BY StackFacts, PopShape
<1>2. /\ new \in Seq(GoodFrame) /\ Len(new) = Len(old) - 1
      /\ \A n \in 1 .. Len(new) : new[n] = old[n + 1]
  BY PopShape
<1>3. stack' \in [Threads -> Seq(GoodFrame)]
  BY <1>2 DEF StackInv, Return
<1> HIDE DEF old, new
<1> DEFINE Was(u, n) == IF u = t THEN n + 1 ELSE n
<1>5. ASSUME NEW u \in Threads, NEW n \in 1 .. Len(stack'[u])
      PROVE  /\ Was(u, n) \in 1 .. Len(stack[u])
             /\ stack'[u][n] = stack[u][Was(u, n)]
             /\ u = t => Was(u, n) > 1
  <2>1. CASE u # t
    BY <1>1, <1>5, <2>1
  <2>2. CASE u = t
    BY <1>1, <1>2, <1>5, <2>2 DEF new, old
  <2>3. QED
    BY <2>1, <2>2
<1>6. HeldOnce'
  <2>1. SUFFICES ASSUME NEW u \in Threads, NEW v \in Threads,
                        NEW n \in 1 .. Len(stack'[u]), NEW k \in 1 .. Len(stack'[v]),
                        stack'[u][n].holds, stack'[v][k].holds,
                        stack'[u][n].mutex = stack'[v][k].mutex,
                        ~(u = v /\ n = k)
                 PROVE  stack'[u][n].mode = "shared" /\ stack'[v][k].mode = "shared"
    BY DEF HeldOnce
  <2>2. Was(u, n) \in 1 .. Len(stack[u]) /\ stack'[u][n] = stack[u][Was(u, n)]
    BY <1>5, <2>1
  <2>3. Was(v, k) \in 1 .. Len(stack[v]) /\ stack'[v][k] = stack[v][Was(v, k)]
    BY <1>5, <2>1
  <2>4. ~(u = v /\ Was(u, n) = Was(v, k))
    BY <2>1
  <2> HIDE DEF Was
  <2>5. /\ stack[u][Was(u, n)].holds /\ stack[v][Was(v, k)].holds
        /\ stack[u][Was(u, n)].mutex = stack[v][Was(v, k)].mutex
    BY <2>1, <2>2, <2>3
  <2>6. stack[u][Was(u, n)].mode = "shared" /\ stack[v][Was(v, k)].mode = "shared"
    BY <2>2, <2>3, <2>4, <2>5 DEF HeldOnce, StackInv
  <2>7. QED
    BY <2>2, <2>3, <2>6
<1> HIDE DEF Was
<1>7. StackInv'
  BY <1>3, <1>6 DEF StackInv
<1>8. QED
  BY <1>5, <1>7

\* A sequence with another first element.
LEMMA SetFirst ==
    ASSUME NEW S, NEW q \in Seq(S), Len(q) >= 1, NEW e \in S,
           NEW r, r = [q EXCEPT ![1] = e]
    PROVE  /\ r \in Seq(S) /\ Len(r) = Len(q) /\ r[1] = e
           /\ \A n \in 2 .. Len(q) : r[n] = q[n]
<1>1. Len(q) \in Nat
  BY LenProperties
<1>2. 1 \in 1 .. Len(q)
  BY <1>1
<1>3. r \in Seq(S)
  BY <1>2, ExceptSeq
<1>4. Len(r) = Len(q)
  BY <1>2, ExceptSeq
<1>5. \A n \in 1 .. Len(q) : r[n] = IF n = 1 THEN e ELSE q[n]
  BY <1>2, ExceptSeq
<1>6. r[1] = e /\ \A n \in 2 .. Len(q) : r[n] = q[n]
  BY <1>1, <1>2, <1>5
<1>7. QED
  BY <1>3, <1>4, <1>6

LEMMA ChangeShape ==
    ASSUME StackInv, NEW t \in Threads, stack[t] # <<>>, NEW f \in GoodFrame,
           stack' = [stack EXCEPT ![t][1] = f]
    PROVE  /\ stack'[t] \in Seq(GoodFrame) /\ Len(stack[t]) \in Nat /\ Len(stack[t]) >= 1
           /\ Len(stack'[t]) = Len(stack[t]) /\ stack'[t][1] = f
           /\ \A n \in 2 .. Len(stack[t]) : stack'[t][n] = stack[t][n]
           /\ \A u \in Threads : u # t => stack'[u] = stack[u]
<1> DEFINE old == stack[t]
           new == stack'[t]
<1>1. old \in Seq(GoodFrame) /\ Len(old) \in Nat /\ Len(old) >= 1
  BY StackFacts
<1>2. new = [old EXCEPT ![1] = f] /\ \A u \in Threads : u # t => stack'[u] = stack[u]
  BY <1>1 DEF StackInv
<1> HIDE DEF old, new
<1>3. /\ new \in Seq(GoodFrame) /\ Len(new) = Len(old) /\ new[1] = f
      /\ \A n \in 2 .. Len(old) : new[n] = old[n]
  BY <1>1, <1>2, SetFirst
<1>4. QED
  BY <1>1, <1>2, <1>3 DEF old, new

\* Whoever holds the mutex of f shares it with f.
SharedWith(f) ==
    \A u \in Threads : \A n \in 1 .. Len(stack[u]) :
        stack[u][n].holds /\ stack[u][n].mutex = f.mutex =>
            stack[u][n].mode = "shared" /\ f.mode = "shared"

\* The call on top goes on in the same mutex, which it may have been given.
LEMMA ContinueStack ==
    ASSUME StackInv, NEW t \in Threads, stack[t] # <<>>,
           NEW f \in GoodFrame, f.mutex = Top(t).mutex,
           stack' = [stack EXCEPT ![t][1] = f],
           f.holds => SharedWith(f)
    PROVE  /\ StackInv'
           /\ \A u \in Threads : \A n \in 1 .. Len(stack'[u]) :
                 \/ u = t /\ n = 1 /\ stack'[u][n] = f
                 \/ n \in 1 .. Len(stack[u]) /\ stack'[u][n] = stack[u][n]
<1> DEFINE old == stack[t]
           new == stack'[t]
<1>1. /\ old \in Seq(GoodFrame) /\ Len(old) \in Nat /\ Len(old) >= 1
      /\ Top(t) = old[1]
  BY StackFacts
<1>2. \A u \in Threads : u # t => stack'[u] = stack[u]
  BY ChangeShape
<1>3. /\ new \in Seq(GoodFrame) /\ Len(new) = Len(old) /\ new[1] = f
      /\ \A n \in 2 .. Len(old) : new[n] = old[n]
  BY ChangeShape
<1>4. stack' \in [Threads -> Seq(GoodFrame)]
  <2>1. stack' = [stack EXCEPT ![t] = new]
    BY <1>2 DEF StackInv
  <2>2. QED
    BY <1>3, <2>1 DEF StackInv
<1> HIDE DEF old, new
<1>5. ASSUME NEW u \in Threads, NEW n \in 1 .. Len(stack'[u])
      PROVE  \/ u = t /\ n = 1 /\ stack'[u][n] = f
             \/ /\ u # t \/ n # 1
                /\ n \in 1 .. Len(stack[u]) /\ stack'[u][n] = stack[u][n]
  <2>1. CASE u # t
    BY <1>2, <1>5, <2>1
  <2>2. CASE u = t
    BY <1>1, <1>3, <1>5, <2>2 DEF new, old
  <2>3. QED
    BY <2>1, <2>2
<1>7. HeldOnce'
  <2>1. SUFFICES ASSUME NEW u \in Threads, NEW v \in Threads,
                        NEW n \in 1 .. Len(stack'[u]), NEW k \in 1 .. Len(stack'[v]),
                        stack'[u][n].holds, stack'[v][k].holds,
                        stack'[u][n].mutex = stack'[v][k].mutex,
                        ~(u = v /\ n = k)
                 PROVE  stack'[u][n].mode = "shared" /\ stack'[v][k].mode = "shared"
    BY DEF HeldOnce
  <2>2. CASE u = t /\ n = 1 /\ stack'[u][n] = f
    BY <1>5, <2>1, <2>2 DEF SharedWith
  <2>3. CASE v = t /\ k = 1 /\ stack'[v][k] = f
    BY <1>5, <2>1, <2>3 DEF SharedWith
  <2>4. CASE /\ n \in 1 .. Len(stack[u]) /\ stack'[u][n] = stack[u][n]
             /\ k \in 1 .. Len(stack[v]) /\ stack'[v][k] = stack[v][k]
    BY <2>1, <2>4 DEF HeldOnce, StackInv
  <2>5. QED
    BY <1>5, <2>2, <2>3, <2>4
<1>8. QED
  BY <1>4, <1>5, <1>7 DEF StackInv
-------------------------------------------------------------------------------
(* What a call, a return and a change of the call on top keep *)

Pcs == UserCode \cup {"waiting", "found"}
Things == Creators \cup Objects \cup {None}

\* Who gets a lock shares the mutex with who has it; who gets an exclusive one finds
\* that nobody has.
LEMMA LockedShared ==
    ASSUME StackInv, NEW t \in Threads, NEW mutex, NEW op, Locks(t, mutex, op)
    PROVE  SharedWith(Top(t))
<1>1. \A u \in Threads : DOMAIN stack[u] = 1 .. Len(stack[u])
  BY StackFacts
<1>2. QED
  BY <1>1 DEF Locks, CanLock, SharedWith

LEMMA LockedAlone ==
    ASSUME StackInv, NEW t \in Threads, NEW mutex, NEW op, Locks(t, mutex, op),
           op # "get"
    PROVE  \A u \in Threads : \A n \in 1 .. Len(stack[u]) :
              stack[u][n].holds => stack[u][n].mutex # mutex
<1>1. Top(t).mutex = mutex /\ Top(t).mode = "exclusive"
  BY StackFacts DEF Locks, At, FrameOK
<1>2. \A u \in Threads : DOMAIN stack[u] = 1 .. Len(stack[u])
  BY StackFacts
<1>3. QED
  BY <1>1, <1>2 DEF Locks, CanLock

LEMMA CallKeeps ==
    ASSUME StackInv, BuildingAlone, UNCHANGED instance, NEW t \in Threads,
           NEW mutex, NEW mode, NEW op, NEW pc, NEW id, NEW thing,
           Call(t, mutex, mode, op, pc, id, thing), pc # "building",
           [mutex |-> mutex, mode |-> mode, holds |-> FALSE, op |-> op,
            pc |-> pc, id |-> id, thing |-> thing] \in GoodFrame
    PROVE  StackInv' /\ BuildingAlone'
<1> DEFINE f == [mutex |-> mutex, mode |-> mode, holds |-> FALSE, op |-> op,
                 pc |-> pc, id |-> id, thing |-> thing]
<1>1. f \in GoodFrame /\ ~f.holds /\ f.mutex = mutex /\ f.pc # "building"
  OBVIOUS
<1>2. stack' = [stack EXCEPT ![t] = <<f>> \o @]
  BY DEF Call
<1> HIDE DEF f
<1>4. /\ StackInv'
      /\ \A u \in Threads : \A n \in 1 .. Len(stack'[u]) :
            \/ stack'[u][n] = f
            \/ \E k \in 1 .. Len(stack[u]) : stack'[u][n] = stack[u][k]
  BY <1>1, <1>2, PushStack
<1>5. BuildingAlone'
  BY <1>1, <1>4 DEF BuildingAlone
<1>6. QED
  BY <1>4, <1>5

LEMMA ReturnKeeps ==
    ASSUME StackInv, BuildingAlone, NEW t \in Threads,
           stack[t] # <<>>, Return(t),
           \/ instance' \in {instance, None}
           \/ \A u \in Threads : \A n \in 1 .. Len(stack[u]) :
                 stack[u][n].pc = "building" => u = t /\ n = 1
    PROVE  StackInv' /\ BuildingAlone'
<1>1. /\ StackInv'
      /\ \A u \in Threads : \A n \in 1 .. Len(stack'[u]) :
            \E k \in 1 .. Len(stack[u]) :
               /\ stack'[u][n] = stack[u][k]
               /\ u = t => k > 1
  BY PopStack
<1>2. BuildingAlone'
  BY <1>1 DEF BuildingAlone
<1>3. QED
  BY <1>1, <1>2

LEMMA ContinueKeeps ==
    ASSUME StackInv, BuildingAlone, NEW t \in Threads,
           stack[t] # <<>>, NEW f \in Frame, FrameOK(f), f.mutex = Top(t).mutex,
           stack' = [stack EXCEPT ![t][1] = f],
           f.holds => SharedWith(f),
           instance' \in {instance, None},
           f.pc = "building" => instance' = None
    PROVE  StackInv' /\ BuildingAlone'
<1>1. f \in GoodFrame
  BY DEF GoodFrame
<1>2. /\ StackInv'
      /\ \A u \in Threads : \A n \in 1 .. Len(stack'[u]) :
            \/ u = t /\ n = 1 /\ stack'[u][n] = f
            \/ n \in 1 .. Len(stack[u]) /\ stack'[u][n] = stack[u][n]
  BY <1>1, ContinueStack
<1>3. BuildingAlone'
  BY <1>2 DEF BuildingAlone
<1>4. QED
  BY <1>2, <1>3

\* The call on top goes on without the mutex, or under it.
LEMMA ContinueFree ==
    ASSUME StackInv, BuildingAlone, NEW t \in Threads,
           stack[t] # <<>>, NEW pc \in Pcs \ {"building"}, NEW thing \in Things,
           Continue(t, pc, thing, FALSE),
           pc \in {"copying", "found", "creating", "dropping"} => thing \in Creators,
           pc \in {"constructing", "destroying"} => thing \in Objects,
           pc = "destroying" => Top(t).op # "free",
           pc = "waiting" => Top(t).op = "add",
           Top(t).op = "add" \/ Top(t).mutex = "singleton" => thing = Top(t).thing,
           instance' \in {instance, None}
    PROVE  StackInv' /\ BuildingAlone'
<1>1. Top(t) \in Frame /\ FrameOK(Top(t))
  BY StackFacts
<1>2. PICK f : f = [Top(t) EXCEPT !.pc = pc, !.thing = thing, !.holds = FALSE]
  OBVIOUS
<1>3. f \in Frame
  BY <1>1, <1>2 DEF Frame, Pcs, Things
<1>4. /\ f.mutex = Top(t).mutex /\ f.mode = Top(t).mode /\ f.op = Top(t).op
      /\ f.id = Top(t).id /\ f.pc = pc /\ f.thing = thing /\ ~f.holds
  BY <1>1, <1>2 DEF Frame
<1>5. FrameOK(f)
  BY <1>1, <1>4 DEF FrameOK
<1>6. stack' = [stack EXCEPT ![t][1] = f]
  <2>1. Top(t) = stack[t][1]
    BY StackFacts
  <2>2. QED
    BY <1>2, <2>1 DEF Continue
<1>7. QED
  BY <1>3, <1>4, <1>5, <1>6, ContinueKeeps

LEMMA ContinueHolding ==
    ASSUME StackInv, BuildingAlone, NEW t \in Threads, stack[t] # <<>>,
           NEW pc, NEW thing, Continue(t, pc, thing, TRUE), SharedWith(Top(t)),
           \/ /\ pc \in {"copying", "dropping"} /\ thing \in Creators
              /\ Top(t).mutex = "factory"
              /\ pc = "dropping" => Top(t).op # "get"
           \/ /\ pc \in {"building", "destroying"} /\ thing \in Objects
              /\ Top(t).mutex # "factory"
              /\ pc = "destroying" => Top(t).op # "adopt",
           instance' \in {instance, None},
           pc = "building" =>
              Top(t).mutex = "singleton" /\ Top(t).op # "get" /\ instance' = None
    PROVE  StackInv' /\ BuildingAlone'
<1>1. Top(t) \in Frame /\ FrameOK(Top(t))
  BY StackFacts
<1>2. PICK f : f = [Top(t) EXCEPT !.pc = pc, !.thing = thing, !.holds = TRUE]
  OBVIOUS
<1>3. f \in Frame
  BY <1>1, <1>2 DEF Frame, UserCode
<1>4. /\ f.mutex = Top(t).mutex /\ f.mode = Top(t).mode /\ f.op = Top(t).op
      /\ f.id = Top(t).id /\ f.pc = pc /\ f.thing = thing /\ f.holds
  BY <1>1, <1>2 DEF Frame
<1>5. FrameOK(f)
  BY <1>1, <1>4 DEF FrameOK, UnderMutex
<1>6. stack' = [stack EXCEPT ![t][1] = f]
  <2>1. Top(t) = stack[t][1]
    BY StackFacts
  <2>2. QED
    BY <1>2, <2>1 DEF Continue
<1>7. SharedWith(f)
  BY <1>4 DEF SharedWith
<1>8. QED
  BY <1>3, <1>4, <1>5, <1>6, <1>7, ContinueKeeps

-------------------------------------------------------------------------------
(* One lemma per class *)

\* The call that acts.
LEMMA TopAt ==
    ASSUME StackInv, NEW t \in Threads, NEW mutex, NEW op, NEW pc, At(t, mutex, op, pc)
    PROVE  /\ stack[t] # <<>> /\ Top(t) \in Frame /\ FrameOK(Top(t))
           /\ Top(t).mutex = mutex /\ Top(t).op = op /\ Top(t).pc = pc
           /\ Top(t).thing \in Things
<1>1. stack[t] # <<>> /\ Top(t) \in Frame /\ FrameOK(Top(t))
  BY StackFacts DEF At
<1>2. Top(t).thing \in Things
  BY <1>1 DEF Frame, Things
<1>3. QED
  BY <1>1, <1>2 DEF At

LEMMA FactoryKeeps ==
    ASSUME PatternsInv, NEW t \in Threads, FactoryNext(t),
           UNCHANGED <<objects, instance>>
    PROVE  PatternsInv'
<1> USE DEF PatternsInv
<1>1. ASSUME NEW id \in Ids, NEW c \in Creators, CallAddCreator(t, id, c)
      PROVE  PatternsInv'
  <2>1. [mutex |-> "factory", mode |-> "exclusive", holds |-> FALSE, op |-> "add",
         pc |-> "waiting", id |-> id, thing |-> c] \in GoodFrame
    BY DEF GoodFrame, Frame, FrameOK, Mutexes, UserCode
  <2>2. StackInv' /\ BuildingAlone'
    BY <1>1, <2>1, CallKeeps DEF CallAddCreator
  <2>3. QED
    BY <1>1, <2>2 DEF CallAddCreator, DataTypes
<1>2. ASSUME NEW id \in Ids, CallRemoveCreator(t, id)
      PROVE  PatternsInv'
  <2>1. [mutex |-> "factory", mode |-> "exclusive", holds |-> FALSE, op |-> "remove",
         pc |-> "waiting", id |-> id, thing |-> None] \in GoodFrame
    BY DEF GoodFrame, Frame, FrameOK, Mutexes, UserCode
  <2>2. StackInv' /\ BuildingAlone'
    BY <1>2, <2>1, CallKeeps DEF CallRemoveCreator
  <2>3. QED
    BY <1>2, <2>2 DEF CallRemoveCreator, DataTypes
<1>3. ASSUME NEW id \in Ids, CallGetCreator(t, id)
      PROVE  PatternsInv'
  <2>1. [mutex |-> "factory", mode |-> "shared", holds |-> FALSE, op |-> "get",
         pc |-> "waiting", id |-> id, thing |-> None] \in GoodFrame
    BY DEF GoodFrame, Frame, FrameOK, Mutexes, UserCode
  <2>2. StackInv' /\ BuildingAlone'
    BY <1>3, <2>1, CallKeeps DEF CallGetCreator
  <2>3. QED
    BY <1>3, <2>2 DEF CallGetCreator, DataTypes
<1>4. CASE AddCreator(t)
  <2>1. At(t, "factory", "add", "waiting") /\ Return(t)
    BY <1>4 DEF AddCreator, Locks
  <2>2. StackInv' /\ BuildingAlone'
    BY <1>4, <2>1, TopAt, ReturnKeeps DEF AddCreator
  <2>3. Top(t).id \in Ids /\ Top(t).thing \in Creators
    BY <2>1, TopAt DEF FrameOK
  <2>4. QED
    BY <1>4, <2>2, <2>3 DEF AddCreator, DataTypes
<1>5. CASE RefuseCreator(t)
  <2>1. /\ At(t, "factory", "add", "waiting") /\ Locks(t, "factory", "add")
        /\ Continue(t, "dropping", Top(t).thing, TRUE)
    BY <1>5 DEF RefuseCreator, Locks
  <2>2. /\ stack[t] # <<>> /\ Top(t).mutex = "factory" /\ Top(t).op = "add"
        /\ Top(t).thing \in Creators /\ SharedWith(Top(t))
    BY <2>1, TopAt, LockedShared DEF FrameOK
  <2>3. StackInv' /\ BuildingAlone'
    BY <1>5, <2>1, <2>2, ContinueHolding
  <2>4. QED
    BY <1>5, <2>3 DEF RefuseCreator, DataTypes
<1>6. CASE RemoveNothing(t)
  <2>1. At(t, "factory", "remove", "waiting") /\ Return(t)
    BY <1>6 DEF RemoveNothing, Locks
  <2>2. StackInv' /\ BuildingAlone'
    BY <1>6, <2>1, TopAt, ReturnKeeps DEF RemoveNothing
  <2>3. QED
    BY <1>6, <2>2 DEF RemoveNothing, DataTypes
<1>7. CASE RemoveCreator(t)
  <2>1. /\ At(t, "factory", "remove", "waiting") /\ Locks(t, "factory", "remove")
        /\ Continue(t, "dropping", creators[Top(t).id], TRUE)
    BY <1>7 DEF RemoveCreator, Locks
  <2>2. /\ stack[t] # <<>> /\ Top(t).mutex = "factory" /\ Top(t).op = "remove"
        /\ Top(t).id \in Ids /\ SharedWith(Top(t))
    BY <2>1, TopAt, LockedShared DEF FrameOK
  <2>3. creators[Top(t).id] \in Creators
    BY <1>7, <2>2 DEF RemoveCreator, DataTypes
  <2>4. StackInv' /\ BuildingAlone'
    BY <1>7, <2>1, <2>2, <2>3, ContinueHolding
  <2>5. QED
    BY <1>7, <2>4 DEF RemoveCreator, DataTypes
<1>8. CASE MissCreator(t)
  <2>1. At(t, "factory", "get", "waiting") /\ Return(t)
    BY <1>8 DEF MissCreator, Locks
  <2>2. StackInv' /\ BuildingAlone'
    BY <1>8, <2>1, TopAt, ReturnKeeps DEF MissCreator
  <2>3. QED
    BY <1>8, <2>2 DEF MissCreator, DataTypes
<1>9. CASE FindCreator(t)
  <2>1. /\ At(t, "factory", "get", "waiting") /\ Locks(t, "factory", "get")
        /\ Continue(t, "copying", creators[Top(t).id], TRUE)
    BY <1>9 DEF FindCreator, Locks
  <2>2. /\ stack[t] # <<>> /\ Top(t).mutex = "factory" /\ Top(t).id \in Ids
        /\ SharedWith(Top(t))
    BY <2>1, TopAt, LockedShared DEF FrameOK
  <2>3. creators[Top(t).id] \in Creators
    BY <1>9, <2>2 DEF FindCreator, DataTypes
  <2>4. StackInv' /\ BuildingAlone'
    BY <1>9, <2>1, <2>2, <2>3, ContinueHolding
  <2>5. QED
    BY <1>9, <2>4 DEF FindCreator, DataTypes
<1>10. CASE CopyThrows(t)
  <2>1. At(t, "factory", "get", "copying") /\ Return(t)
    BY <1>10 DEF CopyThrows
  <2>2. StackInv' /\ BuildingAlone'
    BY <1>10, <2>1, TopAt, ReturnKeeps DEF CopyThrows
  <2>3. QED
    BY <1>10, <2>2 DEF CopyThrows, DataTypes
<1>11. CASE CreatorCopied(t)
  <2>1. /\ At(t, "factory", "get", "copying")
        /\ Continue(t, "found", Top(t).thing, FALSE)
    BY <1>11 DEF CreatorCopied
  <2>2. Top(t).thing \in Creators
    BY <2>1, TopAt DEF FrameOK
  <2>3. StackInv' /\ BuildingAlone'
    BY <1>11, <2>1, <2>2, TopAt, ContinueFree DEF Pcs, UserCode, Things
  <2>4. QED
    BY <1>11, <2>3 DEF CreatorCopied, DataTypes
<1>12. CASE RunCreator(t)
  <2>1. At(t, "factory", "get", "found")
    BY <1>12 DEF RunCreator
  <2>2. Top(t).thing \in Creators /\ Top(t).holds = FALSE
    BY <2>1, TopAt DEF FrameOK, UnderMutex, Frame
  <2>3. Continue(t, "creating", Top(t).thing, FALSE)
    BY <1>12, <2>2 DEF RunCreator
  <2>4. StackInv' /\ BuildingAlone'
    BY <1>12, <2>1, <2>2, <2>3, TopAt, ContinueFree DEF Pcs, UserCode, Things
  <2>5. QED
    BY <1>12, <2>4 DEF RunCreator, DataTypes
<1>13. CASE CreatorEnds(t)
  <2>1. At(t, "factory", "get", "creating")
    BY <1>13 DEF CreatorEnds
  <2>2. Top(t).thing \in Creators /\ Top(t).holds = FALSE
    BY <2>1, TopAt DEF FrameOK, UnderMutex, Frame
  <2>3. Continue(t, "dropping", Top(t).thing, FALSE)
    BY <1>13, <2>2 DEF CreatorEnds
  <2>4. StackInv' /\ BuildingAlone'
    BY <1>13, <2>1, <2>2, <2>3, TopAt, ContinueFree DEF Pcs, UserCode, Things
  <2>5. QED
    BY <1>13, <2>4 DEF CreatorEnds, DataTypes
<1>14. CASE CreatorDropped(t)
  <2>1. stack[t] # <<>> /\ Return(t)
    BY <1>14 DEF CreatorDropped, At
  <2>2. StackInv' /\ BuildingAlone'
    BY <1>14, <2>1, ReturnKeeps DEF CreatorDropped
  <2>3. QED
    BY <1>14, <2>2 DEF CreatorDropped, DataTypes
<1>15. QED
  BY <1>1, <1>2, <1>3, <1>4, <1>5, <1>6, <1>7, <1>8, <1>9, <1>10, <1>11, <1>12,
     <1>13, <1>14 DEF FactoryNext

LEMMA RepositoryKeeps ==
    ASSUME PatternsInv, NEW t \in Threads, RepositoryNext(t),
           UNCHANGED <<creators, instance>>
    PROVE  PatternsInv'
<1> USE DEF PatternsInv
<1>1. ASSUME NEW id \in Ids, NEW o \in Objects, CallEmplace(t, id, o)
      PROVE  PatternsInv'
  <2>1. [mutex |-> "repository", mode |-> "exclusive", holds |-> FALSE, op |-> "add",
         pc |-> "constructing", id |-> id, thing |-> o] \in GoodFrame
    BY DEF GoodFrame, Frame, FrameOK, Mutexes, UserCode
  <2>2. StackInv' /\ BuildingAlone'
    BY <1>1, <2>1, CallKeeps DEF CallEmplace
  <2>3. QED
    BY <1>1, <2>2 DEF CallEmplace, DataTypes
<1>2. ASSUME NEW id \in Ids, NEW o \in Objects, CallInsert(t, id, o)
      PROVE  PatternsInv'
  <2>1. [mutex |-> "repository", mode |-> "exclusive", holds |-> FALSE, op |-> "add",
         pc |-> "waiting", id |-> id, thing |-> o] \in GoodFrame
    BY DEF GoodFrame, Frame, FrameOK, Mutexes, UserCode
  <2>2. StackInv' /\ BuildingAlone'
    BY <1>2, <2>1, CallKeeps DEF CallInsert
  <2>3. QED
    BY <1>2, <2>2 DEF CallInsert, DataTypes
<1>3. ASSUME NEW id \in Ids, CallErase(t, id)
      PROVE  PatternsInv'
  <2>1. [mutex |-> "repository", mode |-> "exclusive", holds |-> FALSE, op |-> "remove",
         pc |-> "waiting", id |-> id, thing |-> None] \in GoodFrame
    BY DEF GoodFrame, Frame, FrameOK, Mutexes, UserCode
  <2>2. StackInv' /\ BuildingAlone'
    BY <1>3, <2>1, CallKeeps DEF CallErase
  <2>3. QED
    BY <1>3, <2>2 DEF CallErase, DataTypes
<1>4. ASSUME NEW id \in Ids, CallGetObject(t, id)
      PROVE  PatternsInv'
  <2>1. [mutex |-> "repository", mode |-> "shared", holds |-> FALSE, op |-> "get",
         pc |-> "waiting", id |-> id, thing |-> None] \in GoodFrame
    BY DEF GoodFrame, Frame, FrameOK, Mutexes, UserCode
  <2>2. StackInv' /\ BuildingAlone'
    BY <1>4, <2>1, CallKeeps DEF CallGetObject
  <2>3. QED
    BY <1>4, <2>2 DEF CallGetObject, DataTypes
<1>5. CASE ObjectConstructed(t)
  <2>1. /\ At(t, "repository", "add", "constructing")
        /\ Continue(t, "waiting", Top(t).thing, FALSE)
    BY <1>5 DEF ObjectConstructed
  <2>2. StackInv' /\ BuildingAlone'
    BY <2>1, TopAt, ContinueFree DEF Pcs
  <2>3. QED
    BY <1>5, <2>2 DEF ObjectConstructed, DataTypes
<1>6. CASE ObjectThrows(t)
  <2>1. At(t, "repository", "add", "constructing") /\ Return(t)
    BY <1>6 DEF ObjectThrows
  <2>2. StackInv' /\ BuildingAlone'
    BY <1>6, <2>1, TopAt, ReturnKeeps DEF ObjectThrows
  <2>3. QED
    BY <1>6, <2>2 DEF ObjectThrows, DataTypes
<1>7. CASE InsertObject(t)
  <2>1. At(t, "repository", "add", "waiting") /\ Return(t)
    BY <1>7 DEF InsertObject, Locks
  <2>2. StackInv' /\ BuildingAlone'
    BY <1>7, <2>1, TopAt, ReturnKeeps DEF InsertObject
  <2>3. Top(t).id \in Ids /\ Top(t).thing \in Objects
    BY <2>1, TopAt DEF FrameOK
  <2>4. QED
    BY <1>7, <2>2, <2>3 DEF InsertObject, DataTypes
<1>8. CASE RefuseObject(t)
  <2>1. /\ At(t, "repository", "add", "waiting") /\ Locks(t, "repository", "add")
        /\ Continue(t, "destroying", Top(t).thing, TRUE)
    BY <1>8 DEF RefuseObject, Locks
  <2>2. Top(t).thing \in Objects
    BY <2>1, TopAt DEF FrameOK
  <2>3. /\ stack[t] # <<>> /\ Top(t).mutex = "repository" /\ Top(t).op = "add"
        /\ SharedWith(Top(t))
    BY <2>1, TopAt, LockedShared
  <2>4. instance' \in {instance, None}
    BY <1>8 DEF RefuseObject
  <2>5. StackInv' /\ BuildingAlone'
    BY <2>1, <2>2, <2>3, <2>4, ContinueHolding
  <2>6. QED
    BY <1>8, <2>5 DEF RefuseObject, DataTypes
<1>9. CASE EraseNothing(t)
  <2>1. At(t, "repository", "remove", "waiting") /\ Return(t)
    BY <1>9 DEF EraseNothing, Locks
  <2>2. StackInv' /\ BuildingAlone'
    BY <1>9, <2>1, TopAt, ReturnKeeps DEF EraseNothing
  <2>3. QED
    BY <1>9, <2>2 DEF EraseNothing, DataTypes
<1>10. CASE EraseObject(t)
  <2>1. /\ At(t, "repository", "remove", "waiting") /\ Locks(t, "repository", "remove")
        /\ Continue(t, "destroying", objects[Top(t).id], TRUE)
    BY <1>10 DEF EraseObject, Locks
  <2>2. Top(t).id \in Ids
    BY <2>1, TopAt DEF FrameOK
  <2>3. objects[Top(t).id] \in Objects
    BY <1>10, <2>2 DEF EraseObject, DataTypes
  <2>4. /\ stack[t] # <<>> /\ Top(t).mutex = "repository" /\ Top(t).op = "remove"
        /\ SharedWith(Top(t))
    BY <2>1, TopAt, LockedShared
  <2>5. instance' \in {instance, None}
    BY <1>10 DEF EraseObject
  <2>6. StackInv' /\ BuildingAlone'
    BY <2>1, <2>3, <2>4, <2>5, ContinueHolding
  <2>7. QED
    BY <1>10, <2>6 DEF EraseObject, DataTypes
<1>11. CASE ObjectDestroyed(t)
  <2>1. stack[t] # <<>> /\ Return(t)
    BY <1>11 DEF ObjectDestroyed, At
  <2>2. StackInv' /\ BuildingAlone'
    BY <1>11, <2>1, ReturnKeeps DEF ObjectDestroyed
  <2>3. QED
    BY <1>11, <2>2 DEF ObjectDestroyed, DataTypes
<1>12. CASE GetObject(t)
  <2>1. At(t, "repository", "get", "waiting") /\ Return(t)
    BY <1>12 DEF GetObject, Locks
  <2>2. StackInv' /\ BuildingAlone'
    BY <1>12, <2>1, TopAt, ReturnKeeps DEF GetObject
  <2>3. QED
    BY <1>12, <2>2 DEF GetObject, DataTypes
<1>13. QED
  BY <1>1, <1>2, <1>3, <1>4, <1>5, <1>6, <1>7, <1>8, <1>9, <1>10, <1>11, <1>12
     DEF RepositoryNext

LEMMA SingletonKeeps ==
    ASSUME PatternsInv, NEW t \in Threads, SingletonNext(t),
           UNCHANGED <<creators, objects>>
    PROVE  PatternsInv'
<1> USE DEF PatternsInv
<1>1. ASSUME CallCreate(t)
      PROVE  PatternsInv'
  <2>1. [mutex |-> "singleton", mode |-> "exclusive", holds |-> FALSE, op |-> "create",
         pc |-> "waiting", id |-> None, thing |-> None] \in GoodFrame
    BY DEF GoodFrame, Frame, FrameOK, Mutexes, UserCode
  <2>2. StackInv' /\ BuildingAlone'
    BY <1>1, <2>1, CallKeeps DEF CallCreate
  <2>3. QED
    BY <1>1, <2>2 DEF CallCreate, DataTypes
<1>2. ASSUME NEW o \in Objects \cup {None}, CallAdopt(t, o)
      PROVE  PatternsInv'
  <2>1. [mutex |-> "singleton", mode |-> "exclusive", holds |-> FALSE, op |-> "adopt",
         pc |-> "waiting", id |-> None, thing |-> o] \in GoodFrame
    BY DEF GoodFrame, Frame, FrameOK, Mutexes, UserCode
  <2>2. StackInv' /\ BuildingAlone'
    BY <1>2, <2>1, CallKeeps DEF CallAdopt
  <2>3. QED
    BY <1>2, <2>2 DEF CallAdopt, DataTypes
<1>3. ASSUME CallFree(t)
      PROVE  PatternsInv'
  <2>1. [mutex |-> "singleton", mode |-> "exclusive", holds |-> FALSE, op |-> "free",
         pc |-> "waiting", id |-> None, thing |-> None] \in GoodFrame
    BY DEF GoodFrame, Frame, FrameOK, Mutexes, UserCode
  <2>2. StackInv' /\ BuildingAlone'
    BY <1>3, <2>1, CallKeeps DEF CallFree
  <2>3. QED
    BY <1>3, <2>2 DEF CallFree, DataTypes
<1>4. ASSUME CallInstance(t)
      PROVE  PatternsInv'
  <2>1. [mutex |-> "singleton", mode |-> "shared", holds |-> FALSE, op |-> "get",
         pc |-> "waiting", id |-> None, thing |-> None] \in GoodFrame
    BY DEF GoodFrame, Frame, FrameOK, Mutexes, UserCode
  <2>2. StackInv' /\ BuildingAlone'
    BY <1>4, <2>1, CallKeeps DEF CallInstance
  <2>3. QED
    BY <1>4, <2>2 DEF CallInstance, DataTypes
<1>5. CASE RefuseCreate(t)
  <2>1. At(t, "singleton", "create", "waiting") /\ Return(t)
    BY <1>5 DEF RefuseCreate, Locks
  <2>2. StackInv' /\ BuildingAlone'
    BY <1>5, <2>1, TopAt, ReturnKeeps DEF RefuseCreate
  <2>3. QED
    BY <1>5, <2>2 DEF RefuseCreate, DataTypes
<1>6. ASSUME NEW o \in Objects, CreateInstance(t, o)
      PROVE  PatternsInv'
  <2>1. /\ At(t, "singleton", "create", "waiting") /\ Locks(t, "singleton", "create")
        /\ Continue(t, "building", o, TRUE) /\ instance = None
    BY <1>6 DEF CreateInstance, Locks
  <2>2. /\ stack[t] # <<>> /\ Top(t).mutex = "singleton" /\ Top(t).op = "create"
        /\ SharedWith(Top(t))
    BY <2>1, TopAt, LockedShared
  <2>3. instance' \in {instance, None}
    BY <1>6 DEF CreateInstance
  <2>4. StackInv' /\ BuildingAlone'
    BY <2>1, <2>2, <2>3, ContinueHolding
  <2>5. QED
    BY <1>6, <2>4 DEF CreateInstance, DataTypes
<1>7. CASE InstanceBuilt(t)
  <2>1. At(t, "singleton", "create", "building") /\ Return(t)
    BY <1>7 DEF InstanceBuilt
  <2>2. ASSUME NEW u \in Threads, NEW n \in 1 .. Len(stack[u]),
               stack[u][n].pc = "building"
        PROVE  u = t /\ n = 1
    <3>1. /\ stack[u][n].holds /\ stack[u][n].mutex = "singleton"
          /\ stack[u][n].mode = "exclusive"
      BY <2>2, StackFacts DEF FrameOK
    <3>2. /\ 1 \in 1 .. Len(stack[t]) /\ stack[t][1].holds
          /\ stack[t][1].mutex = "singleton"
      <4>1. /\ stack[t] # <<>> /\ FrameOK(Top(t)) /\ Top(t).pc = "building"
            /\ Top(t).mutex = "singleton"
        BY <2>1, TopAt
      <4>2. Len(stack[t]) \in Nat /\ Len(stack[t]) >= 1 /\ Top(t) = stack[t][1]
        BY <4>1, StackFacts
      <4>3. QED
        BY <4>1, <4>2 DEF FrameOK
    <3>3. QED
      BY <3>1, <3>2 DEF StackInv, HeldOnce
  <2>3. StackInv' /\ BuildingAlone'
    BY <1>7, <2>1, <2>2, TopAt, ReturnKeeps DEF InstanceBuilt
  <2>4. Top(t).thing \in Objects
    BY <2>1, TopAt DEF FrameOK
  <2>5. QED
    BY <1>7, <2>3, <2>4 DEF InstanceBuilt, DataTypes
<1>8. CASE InstanceThrows(t)
  <2>1. At(t, "singleton", "create", "building") /\ Return(t)
    BY <1>8 DEF InstanceThrows
  <2>2. StackInv' /\ BuildingAlone'
    BY <1>8, <2>1, TopAt, ReturnKeeps DEF InstanceThrows
  <2>3. QED
    BY <1>8, <2>2 DEF InstanceThrows, DataTypes
<1>9. CASE RefuseNull(t)
  <2>1. At(t, "singleton", "adopt", "waiting") /\ Return(t)
    BY <1>9 DEF RefuseNull, Locks
  <2>2. StackInv' /\ BuildingAlone'
    BY <1>9, <2>1, TopAt, ReturnKeeps DEF RefuseNull
  <2>3. QED
    BY <1>9, <2>2 DEF RefuseNull, DataTypes
<1>10. CASE RefuseAdopt(t)
  <2>1. /\ At(t, "singleton", "adopt", "waiting")
        /\ Continue(t, "destroying", Top(t).thing, FALSE)
    BY <1>10 DEF RefuseAdopt, Locks
  <2>2. Top(t).thing \in Objects
    BY <1>10, <2>1, TopAt DEF FrameOK, RefuseAdopt
  <2>3. /\ stack[t] # <<>> /\ Top(t).mutex = "singleton" /\ Top(t).op = "adopt"
        /\ "destroying" \in Pcs \ {"building"} /\ Top(t).thing \in Things
    BY <2>1, TopAt DEF Pcs, UserCode
  <2>4. instance' \in {instance, None}
    BY <1>10 DEF RefuseAdopt
  <2>5. StackInv' /\ BuildingAlone'
    BY <2>1, <2>2, <2>3, <2>4, ContinueFree
  <2>6. QED
    BY <1>10, <2>5 DEF RefuseAdopt, DataTypes
<1>11. CASE AdoptInstance(t)
  <2>1. /\ At(t, "singleton", "adopt", "waiting") /\ Locks(t, "singleton", "adopt")
        /\ Return(t)
    BY <1>11 DEF AdoptInstance, Locks
  <2>2. \A u \in Threads : \A n \in 1 .. Len(stack[u]) : stack[u][n].pc # "building"
    <3>1. \A u \in Threads : \A n \in 1 .. Len(stack[u]) :
             stack[u][n].holds => stack[u][n].mutex # "singleton"
      BY <2>1, LockedAlone
    <3>2. QED
      BY <3>1, StackFacts DEF FrameOK
  <2>3. StackInv' /\ BuildingAlone'
    BY <1>11, <2>1, <2>2, TopAt, ReturnKeeps DEF AdoptInstance
  <2>4. Top(t).thing \in Objects
    BY <1>11, <2>1, TopAt DEF FrameOK, AdoptInstance
  <2>5. QED
    BY <1>11, <2>3, <2>4 DEF AdoptInstance, DataTypes
<1>12. CASE FreeNothing(t)
  <2>1. At(t, "singleton", "free", "waiting") /\ Return(t)
    BY <1>12 DEF FreeNothing, Locks
  <2>2. StackInv' /\ BuildingAlone'
    BY <1>12, <2>1, TopAt, ReturnKeeps DEF FreeNothing
  <2>3. QED
    BY <1>12, <2>2 DEF FreeNothing, DataTypes
<1>13. CASE FreeInstance(t)
  <2>1. /\ At(t, "singleton", "free", "waiting") /\ Locks(t, "singleton", "free")
        /\ Continue(t, "destroying", instance, TRUE) /\ instance \in Objects
    BY <1>13 DEF FreeInstance, Locks, DataTypes
  <2>2. /\ stack[t] # <<>> /\ Top(t).mutex = "singleton" /\ Top(t).op = "free"
        /\ SharedWith(Top(t))
    BY <2>1, TopAt, LockedShared
  <2>3. instance' \in {instance, None}
    BY <1>13 DEF FreeInstance
  <2>4. StackInv' /\ BuildingAlone'
    BY <2>1, <2>2, <2>3, ContinueHolding
  <2>5. QED
    BY <1>13, <2>4 DEF FreeInstance, DataTypes
<1>14. CASE InstanceDestroyed(t)
  <2>1. stack[t] # <<>> /\ Return(t)
    BY <1>14 DEF InstanceDestroyed, At
  <2>2. StackInv' /\ BuildingAlone'
    BY <1>14, <2>1, ReturnKeeps DEF InstanceDestroyed
  <2>3. QED
    BY <1>14, <2>2 DEF InstanceDestroyed, DataTypes
<1>15. CASE GetInstance(t)
  <2>1. At(t, "singleton", "get", "waiting") /\ Return(t)
    BY <1>15 DEF GetInstance, Locks
  <2>2. StackInv' /\ BuildingAlone'
    BY <1>15, <2>1, TopAt, ReturnKeeps DEF GetInstance
  <2>3. QED
    BY <1>15, <2>2 DEF GetInstance, DataTypes
<1>16. QED
  BY <1>1, <1>2, <1>3, <1>4, <1>5, <1>6, <1>7, <1>8, <1>9, <1>10, <1>11, <1>12,
     <1>13, <1>14, <1>15 DEF SingletonNext

-------------------------------------------------------------------------------
(* Theorems *)

LEMMA InitPatterns == Init => PatternsInv
<1>1. SUFFICES ASSUME Init PROVE PatternsInv
  OBVIOUS
<1>2. <<>> \in Seq(GoodFrame) /\ Len(<<>>) = 0
  BY EmptySeq
<1>3. stack \in [Threads -> Seq(GoodFrame)] /\ \A t \in Threads : stack[t] = <<>>
  BY <1>1, <1>2 DEF Init
<1>4. \A t \in Threads : 1 .. Len(stack[t]) = {}
  BY <1>2, <1>3
<1>5. StackInv
  BY <1>3, <1>4 DEF StackInv, HeldOnce
<1>6. DataTypes
  BY <1>1 DEF Init, FactoryInit, RepositoryInit, SingletonInit, DataTypes
<1>7. BuildingAlone
  BY <1>4 DEF BuildingAlone
<1>8. QED
  BY <1>5, <1>6, <1>7 DEF PatternsInv

LEMMA NextPatterns == PatternsInv /\ [Next]_vars => PatternsInv'
<1>1. SUFFICES ASSUME PatternsInv, [Next]_vars PROVE PatternsInv'
  OBVIOUS
<1>2. CASE UNCHANGED vars
  BY <1>1, <1>2 DEF vars, PatternsInv, StackInv, HeldOnce, DataTypes,
                    BuildingAlone
<1>3. CASE Next
  <2>1. PICK t \in Threads :
          \/ FactoryNext(t) /\ UNCHANGED <<objects, instance>>
          \/ RepositoryNext(t) /\ UNCHANGED <<creators, instance>>
          \/ SingletonNext(t) /\ UNCHANGED <<creators, objects>>
    BY <1>3 DEF Next
  <2>3. CASE FactoryNext(t) /\ UNCHANGED <<objects, instance>>
    BY <1>1, <2>3, FactoryKeeps
  <2>4. CASE RepositoryNext(t) /\ UNCHANGED <<creators, instance>>
    BY <1>1, <2>4, RepositoryKeeps
  <2>5. CASE SingletonNext(t) /\ UNCHANGED <<creators, objects>>
    BY <1>1, <2>5, SingletonKeeps
  <2>6. QED
    BY <2>1, <2>3, <2>4, <2>5
<1>4. QED
  BY <1>1, <1>2, <1>3

LEMMA PatternsInvariant == Spec => []PatternsInv
BY InitPatterns, NextPatterns, PTL DEF Spec

\* Type correctness: what is copied, run and dropped as a creator is one that was
\* given to the factory, and only objects are constructed and destroyed
\* (ObjectFactory.h:87-90).
THEOREM PatternsTypes == Spec => []TypeOK
<1>1. PatternsInv => TypeOK
  <2>1. SUFFICES ASSUME PatternsInv PROVE TypeOK
    OBVIOUS
  <2>2. ASSUME NEW t \in Threads
        PROVE  /\ stack[t] \in Seq(Frame)
               /\ \A n \in DOMAIN stack[t] :
                     /\ stack[t][n].pc \in {"copying", "found", "creating", "dropping"} =>
                           stack[t][n].thing \in Creators
                     /\ stack[t][n].pc \in {"constructing", "building", "destroying"} =>
                           stack[t][n].thing \in Objects
    <3>1. GoodFrame \subseteq Frame
      BY DEF GoodFrame
    <3>2. /\ stack[t] \in Seq(GoodFrame)
          /\ DOMAIN stack[t] = 1 .. Len(stack[t])
          /\ \A n \in 1 .. Len(stack[t]) : FrameOK(stack[t][n])
      BY <2>1, StackFacts DEF PatternsInv
    <3>3. stack[t] \in Seq(Frame)
      BY <3>1, <3>2, SeqMonotonic
    <3>4. QED
      BY <3>2, <3>3 DEF FrameOK
  <2>3. QED
    BY <2>1, <2>2 DEF PatternsInv, StackInv, DataTypes, TypeOK
<1>2. QED
  BY <1>1, PatternsInvariant, PTL

\* At most one instance of a singleton exists, counting one that is being built or
\* freed (Singleton.h:100-107, 144-145).
THEOREM OneInstance == Spec => []OneInstanceAtATime
<1>1. PatternsInv => OneInstanceAtATime
  <2>1. SUFFICES ASSUME PatternsInv,
                        NEW t \in Threads, NEW u \in Threads,
                        NEW n \in DOMAIN stack[t], NEW k \in DOMAIN stack[u],
                        stack[t][n].mutex = "singleton", stack[t][n].pc = "building"
                 PROVE  /\ instance = None
                        /\ ~ (/\ stack[u][k].mutex = "singleton"
                              /\ stack[u][k].pc = "destroying"
                              /\ stack[u][k].op = "free")
                        /\ stack[u][k].mutex = "singleton" /\ stack[u][k].pc = "building"
                              => t = u /\ n = k
    BY DEF OneInstanceAtATime
  <2>2. /\ n \in 1 .. Len(stack[t]) /\ FrameOK(stack[t][n])
        /\ k \in 1 .. Len(stack[u]) /\ FrameOK(stack[u][k])
    BY <2>1, StackFacts DEF PatternsInv
  <2>3. instance = None
    BY <2>1, <2>2 DEF PatternsInv, BuildingAlone
  <2>4. ASSUME stack[u][k].mutex = "singleton", stack[u][k].holds
        PROVE  t = u /\ n = k
    <3>1. stack[t][n].holds /\ stack[t][n].mode = "exclusive"
      BY <2>1, <2>2 DEF FrameOK
    <3>2. QED
      BY <2>1, <2>2, <2>4, <3>1 DEF PatternsInv, StackInv, HeldOnce
  <2>5. QED
    BY <2>1, <2>2, <2>3, <2>4 DEF FrameOK
<1>2. QED
  BY <1>1, PatternsInvariant, PTL

\* t waits for a mutex that u holds.
WaitsForHolder(t, u) ==
    /\ stack[t] # <<>> /\ Top(t).pc = "waiting"
    /\ \E n \in 1 .. Len(stack[u]) :
          stack[u][n].holds /\ stack[u][n].mutex = Top(t).mutex

\* Among waiting threads that keep to an order, one that waits for the last mutex
\* does not wait for another of them to give it up.
LEMMA LastNotHeld ==
    ASSUME PatternsInv, NEW S \in SUBSET Threads, NEW order \in [Mutexes -> Nat],
           \A v \in S : stack[v] # <<>> /\ Top(v).pc = "waiting" /\ KeepsTo(v, order),
           NEW t \in S, \A v \in S : order[Top(v).mutex] <= order[Top(t).mutex],
           NEW u \in S
    PROVE  ~WaitsForHolder(t, u)
<1>1. SUFFICES ASSUME NEW n \in 1 .. Len(stack[u]), stack[u][n].holds,
                      stack[u][n].mutex = Top(t).mutex
               PROVE  FALSE
  BY DEF WaitsForHolder
<1>2. /\ UnderMutex(stack[u][n]) /\ DOMAIN stack[u] = 1 .. Len(stack[u])
      /\ Len(stack[u]) \in Nat /\ 1 \in 1 .. Len(stack[u]) /\ Top(u) = stack[u][1]
  BY <1>1, StackFacts DEF PatternsInv, FrameOK
<1>3. n # 1
  BY <1>2 DEF UnderMutex
<1>4. order[stack[u][n].mutex] < order[Top(u).mutex]
  BY <1>2, <1>3 DEF KeepsTo
<1>5. Top(u).mutex \in Mutexes /\ Top(t).mutex \in Mutexes
  BY StackFacts DEF PatternsInv, Frame
<1>6. order[Top(u).mutex] <= order[Top(t).mutex] /\ stack[u][n].mutex = Top(t).mutex
  BY <1>1
<1>7. QED
  BY <1>4, <1>5, <1>6

\* However many the threads and however deep their calls, threads that wait for
\* each other have called back, from code that runs under a mutex, in a way that no
\* order of the mutexes allows (ObjectFactory.h:67, 73, 87, Singleton.h:107);
\* what creators and the constructors of the repository call cannot lead there by
\* itself (ObjectFactory.h:88-89, ObjectRepository.h:96).
THEOREM NobodyWaitsInACircle == Spec => []NoCircularWait
<1>1. PatternsInv => NoCircularWait
  <2>1. SUFFICES ASSUME PatternsInv, NEW S \in (SUBSET Threads) \ {{}},
                        WaitForEachOther(S), NEW order \in Ranks,
                        \A t \in S : KeepsTo(t, order)
                 PROVE  FALSE
    BY Zenon DEF NoCircularWait
  <2>2. S \subseteq Threads /\ S # {}
    OBVIOUS
  <2>3. \A t \in S : \E u \in S : WaitsFor(t, u)
    BY <2>1 DEF WaitForEachOther
  <2>4. \A v \in S : stack[v] # <<>> /\ Top(v).pc = "waiting" /\ KeepsTo(v, order)
    BY <2>1, <2>3 DEF WaitsFor
  <2>5. \A v \in S : Top(v).mutex \in Mutexes
    BY <2>1, <2>2, <2>4, StackFacts DEF PatternsInv, Frame
  <2>6. order \in [Mutexes -> Nat]
    BY <2>1, CallsAssumption
  <2>7. PICK t \in S : \A v \in S : order[Top(v).mutex] <= order[Top(t).mutex]
    <3>1. ASSUME NEW M \in SUBSET Mutexes, M # {}
          PROVE  \E m \in M : \A l \in M : order[l] <= order[m]
      <4>1. \A m \in Mutexes : order[m] \in Nat
        BY <2>6
      <4>2. /\ "factory" \in Mutexes /\ "repository" \in Mutexes
            /\ "singleton" \in Mutexes
            /\ \A m \in M : m \in {"factory", "repository", "singleton"}
        BY <3>1 DEF Mutexes
      <4>3. PICK m \in M : TRUE
        BY <3>1
      <4>4. QED
        BY <4>1, <4>2, <4>3
    <3>2. {Top(v).mutex : v \in S} \in SUBSET Mutexes /\ {Top(v).mutex : v \in S} # {}
      BY <2>2, <2>5
    <3>3. PICK m \in {Top(v).mutex : v \in S} :
             \A l \in {Top(v).mutex : v \in S} : order[l] <= order[m]
      BY <3>1, <3>2
    <3>4. QED
      BY <3>3
  <2>8. ASSUME NEW v \in S, NEW u \in S, WaitsFor(v, u)
        PROVE  \/ WaitsForHolder(v, u)
               \/ /\ Top(u).mutex = Top(v).mutex
                  /\ Top(u).mode = "exclusive" /\ Top(v).mode = "shared"
    <3>1. DOMAIN stack[u] = 1 .. Len(stack[u])
      BY <2>1, <2>2, StackFacts DEF PatternsInv
    <3>2. QED
      BY <2>8, <3>1 DEF WaitsFor, WaitsForHolder
  <2>9. PICK u \in S : WaitsFor(t, u)
    BY <2>3
  <2>10. Top(u).mutex = Top(t).mutex /\ Top(u).mode = "exclusive"
    BY <2>1, <2>2, <2>4, <2>6, <2>7, <2>8, <2>9, LastNotHeld
  <2>11. PICK w \in S : WaitsFor(u, w)
    BY <2>3
  <2>12. \A v \in S : order[Top(v).mutex] <= order[Top(u).mutex]
    BY <2>7, <2>10
  <2>13. ~WaitsForHolder(u, w)
    BY <2>1, <2>2, <2>4, <2>6, <2>12, LastNotHeld
  <2>14. QED
    BY <2>8, <2>10, <2>11, <2>13
<1>2. QED
  BY <1>1, PatternsInvariant, PTL
===============================================================================
