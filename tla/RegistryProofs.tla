---------------------------- MODULE RegistryProofs ----------------------------
(***************************************************************************)
(* For any number of threads, ids and objects and any depth of calls: an   *)
(* object has one owner as long as it exists, and the classes implement    *)
(* the Registry.                                                           *)
(***************************************************************************)
EXTENDS PatternsProofs, FiniteSetTheorems

\* In the repository, or in a call.
Kept(o) == \E id \in Ids : objects[id] = o
Held(o) == InCall(o, Pcs)

OneId(o) == \A id, jd \in Ids : objects[id] = o /\ objects[jd] = o => id = jd
OneCall(o) ==
    \A t, u \in Threads : \A n \in 1 .. Len(stack[t]), k \in 1 .. Len(stack[u]) :
        stack[t][n].thing = o /\ stack[u][k].thing = o => t = u /\ n = k

\* An object that exists is in one place.
Owned(o) ==
    /\ o \in alive <=> Kept(o) \/ instance = o \/ Held(o)
    /\ ~(Kept(o) /\ instance = o)
    /\ ~(Kept(o) /\ Held(o))
    /\ ~(instance = o /\ Held(o))
    /\ OneId(o) /\ OneCall(o)

OwnInv ==
    /\ PatternsInv
    /\ \A o \in Objects : Owned(o)
    /\ \A t \in Threads : Len(stack[t]) <= MaxDepth

-------------------------------------------------------------------------------
(* The calls that have an object *)

LEMMA InCallIs ==
    ASSUME StackInv, NEW o, NEW P
    PROVE  InCall(o, P) <=> \E t \in Threads : \E n \in 1 .. Len(stack[t]) :
                               stack[t][n].thing = o /\ stack[t][n].pc \in P
BY StackFacts DEF InCall

LEMMA HeldIs ==
    ASSUME StackInv, NEW o
    PROVE  Held(o) <=> \E t \in Threads : \E n \in 1 .. Len(stack[t]) : stack[t][n].thing = o
<1>1. \A t \in Threads : \A n \in 1 .. Len(stack[t]) : stack[t][n].pc \in Pcs
  BY StackFacts DEF Frame, Pcs
<1>2. QED
  BY <1>1, InCallIs DEF Held

LEMMA PushCalls ==
    ASSUME StackInv, StackInv', NEW t \in Threads, NEW f \in GoodFrame,
           stack' = [stack EXCEPT ![t] = <<f>> \o @], NEW o, NEW P
    PROVE  /\ InCall(o, P)' <=> InCall(o, P) \/ (f.thing = o /\ f.pc \in P)
           /\ OneCall(o) /\ (f.thing = o => ~Held(o)) => OneCall(o)'
<1>1. /\ Len(stack[t]) \in Nat /\ Len(stack'[t]) = Len(stack[t]) + 1 /\ stack'[t][1] = f
      /\ \A n \in 2 .. Len(stack'[t]) : stack'[t][n] = stack[t][n - 1]
      /\ \A u \in Threads : u # t => stack'[u] = stack[u]
  BY PushShape
<1>2. InCall(o, P)' <=> \E u \in Threads : \E n \in 1 .. Len(stack'[u]) :
                           stack'[u][n].thing = o /\ stack'[u][n].pc \in P
  <2>1. \A u \in Threads : DOMAIN stack'[u] = 1 .. Len(stack'[u])
    BY LenProperties DEF StackInv
  <2>2. QED
    BY <2>1 DEF InCall
<1>3. ASSUME NEW u \in Threads, NEW n \in 1 .. Len(stack'[u]), ~(u = t /\ n = 1)
      PROVE  /\ u = t => n - 1 \in 1 .. Len(stack[t]) /\ stack'[u][n] = stack[t][n - 1]
             /\ u # t => n \in 1 .. Len(stack[u]) /\ stack'[u][n] = stack[u][n]
  BY <1>1, <1>3
<1>4. ASSUME NEW u \in Threads, NEW n \in 1 .. Len(stack[u])
      PROVE  \E k \in 1 .. Len(stack'[u]) : stack'[u][k] = stack[u][n]
  <2>1. CASE u = t
    <3>1. n + 1 \in 2 .. Len(stack'[t]) /\ (n + 1) - 1 = n
      BY <1>1, <1>4, <2>1
    <3>2. stack'[t][n + 1] = stack[t][n]
      BY <1>1, <3>1
    <3>3. QED
      BY <1>1, <2>1, <3>1, <3>2
  <2>2. CASE u # t
    BY <1>1, <1>4, <2>2
  <2>3. QED
    BY <2>1, <2>2
<1>5. InCall(o, P)' => InCall(o, P) \/ (f.thing = o /\ f.pc \in P)
  BY <1>1, <1>2, <1>3, InCallIs
<1>6. ASSUME InCall(o, P)
      PROVE  InCall(o, P)'
  <2>1. PICK u \in Threads : \E n \in 1 .. Len(stack[u]) :
           stack[u][n].thing = o /\ stack[u][n].pc \in P
    BY <1>6, InCallIs
  <2>2. PICK n \in 1 .. Len(stack[u]) :
           stack[u][n].thing = o /\ stack[u][n].pc \in P
    BY <2>1
  <2>3. PICK k \in 1 .. Len(stack'[u]) : stack'[u][k] = stack[u][n]
    BY <1>4
  <2>4. QED
    BY <1>2, <2>2, <2>3
<1>7. f.thing = o /\ f.pc \in P => InCall(o, P)'
  <2>1. 1 \in 1 .. Len(stack'[t])
    BY <1>1
  <2>2. QED
    BY <1>1, <1>2, <2>1
<1>8. ASSUME OneCall(o), f.thing = o => ~Held(o)
      PROVE  OneCall(o)'
  <2>1. SUFFICES ASSUME NEW u \in Threads, NEW v \in Threads,
                        NEW n \in 1 .. Len(stack'[u]), NEW k \in 1 .. Len(stack'[v]),
                        stack'[u][n].thing = o, stack'[v][k].thing = o
                 PROVE  u = v /\ n = k
    BY DEF OneCall
  <2>2. CASE u = t /\ n = 1
    <3>1. ~Held(o)
      BY <1>1, <1>8, <2>1, <2>2
    <3>2. v = t /\ k = 1
      BY <1>3, <2>1, <3>1, HeldIs
    <3>3. QED
      BY <2>2, <3>2
  <2>3. CASE v = t /\ k = 1
    <3>1. ~Held(o)
      BY <1>1, <1>8, <2>1, <2>3
    <3>2. u = t /\ n = 1
      BY <1>3, <2>1, <3>1, HeldIs
    <3>3. QED
      BY <2>3, <3>2
  <2>4. CASE ~(u = t /\ n = 1) /\ ~(v = t /\ k = 1)
    <3>1. CASE u = t /\ v = t
      <4>1. n - 1 = k - 1
        BY <1>3, <1>8, <2>1, <2>4, <3>1 DEF OneCall
      <4>2. QED
        BY <3>1, <4>1
    <3>2. CASE u # t \/ v # t
      BY <1>3, <1>8, <2>1, <2>4, <3>2 DEF OneCall
    <3>3. QED
      BY <3>1, <3>2
  <2>5. QED
    BY <2>2, <2>3, <2>4
<1>9. QED
  BY <1>5, <1>6, <1>7, <1>8

LEMMA PopCalls ==
    ASSUME StackInv, StackInv', NEW t \in Threads, stack[t] # <<>>, Return(t),
           NEW o, OneCall(o), NEW P
    PROVE  /\ InCall(o, P)' <=> InCall(o, P) /\ Top(t).thing # o
           /\ OneCall(o)'
<1>1. /\ Len(stack[t]) \in Nat /\ Len(stack[t]) >= 1 /\ Len(stack'[t]) = Len(stack[t]) - 1
      /\ \A n \in 1 .. Len(stack'[t]) : stack'[t][n] = stack[t][n + 1]
      /\ \A u \in Threads : u # t => stack'[u] = stack[u]
      /\ Top(t) = stack[t][1]
  BY PopShape, StackFacts
<1>2. InCall(o, P)' <=> \E u \in Threads : \E n \in 1 .. Len(stack'[u]) :
                           stack'[u][n].thing = o /\ stack'[u][n].pc \in P
  <2>1. \A u \in Threads : DOMAIN stack'[u] = 1 .. Len(stack'[u])
    BY LenProperties DEF StackInv
  <2>2. QED
    BY <2>1 DEF InCall
<1>3. ASSUME NEW u \in Threads, NEW n \in 1 .. Len(stack'[u])
      PROVE  /\ u = t => n + 1 \in 2 .. Len(stack[t]) /\ stack'[u][n] = stack[t][n + 1]
             /\ u # t => n \in 1 .. Len(stack[u]) /\ stack'[u][n] = stack[u][n]
  BY <1>1, <1>3
<1>4. ASSUME NEW u \in Threads, NEW n \in 1 .. Len(stack[u]), ~(u = t /\ n = 1)
      PROVE  \E k \in 1 .. Len(stack'[u]) : stack'[u][k] = stack[u][n]
  <2>1. CASE u = t
    <3>1. n - 1 \in 1 .. Len(stack'[t]) /\ (n - 1) + 1 = n
      BY <1>1, <1>4, <2>1
    <3>2. stack'[t][n - 1] = stack[t][n]
      BY <1>1, <3>1
    <3>3. QED
      BY <2>1, <3>1, <3>2
  <2>2. CASE u # t
    BY <1>1, <1>4, <2>2
  <2>3. QED
    BY <2>1, <2>2
<1>5. ASSUME NEW u \in Threads, NEW n \in 1 .. Len(stack'[u]), stack'[u][n].thing = o
      PROVE  Top(t).thing # o
  <2>1. SUFFICES ASSUME stack[t][1].thing = o PROVE FALSE
    BY <1>1
  <2>2. 1 \in 1 .. Len(stack[t])
    BY <1>1
  <2>3. CASE u = t
    <3>1. n + 1 \in 1 .. Len(stack[t]) /\ stack[t][n + 1].thing = o /\ n + 1 # 1
      BY <1>3, <1>5, <2>3
    <3>2. QED
      BY <2>1, <2>2, <3>1 DEF OneCall
  <2>4. CASE u # t
    BY <1>3, <1>5, <2>1, <2>2, <2>4 DEF OneCall
  <2>5. QED
    BY <2>3, <2>4
<1>6. ASSUME InCall(o, P)'
      PROVE  InCall(o, P) /\ Top(t).thing # o
  <2>1. PICK u \in Threads : \E n \in 1 .. Len(stack'[u]) :
           stack'[u][n].thing = o /\ stack'[u][n].pc \in P
    BY <1>2, <1>6
  <2>2. PICK n \in 1 .. Len(stack'[u]) :
           stack'[u][n].thing = o /\ stack'[u][n].pc \in P
    BY <2>1
  <2>3. \E k \in 1 .. Len(stack[u]) : stack'[u][n] = stack[u][k]
    BY <1>1, <1>3
  <2>4. QED
    BY <1>5, <2>2, <2>3, InCallIs
<1>7. ASSUME InCall(o, P), Top(t).thing # o
      PROVE  InCall(o, P)'
  <2>1. PICK u \in Threads : \E n \in 1 .. Len(stack[u]) :
           stack[u][n].thing = o /\ stack[u][n].pc \in P
    BY <1>7, InCallIs
  <2>2. PICK n \in 1 .. Len(stack[u]) :
           stack[u][n].thing = o /\ stack[u][n].pc \in P
    BY <2>1
  <2>3. ~(u = t /\ n = 1)
    BY <1>1, <1>7, <2>2
  <2>4. PICK k \in 1 .. Len(stack'[u]) : stack'[u][k] = stack[u][n]
    BY <1>4, <2>3
  <2>5. QED
    BY <1>2, <2>2, <2>4
<1>8. OneCall(o)'
  <2>1. SUFFICES ASSUME NEW u \in Threads, NEW v \in Threads,
                        NEW n \in 1 .. Len(stack'[u]), NEW k \in 1 .. Len(stack'[v]),
                        stack'[u][n].thing = o, stack'[v][k].thing = o
                 PROVE  u = v /\ n = k
    BY DEF OneCall
  <2>2. CASE u = t /\ v = t
    <3>1. /\ n + 1 \in 1 .. Len(stack[t]) /\ stack[t][n + 1].thing = o
          /\ k + 1 \in 1 .. Len(stack[t]) /\ stack[t][k + 1].thing = o
          /\ n \in Int /\ k \in Int
      BY <1>3, <2>1, <2>2
    <3>2. n + 1 = k + 1
      BY <3>1 DEF OneCall
    <3>3. QED
      BY <2>2, <3>1, <3>2
  <2>3. CASE u # t \/ v # t
    <3>1. CASE u # t /\ v # t
      <4>1. n \in 1 .. Len(stack[u]) /\ stack[u][n].thing = o
        BY <1>3, <2>1, <3>1
      <4>2. k \in 1 .. Len(stack[v]) /\ stack[v][k].thing = o
        BY <1>3, <2>1, <3>1
      <4>3. QED
        BY <4>1, <4>2 DEF OneCall
    <3>2. ASSUME NEW w \in Threads, NEW j \in 1 .. Len(stack'[w]), stack'[w][j].thing = o
          PROVE  \E i \in 1 .. Len(stack[w]) : stack[w][i].thing = o
      <4>1. CASE w = t
        <5>1. j + 1 \in 1 .. Len(stack[t]) /\ stack[t][j + 1].thing = o
          BY <1>3, <3>2, <4>1
        <5>2. QED
          BY <4>1, <5>1
      <4>2. CASE w # t
        BY <1>3, <3>2, <4>2
      <4>3. QED
        BY <4>1, <4>2
    <3>3. u = v
      BY <2>1, <3>2 DEF OneCall
    <3>4. QED
      BY <2>3, <3>1, <3>3
  <2>4. QED
    BY <2>2, <2>3
<1>9. QED
  BY <1>6, <1>7, <1>8

LEMMA ChangeCalls ==
    ASSUME StackInv, StackInv', NEW t \in Threads, stack[t] # <<>>, NEW f \in GoodFrame,
           stack' = [stack EXCEPT ![t][1] = f],
           NEW o, OneCall(o), f.thing = o => Top(t).thing = o \/ ~Held(o), NEW P
    PROVE  /\ InCall(o, P)' <=>
                 (InCall(o, P) /\ Top(t).thing # o) \/ (f.thing = o /\ f.pc \in P)
           /\ OneCall(o)'
<1>1. /\ Len(stack[t]) \in Nat /\ Len(stack[t]) >= 1 /\ Len(stack'[t]) = Len(stack[t])
      /\ stack'[t][1] = f /\ Top(t) = stack[t][1]
      /\ \A n \in 2 .. Len(stack[t]) : stack'[t][n] = stack[t][n]
      /\ \A u \in Threads : u # t => stack'[u] = stack[u]
  BY ChangeShape, StackFacts
<1>2. InCall(o, P)' <=> \E u \in Threads : \E n \in 1 .. Len(stack'[u]) :
                           stack'[u][n].thing = o /\ stack'[u][n].pc \in P
  <2>1. \A u \in Threads : DOMAIN stack'[u] = 1 .. Len(stack'[u])
    BY LenProperties DEF StackInv
  <2>2. QED
    BY <2>1 DEF InCall
<1>3. ASSUME NEW u \in Threads
      PROVE  /\ Len(stack'[u]) = Len(stack[u])
             /\ \A n \in 1 .. Len(stack[u]) :
                   ~(u = t /\ n = 1) => stack'[u][n] = stack[u][n]
  <2>1. CASE u = t
    <3>1. \A n \in 1 .. Len(stack[t]) : n # 1 => n \in 2 .. Len(stack[t])
      BY <1>1
    <3>2. QED
      BY <1>1, <2>1, <3>1
  <2>2. CASE u # t
    BY <1>1, <2>2
  <2>3. QED
    BY <2>1, <2>2
<1>4. 1 \in 1 .. Len(stack[t])
  BY <1>1
<1>5. ASSUME NEW u \in Threads, NEW n \in 1 .. Len(stack[u]), ~(u = t /\ n = 1),
             stack[u][n].thing = o
      PROVE  Top(t).thing # o /\ f.thing # o
  <2>1. Top(t).thing # o
    BY <1>1, <1>4, <1>5 DEF OneCall
  <2>2. Held(o)
    BY <1>5, HeldIs
  <2>3. QED
    BY <2>1, <2>2
<1>6. ASSUME InCall(o, P)'
      PROVE  (InCall(o, P) /\ Top(t).thing # o) \/ (f.thing = o /\ f.pc \in P)
  <2>1. PICK u \in Threads : \E n \in 1 .. Len(stack'[u]) :
           stack'[u][n].thing = o /\ stack'[u][n].pc \in P
    BY <1>2, <1>6
  <2>2. PICK n \in 1 .. Len(stack'[u]) :
           stack'[u][n].thing = o /\ stack'[u][n].pc \in P
    BY <2>1
  <2>3. CASE u = t /\ n = 1
    BY <1>1, <2>2, <2>3
  <2>4. CASE ~(u = t /\ n = 1)
    <3>1. n \in 1 .. Len(stack[u]) /\ stack'[u][n] = stack[u][n]
      BY <1>3, <2>4
    <3>2. QED
      BY <1>5, <2>2, <2>4, <3>1, InCallIs
  <2>5. QED
    BY <2>3, <2>4
<1>7. ASSUME InCall(o, P), Top(t).thing # o
      PROVE  InCall(o, P)'
  <2>1. PICK u \in Threads : \E n \in 1 .. Len(stack[u]) :
           stack[u][n].thing = o /\ stack[u][n].pc \in P
    BY <1>7, InCallIs
  <2>2. PICK n \in 1 .. Len(stack[u]) :
           stack[u][n].thing = o /\ stack[u][n].pc \in P
    BY <2>1
  <2>3. ~(u = t /\ n = 1)
    BY <1>1, <1>7, <2>2
  <2>4. n \in 1 .. Len(stack'[u]) /\ stack'[u][n] = stack[u][n]
    BY <1>3, <2>3
  <2>5. QED
    BY <1>2, <2>2, <2>4
<1>8. f.thing = o /\ f.pc \in P => InCall(o, P)'
  BY <1>1, <1>2, <1>4
<1>9. OneCall(o)'
  <2>1. SUFFICES ASSUME NEW u \in Threads, NEW v \in Threads,
                        NEW n \in 1 .. Len(stack'[u]), NEW k \in 1 .. Len(stack'[v]),
                        stack'[u][n].thing = o, stack'[v][k].thing = o
                 PROVE  u = v /\ n = k
    BY DEF OneCall
  <2>2. n \in 1 .. Len(stack[u]) /\ k \in 1 .. Len(stack[v])
    BY <1>3
  <2>3. CASE u = t /\ n = 1
    BY <1>1, <1>3, <1>5, <2>1, <2>2, <2>3
  <2>4. CASE v = t /\ k = 1
    BY <1>1, <1>3, <1>5, <2>1, <2>2, <2>4
  <2>5. CASE ~(u = t /\ n = 1) /\ ~(v = t /\ k = 1)
    BY <1>3, <2>1, <2>2, <2>5 DEF OneCall
  <2>6. QED
    BY <2>3, <2>4, <2>5
<1>10. QED
  BY <1>6, <1>7, <1>8, <1>9

-------------------------------------------------------------------------------
(* What a step does to each object *)

Doomed(o) == InCall(o, {"destroying"})
Passed(o) == InCall(o, {"waiting"})

\* The step leaves o where it is.
Same(o) ==
    /\ o \in alive' <=> o \in alive
    /\ Kept(o)' <=> Kept(o)
    /\ instance' = o <=> instance = o
    /\ Doomed(o)' <=> Doomed(o)
    /\ Passed(o)' <=> Passed(o)

\* The place of an object that a call has.
LifeAt(pc) ==
    IF pc = "destroying" THEN "doomed" ELSE IF pc = "waiting" THEN "passed" ELSE "building"

LEMMA SameLife ==
    ASSUME NEW o, Same(o)
    PROVE  Life(o)' = Life(o)
BY DEF Same, Life, Kept, Doomed, Passed

\* The object that the call on top has.
LEMMA TopHolds ==
    ASSUME StackInv, NEW t \in Threads, stack[t] # <<>>, OneCall(Top(t).thing), NEW P
    PROVE  InCall(Top(t).thing, P) <=> Top(t).pc \in P
<1>1. 1 \in 1 .. Len(stack[t]) /\ Top(t) = stack[t][1]
  BY StackFacts
<1>2. QED
  BY <1>1, InCallIs DEF OneCall

LEMMA TopLife ==
    ASSUME OwnInv, NEW t \in Threads, stack[t] # <<>>, Top(t).thing \in Objects
    PROVE  /\ Held(Top(t).thing) /\ Top(t).thing \in alive
           /\ ~Kept(Top(t).thing) /\ instance # Top(t).thing
           /\ Life(Top(t).thing) = LifeAt(Top(t).pc)
<1> DEFINE x == Top(t).thing
<1>1. StackInv /\ Owned(x) /\ OneCall(x)
  BY DEF OwnInv, PatternsInv, Owned
<1>2. Top(t).pc \in Pcs
  BY <1>1, StackFacts DEF Frame, Pcs
<1>3. /\ InCall(x, {"destroying"}) <=> Top(t).pc = "destroying"
      /\ InCall(x, {"waiting"}) <=> Top(t).pc = "waiting"
      /\ Held(x)
  BY <1>1, <1>2, TopHolds DEF Held
<1> HIDE DEF x
<1>4. x \in alive /\ ~Kept(x) /\ instance # x
  BY <1>1, <1>3 DEF Owned
<1>5. Life(x) = LifeAt(Top(t).pc)
  BY <1>3, <1>4 DEF Life, LifeAt, Kept
<1>6. QED
  BY <1>3, <1>4, <1>5 DEF x

LEMMA PushOwn ==
    ASSUME OwnInv, StackInv', NEW t \in Threads, NEW f \in GoodFrame,
           stack' = [stack EXCEPT ![t] = <<f>> \o @], UNCHANGED <<objects, instance>>,
           alive' = alive \cup ({f.thing} \cap Objects), f.thing \notin alive,
           NEW o \in Objects
    PROVE  /\ Owned(o)'
           /\ o # f.thing => Same(o)
           /\ o = f.thing => Life(o) = "absent" /\ Life(o)' = LifeAt(f.pc)
<1>1. StackInv /\ Owned(o) /\ OneCall(o)
  BY DEF OwnInv, PatternsInv, Owned
<1>2. f.pc \in Pcs
  BY DEF GoodFrame, Frame, Pcs
<1>3. /\ Held(o)' <=> Held(o) \/ f.thing = o
      /\ InCall(o, {"destroying"})' <=>
            InCall(o, {"destroying"}) \/ (f.thing = o /\ f.pc = "destroying")
      /\ InCall(o, {"waiting"})' <=>
            InCall(o, {"waiting"}) \/ (f.thing = o /\ f.pc = "waiting")
      /\ (f.thing = o => ~Held(o)) => OneCall(o)'
  BY <1>1, <1>2, PushCalls DEF Held
<1>4. (Kept(o)' <=> Kept(o)) /\ (OneId(o)' <=> OneId(o))
  BY DEF Kept, OneId
<1>5. CASE o # f.thing
  <2>1. o \in alive' <=> o \in alive
    BY <1>5
  <2>2. Same(o)
    BY <1>3, <1>4, <1>5, <2>1 DEF Same, Doomed, Passed
  <2>3. Owned(o)'
    BY <1>1, <1>3, <1>4, <1>5, <2>1 DEF Owned
  <2>4. QED
    BY <1>5, <2>2, <2>3
<1>6. CASE o = f.thing
  <2>1. o \in alive' /\ o \notin alive
    BY <1>6
  <2>2. ~Kept(o) /\ instance # o /\ ~Held(o)
    BY <1>1, <2>1 DEF Owned
  <2>3. Owned(o)'
    BY <1>1, <1>3, <1>4, <1>6, <2>1, <2>2 DEF Owned
  <2>4. ~InCall(o, {"destroying"}) /\ ~InCall(o, {"waiting"})
    BY <1>1, <2>2, InCallIs DEF Held, Pcs, UserCode
  <2>5. Life(o)' = LifeAt(f.pc)
    BY <1>3, <1>4, <1>6, <2>1, <2>2, <2>4 DEF Life, LifeAt, Kept
  <2>6. Life(o) = "absent"
    BY <2>1 DEF Life
  <2>7. QED
    BY <1>6, <2>3, <2>5, <2>6
<1>7. QED
  BY <1>5, <1>6

\* A return: what becomes of the object of the call is said by the other variables.
LEMMA PopOwn ==
    ASSUME OwnInv, StackInv', NEW t \in Threads, stack[t] # <<>>, Return(t),
           NEW o \in Objects, o # Top(t).thing,
           o \in alive' <=> o \in alive, Kept(o)' <=> Kept(o), instance' = o <=> instance = o,
           OneId(o)' <=> OneId(o)
    PROVE  Owned(o)' /\ Same(o)
<1>1. StackInv /\ Owned(o) /\ OneCall(o)
  BY DEF OwnInv, PatternsInv, Owned
<1>2. /\ Held(o)' <=> Held(o)
      /\ InCall(o, {"destroying"})' <=> InCall(o, {"destroying"})
      /\ InCall(o, {"waiting"})' <=> InCall(o, {"waiting"})
      /\ OneCall(o)'
  BY <1>1, PopCalls DEF Held
<1>3. QED
  BY <1>1, <1>2 DEF Owned, Same, Doomed, Passed

LEMMA PopThing ==
    ASSUME OwnInv, StackInv', NEW t \in Threads, stack[t] # <<>>, Return(t),
           NEW x \in Objects, x = Top(t).thing
    PROVE  ~Held(x)' /\ OneCall(x)' /\ ~Doomed(x)' /\ ~Passed(x)'
<1>1. StackInv /\ Owned(x) /\ OneCall(x)
  BY DEF OwnInv, PatternsInv, Owned
<1>2. QED
  BY <1>1, PopCalls DEF Held, Doomed, Passed

\* The call on top goes on, with the object it had or with another one.
LEMMA ChangeOwn ==
    ASSUME OwnInv, StackInv', NEW t \in Threads, stack[t] # <<>>, NEW f \in GoodFrame,
           stack' = [stack EXCEPT ![t][1] = f],
           NEW o \in Objects, o # Top(t).thing, o # f.thing,
           o \in alive' <=> o \in alive, Kept(o)' <=> Kept(o), instance' = o <=> instance = o,
           OneId(o)' <=> OneId(o)
    PROVE  Owned(o)' /\ Same(o)
<1>1. StackInv /\ Owned(o) /\ OneCall(o)
  BY DEF OwnInv, PatternsInv, Owned
<1>2. /\ Held(o)' <=> Held(o)
      /\ InCall(o, {"destroying"})' <=> InCall(o, {"destroying"})
      /\ InCall(o, {"waiting"})' <=> InCall(o, {"waiting"})
      /\ OneCall(o)'
  BY <1>1, ChangeCalls DEF Held
<1>3. QED
  BY <1>1, <1>2 DEF Owned, Same, Doomed, Passed

LEMMA ChangeThing ==
    ASSUME OwnInv, StackInv', NEW t \in Threads, stack[t] # <<>>, NEW f \in GoodFrame,
           stack' = [stack EXCEPT ![t][1] = f],
           NEW x \in Objects, x = f.thing, Top(t).thing = x \/ ~Held(x)
    PROVE  /\ Held(x)' /\ OneCall(x)'
           /\ Doomed(x)' <=> f.pc = "destroying"
           /\ Passed(x)' <=> f.pc = "waiting"
<1>1. StackInv /\ Owned(x) /\ OneCall(x)
  BY DEF OwnInv, PatternsInv, Owned
<1>2. f.pc \in Pcs
  BY DEF GoodFrame, Frame, Pcs
<1>3. /\ Held(x)' <=> (Held(x) /\ Top(t).thing # x) \/ f.pc \in Pcs
      /\ Doomed(x)' <=> (Doomed(x) /\ Top(t).thing # x) \/ f.pc \in {"destroying"}
      /\ Passed(x)' <=> (Passed(x) /\ Top(t).thing # x) \/ f.pc \in {"waiting"}
      /\ OneCall(x)'
  BY <1>1, ChangeCalls DEF Held, Doomed, Passed
<1>4. Doomed(x) \/ Passed(x) => Held(x)
  BY <1>1, InCallIs DEF Held, Doomed, Passed, Pcs, UserCode
<1>5. QED
  BY <1>2, <1>3, <1>4

-------------------------------------------------------------------------------
(* What each kind of step does to all objects *)

AllOwned == \A o \in Objects : Owned(o)
Stays == \A o \in Objects : Life(o)' = Life(o)
Moves(x, from, to) ==
    /\ Life(x) = from /\ Life(x)' = to
    /\ \A o \in Objects : o # x => Life(o)' = Life(o)

\* A call comes on top of t, or the one on top goes on.
Enters(t, pc, thing) ==
    \E f \in GoodFrame : /\ stack' = [stack EXCEPT ![t] = <<f>> \o @]
                         /\ f.pc = pc /\ f.thing = thing
GoesOn(t, pc, thing) ==
    \E f \in GoodFrame : /\ stack' = [stack EXCEPT ![t][1] = f]
                         /\ f.pc = pc /\ f.thing = thing

LEMMA AllOwnedIs ==
    ASSUME NEW x, Owned(x)', \A o \in Objects : o # x => Owned(o)' /\ Same(o)
    PROVE  AllOwned' /\ \A o \in Objects : o # x => Life(o)' = Life(o)
BY SameLife DEF AllOwned

LEMMA AllStay ==
    ASSUME \A o \in Objects : Owned(o)' /\ Same(o)
    PROVE  AllOwned' /\ Stays
BY SameLife DEF AllOwned, Stays

\* A call that brings no object, and one that brings x.
LEMMA PushNothing ==
    ASSUME OwnInv, StackInv', NEW t \in Threads,
           NEW pc, NEW thing, Enters(t, pc, thing),
           UNCHANGED <<objects, instance, alive>>, thing \notin Objects
    PROVE  AllOwned' /\ Stays
<1>1. PICK f \in GoodFrame : /\ stack' = [stack EXCEPT ![t] = <<f>> \o @]
                            /\ f.pc = pc /\ f.thing = thing
  BY DEF Enters
<1>2. alive' = alive \cup ({thing} \cap Objects) /\ thing \notin alive
  BY DEF OwnInv, PatternsInv, DataTypes
<1>3. \A o \in Objects : Owned(o)' /\ Same(o)
  BY <1>2, <1>1, PushOwn
<1>4. QED
  BY <1>3, AllStay

LEMMA PushObject ==
    ASSUME OwnInv, StackInv', NEW t \in Threads,
           NEW pc, NEW thing, Enters(t, pc, thing), UNCHANGED <<objects, instance>>,
           NEW x \in Objects, x = thing, x \notin alive, alive' = alive \cup {x}
    PROVE  AllOwned' /\ Moves(x, "absent", LifeAt(pc))
<1>1. PICK f \in GoodFrame : /\ stack' = [stack EXCEPT ![t] = <<f>> \o @]
                            /\ f.pc = pc /\ f.thing = thing
  BY DEF Enters
<1>2. alive' = alive \cup ({thing} \cap Objects) /\ thing \notin alive
  OBVIOUS
<1>3. \A o \in Objects : /\ Owned(o)'
                         /\ o # x => Same(o)
                         /\ o = x => Life(o) = "absent" /\ Life(o)' = LifeAt(pc)
  BY <1>2, <1>1, PushOwn
<1>4. QED
  BY <1>3, AllOwnedIs DEF Moves

\* A call that ends with no object, and one that leaves x destroyed, in the
\* repository or as the instance.
LEMMA PopNothing ==
    ASSUME OwnInv, StackInv', NEW t \in Threads, stack[t] # <<>>, Return(t),
           UNCHANGED <<objects, instance, alive>>, Top(t).thing \notin Objects
    PROVE  AllOwned' /\ Stays
<1>1. \A o \in Objects : /\ Kept(o)' <=> Kept(o)
                         /\ OneId(o)' <=> OneId(o)
                         /\ o # Top(t).thing
  BY DEF Kept, OneId
<1>2. \A o \in Objects : Owned(o)' /\ Same(o)
  BY <1>1, PopOwn
<1>3. QED
  BY <1>2, AllStay

LEMMA PopDestroyed ==
    ASSUME OwnInv, StackInv', NEW t \in Threads, stack[t] # <<>>, Return(t),
           NEW x \in Objects, x = Top(t).thing,
           UNCHANGED <<objects, instance>>, alive' = alive \ {x}
    PROVE  AllOwned' /\ Moves(x, LifeAt(Top(t).pc), "absent")
<1>1. \A o \in Objects : /\ Kept(o)' <=> Kept(o)
                         /\ OneId(o)' <=> OneId(o)
  BY DEF Kept, OneId
<1>2. \A o \in Objects : o # x => Owned(o)' /\ Same(o)
  BY <1>1, PopOwn
<1>3. /\ x \in alive /\ ~Kept(x) /\ instance # x /\ Life(x) = LifeAt(Top(t).pc)
      /\ OneId(x)
  BY TopLife DEF OwnInv, Owned
<1>4. ~Held(x)' /\ OneCall(x)'
  BY PopThing
<1>5. Owned(x)' /\ Life(x)' = "absent"
  BY <1>1, <1>3, <1>4 DEF Owned, Life
<1>6. QED
  BY <1>2, <1>3, <1>5, AllOwnedIs DEF Moves

LEMMA PopStored ==
    ASSUME OwnInv, StackInv', NEW t \in Threads, stack[t] # <<>>, Return(t),
           NEW x \in Objects, x = Top(t).thing, UNCHANGED <<alive, instance>>,
           NEW id \in Ids, objects[id] = None, objects' = [objects EXCEPT ![id] = x]
    PROVE  AllOwned' /\ Moves(x, LifeAt(Top(t).pc), "kept")
<1>1. /\ None \notin Objects
      /\ \A jd \in Ids : objects'[jd] = IF jd = id THEN x ELSE objects[jd]
  BY CallsAssumption DEF OwnInv, PatternsInv, DataTypes
<1>2. \A o \in Objects : o # x => /\ Kept(o)' <=> Kept(o)
                                  /\ OneId(o)' <=> OneId(o)
  BY <1>1 DEF Kept, OneId
<1>3. \A o \in Objects : o # x => Owned(o)' /\ Same(o)
  BY <1>2, PopOwn
<1>4. /\ x \in alive /\ ~Kept(x) /\ instance # x /\ Life(x) = LifeAt(Top(t).pc)
  BY TopLife
<1>5. ~Held(x)' /\ OneCall(x)'
  BY PopThing
<1>6. Kept(x)' /\ OneId(x)'
  BY <1>1, <1>4 DEF Kept, OneId
<1>7. Owned(x)' /\ Life(x)' = "kept"
  BY <1>4, <1>5, <1>6 DEF Owned, Life, Kept
<1>8. QED
  BY <1>3, <1>4, <1>7, AllOwnedIs DEF Moves

LEMMA PopInstalled ==
    ASSUME OwnInv, StackInv', NEW t \in Threads, stack[t] # <<>>, Return(t),
           NEW x \in Objects, x = Top(t).thing, UNCHANGED <<alive, objects>>,
           instance = None, instance' = x
    PROVE  AllOwned' /\ Moves(x, LifeAt(Top(t).pc), "kept")
<1>1. \A o \in Objects : /\ Kept(o)' <=> Kept(o)
                         /\ OneId(o)' <=> OneId(o)
                         /\ o # x => (instance' = o <=> instance = o)
  BY CallsAssumption DEF Kept, OneId
<1>2. \A o \in Objects : o # x => Owned(o)' /\ Same(o)
  BY <1>1, PopOwn
<1>3. /\ x \in alive /\ ~Kept(x) /\ Life(x) = LifeAt(Top(t).pc) /\ OneId(x)
  BY TopLife DEF OwnInv, Owned
<1>4. ~Held(x)' /\ OneCall(x)'
  BY PopThing
<1>5. Owned(x)' /\ Life(x)' = "kept"
  BY <1>1, <1>3, <1>4 DEF Owned, Life
<1>6. QED
  BY <1>2, <1>3, <1>5, AllOwnedIs DEF Moves

\* A call that goes on with no object, with the one it had, with one out of the
\* repository, with the instance, and with a new one.
LEMMA ChangeNothing ==
    ASSUME OwnInv, StackInv', NEW t \in Threads, stack[t] # <<>>,
           NEW pc, NEW thing, GoesOn(t, pc, thing), UNCHANGED <<objects, instance, alive>>,
           Top(t).thing \notin Objects, thing \notin Objects
    PROVE  AllOwned' /\ Stays
<1>1. PICK f \in GoodFrame : /\ stack' = [stack EXCEPT ![t][1] = f]
                            /\ f.pc = pc /\ f.thing = thing
  BY DEF GoesOn
<1>2. \A o \in Objects : /\ Kept(o)' <=> Kept(o)
                         /\ OneId(o)' <=> OneId(o)
                         /\ o # Top(t).thing /\ o # thing
  BY DEF Kept, OneId
<1>3. \A o \in Objects : Owned(o)' /\ Same(o)
  BY <1>2, <1>1, ChangeOwn
<1>4. QED
  BY <1>3, AllStay

LEMMA ChangeObject ==
    ASSUME OwnInv, StackInv', NEW t \in Threads, stack[t] # <<>>,
           NEW pc, NEW thing, GoesOn(t, pc, thing), UNCHANGED <<objects, instance, alive>>,
           NEW x \in Objects, x = Top(t).thing, x = thing
    PROVE  AllOwned' /\ Moves(x, LifeAt(Top(t).pc), LifeAt(pc))
<1>1. PICK f \in GoodFrame : /\ stack' = [stack EXCEPT ![t][1] = f]
                            /\ f.pc = pc /\ f.thing = thing
  BY DEF GoesOn
<1>2. \A o \in Objects : /\ Kept(o)' <=> Kept(o)
                         /\ OneId(o)' <=> OneId(o)
  BY DEF Kept, OneId
<1>3. \A o \in Objects : o # x => Owned(o)' /\ Same(o)
  BY <1>2, <1>1, ChangeOwn
<1>4. /\ x \in alive /\ ~Kept(x) /\ instance # x /\ Life(x) = LifeAt(Top(t).pc)
      /\ OneId(x)
  BY TopLife DEF OwnInv, Owned
<1>5. /\ Held(x)' /\ OneCall(x)'
      /\ Doomed(x)' <=> pc = "destroying"
      /\ Passed(x)' <=> pc = "waiting"
  BY <1>1, ChangeThing
<1>6. Owned(x)' /\ Life(x)' = LifeAt(pc)
  BY <1>2, <1>4, <1>5 DEF Owned, Life, LifeAt, Kept, Doomed, Passed
<1>7. QED
  BY <1>3, <1>4, <1>6, AllOwnedIs DEF Moves

LEMMA ChangeErased ==
    ASSUME OwnInv, StackInv', NEW t \in Threads, stack[t] # <<>>,
           NEW pc, NEW thing, GoesOn(t, pc, thing), UNCHANGED <<instance, alive>>,
           Top(t).thing \notin Objects, NEW x \in Objects, x = thing,
           NEW id \in Ids, objects[id] = x, objects' = [objects EXCEPT ![id] = None]
    PROVE  AllOwned' /\ Moves(x, "kept", LifeAt(pc))
<1>1. PICK f \in GoodFrame : /\ stack' = [stack EXCEPT ![t][1] = f]
                            /\ f.pc = pc /\ f.thing = thing
  BY DEF GoesOn
<1>2. /\ None \notin Objects
      /\ \A jd \in Ids : objects'[jd] = IF jd = id THEN None ELSE objects[jd]
  BY CallsAssumption DEF OwnInv, PatternsInv, DataTypes
<1>3. \A o \in Objects : o # x => /\ Kept(o)' <=> Kept(o)
                                  /\ OneId(o)' <=> OneId(o)
  BY <1>2 DEF Kept, OneId
<1>4. \A o \in Objects : o # x => Owned(o)' /\ Same(o)
  BY <1>3, <1>1, ChangeOwn
<1>5. Kept(x) /\ Owned(x)
  BY DEF Kept, OwnInv
<1>6. x \in alive /\ instance # x /\ ~Held(x) /\ OneId(x) /\ Life(x) = "kept"
  BY <1>5 DEF Owned, Life, Kept
<1>7. ~Kept(x)' /\ OneId(x)'
  BY <1>2, <1>6 DEF Kept, OneId
<1>8. /\ Held(x)' /\ OneCall(x)'
      /\ Doomed(x)' <=> pc = "destroying"
      /\ Passed(x)' <=> pc = "waiting"
  BY <1>6, <1>1, ChangeThing
<1>9. Owned(x)' /\ Life(x)' = LifeAt(pc)
  BY <1>6, <1>7, <1>8 DEF Owned, Life, LifeAt, Kept, Doomed, Passed
<1>10. QED
  BY <1>4, <1>6, <1>9, AllOwnedIs DEF Moves

LEMMA ChangeFreed ==
    ASSUME OwnInv, StackInv', NEW t \in Threads, stack[t] # <<>>,
           NEW pc, NEW thing, GoesOn(t, pc, thing), UNCHANGED <<objects, alive>>,
           Top(t).thing \notin Objects, NEW x \in Objects, x = thing,
           instance = x, instance' = None
    PROVE  AllOwned' /\ Moves(x, "kept", LifeAt(pc))
<1>1. PICK f \in GoodFrame : /\ stack' = [stack EXCEPT ![t][1] = f]
                            /\ f.pc = pc /\ f.thing = thing
  BY DEF GoesOn
<1>2. \A o \in Objects : /\ Kept(o)' <=> Kept(o)
                         /\ OneId(o)' <=> OneId(o)
                         /\ o # x => (instance' = o <=> instance = o)
  BY CallsAssumption DEF Kept, OneId
<1>3. \A o \in Objects : o # x => Owned(o)' /\ Same(o)
  BY <1>2, <1>1, ChangeOwn
<1>4. Owned(x) /\ instance' # x
  BY CallsAssumption DEF OwnInv
<1>5. x \in alive /\ ~Kept(x) /\ ~Held(x) /\ OneId(x) /\ Life(x) = "kept"
  BY <1>4 DEF Owned, Life
<1>6. /\ Held(x)' /\ OneCall(x)'
      /\ Doomed(x)' <=> pc = "destroying"
      /\ Passed(x)' <=> pc = "waiting"
  BY <1>5, <1>1, ChangeThing
<1>7. Owned(x)' /\ Life(x)' = LifeAt(pc)
  BY <1>2, <1>4, <1>5, <1>6 DEF Owned, Life, LifeAt, Kept, Doomed, Passed
<1>8. QED
  BY <1>3, <1>5, <1>7, AllOwnedIs DEF Moves

LEMMA ChangeNew ==
    ASSUME OwnInv, StackInv', NEW t \in Threads, stack[t] # <<>>,
           NEW pc, NEW thing, GoesOn(t, pc, thing), UNCHANGED <<objects, instance>>,
           Top(t).thing \notin Objects, NEW x \in Objects, x = thing,
           x \notin alive, alive' = alive \cup {x}
    PROVE  AllOwned' /\ Moves(x, "absent", LifeAt(pc))
<1>1. PICK f \in GoodFrame : /\ stack' = [stack EXCEPT ![t][1] = f]
                            /\ f.pc = pc /\ f.thing = thing
  BY DEF GoesOn
<1>2. \A o \in Objects : /\ Kept(o)' <=> Kept(o)
                         /\ OneId(o)' <=> OneId(o)
  BY DEF Kept, OneId
<1>3. \A o \in Objects : o # x => Owned(o)' /\ Same(o)
  BY <1>2, <1>1, ChangeOwn
<1>4. ~Kept(x) /\ instance # x /\ ~Held(x) /\ OneId(x) /\ Life(x) = "absent"
  BY DEF OwnInv, Owned, Life
<1>5. /\ Held(x)' /\ OneCall(x)'
      /\ Doomed(x)' <=> pc = "destroying"
      /\ Passed(x)' <=> pc = "waiting"
  BY <1>4, <1>1, ChangeThing
<1>6. Owned(x)' /\ Life(x)' = LifeAt(pc)
  BY <1>2, <1>4, <1>5 DEF Owned, Life, LifeAt, Kept, Doomed, Passed
<1>7. QED
  BY <1>3, <1>4, <1>6, AllOwnedIs DEF Moves

-------------------------------------------------------------------------------
(* The calls and the steps of the Registry *)

\* The call that is on top after a call, and after one goes on.
LEMMA CallTop ==
    ASSUME StackInv, StackInv', NEW t \in Threads,
           NEW mutex, NEW mode, NEW op, NEW pc, NEW id, NEW thing,
           Call(t, mutex, mode, op, pc, id, thing)
    PROVE  Enters(t, pc, thing)
<1> DEFINE f == [mutex |-> mutex, mode |-> mode, holds |-> FALSE, op |-> op,
                 pc |-> pc, id |-> id, thing |-> thing]
           S == GoodFrame \cup {f}
<1>1. f.pc = pc /\ f.thing = thing
  OBVIOUS
<1>2. stack' = [stack EXCEPT ![t] = <<f>> \o @]
  BY DEF Call
<1>3. f \in S /\ GoodFrame \subseteq S
  OBVIOUS
<1> HIDE DEF f, S
<1>4. stack[t] \in Seq(S) /\ stack'[t] = <<f>> \o stack[t] /\ stack'[t] \in Seq(GoodFrame)
  <2>1. stack[t] \in Seq(GoodFrame)
    BY StackFacts
  <2>2. QED
    BY <1>2, <1>3, <2>1, SeqMonotonic DEF StackInv
<1>5. <<f>> \in Seq(S) /\ Len(<<f>>) = 1 /\ <<f>>[1] = f
  BY <1>3
<1>6. Len(stack'[t]) = 1 + Len(stack[t]) /\ Len(stack[t]) \in Nat /\ stack'[t][1] = f
  BY <1>4, <1>5, ConcatProperties, LenProperties
<1>7. f \in GoodFrame
  BY <1>4, <1>6, ElementOfSeq
<1>8. QED
  BY <1>1, <1>2, <1>7 DEF Enters

LEMMA ContinueTop ==
    ASSUME StackInv, StackInv', NEW t \in Threads, stack[t] # <<>>,
           NEW pc, NEW thing, NEW holds, Continue(t, pc, thing, holds)
    PROVE  GoesOn(t, pc, thing)
<1>1. PICK f : f = [Top(t) EXCEPT !.pc = pc, !.thing = thing, !.holds = holds]
  OBVIOUS
<1>2. Len(stack[t]) \in Nat /\ Len(stack[t]) >= 1 /\ Top(t) = stack[t][1] /\ Top(t) \in Frame
  BY StackFacts
<1>3. f.pc = pc /\ f.thing = thing
  BY <1>1, <1>2 DEF Frame
<1>4. stack' = [stack EXCEPT ![t][1] = f]
  BY <1>1, <1>2 DEF Continue
<1>5. stack'[t] = [stack[t] EXCEPT ![1] = f] /\ stack'[t] \in Seq(GoodFrame)
  BY <1>4 DEF StackInv
<1>6. Len(stack'[t]) = Len(stack[t]) /\ stack'[t][1] = f
  <2>1. stack[t] \in Seq(GoodFrame \cup {f})
    BY StackFacts, SeqMonotonic, GoodFrame \subseteq GoodFrame \cup {f}
  <2>2. QED
    BY <1>2, <1>5, <2>1, SetFirst
<1>7. f \in GoodFrame
  BY <1>2, <1>5, <1>6, ElementOfSeq
<1>8. QED
  BY <1>3, <1>4, <1>7 DEF GoesOn

LEMMA GoesOnFree ==
    ASSUME StackInv, StackInv', NEW t \in Threads, stack[t] # <<>>,
           NEW pc, NEW thing, Continue(t, pc, thing, FALSE)
    PROVE  GoesOn(t, pc, thing)
<1>1. PICK holds : holds = FALSE
  OBVIOUS
<1>2. Continue(t, pc, thing, holds)
  BY <1>1
<1>3. QED
  BY <1>2, ContinueTop

LEMMA GoesOnHolding ==
    ASSUME StackInv, StackInv', NEW t \in Threads, stack[t] # <<>>,
           NEW pc, NEW thing, Continue(t, pc, thing, TRUE)
    PROVE  GoesOn(t, pc, thing)
<1>1. PICK holds : holds = TRUE
  OBVIOUS
<1>2. Continue(t, pc, thing, holds)
  BY <1>1
<1>3. QED
  BY <1>2, ContinueTop

LivesNow == [o \in Objects |-> Life(o)]

LEMMA NothingMoves ==
    ASSUME Stays
    PROVE  LivesNow' = LivesNow
BY DEF Stays, LivesNow

LEMMA ObjectMoves ==
    ASSUME NEW x \in Objects, NEW from, NEW to, from # to, Moves(x, from, to)
    PROVE  Abstract!Becomes(x, from, to) /\ LivesNow' # LivesNow
<1>1. LivesNow[x] = from /\ LivesNow'[x] = to
  BY DEF Moves, LivesNow
<1>2. LivesNow' = [LivesNow EXCEPT ![x] = to]
  BY <1>1 DEF Moves, LivesNow
<1>3. QED
  BY <1>1, <1>2 DEF LivesNow, Abstract!Becomes

LEMMA IsStutter ==
    ASSUME Stays, UNCHANGED <<creators, objects, instance>>
    PROVE  UNCHANGED Abstract!registryVars
BY NothingMoves DEF LivesNow, Abstract!registryVars

LEMMA IsConstruct ==
    ASSUME UNCHANGED <<creators, objects, instance>>, NEW x \in Objects,
           \/ Moves(x, "absent", "building") \/ Moves(x, "absent", "passed")
           \/ Moves(x, "building", "passed") \/ Moves(x, "building", "absent")
    PROVE  Abstract!Next
BY ObjectMoves DEF LivesNow, Abstract!Construct, Abstract!ObjectStep, Abstract!Next

LEMMA IsStore ==
    ASSUME UNCHANGED <<creators, instance>>, NEW x \in Objects, Moves(x, "passed", "kept"),
           NEW id \in Ids, objects[id] = None, objects' = [objects EXCEPT ![id] = x]
    PROVE  Abstract!Next
BY ObjectMoves DEF LivesNow, Abstract!Store, Abstract!ObjectStep, Abstract!Next

LEMMA IsErase ==
    ASSUME UNCHANGED <<creators, instance>>, NEW x \in Objects, Moves(x, "kept", "doomed"),
           NEW id \in Ids, objects[id] = x, objects' = [objects EXCEPT ![id] = None]
    PROVE  Abstract!Next
BY ObjectMoves DEF LivesNow, Abstract!Erase, Abstract!ObjectStep, Abstract!Next

LEMMA IsInstall ==
    ASSUME UNCHANGED <<creators, objects>>, NEW x \in Objects,
           Moves(x, "passed", "kept") \/ Moves(x, "building", "kept"),
           instance = None, instance' = x
    PROVE  Abstract!Next
BY ObjectMoves DEF LivesNow, Abstract!Install, Abstract!ObjectStep, Abstract!Next

LEMMA IsFree ==
    ASSUME UNCHANGED <<creators, objects>>, NEW x \in Objects, Moves(x, "kept", "doomed"),
           instance = x, instance' = None
    PROVE  Abstract!Next
BY ObjectMoves DEF LivesNow, Abstract!Free, Abstract!ObjectStep, Abstract!Next

LEMMA IsRefuse ==
    ASSUME UNCHANGED <<creators, objects, instance>>,
           NEW x \in Objects, Moves(x, "passed", "doomed"),
           instance # None \/ \E id \in Ids : objects[id] # None
    PROVE  Abstract!Next
BY ObjectMoves DEF LivesNow, Abstract!Refuse, Abstract!ObjectStep, Abstract!Next

LEMMA IsDestroy ==
    ASSUME UNCHANGED <<creators, objects, instance>>,
           NEW x \in Objects, Moves(x, "doomed", "absent")
    PROVE  Abstract!Next
BY ObjectMoves DEF LivesNow, Abstract!Destroy, Abstract!ObjectStep, Abstract!Next

LEMMA IsAddCreator ==
    ASSUME Stays, UNCHANGED <<objects, instance>>, NEW id \in Ids, NEW c \in Creators,
           creators[id] = None, creators' = [creators EXCEPT ![id] = c]
    PROVE  Abstract!Next
BY NothingMoves DEF LivesNow, Abstract!AddCreator, Abstract!CreatorStep, Abstract!Next

LEMMA IsRemoveCreator ==
    ASSUME Stays, UNCHANGED <<objects, instance>>, NEW id \in Ids,
           creators[id] # None, creators' = [creators EXCEPT ![id] = None]
    PROVE  Abstract!Next
BY NothingMoves DEF LivesNow, Abstract!RemoveCreator, Abstract!CreatorStep, Abstract!Next

-------------------------------------------------------------------------------
(* One lemma per class *)

Simulates == [Abstract!Next]_(Abstract!registryVars)

LEMMA FactorySteps ==
    ASSUME OwnInv, StackInv', NEW t \in Threads, FactoryNext(t),
           UNCHANGED <<objects, instance>>
    PROVE  AllOwned' /\ Simulates
<1>1. StackInv /\ DataTypes /\ BuildingAlone
  BY DEF OwnInv, PatternsInv
<1>2. ASSUME NEW id \in Ids, NEW c \in Creators, CallAddCreator(t, id, c)
      PROVE  AllOwned' /\ Simulates
  <2>1. Call(t, "factory", "exclusive", "add", "waiting", id, c)
    BY <1>2 DEF CallAddCreator
  <2>2. Enters(t, "waiting", c)
    BY <1>1, <2>1, CallTop
  <2>3. AllOwned' /\ Stays
    BY <1>2, <2>2, CallsAssumption, PushNothing DEF CallAddCreator
  <2>4. QED
    BY <1>2, <2>3, IsStutter DEF CallAddCreator, Simulates
<1>3. ASSUME NEW id \in Ids, CallRemoveCreator(t, id)
      PROVE  AllOwned' /\ Simulates
  <2>1. Call(t, "factory", "exclusive", "remove", "waiting", id, None)
    BY <1>3 DEF CallRemoveCreator
  <2>2. Enters(t, "waiting", None)
    BY <1>1, <2>1, CallTop
  <2>3. AllOwned' /\ Stays
    BY <1>3, <2>2, CallsAssumption, PushNothing DEF CallRemoveCreator
  <2>4. QED
    BY <1>3, <2>3, IsStutter DEF CallRemoveCreator, Simulates
<1>4. ASSUME NEW id \in Ids, CallGetCreator(t, id)
      PROVE  AllOwned' /\ Simulates
  <2>1. Call(t, "factory", "shared", "get", "waiting", id, None)
    BY <1>4 DEF CallGetCreator
  <2>2. Enters(t, "waiting", None)
    BY <1>1, <2>1, CallTop
  <2>3. AllOwned' /\ Stays
    BY <1>4, <2>2, CallsAssumption, PushNothing DEF CallGetCreator
  <2>4. QED
    BY <1>4, <2>3, IsStutter DEF CallGetCreator, Simulates
<1>5. CASE AddCreator(t)
  <2>1. At(t, "factory", "add", "waiting") /\ Return(t)
    BY <1>5 DEF AddCreator, Locks
  <2>2. stack[t] # <<>> /\ Top(t).thing \in Creators /\ Top(t).id \in Ids
    BY <1>1, <2>1, TopAt DEF FrameOK
  <2>3. AllOwned' /\ Stays
    BY <1>5, <2>1, <2>2, CallsAssumption, PopNothing DEF AddCreator
  <2>4. QED
    BY <1>5, <2>2, <2>3, IsAddCreator DEF AddCreator, Simulates
<1>6. CASE RefuseCreator(t)
  <2>1. /\ At(t, "factory", "add", "waiting")
        /\ Continue(t, "dropping", Top(t).thing, TRUE)
    BY <1>6 DEF RefuseCreator, Locks
  <2>2. stack[t] # <<>> /\ Top(t).thing \in Creators
    BY <1>1, <2>1, TopAt DEF FrameOK
  <2>3. GoesOn(t, "dropping", Top(t).thing)
    BY <1>1, <2>1, <2>2, GoesOnHolding
  <2>4. AllOwned' /\ Stays
    BY <1>6, <2>2, <2>3, CallsAssumption, ChangeNothing DEF RefuseCreator
  <2>5. QED
    BY <1>6, <2>4, IsStutter DEF RefuseCreator, Simulates
<1>7. CASE RemoveNothing(t)
  <2>1. At(t, "factory", "remove", "waiting") /\ Return(t)
    BY <1>7 DEF RemoveNothing, Locks
  <2>2. stack[t] # <<>> /\ Top(t).thing \notin Objects
    BY <1>1, <2>1, TopAt, CallsAssumption DEF FrameOK
  <2>3. AllOwned' /\ Stays
    BY <1>7, <2>1, <2>2, PopNothing DEF RemoveNothing
  <2>4. QED
    BY <1>7, <2>3, IsStutter DEF RemoveNothing, Simulates
<1>8. CASE RemoveCreator(t)
  <2>1. /\ At(t, "factory", "remove", "waiting")
        /\ Continue(t, "dropping", creators[Top(t).id], TRUE)
    BY <1>8 DEF RemoveCreator, Locks
  <2>2. stack[t] # <<>> /\ Top(t).thing = None /\ Top(t).id \in Ids
    BY <1>1, <2>1, TopAt DEF FrameOK
  <2>3. PICK c \in Creators : c = creators[Top(t).id]
    BY <1>1, <1>8, <2>2 DEF RemoveCreator, DataTypes
  <2>4. GoesOn(t, "dropping", c)
    BY <1>1, <2>1, <2>2, <2>3, GoesOnHolding
  <2>5. AllOwned' /\ Stays
    BY <1>8, <2>2, <2>4, CallsAssumption, ChangeNothing DEF RemoveCreator
  <2>6. QED
    BY <1>8, <2>2, <2>5, IsRemoveCreator DEF RemoveCreator, Simulates
<1>9. CASE MissCreator(t)
  <2>1. At(t, "factory", "get", "waiting") /\ Return(t)
    BY <1>9 DEF MissCreator, Locks
  <2>2. stack[t] # <<>> /\ Top(t).thing \notin Objects
    BY <1>1, <2>1, TopAt, CallsAssumption DEF FrameOK
  <2>3. AllOwned' /\ Stays
    BY <1>9, <2>1, <2>2, PopNothing DEF MissCreator
  <2>4. QED
    BY <1>9, <2>3, IsStutter DEF MissCreator, Simulates
<1>10. CASE FindCreator(t)
  <2>1. /\ At(t, "factory", "get", "waiting")
        /\ Continue(t, "copying", creators[Top(t).id], TRUE)
    BY <1>10 DEF FindCreator, Locks
  <2>2. stack[t] # <<>> /\ Top(t).thing = None /\ Top(t).id \in Ids
    BY <1>1, <2>1, TopAt DEF FrameOK
  <2>3. PICK c \in Creators : c = creators[Top(t).id]
    BY <1>1, <1>10, <2>2 DEF FindCreator, DataTypes
  <2>4. GoesOn(t, "copying", c)
    BY <1>1, <2>1, <2>2, <2>3, GoesOnHolding
  <2>5. AllOwned' /\ Stays
    BY <1>10, <2>2, <2>4, CallsAssumption, ChangeNothing DEF FindCreator
  <2>6. QED
    BY <1>10, <2>5, IsStutter DEF FindCreator, Simulates
<1>11. CASE CopyThrows(t)
  <2>1. At(t, "factory", "get", "copying") /\ Return(t)
    BY <1>11 DEF CopyThrows
  <2>2. stack[t] # <<>> /\ Top(t).thing \notin Objects
    BY <1>1, <2>1, TopAt, CallsAssumption DEF FrameOK
  <2>3. AllOwned' /\ Stays
    BY <1>11, <2>1, <2>2, PopNothing DEF CopyThrows
  <2>4. QED
    BY <1>11, <2>3, IsStutter DEF CopyThrows, Simulates
<1>12. CASE CreatorCopied(t)
  <2>1. /\ At(t, "factory", "get", "copying")
        /\ Continue(t, "found", Top(t).thing, FALSE)
    BY <1>12 DEF CreatorCopied
  <2>2. stack[t] # <<>> /\ Top(t).thing \in Creators
    BY <1>1, <2>1, TopAt DEF FrameOK
  <2>3. GoesOn(t, "found", Top(t).thing)
    BY <1>1, <2>1, <2>2, GoesOnFree
  <2>4. AllOwned' /\ Stays
    BY <1>12, <2>2, <2>3, CallsAssumption, ChangeNothing DEF CreatorCopied
  <2>5. QED
    BY <1>12, <2>4, IsStutter DEF CreatorCopied, Simulates
<1>13. CASE RunCreator(t)
  <2>1. /\ At(t, "factory", "get", "found")
        /\ Continue(t, "creating", Top(t).thing, Top(t).holds)
    BY <1>13 DEF RunCreator
  <2>2. stack[t] # <<>> /\ Top(t).thing \in Creators
    BY <1>1, <2>1, TopAt DEF FrameOK
  <2>3. GoesOn(t, "creating", Top(t).thing)
    BY <1>1, <2>1, <2>2, ContinueTop
  <2>4. AllOwned' /\ Stays
    BY <1>13, <2>2, <2>3, CallsAssumption, ChangeNothing DEF RunCreator
  <2>5. QED
    BY <1>13, <2>4, IsStutter DEF RunCreator, Simulates
<1>14. CASE CreatorEnds(t)
  <2>1. /\ At(t, "factory", "get", "creating")
        /\ Continue(t, "dropping", Top(t).thing, Top(t).holds)
    BY <1>14 DEF CreatorEnds
  <2>2. stack[t] # <<>> /\ Top(t).thing \in Creators
    BY <1>1, <2>1, TopAt DEF FrameOK
  <2>3. GoesOn(t, "dropping", Top(t).thing)
    BY <1>1, <2>1, <2>2, ContinueTop
  <2>4. AllOwned' /\ Stays
    BY <1>14, <2>2, <2>3, CallsAssumption, ChangeNothing DEF CreatorEnds
  <2>5. QED
    BY <1>14, <2>4, IsStutter DEF CreatorEnds, Simulates
<1>15. CASE CreatorDropped(t)
  <2>1. /\ stack[t] # <<>> /\ Return(t)
        /\ Top(t).pc = "dropping"
    BY <1>15 DEF CreatorDropped, At
  <2>2. Top(t).thing \notin Objects
    BY <1>1, <2>1, StackFacts, CallsAssumption DEF FrameOK
  <2>3. AllOwned' /\ Stays
    BY <1>15, <2>1, <2>2, PopNothing DEF CreatorDropped
  <2>4. QED
    BY <1>15, <2>3, IsStutter DEF CreatorDropped, Simulates
<1>16. QED
  BY <1>2, <1>3, <1>4, <1>5, <1>6, <1>7, <1>8, <1>9, <1>10, <1>11, <1>12, <1>13,
     <1>14, <1>15 DEF FactoryNext

LEMMA RepositorySteps ==
    ASSUME OwnInv, StackInv', NEW t \in Threads, RepositoryNext(t),
           UNCHANGED <<creators, instance>>
    PROVE  AllOwned' /\ Simulates
<1>1. StackInv /\ DataTypes /\ BuildingAlone
  BY DEF OwnInv, PatternsInv
<1>2. ASSUME NEW id \in Ids, NEW o \in Objects, CallEmplace(t, id, o)
      PROVE  AllOwned' /\ Simulates
  <2>1. Call(t, "repository", "exclusive", "add", "constructing", id, o)
    BY <1>2 DEF CallEmplace
  <2>2. Enters(t, "constructing", o)
    BY <1>1, <2>1, CallTop
  <2>3. AllOwned' /\ Moves(o, "absent", "building")
    BY <1>2, <2>2, PushObject DEF CallEmplace, LifeAt
  <2>4. QED
    BY <1>2, <2>3, IsConstruct DEF CallEmplace, Simulates
<1>3. ASSUME NEW id \in Ids, NEW o \in Objects, CallInsert(t, id, o)
      PROVE  AllOwned' /\ Simulates
  <2>1. Call(t, "repository", "exclusive", "add", "waiting", id, o)
    BY <1>3 DEF CallInsert
  <2>2. Enters(t, "waiting", o)
    BY <1>1, <2>1, CallTop
  <2>3. AllOwned' /\ Moves(o, "absent", "passed")
    BY <1>3, <2>2, PushObject DEF CallInsert, LifeAt
  <2>4. QED
    BY <1>3, <2>3, IsConstruct DEF CallInsert, Simulates
<1>4. ASSUME NEW id \in Ids, CallErase(t, id)
      PROVE  AllOwned' /\ Simulates
  <2>1. Call(t, "repository", "exclusive", "remove", "waiting", id, None)
    BY <1>4 DEF CallErase
  <2>2. Enters(t, "waiting", None)
    BY <1>1, <2>1, CallTop
  <2>3. AllOwned' /\ Stays
    BY <1>4, <2>2, CallsAssumption, PushNothing DEF CallErase
  <2>4. QED
    BY <1>4, <2>3, IsStutter DEF CallErase, Simulates
<1>5. ASSUME NEW id \in Ids, CallGetObject(t, id)
      PROVE  AllOwned' /\ Simulates
  <2>1. Call(t, "repository", "shared", "get", "waiting", id, None)
    BY <1>5 DEF CallGetObject
  <2>2. Enters(t, "waiting", None)
    BY <1>1, <2>1, CallTop
  <2>3. AllOwned' /\ Stays
    BY <1>5, <2>2, CallsAssumption, PushNothing DEF CallGetObject
  <2>4. QED
    BY <1>5, <2>3, IsStutter DEF CallGetObject, Simulates
<1>6. CASE ObjectConstructed(t)
  <2>1. /\ At(t, "repository", "add", "constructing")
        /\ Continue(t, "waiting", Top(t).thing, FALSE)
    BY <1>6 DEF ObjectConstructed
  <2>2. PICK x \in Objects : x = Top(t).thing
    BY <1>1, <2>1, TopAt DEF FrameOK
  <2>3. stack[t] # <<>> /\ LifeAt(Top(t).pc) = "building"
    BY <1>1, <2>1, TopAt DEF LifeAt
  <2>4. GoesOn(t, "waiting", x)
    BY <1>1, <2>1, <2>2, <2>3, GoesOnFree
  <2>5. AllOwned' /\ Moves(x, "building", "passed")
    BY <1>6, <2>2, <2>3, <2>4, ChangeObject DEF ObjectConstructed, LifeAt
  <2>6. QED
    BY <1>6, <2>4, <2>5, IsConstruct DEF ObjectConstructed, Simulates
<1>7. CASE ObjectThrows(t)
  <2>1. At(t, "repository", "add", "constructing") /\ Return(t)
    BY <1>7 DEF ObjectThrows
  <2>2. PICK x \in Objects : x = Top(t).thing
    BY <1>1, <2>1, TopAt DEF FrameOK
  <2>3. stack[t] # <<>> /\ LifeAt(Top(t).pc) = "building"
    BY <1>1, <2>1, TopAt DEF LifeAt
  <2>4. AllOwned' /\ Moves(x, "building", "absent")
    BY <1>7, <2>1, <2>2, <2>3, PopDestroyed DEF ObjectThrows
  <2>5. QED
    BY <1>7, <2>4, IsConstruct DEF ObjectThrows, Simulates
<1>8. CASE InsertObject(t)
  <2>1. At(t, "repository", "add", "waiting") /\ Return(t)
    BY <1>8 DEF InsertObject, Locks
  <2>2. PICK x \in Objects : x = Top(t).thing
    BY <1>1, <2>1, TopAt DEF FrameOK
  <2>3. stack[t] # <<>> /\ LifeAt(Top(t).pc) = "passed"
    BY <1>1, <2>1, TopAt DEF LifeAt
  <2>4. PICK id \in Ids : id = Top(t).id
    BY <1>1, <2>1, TopAt DEF FrameOK
  <2>5. AllOwned' /\ Moves(x, "passed", "kept")
    BY <1>8, <2>1, <2>2, <2>3, <2>4, PopStored DEF InsertObject
  <2>6. QED
    BY <1>8, <2>2, <2>4, <2>5, IsStore DEF InsertObject, Simulates
<1>9. CASE RefuseObject(t)
  <2>1. /\ At(t, "repository", "add", "waiting")
        /\ Continue(t, "destroying", Top(t).thing, TRUE)
    BY <1>9 DEF RefuseObject, Locks
  <2>2. PICK x \in Objects : x = Top(t).thing
    BY <1>1, <2>1, TopAt DEF FrameOK
  <2>3. stack[t] # <<>> /\ LifeAt(Top(t).pc) = "passed" /\ Top(t).id \in Ids
    BY <1>1, <2>1, TopAt DEF LifeAt, FrameOK
  <2>4. GoesOn(t, "destroying", x)
    BY <1>1, <2>1, <2>2, <2>3, GoesOnHolding
  <2>5. AllOwned' /\ Moves(x, "passed", "doomed")
    BY <1>9, <2>2, <2>3, <2>4, ChangeObject DEF RefuseObject, LifeAt
  <2>6. QED
    BY <1>9, <2>3, <2>4, <2>5, IsRefuse DEF RefuseObject, Simulates
<1>10. CASE EraseNothing(t)
  <2>1. At(t, "repository", "remove", "waiting") /\ Return(t)
    BY <1>10 DEF EraseNothing, Locks
  <2>2. stack[t] # <<>> /\ Top(t).thing \notin Objects
    BY <1>1, <2>1, TopAt, CallsAssumption DEF FrameOK
  <2>3. AllOwned' /\ Stays
    BY <1>10, <2>1, <2>2, PopNothing DEF EraseNothing
  <2>4. QED
    BY <1>10, <2>3, IsStutter DEF EraseNothing, Simulates
<1>11. CASE EraseObject(t)
  <2>1. /\ At(t, "repository", "remove", "waiting")
        /\ Continue(t, "destroying", objects[Top(t).id], TRUE)
    BY <1>11 DEF EraseObject, Locks
  <2>2. stack[t] # <<>> /\ Top(t).thing \notin Objects /\ Top(t).id \in Ids
    BY <1>1, <2>1, TopAt, CallsAssumption DEF FrameOK
  <2>3. PICK id \in Ids : id = Top(t).id
    BY <2>2
  <2>4. PICK x \in Objects : x = objects[id]
    BY <1>1, <1>11, <2>3 DEF EraseObject, DataTypes
  <2>5. GoesOn(t, "destroying", x)
    BY <1>1, <2>1, <2>2, <2>3, <2>4, GoesOnHolding
  <2>6. objects' = [objects EXCEPT ![id] = None]
    BY <1>11, <2>3 DEF EraseObject
  <2>7. AllOwned' /\ Moves(x, "kept", "doomed")
    BY <1>11, <2>2, <2>4, <2>5, <2>6, ChangeErased DEF EraseObject, LifeAt
  <2>8. QED
    BY <2>4, <2>5, <2>6, <2>7, IsErase DEF Simulates
<1>12. CASE ObjectDestroyed(t)
  <2>1. /\ Return(t)
        /\ \/ At(t, "repository", "add", "destroying")
           \/ At(t, "repository", "remove", "destroying")
    BY <1>12 DEF ObjectDestroyed
  <2>2. PICK x \in Objects : x = Top(t).thing
    BY <1>1, <2>1, TopAt DEF FrameOK
  <2>3. stack[t] # <<>> /\ LifeAt(Top(t).pc) = "doomed"
    BY <1>1, <2>1, TopAt DEF LifeAt
  <2>4. AllOwned' /\ Moves(x, "doomed", "absent")
    BY <1>12, <2>1, <2>2, <2>3, PopDestroyed DEF ObjectDestroyed
  <2>5. QED
    BY <1>12, <2>4, IsDestroy DEF ObjectDestroyed, Simulates
<1>13. CASE GetObject(t)
  <2>1. At(t, "repository", "get", "waiting") /\ Return(t)
    BY <1>13 DEF GetObject, Locks
  <2>2. stack[t] # <<>> /\ Top(t).thing \notin Objects
    BY <1>1, <2>1, TopAt, CallsAssumption DEF FrameOK
  <2>3. AllOwned' /\ Stays
    BY <1>13, <2>1, <2>2, PopNothing DEF GetObject
  <2>4. QED
    BY <1>13, <2>3, IsStutter DEF GetObject, Simulates
<1>14. QED
  BY <1>2, <1>3, <1>4, <1>5, <1>6, <1>7, <1>8, <1>9, <1>10,
     <1>11, <1>12, <1>13
     DEF RepositoryNext

LEMMA SingletonSteps ==
    ASSUME OwnInv, StackInv', NEW t \in Threads, SingletonNext(t),
           UNCHANGED <<creators, objects>>
    PROVE  AllOwned' /\ Simulates
<1>1. StackInv /\ DataTypes /\ BuildingAlone
  BY DEF OwnInv, PatternsInv
<1>2. CASE CallCreate(t)
  <2>1. Call(t, "singleton", "exclusive", "create", "waiting", None, None)
    BY <1>2 DEF CallCreate
  <2>2. Enters(t, "waiting", None)
    BY <1>1, <2>1, CallTop
  <2>3. AllOwned' /\ Stays
    BY <1>2, <2>2, CallsAssumption, PushNothing DEF CallCreate
  <2>4. QED
    BY <1>2, <2>3, IsStutter DEF CallCreate, Simulates
<1>3. CASE CallFree(t)
  <2>1. Call(t, "singleton", "exclusive", "free", "waiting", None, None)
    BY <1>3 DEF CallFree
  <2>2. Enters(t, "waiting", None)
    BY <1>1, <2>1, CallTop
  <2>3. AllOwned' /\ Stays
    BY <1>3, <2>2, CallsAssumption, PushNothing DEF CallFree
  <2>4. QED
    BY <1>3, <2>3, IsStutter DEF CallFree, Simulates
<1>4. CASE CallInstance(t)
  <2>1. Call(t, "singleton", "shared", "get", "waiting", None, None)
    BY <1>4 DEF CallInstance
  <2>2. Enters(t, "waiting", None)
    BY <1>1, <2>1, CallTop
  <2>3. AllOwned' /\ Stays
    BY <1>4, <2>2, CallsAssumption, PushNothing DEF CallInstance
  <2>4. QED
    BY <1>4, <2>3, IsStutter DEF CallInstance, Simulates
<1>5. ASSUME NEW o \in Objects \cup {None}, CallAdopt(t, o)
      PROVE  AllOwned' /\ Simulates
  <2>1. Enters(t, "waiting", o)
    BY <1>5, <1>1, CallTop DEF CallAdopt
  <2>2. CASE o = None
    <3>1. UNCHANGED alive
      BY <1>5, <2>2 DEF CallAdopt
    <3>2. AllOwned' /\ Stays
      BY <1>5, <2>1, <2>2, <3>1, CallsAssumption, PushNothing DEF CallAdopt
    <3>3. QED
      BY <1>5, <3>2, IsStutter DEF CallAdopt, Simulates
  <2>3. CASE o \in Objects
    <3>1. alive' = alive \cup {o} /\ o \notin alive
      BY <1>5, <2>3, CallsAssumption DEF CallAdopt
    <3>2. AllOwned' /\ Moves(o, "absent", "passed")
      BY <1>5, <2>1, <2>3, <3>1, PushObject DEF CallAdopt, LifeAt
    <3>3. QED
      BY <1>5, <2>3, <3>2, IsConstruct DEF CallAdopt, Simulates
  <2>4. QED
    BY <1>5, <2>2, <2>3
<1>6. ASSUME NEW o \in Objects, CreateInstance(t, o)
      PROVE  AllOwned' /\ Simulates
  <2>1. At(t, "singleton", "create", "waiting") /\ Continue(t, "building", o, TRUE)
    BY <1>6 DEF CreateInstance, Locks
  <2>2. stack[t] # <<>> /\ Top(t).thing \notin Objects
    BY <1>1, <2>1, TopAt, CallsAssumption DEF FrameOK
  <2>3. GoesOn(t, "building", o)
    BY <1>1, <2>1, <2>2, GoesOnHolding
  <2>4. AllOwned' /\ Moves(o, "absent", "building")
    BY <1>6, <2>2, <2>3, ChangeNew DEF CreateInstance, LifeAt
  <2>5. QED
    BY <1>6, <2>3, <2>4, IsConstruct DEF CreateInstance, Simulates
<1>7. CASE RefuseCreate(t)
  <2>1. At(t, "singleton", "create", "waiting") /\ Return(t)
    BY <1>7 DEF RefuseCreate, Locks
  <2>2. stack[t] # <<>> /\ Top(t).thing \notin Objects
    BY <1>1, <2>1, TopAt, CallsAssumption DEF FrameOK
  <2>3. AllOwned' /\ Stays
    BY <1>7, <2>1, <2>2, PopNothing DEF RefuseCreate
  <2>4. QED
    BY <1>7, <2>3, IsStutter DEF RefuseCreate, Simulates
<1>8. CASE InstanceBuilt(t)
  <2>1. At(t, "singleton", "create", "building") /\ Return(t)
    BY <1>8 DEF InstanceBuilt
  <2>2. PICK x \in Objects : x = Top(t).thing
    BY <1>1, <2>1, TopAt DEF FrameOK
  <2>3. stack[t] # <<>> /\ LifeAt(Top(t).pc) = "building"
    BY <1>1, <2>1, TopAt DEF LifeAt
  <2>4. instance = None
    <3>1. 1 \in 1 .. Len(stack[t]) /\ Top(t) = stack[t][1] /\ Top(t).pc = "building"
      BY <1>1, <2>1, <2>3, TopAt, StackFacts
    <3>2. QED
      BY <1>1, <3>1 DEF BuildingAlone
  <2>5. AllOwned' /\ Moves(x, "building", "kept")
    BY <1>8, <2>1, <2>2, <2>3, <2>4, PopInstalled DEF InstanceBuilt
  <2>6. QED
    BY <1>8, <2>2, <2>4, <2>5, IsInstall DEF InstanceBuilt, Simulates
<1>9. CASE InstanceThrows(t)
  <2>1. At(t, "singleton", "create", "building") /\ Return(t)
    BY <1>9 DEF InstanceThrows
  <2>2. PICK x \in Objects : x = Top(t).thing
    BY <1>1, <2>1, TopAt DEF FrameOK
  <2>3. stack[t] # <<>> /\ LifeAt(Top(t).pc) = "building"
    BY <1>1, <2>1, TopAt DEF LifeAt
  <2>4. AllOwned' /\ Moves(x, "building", "absent")
    BY <1>9, <2>1, <2>2, <2>3, PopDestroyed DEF InstanceThrows
  <2>5. QED
    BY <1>9, <2>4, IsConstruct DEF InstanceThrows, Simulates
<1>10. CASE RefuseNull(t)
  <2>1. stack[t] # <<>> /\ Return(t) /\ Top(t).thing \notin Objects
    BY <1>10, CallsAssumption DEF RefuseNull, Locks, At
  <2>2. AllOwned' /\ Stays
    BY <1>10, <2>1, PopNothing DEF RefuseNull
  <2>3. QED
    BY <1>10, <2>2, IsStutter DEF RefuseNull, Simulates
<1>11. CASE RefuseAdopt(t)
  <2>1. /\ At(t, "singleton", "adopt", "waiting")
        /\ Continue(t, "destroying", Top(t).thing, FALSE)
    BY <1>11 DEF RefuseAdopt, Locks
  <2>2. PICK x \in Objects : x = Top(t).thing
    BY <1>1, <1>11, <2>1, TopAt DEF FrameOK, RefuseAdopt
  <2>3. stack[t] # <<>> /\ LifeAt(Top(t).pc) = "passed"
    BY <1>1, <2>1, TopAt DEF LifeAt
  <2>4. GoesOn(t, "destroying", x)
    BY <1>1, <2>1, <2>2, <2>3, GoesOnFree
  <2>5. AllOwned' /\ Moves(x, "passed", "doomed")
    BY <1>11, <2>2, <2>3, <2>4, ChangeObject DEF RefuseAdopt, LifeAt
  <2>6. QED
    BY <1>11, <2>4, <2>5, IsRefuse DEF RefuseAdopt, Simulates
<1>12. CASE AdoptInstance(t)
  <2>1. At(t, "singleton", "adopt", "waiting") /\ Return(t)
    BY <1>12 DEF AdoptInstance, Locks
  <2>2. PICK x \in Objects : x = Top(t).thing
    BY <1>1, <1>12, <2>1, TopAt DEF FrameOK, AdoptInstance
  <2>3. stack[t] # <<>> /\ LifeAt(Top(t).pc) = "passed"
    BY <1>1, <2>1, TopAt DEF LifeAt
  <2>4. AllOwned' /\ Moves(x, "passed", "kept")
    BY <1>12, <2>1, <2>2, <2>3, PopInstalled DEF AdoptInstance
  <2>5. QED
    BY <1>12, <2>2, <2>4, IsInstall DEF AdoptInstance, Simulates
<1>13. CASE FreeNothing(t)
  <2>1. At(t, "singleton", "free", "waiting") /\ Return(t)
    BY <1>13 DEF FreeNothing, Locks
  <2>2. stack[t] # <<>> /\ Top(t).thing \notin Objects
    BY <1>1, <2>1, TopAt, CallsAssumption DEF FrameOK
  <2>3. AllOwned' /\ Stays
    BY <1>13, <2>1, <2>2, PopNothing DEF FreeNothing
  <2>4. QED
    BY <1>13, <2>3, IsStutter DEF FreeNothing, Simulates
<1>14. CASE FreeInstance(t)
  <2>1. At(t, "singleton", "free", "waiting") /\ Continue(t, "destroying", instance, TRUE)
    BY <1>14 DEF FreeInstance, Locks
  <2>2. stack[t] # <<>> /\ Top(t).thing \notin Objects
    BY <1>1, <2>1, TopAt, CallsAssumption DEF FrameOK
  <2>3. PICK x \in Objects : x = instance
    BY <1>1, <1>14 DEF FreeInstance, DataTypes
  <2>4. GoesOn(t, "destroying", x)
    BY <1>1, <2>1, <2>2, <2>3, GoesOnHolding
  <2>5. AllOwned' /\ Moves(x, "kept", "doomed")
    BY <1>14, <2>2, <2>3, <2>4, ChangeFreed DEF FreeInstance, LifeAt
  <2>6. QED
    BY <1>14, <2>3, <2>4, <2>5, IsFree DEF FreeInstance, Simulates
<1>15. CASE InstanceDestroyed(t)
  <2>1. /\ Return(t)
        /\ \/ At(t, "singleton", "free", "destroying")
           \/ At(t, "singleton", "adopt", "destroying")
    BY <1>15 DEF InstanceDestroyed
  <2>2. PICK x \in Objects : x = Top(t).thing
    BY <1>1, <2>1, TopAt DEF FrameOK
  <2>3. stack[t] # <<>> /\ LifeAt(Top(t).pc) = "doomed"
    BY <1>1, <2>1, TopAt DEF LifeAt
  <2>4. AllOwned' /\ Moves(x, "doomed", "absent")
    BY <1>15, <2>1, <2>2, <2>3, PopDestroyed DEF InstanceDestroyed
  <2>5. QED
    BY <1>15, <2>4, IsDestroy DEF InstanceDestroyed, Simulates
<1>16. CASE GetInstance(t)
  <2>1. At(t, "singleton", "get", "waiting") /\ Return(t)
    BY <1>16 DEF GetInstance, Locks
  <2>2. stack[t] # <<>> /\ Top(t).thing \notin Objects
    BY <1>1, <2>1, TopAt, CallsAssumption DEF FrameOK
  <2>3. AllOwned' /\ Stays
    BY <1>16, <2>1, <2>2, PopNothing DEF GetInstance
  <2>4. QED
    BY <1>16, <2>3, IsStutter DEF GetInstance, Simulates
<1>17. QED
  BY <1>2, <1>3, <1>4, <1>5, <1>6, <1>7, <1>8, <1>9, <1>10,
     <1>11, <1>12, <1>13, <1>14, <1>15, <1>16
     DEF SingletonNext

-------------------------------------------------------------------------------
(* The depth of the calls *)

Shallow == \A t \in Threads : Len(stack[t]) <= MaxDepth

Pushes(t) ==
    Len(stack[t]) < MaxDepth /\ \E f : stack' = [stack EXCEPT ![t] = <<f>> \o @]
Pops(t) == stack[t] # <<>> /\ Return(t)
Changes(t) == stack[t] # <<>> /\ \E pc, thing, holds : Continue(t, pc, thing, holds)

LEMMA CallPushes ==
    ASSUME NEW t, NEW mutex, NEW mode, NEW op, NEW pc, NEW id, NEW thing,
           Call(t, mutex, mode, op, pc, id, thing)
    PROVE  Pushes(t)
BY DEF Call, MayCall, Pushes

LEMMA FactoryActs ==
    ASSUME NEW t \in Threads, FactoryNext(t)
    PROVE  Pushes(t) \/ Pops(t) \/ Changes(t)
<1>1. ASSUME NEW id \in Ids, \/ \E c \in Creators : CallAddCreator(t, id, c)
                             \/ CallRemoveCreator(t, id) \/ CallGetCreator(t, id)
      PROVE  Pushes(t)
  BY <1>1, CallPushes DEF CallAddCreator, CallRemoveCreator, CallGetCreator
<1>2. \/ AddCreator(t) \/ RemoveNothing(t) \/ MissCreator(t) \/ CopyThrows(t)
      \/ CreatorDropped(t)
      => Pops(t)
  BY DEF AddCreator, RemoveNothing, MissCreator, CopyThrows, CreatorDropped, Locks, At,
         Pops
<1>3. \/ RefuseCreator(t) \/ RemoveCreator(t) \/ FindCreator(t) \/ CreatorCopied(t)
      \/ RunCreator(t) \/ CreatorEnds(t)
      => Changes(t)
  BY DEF RefuseCreator, RemoveCreator, FindCreator, CreatorCopied, RunCreator,
         CreatorEnds, Locks, At, Changes
<1>4. QED
  BY <1>1, <1>2, <1>3 DEF FactoryNext

LEMMA RepositoryActs ==
    ASSUME NEW t \in Threads, RepositoryNext(t)
    PROVE  Pushes(t) \/ Pops(t) \/ Changes(t)
<1>1. ASSUME NEW id \in Ids,
             \/ \E o \in Objects : CallEmplace(t, id, o) \/ CallInsert(t, id, o)
             \/ CallErase(t, id) \/ CallGetObject(t, id)
      PROVE  Pushes(t)
  BY <1>1, CallPushes DEF CallEmplace, CallInsert, CallErase, CallGetObject
<1>2. \/ ObjectThrows(t) \/ InsertObject(t) \/ EraseNothing(t) \/ ObjectDestroyed(t)
      \/ GetObject(t)
      => Pops(t)
  BY DEF ObjectThrows, InsertObject, EraseNothing, ObjectDestroyed, GetObject, Locks, At,
         Pops
<1>3. ObjectConstructed(t) \/ RefuseObject(t) \/ EraseObject(t) => Changes(t)
  BY DEF ObjectConstructed, RefuseObject, EraseObject, Locks, At, Changes
<1>4. QED
  BY <1>1, <1>2, <1>3 DEF RepositoryNext

LEMMA SingletonActs ==
    ASSUME NEW t \in Threads, SingletonNext(t)
    PROVE  Pushes(t) \/ Pops(t) \/ Changes(t)
<1>1. ASSUME \/ CallCreate(t) \/ CallFree(t) \/ CallInstance(t)
             \/ \E o \in Objects \cup {None} : CallAdopt(t, o)
      PROVE  Pushes(t)
  BY <1>1, CallPushes DEF CallCreate, CallFree, CallInstance, CallAdopt
<1>2. \/ RefuseCreate(t) \/ InstanceBuilt(t) \/ InstanceThrows(t) \/ RefuseNull(t)
      \/ AdoptInstance(t) \/ FreeNothing(t) \/ InstanceDestroyed(t) \/ GetInstance(t)
      => Pops(t)
  BY DEF RefuseCreate, InstanceBuilt, InstanceThrows, RefuseNull, AdoptInstance,
         FreeNothing, InstanceDestroyed, GetInstance, Locks, At, Pops
<1>3. (\E o \in Objects : CreateInstance(t, o)) \/ RefuseAdopt(t) \/ FreeInstance(t)
      => Changes(t)
  BY DEF CreateInstance, RefuseAdopt, FreeInstance, Locks, At, Changes
<1>4. QED
  BY <1>1, <1>2, <1>3 DEF SingletonNext

LEMMA KeepsShallow ==
    ASSUME StackInv, StackInv', Shallow, NEW t \in Threads,
           Pushes(t) \/ Pops(t) \/ Changes(t)
    PROVE  Shallow'
<1>1. ASSUME NEW u \in Threads
      PROVE  Len(stack[u]) \in Nat /\ Len(stack[u]) <= MaxDepth
  BY StackFacts DEF Shallow
<1>2. MaxDepth \in Nat
  BY CallsAssumption
<1>3. CASE Pushes(t)
  <2>1. PICK f : stack' = [stack EXCEPT ![t] = <<f>> \o @]
    BY <1>3 DEF Pushes
  <2>2. /\ stack'[t] = <<f>> \o stack[t]
        /\ \A u \in Threads : u # t => stack'[u] = stack[u]
    BY <2>1 DEF StackInv
  <2>3. Len(stack'[t]) = Len(stack[t]) + 1
    <3>1. stack[t] \in Seq(GoodFrame \cup {f}) /\ <<f>> \in Seq(GoodFrame \cup {f})
      BY StackFacts, SeqMonotonic, GoodFrame \subseteq GoodFrame \cup {f}
    <3>2. Len(<<f>>) = 1
      OBVIOUS
    <3>3. Len(<<f>> \o stack[t]) = Len(<<f>>) + Len(stack[t])
      BY <3>1, ConcatProperties
    <3>4. QED
      BY <1>1, <2>2, <3>2, <3>3
  <2>4. QED
    BY <1>1, <1>2, <1>3, <2>2, <2>3 DEF Pushes, Shallow
<1>4. CASE Pops(t)
  BY <1>1, <1>2, <1>4, PopShape DEF Pops, Shallow
<1>5. CASE Changes(t)
  <2>1. PICK pc, thing, holds : Continue(t, pc, thing, holds)
    BY <1>5 DEF Changes
  <2>2. GoesOn(t, pc, thing)
    BY <1>5, <2>1, ContinueTop DEF Changes
  <2>3. PICK f \in GoodFrame : stack' = [stack EXCEPT ![t][1] = f]
    BY <2>2 DEF GoesOn
  <2>4. QED
    BY <1>1, <1>5, <2>3, ChangeShape DEF Changes, Shallow
<1>6. QED
  BY <1>3, <1>4, <1>5

-------------------------------------------------------------------------------
(* Theorems *)

LEMMA InitOwn == Init => OwnInv /\ Abstract!Init
<1>1. SUFFICES ASSUME Init PROVE OwnInv /\ Abstract!Init
  OBVIOUS
<1>2. PatternsInv
  BY <1>1, InitPatterns
<1>3. \A t \in Threads : stack[t] = <<>> /\ Len(stack[t]) = 0
  BY <1>1, EmptySeq DEF Init
<1>4. \A t \in Threads : 1 .. Len(stack[t]) = {} /\ Len(stack[t]) <= MaxDepth
  BY <1>3, CallsAssumption
<1>5. ASSUME NEW o \in Objects
      PROVE  Owned(o)
  <2>1. ~Kept(o) /\ instance # o /\ o \notin alive /\ OneId(o)
    BY <1>1, CallsAssumption
       DEF Init, RepositoryInit, SingletonInit, Kept, OneId
  <2>2. ~Held(o) /\ OneCall(o)
    BY <1>2, <1>4, HeldIs DEF OneCall, PatternsInv
  <2>3. QED
    BY <2>1, <2>2 DEF Owned
<1>6. Abstract!Init
  BY <1>1 DEF Init, FactoryInit, RepositoryInit, SingletonInit, Life, Abstract!Init
<1>7. QED
  BY <1>2, <1>4, <1>5, <1>6 DEF OwnInv

LEMMA NextOwn == OwnInv /\ [Next]_vars => OwnInv' /\ Simulates
<1>1. SUFFICES ASSUME OwnInv, [Next]_vars PROVE OwnInv' /\ Simulates
  OBVIOUS
<1>2. PatternsInv' /\ StackInv /\ StackInv' /\ Shallow
  BY <1>1, NextPatterns DEF OwnInv, PatternsInv, Shallow
<1>3. CASE UNCHANGED vars
  <2>1. OwnInv'
    BY <1>1, <1>2, <1>3
       DEF vars, OwnInv, Owned, Kept, Held, OneId, OneCall, InCall
  <2>2. Stays
    BY <1>3 DEF vars, Stays, Life, InCall
  <2>3. QED
    BY <1>3, <2>1, <2>2, IsStutter DEF vars, Simulates
<1>4. CASE Next
  <2>1. PICK t \in Threads :
          \/ FactoryNext(t) /\ UNCHANGED <<objects, instance>>
          \/ RepositoryNext(t) /\ UNCHANGED <<creators, instance>>
          \/ SingletonNext(t) /\ UNCHANGED <<creators, objects>>
    BY <1>4 DEF Next
  <2>2. AllOwned' /\ Simulates
    BY <1>1, <1>2, <2>1, FactorySteps, RepositorySteps, SingletonSteps
  <2>3. Shallow'
    BY <1>2, <2>1, FactoryActs, RepositoryActs, SingletonActs, KeepsShallow
  <2>4. QED
    BY <1>2, <2>2, <2>3 DEF OwnInv, AllOwned, Shallow
<1>5. QED
  BY <1>1, <1>3, <1>4

LEMMA OwnInvariant == Spec => []OwnInv
BY InitOwn, NextOwn, PTL DEF Spec

\* The calls that own an object.
OwnerCalls(o) ==
    {call \in Threads \X (1 .. MaxDepth) :
        LET calls == stack[call[1]]
        IN  call[2] \in DOMAIN calls /\ calls[call[2]].thing = o}

LEMMA OwnerCallsAre ==
    ASSUME OwnInv, NEW o \in Objects
    PROVE  /\ ~Held(o) => OwnerCalls(o) = {}
           /\ Held(o) => \E call : OwnerCalls(o) = {call}
<1>1. StackInv /\ OneCall(o) /\ \A t \in Threads : Len(stack[t]) <= MaxDepth
  BY DEF OwnInv, PatternsInv, Owned
<1>2. \A t \in Threads : Len(stack[t]) \in Nat /\ DOMAIN stack[t] = 1 .. Len(stack[t])
  BY <1>1, StackFacts
<1>3. ~Held(o) => OwnerCalls(o) = {}
  BY <1>1, <1>2, HeldIs DEF OwnerCalls
<1>4. ASSUME Held(o)
      PROVE  \E call : OwnerCalls(o) = {call}
  <2>1. PICK t \in Threads : \E n \in 1 .. Len(stack[t]) : stack[t][n].thing = o
    BY <1>1, <1>4, HeldIs
  <2>2. PICK n \in 1 .. Len(stack[t]) : stack[t][n].thing = o
    BY <2>1
  <2>3. n \in 1 .. MaxDepth
    BY <1>1, <1>2, <2>2, CallsAssumption
  <2>4. <<t, n>> \in OwnerCalls(o)
    BY <1>2, <2>2, <2>3 DEF OwnerCalls
  <2>5. ASSUME NEW call \in OwnerCalls(o)
        PROVE  call = <<t, n>>
    <3>1. /\ call = <<call[1], call[2]>> /\ call[1] \in Threads
          /\ call[2] \in 1 .. Len(stack[call[1]])
          /\ stack[call[1]][call[2]].thing = o
      BY <1>2, <2>5 DEF OwnerCalls
    <3>2. call[1] = t /\ call[2] = n
      BY <1>1, <2>2, <3>1 DEF OneCall
    <3>3. QED
      BY <3>1, <3>2
  <2>6. OwnerCalls(o) = {<<t, n>>}
    BY <2>4, <2>5
  <2>7. QED
    BY <2>6
<1>5. QED
  BY <1>3, <1>4

\* Whichever thread adds, removes or refuses an object, however many do and however
\* deep their calls, it has one owner from its construction to its destruction: it
\* is neither lost nor destroyed twice (ObjectRepository.h:84-109, Singleton.h:98-147).
THEOREM OneOwner == Spec => []OwnedOnce
<1>1. OwnInv => OwnedOnce
  <2>1. SUFFICES ASSUME OwnInv, NEW o \in Objects
                 PROVE  Cardinality(Owners(o)) = IF o \in alive THEN 1 ELSE 0
    BY DEF OwnedOnce
  <2> DEFINE Keys == {<<"repository", id>> : id \in {i \in Ids : objects[i] = o}}
             Single == {<<"singleton", i>> : i \in {instance} \cap {o}}
  <2>2. Owned(o)
    BY <2>1 DEF OwnInv
  <2>3. Owners(o) = Keys \cup Single \cup OwnerCalls(o)
    BY DEF Owners, OwnerCalls
  <2>4. /\ ~Kept(o) => Keys = {}
        /\ Kept(o) => \E key : Keys = {key}
    <3>1. ~Kept(o) => Keys = {}
      BY DEF Kept
    <3>2. ASSUME Kept(o)
          PROVE  \E key : Keys = {key}
      <4>1. PICK id \in Ids : objects[id] = o
        BY <3>2 DEF Kept
      <4>2. {i \in Ids : objects[i] = o} = {id}
        BY <2>2, <4>1 DEF Owned, OneId
      <4>3. Keys = {<<"repository", id>>}
        BY <4>2
      <4>4. QED
        BY <4>3
    <3>3. QED
      BY <3>1, <3>2
  <2>5. /\ instance # o => Single = {}
        /\ instance = o => Single = {<<"singleton", o>>}
    OBVIOUS
  <2>6. /\ ~Held(o) => OwnerCalls(o) = {}
        /\ Held(o) => \E call : OwnerCalls(o) = {call}
    BY <2>1, OwnerCallsAre
  <2> HIDE DEF Keys, Single
  <2>7. CASE o \notin alive
    <3>1. Owners(o) = {}
      BY <2>2, <2>3, <2>4, <2>5, <2>6, <2>7 DEF Owned
    <3>2. QED
      BY <2>7, <3>1, FS_EmptySet
  <2>8. CASE o \in alive
    <3>1. \E owner : Owners(o) = {owner}
      BY <2>2, <2>3, <2>4, <2>5, <2>6, <2>8 DEF Owned
    <3>2. QED
      BY <2>8, <3>1, FS_Singleton
  <2>9. QED
    BY <2>7, <2>8
<1>2. QED
  BY <1>1, OwnInvariant, PTL

\* The classes implement the Registry: each add, remove, create and free takes
\* effect at once, what is there is never replaced, and an object is destroyed only
\* once it was refused or has left (ObjectFactory.h:33, ObjectRepository.h:32,
\* Singleton.h:22).
THEOREM RegistryImplemented == Spec => ImplementsRegistry
<1>1. Init => Abstract!Init
  BY InitOwn
<1>2. OwnInv /\ [Next]_vars => [Abstract!Next]_(Abstract!registryVars)
  BY NextOwn DEF Simulates
<1>3. QED
  BY <1>1, <1>2, OwnInvariant, PTL DEF Spec, ImplementsRegistry, Abstract!Spec
===============================================================================
