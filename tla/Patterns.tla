-------------------------------- MODULE Patterns ---------------------------------
(***************************************************************************)
(* A program that uses a factory, a repository and a singleton from many   *)
(* threads, and from the creators, constructors and destructors that these *)
(* run.                                                                    *)
(***************************************************************************)
EXTENDS ObjectFactory, ObjectRepository, Singleton

vars == <<stack, alive, creators, objects, instance>>

Init ==
    /\ stack = [t \in Threads |-> <<>>]
    /\ alive = {}
    /\ FactoryInit /\ RepositoryInit /\ SingletonInit

Next ==
    \E t \in Threads :
        \/ FactoryNext(t) /\ UNCHANGED <<objects, instance>>
        \/ RepositoryNext(t) /\ UNCHANGED <<creators, instance>>
        \/ SingletonNext(t) /\ UNCHANGED <<creators, objects>>

Spec == Init /\ [][Next]_vars

-------------------------------------------------------------------------------
(* Properties *)

\* Types.  What is copied, run or dropped as a creator is one that was given to the
\* factory, and what is constructed or destroyed is an object.
TypeOK ==
    /\ DOMAIN stack = Threads
    /\ \A t \in Threads :
          /\ stack[t] \in Seq(Frame)
          /\ \A n \in DOMAIN stack[t] :
                /\ stack[t][n].pc \in {"copying", "found", "creating", "dropping"} =>
                      stack[t][n].thing \in Creators
                /\ stack[t][n].pc \in {"constructing", "building", "destroying"} =>
                      stack[t][n].thing \in Objects
    /\ alive \subseteq Objects
    /\ creators \in [Ids -> Creators \cup {None}]
    /\ objects \in [Ids -> Objects \cup {None}]
    /\ instance \in Objects \cup {None}

\* t waits for the mutex of u, or behind u: a mutex may keep a shared lock back
\* while an exclusive one is waited for.
WaitsFor(t, u) ==
    /\ stack[t] # <<>> /\ Top(t).pc = "waiting"
    /\ \/ \E n \in DOMAIN stack[u] :
             /\ stack[u][n].holds /\ stack[u][n].mutex = Top(t).mutex
             /\ stack[u][n].mode = "exclusive" \/ Top(t).mode = "exclusive"
       \/ /\ t # u /\ stack[u] # <<>> /\ Top(u).pc = "waiting"
          /\ Top(u).mutex = Top(t).mutex
          /\ Top(u).mode = "exclusive" /\ Top(t).mode = "shared"

\* The code of the user that runs under the mutex of its call: what copies the
\* captures of a creator, or destroys those of a creator refused or removed
\* (ObjectFactory.h:67, 73, 87), the constructor of the singleton, and destructors
\* but that of an object that the singleton refuses (ObjectRepository.h:86-108,
\* Singleton.h:100-107, 144-145).
UnderMutex(f) ==
    \/ f.pc \in {"copying", "building"}
    \/ f.pc = "dropping" /\ f.op # "get"
    \/ f.pc = "destroying" /\ f.op # "adopt"

\* All that t called from under a mutex is for a mutex that comes after it.
KeepsTo(t, order) ==
    \A n, k \in DOMAIN stack[t] :
        n < k /\ UnderMutex(stack[t][k]) =>
            order[stack[t][k].mutex] < order[stack[t][n].mutex]

\* Threads wait for each other, or one for itself, only after the code that
\* UnderMutex names has called back in a way that no order of the mutexes allows: a
\* capture that uses the factory, a destructor that uses its repository.  A
\* creator, the constructor of an object of the repository and the end of a copied
\* creator may call anything (ObjectFactory.h:87-90, ObjectRepository.h:96).
WaitForEachOther(S) == \A t \in S : \E u \in S : WaitsFor(t, u)
NoCircularWait ==
    \A S \in (SUBSET Threads) \ {{}} :
        WaitForEachOther(S) => ~ \E order \in Ranks : \A t \in S : KeepsTo(t, order)

\* An object has one owner from its construction to its destruction, the map, t_
\* or a call in progress, and none before and after: whichever thread adds,
\* removes or refuses it, it is neither lost nor destroyed twice.
Owners(o) ==
    {<<"repository", id>> : id \in {i \in Ids : objects[i] = o}}
    \cup {<<"singleton", i>> : i \in {instance} \cap {o}}
    \cup {call \in Threads \X (1 .. MaxDepth) :
             LET calls == stack[call[1]]
             IN  call[2] \in DOMAIN calls /\ calls[call[2]].thing = o}
OwnedOnce ==
    \A o \in Objects : Cardinality(Owners(o)) = IF o \in alive THEN 1 ELSE 0

\* The singleton has one instance at a time, counting the one whose constructor
\* or destructor runs: a new one is not begun before the old one has gone
\* (Singleton.h:100-107, 144-145).
OneInstanceAtATime ==
    \A t, u \in Threads : \A n \in DOMAIN stack[t], k \in DOMAIN stack[u] :
        LET Building(f) == f.mutex = "singleton" /\ f.pc = "building"
            Leaving(f) == f.mutex = "singleton" /\ f.pc = "destroying" /\ f.op = "free"
        IN  /\ Building(stack[t][n]) => instance = None
            /\ Building(stack[t][n]) => ~Leaving(stack[u][k])
            /\ Building(stack[t][n]) /\ Building(stack[u][k]) => t = u /\ n = k

\* Where an object is in its life, from who has it.
InCall(o, pcs) ==
    \E t \in Threads : \E n \in DOMAIN stack[t] :
        stack[t][n].thing = o /\ stack[t][n].pc \in pcs
Life(o) ==
    IF o \notin alive THEN "absent"
    ELSE IF instance = o \/ \E id \in Ids : objects[id] = o THEN "kept"
    ELSE IF InCall(o, {"destroying"}) THEN "doomed"
    ELSE IF InCall(o, {"waiting"}) THEN "passed"
    ELSE "building"

Abstract == INSTANCE Registry WITH life <- [o \in Objects |-> Life(o)]

\* "true if added, false if ... already existed" (ObjectFactory.h:33,
\* ObjectRepository.h:32), "throw std::logic_error if an instance already exists"
\* (Singleton.h:22): whatever the threads and the code they run do, each add,
\* remove, create and free takes effect at once; what is there leaves but is never
\* replaced; an object is refused only because of what is there, and destroyed
\* only after it was refused or has left, so that references to it stay good
\* until it is removed.
ImplementsRegistry == Abstract!Spec
===============================================================================
