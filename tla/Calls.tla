---------------------------------- MODULE Calls ----------------------------------
(***************************************************************************)
(* What ObjectFactory, ObjectRepository and Singleton of brasa::pattern    *)
(* share: threads whose calls wait for a std::shared_mutex and hold it,    *)
(* and the code of the user that a call runs, which may call again.        *)
(*                                                                         *)
(* A call is a frame on the stack of its thread.  The code of the user is  *)
(* a creator, a constructor or a destructor, and what copies or destroys   *)
(* the captures of a creator; it calls what it likes.  std::shared_mutex   *)
(* is external: it is not recursive, a thread that locks it again waits    *)
(* for itself, and whether a shared lock is given while an exclusive one   *)
(* is waited for is not specified.                                         *)
(***************************************************************************)
EXTENDS Integers, Sequences, FiniteSets

CONSTANTS
    Threads,
    Ids,        \* the keys of the factory and of the repository
    Creators,   \* what the factory holds
    Objects,    \* addresses of objects
    None,       \* no creator, no object, the null pointer
    Ranks,      \* orders of the mutexes
    MaxDepth    \* bound: calls within calls

Mutexes == {"factory", "repository", "singleton"}

ASSUME CallsAssumption ==
    /\ None \notin Creators \cup Objects
    /\ Creators \cap Objects = {}
    /\ Ranks \subseteq [Mutexes -> Nat]
    /\ MaxDepth \in Nat \ {0}

VARIABLES
    stack,  \* stack[t]: the calls of thread t, the innermost first
    alive   \* the objects that are constructed, or being so, and not destroyed

\* The code of the user: a creator, the constructor of an object of the
\* repository or of the singleton, the destructor of either; the copy constructor
\* and the destructor of the captures of a creator.
UserCode == {"creating", "constructing", "building", "destroying", "copying", "dropping"}

Frame == [mutex : Mutexes, mode : {"shared", "exclusive"}, holds : BOOLEAN,
          op : {"add", "remove", "get", "create", "adopt", "free"},
          pc : UserCode \cup {"waiting", "found"},
          id : Ids \cup {None}, thing : Creators \cup Objects \cup {None}]

Top(t) == Head(stack[t])
At(t, mutex, op, pc) ==
    /\ stack[t] # <<>>
    /\ Top(t).mutex = mutex /\ Top(t).op = op /\ Top(t).pc = pc

-------------------------------------------------------------------------------

\* A thread that runs code of the user may call, from wherever that code runs.
\* Bound: MaxDepth.
MayCall(t) ==
    /\ Len(stack[t]) < MaxDepth
    /\ stack[t] # <<>> => Top(t).pc \in UserCode

\* A call, up to its first lock.
Call(t, mutex, mode, op, pc, id, thing) ==
    /\ MayCall(t)
    /\ stack' = [stack EXCEPT ![t] =
                    <<[mutex |-> mutex, mode |-> mode, holds |-> FALSE, op |-> op,
                       pc |-> pc, id |-> id, thing |-> thing]>> \o @]

\* No lock is held that excludes the one that t waits for.
CanLock(t) ==
    \A u \in Threads : \A n \in DOMAIN stack[u] :
        stack[u][n].holds /\ stack[u][n].mutex = Top(t).mutex =>
            stack[u][n].mode = "shared" /\ Top(t).mode = "shared"

\* t gets its lock.
Locks(t, mutex, op) == At(t, mutex, op, "waiting") /\ CanLock(t)

Return(t) == stack' = [stack EXCEPT ![t] = Tail(@)]

\* t goes on in the same call, with or without the lock.
Continue(t, pc, thing, holds) ==
    stack' = [stack EXCEPT ![t][1] = [@ EXCEPT !.pc = pc, !.thing = thing,
                                               !.holds = holds]]
===============================================================================
