-------------------------------- MODULE Singleton --------------------------------
(***************************************************************************)
(* brasa::pattern::Singleton.  instance(), has_instance() and the tests of *)
(* the type take the same shared lock and change nothing: CallInstance     *)
(* stands for them.                                                        *)
(***************************************************************************)
EXTENDS Calls

VARIABLE instance   \* t_

SingletonInit == instance = None

\* Mutation of CallCreate: a shared lock.
CallCreateShared(t) ==
    /\ Call(t, "singleton", "shared", "create", "waiting", None, None)
    /\ UNCHANGED <<instance, alive>>

\* create_instance(args...)
CallCreate(t) ==
    /\ Call(t, "singleton", "exclusive", "create", "waiting", None, None)
    /\ UNCHANGED <<instance, alive>>

\* create_instance(u): an object that the caller has made, or null.
CallAdopt(t, o) ==
    /\ o \notin alive
    /\ Call(t, "singleton", "exclusive", "adopt", "waiting", None, o)
    /\ alive' = alive \cup ({o} \ {None})
    /\ UNCHANGED instance

CallFree(t) ==
    /\ Call(t, "singleton", "exclusive", "free", "waiting", None, None)
    /\ UNCHANGED <<instance, alive>>

CallInstance(t) ==
    /\ Call(t, "singleton", "shared", "get", "waiting", None, None)
    /\ UNCHANGED <<instance, alive>>

\* create_instance(args...) throws: there is an instance, or no memory.
RefuseCreate(t) ==
    /\ Locks(t, "singleton", "create")
    /\ instance # None \/ Objects \subseteq alive
    /\ Return(t)
    /\ UNCHANGED <<instance, alive>>

\* The constructor runs under the mutex.
CreateInstance(t, o) ==
    /\ Locks(t, "singleton", "create")
    /\ instance = None
    /\ o \notin alive
    /\ Continue(t, "building", o, TRUE)
    /\ alive' = alive \cup {o}
    /\ UNCHANGED instance

InstanceBuilt(t) ==
    /\ At(t, "singleton", "create", "building")
    /\ instance' = Top(t).thing
    /\ Return(t)
    /\ UNCHANGED alive

\* The constructor throws.
InstanceThrows(t) ==
    /\ At(t, "singleton", "create", "building")
    /\ alive' = alive \ {Top(t).thing}
    /\ Return(t)
    /\ UNCHANGED instance

\* create_instance(nullptr) throws.
RefuseNull(t) ==
    /\ Locks(t, "singleton", "adopt")
    /\ Top(t).thing = None
    /\ Return(t)
    /\ UNCHANGED <<instance, alive>>

\* create_instance(u) throws, and the argument is destroyed after lock.
RefuseAdopt(t) ==
    /\ Locks(t, "singleton", "adopt")
    /\ Top(t).thing # None /\ instance # None
    /\ Continue(t, "destroying", Top(t).thing, FALSE)
    /\ UNCHANGED <<instance, alive>>

AdoptInstance(t) ==
    /\ Locks(t, "singleton", "adopt")
    /\ Top(t).thing # None /\ instance = None
    /\ instance' = Top(t).thing
    /\ Return(t)
    /\ UNCHANGED alive

FreeNothing(t) ==
    /\ Locks(t, "singleton", "free")
    /\ instance = None
    /\ Return(t)
    /\ UNCHANGED <<instance, alive>>

\* Mutation of FreeInstance: the instance is moved out and destroyed after lock.
FreeInstanceUnlocked(t) ==
    /\ Locks(t, "singleton", "free")
    /\ instance # None
    /\ instance' = None
    /\ Continue(t, "destroying", instance, FALSE)
    /\ UNCHANGED alive

\* reset empties t_, then destroys the instance, all under the mutex.
FreeInstance(t) ==
    /\ Locks(t, "singleton", "free")
    /\ instance # None
    /\ instance' = None
    /\ Continue(t, "destroying", instance, TRUE)
    /\ UNCHANGED alive

\* The destructor returns.
InstanceDestroyed(t) ==
    /\ At(t, "singleton", "free", "destroying")
       \/ At(t, "singleton", "adopt", "destroying")
    /\ alive' = alive \ {Top(t).thing}
    /\ Return(t)
    /\ UNCHANGED instance

\* instance() returns a reference, or throws.
GetInstance(t) ==
    /\ Locks(t, "singleton", "get")
    /\ Return(t)
    /\ UNCHANGED <<instance, alive>>

SingletonNext(t) ==
    \/ CallCreate(t) \/ CallFree(t) \/ CallInstance(t)
    \/ \E o \in Objects \cup {None} : CallAdopt(t, o)
    \/ \E o \in Objects : CreateInstance(t, o)
    \/ RefuseCreate(t) \/ InstanceBuilt(t) \/ InstanceThrows(t)
    \/ RefuseNull(t) \/ RefuseAdopt(t) \/ AdoptInstance(t)
    \/ FreeNothing(t) \/ FreeInstance(t) \/ InstanceDestroyed(t)
    \/ GetInstance(t)
===============================================================================
