------------------------------ MODULE ObjectFactory ------------------------------
(***************************************************************************)
(* brasa::pattern::ObjectFactory.  has() takes the lock that get() takes   *)
(* and changes nothing: it is left out.  The copy that get() makes of a    *)
(* creator goes by the name of the creator.                                *)
(***************************************************************************)
EXTENDS Calls

VARIABLE creators   \* creators_

FactoryInit == creators = [id \in Ids |-> None]

CallAddCreator(t, id, c) ==
    /\ Call(t, "factory", "exclusive", "add", "waiting", id, c)
    /\ UNCHANGED <<creators, alive>>

CallRemoveCreator(t, id) ==
    /\ Call(t, "factory", "exclusive", "remove", "waiting", id, None)
    /\ UNCHANGED <<creators, alive>>

CallGetCreator(t, id) ==
    /\ Call(t, "factory", "shared", "get", "waiting", id, None)
    /\ UNCHANGED <<creators, alive>>

\* add: insert moves the creator into the map.
AddCreator(t) ==
    /\ Locks(t, "factory", "add")
    /\ creators[Top(t).id] = None
    /\ creators' = [creators EXCEPT ![Top(t).id] = Top(t).thing]
    /\ Return(t)
    /\ UNCHANGED alive

\* insert does nothing: the pair that holds the creator is destroyed before lock.
RefuseCreator(t) ==
    /\ Locks(t, "factory", "add")
    /\ creators[Top(t).id] # None
    /\ Continue(t, "dropping", Top(t).thing, TRUE)
    /\ UNCHANGED <<creators, alive>>

RemoveNothing(t) ==
    /\ Locks(t, "factory", "remove")
    /\ creators[Top(t).id] = None
    /\ Return(t)
    /\ UNCHANGED <<creators, alive>>

\* erase takes the element out and destroys the creator, all before lock is.
RemoveCreator(t) ==
    /\ Locks(t, "factory", "remove")
    /\ creators[Top(t).id] # None
    /\ creators' = [creators EXCEPT ![Top(t).id] = None]
    /\ Continue(t, "dropping", creators[Top(t).id], TRUE)
    /\ UNCHANGED alive

\* get throws.
MissCreator(t) ==
    /\ Locks(t, "factory", "get")
    /\ creators[Top(t).id] = None
    /\ Return(t)
    /\ UNCHANGED <<creators, alive>>

\* get begins to copy the creator, under the shared lock.
FindCreator(t) ==
    /\ Locks(t, "factory", "get")
    /\ creators[Top(t).id] # None
    /\ Continue(t, "copying", creators[Top(t).id], TRUE)
    /\ UNCHANGED <<creators, alive>>

\* The copy of a capture throws, or there is no memory for it.
CopyThrows(t) ==
    /\ At(t, "factory", "get", "copying")
    /\ Return(t)
    /\ UNCHANGED <<creators, alive>>

\* Mutation of CreatorCopied: the mutex is not unlocked.
CreatorCopiedLocked(t) ==
    /\ At(t, "factory", "get", "copying")
    /\ Continue(t, "found", Top(t).thing, TRUE)
    /\ UNCHANGED <<creators, alive>>

\* The copy is made: lock.unlock().
CreatorCopied(t) ==
    /\ At(t, "factory", "get", "copying")
    /\ Continue(t, "found", Top(t).thing, FALSE)
    /\ UNCHANGED <<creators, alive>>

\* Mutation of RunCreator: it->second is called instead of a copy.
RunCreatorReference(t) ==
    /\ At(t, "factory", "get", "found")
    /\ Continue(t, "creating", creators[Top(t).id], Top(t).holds)
    /\ UNCHANGED <<creators, alive>>

\* get calls the copy.
RunCreator(t) ==
    /\ At(t, "factory", "get", "found")
    /\ Continue(t, "creating", Top(t).thing, Top(t).holds)
    /\ UNCHANGED <<creators, alive>>

\* The creator returns, or throws, and its copy is destroyed.
CreatorEnds(t) ==
    /\ At(t, "factory", "get", "creating")
    /\ Continue(t, "dropping", Top(t).thing, Top(t).holds)
    /\ UNCHANGED <<creators, alive>>

\* The creator of add, remove or get is destroyed.
CreatorDropped(t) ==
    /\ \E op \in {"add", "remove", "get"} : At(t, "factory", op, "dropping")
    /\ Return(t)
    /\ UNCHANGED <<creators, alive>>

FactoryNext(t) ==
    \/ \E id \in Ids, c \in Creators : CallAddCreator(t, id, c)
    \/ \E id \in Ids : CallRemoveCreator(t, id) \/ CallGetCreator(t, id)
    \/ AddCreator(t) \/ RefuseCreator(t)
    \/ RemoveNothing(t) \/ RemoveCreator(t)
    \/ MissCreator(t) \/ FindCreator(t) \/ CopyThrows(t) \/ CreatorCopied(t)
    \/ RunCreator(t) \/ CreatorEnds(t) \/ CreatorDropped(t)
===============================================================================
