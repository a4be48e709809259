----------------------------- MODULE ObjectRepository -----------------------------
(***************************************************************************)
(* brasa::pattern::ObjectRepository.  has() takes the lock that get()      *)
(* takes and changes nothing: it is left out.                              *)
(***************************************************************************)
EXTENDS Calls

VARIABLE objects    \* objects_

RepositoryInit == objects = [id \in Ids |-> None]

\* add(id, args...) allocates, and the constructor runs outside the mutex.
CallEmplace(t, id, o) ==
    /\ o \notin alive
    /\ Call(t, "repository", "exclusive", "add", "constructing", id, o)
    /\ alive' = alive \cup {o}
    /\ UNCHANGED objects

\* The constructor returns: add(id, make_unique(...)).
ObjectConstructed(t) ==
    /\ At(t, "repository", "add", "constructing")
    /\ Continue(t, "waiting", Top(t).thing, FALSE)
    /\ UNCHANGED <<objects, alive>>

\* The constructor throws.
ObjectThrows(t) ==
    /\ At(t, "repository", "add", "constructing")
    /\ alive' = alive \ {Top(t).thing}
    /\ Return(t)
    /\ UNCHANGED objects

\* add(id, u), with an object that the caller has made.
CallInsert(t, id, o) ==
    /\ o \notin alive
    /\ Call(t, "repository", "exclusive", "add", "waiting", id, o)
    /\ alive' = alive \cup {o}
    /\ UNCHANGED objects

CallErase(t, id) ==
    /\ Call(t, "repository", "exclusive", "remove", "waiting", id, None)
    /\ UNCHANGED <<objects, alive>>

CallGetObject(t, id) ==
    /\ Call(t, "repository", "shared", "get", "waiting", id, None)
    /\ UNCHANGED <<objects, alive>>

\* Mutation of InsertObject: the new object takes the place of the old one.
InsertObjectAnyway(t) ==
    /\ Locks(t, "repository", "add")
    /\ objects' = [objects EXCEPT ![Top(t).id] = Top(t).thing]
    /\ Return(t)
    /\ UNCHANGED alive

InsertObject(t) ==
    /\ Locks(t, "repository", "add")
    /\ objects[Top(t).id] = None
    /\ objects' = [objects EXCEPT ![Top(t).id] = Top(t).thing]
    /\ Return(t)
    /\ UNCHANGED alive

\* insert does nothing: the pair that holds the object is destroyed before lock.
RefuseObject(t) ==
    /\ Locks(t, "repository", "add")
    /\ objects[Top(t).id] # None
    /\ Continue(t, "destroying", Top(t).thing, TRUE)
    /\ UNCHANGED <<objects, alive>>

EraseNothing(t) ==
    /\ Locks(t, "repository", "remove")
    /\ objects[Top(t).id] = None
    /\ Return(t)
    /\ UNCHANGED <<objects, alive>>

\* erase takes the element out and destroys the object, all before lock is.
EraseObject(t) ==
    /\ Locks(t, "repository", "remove")
    /\ objects[Top(t).id] # None
    /\ objects' = [objects EXCEPT ![Top(t).id] = None]
    /\ Continue(t, "destroying", objects[Top(t).id], TRUE)
    /\ UNCHANGED alive

\* The destructor of the object returns.
ObjectDestroyed(t) ==
    /\ At(t, "repository", "add", "destroying")
       \/ At(t, "repository", "remove", "destroying")
    /\ alive' = alive \ {Top(t).thing}
    /\ Return(t)
    /\ UNCHANGED objects

\* get returns a reference, or throws.
GetObject(t) ==
    /\ Locks(t, "repository", "get")
    /\ Return(t)
    /\ UNCHANGED <<objects, alive>>

RepositoryNext(t) ==
    \/ \E id \in Ids, o \in Objects : CallEmplace(t, id, o) \/ CallInsert(t, id, o)
    \/ \E id \in Ids : CallErase(t, id) \/ CallGetObject(t, id)
    \/ ObjectConstructed(t) \/ ObjectThrows(t)
    \/ InsertObject(t) \/ RefuseObject(t)
    \/ EraseNothing(t) \/ EraseObject(t) \/ ObjectDestroyed(t)
    \/ GetObject(t)
===============================================================================
