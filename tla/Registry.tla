-------------------------------- MODULE Registry ---------------------------------
(***************************************************************************)
(* What the classes of brasa::pattern promise together, without threads,   *)
(* mutexes and calls: what is registered first stays until it is removed,  *)
(* and an object goes through its life once, in order.                     *)
(***************************************************************************)

CONSTANTS Ids, Creators, Objects, None

VARIABLES
    creators,   \* the creator of each id
    objects,    \* the object of each id
    instance,   \* of the singleton
    life        \* how far each object has come

registryVars == <<creators, objects, instance, life>>

Lives == {"absent",     \* not constructed, or destroyed
          "building",   \* its constructor runs
          "passed",     \* given to a call
          "kept",       \* in the repository, or the instance
          "doomed"}     \* its destructor is to run

Init ==
    /\ creators = [id \in Ids |-> None]
    /\ objects = [id \in Ids |-> None]
    /\ instance = None
    /\ life = [o \in Objects |-> "absent"]

Becomes(o, from, to) == life[o] = from /\ life' = [life EXCEPT ![o] = to]

AddCreator(id, c) ==
    /\ creators[id] = None
    /\ creators' = [creators EXCEPT ![id] = c]
    /\ UNCHANGED <<objects, instance, life>>

RemoveCreator(id) ==
    /\ creators[id] # None
    /\ creators' = [creators EXCEPT ![id] = None]
    /\ UNCHANGED <<objects, instance, life>>

\* An object is constructed, by a call or by the caller, or its constructor throws.
Construct(o) ==
    /\ UNCHANGED <<creators, objects, instance>>
    /\ \/ Becomes(o, "absent", "building") \/ Becomes(o, "absent", "passed")
       \/ Becomes(o, "building", "passed") \/ Becomes(o, "building", "absent")

Store(id, o) ==
    /\ objects[id] = None
    /\ objects' = [objects EXCEPT ![id] = o]
    /\ Becomes(o, "passed", "kept")
    /\ UNCHANGED <<creators, instance>>

Erase(id, o) ==
    /\ objects[id] = o
    /\ objects' = [objects EXCEPT ![id] = None]
    /\ Becomes(o, "kept", "doomed")
    /\ UNCHANGED <<creators, instance>>

Install(o) ==
    /\ instance = None
    /\ instance' = o
    /\ Becomes(o, "passed", "kept") \/ Becomes(o, "building", "kept")
    /\ UNCHANGED <<creators, objects>>

Free(o) ==
    /\ instance = o
    /\ instance' = None
    /\ Becomes(o, "kept", "doomed")
    /\ UNCHANGED <<creators, objects>>

\* Only what is there already makes a call refuse an object.
Refuse(o) ==
    /\ UNCHANGED <<creators, objects, instance>>
    /\ instance # None \/ \E id \in Ids : objects[id] # None
    /\ Becomes(o, "passed", "doomed")

Destroy(o) ==
    /\ UNCHANGED <<creators, objects, instance>>
    /\ Becomes(o, "doomed", "absent")

CreatorStep == \E id \in Ids : RemoveCreator(id) \/ \E c \in Creators : AddCreator(id, c)

\* Each step of an object is one of its life.
ObjectStep ==
    /\ life' # life
    /\ \E o \in Objects :
          \/ Construct(o) \/ Install(o) \/ Free(o) \/ Refuse(o) \/ Destroy(o)
          \/ \E id \in Ids : Store(id, o) \/ Erase(id, o)

Next == CreatorStep \/ ObjectStep

Spec == Init /\ [][Next]_registryVars
===============================================================================
