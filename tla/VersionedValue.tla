---------------------------- MODULE VersionedValue ----------------------------
(***************************************************************************)
(* What brasa::thread::Rcu promises to its users, without nodes, reference *)
(* counts or mutexes: one shared value; a reader owns a private snapshot   *)
(* of it, taken at one instant and constant until the reader is destroyed; *)
(* at most one writer edits a private draft, which starts as a copy of the *)
(* shared value and replaces it at one instant (so no update is lost).     *)
(***************************************************************************)
CONSTANTS
    Readers,    \* the RcuReader objects
    Values,     \* the values of type T
    InitVal,    \* the value given to the constructor of Rcu
    None        \* "holds nothing"

VARIABLES
    val,        \* the current value
    snap,       \* snap[h]: the value reader h is looking at, or None
    draft       \* the writer's copy, or None when there is no writer

absVars == <<val, snap, draft>>

Init ==
    /\ val = InitVal
    /\ snap = [h \in Readers |-> None]
    /\ draft = None

\* read() delivers the value that is current at that instant.
Read(h) ==
    /\ snap[h] = None
    /\ snap' = [snap EXCEPT ![h] = val]
    /\ UNCHANGED <<val, draft>>

\* A reader is destroyed, or is about to be overwritten by an assignment.
Drop(h) ==
    /\ snap' = [snap EXCEPT ![h] = None]
    /\ UNCHANGED <<val, draft>>

\* The snapshot of g is handed to h: nobody else notices.
Move(h, g) ==
    /\ snap[h] = None
    /\ snap' = [snap EXCEPT ![h] = snap[g], ![g] = None]
    /\ UNCHANGED <<val, draft>>

\* write() hands out a copy of the current value.
Begin ==
    /\ draft = None
    /\ draft' = val
    /\ UNCHANGED <<val, snap>>

Edit(v) ==
    /\ draft # None
    /\ draft' = v
    /\ UNCHANGED <<val, snap>>

\* The writer is destroyed: its draft becomes the current value.
Commit ==
    /\ draft # None
    /\ val' = draft
    /\ draft' = None
    /\ UNCHANGED snap

Next ==
    \/ \E h \in Readers : Read(h) \/ Drop(h)
    \/ \E h, g \in Readers : Move(h, g)
    \/ Begin
    \/ \E v \in Values : Edit(v)
    \/ Commit

Spec == Init /\ [][Next]_absVars
===============================================================================
