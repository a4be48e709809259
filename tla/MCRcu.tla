--------------------------------- MODULE MCRcu ---------------------------------
(***************************************************************************)
(* Small instances of Rcu for TLC.  Readers, writers, addresses and values *)
(* are interchangeable in the runs that check no liveness property; the    *)
(* initial value is told apart from the others.                            *)
(***************************************************************************)
EXTENDS Rcu, TLC

Symmetry ==
    Permutations(Readers) \cup Permutations(Writers) \cup Permutations(Addr)
===============================================================================
