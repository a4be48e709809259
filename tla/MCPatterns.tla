------------------------------- MODULE MCPatterns --------------------------------
(***************************************************************************)
(* A small instance of Patterns, with all orders of the three mutexes.     *)
(***************************************************************************)
EXTENDS Patterns, TLC

CONSTANTS t1, t2

MCThreads == {t1, t2}
MCRanks == {order \in [Mutexes -> 1 .. 3] : Cardinality({order[m] : m \in Mutexes}) = 3}
Symmetry == Permutations(MCThreads) \cup Permutations(Objects) \cup Permutations(Creators)
===============================================================================
