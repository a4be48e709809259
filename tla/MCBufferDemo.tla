------------------------------ MODULE MCBufferDemo ------------------------------
(***************************************************************************)
(* A small instance of BufferDemo: everybody is prompt, or the consumer is *)
(* late, or the producer is.                                               *)
(***************************************************************************)
EXTENDS BufferDemo

MCProcesses == {"main", "producer", "consumer"}
MCUnits == [producer |-> 10, consumer |-> 2]
LagOf(m, p, c) == [main |-> m, producer |-> p, consumer |-> c]
MCLags == {LagOf(1, 1, 1), LagOf(1, 1, 4), LagOf(1, 1, 8),
           LagOf(1, 4, 1)}
===============================================================================
