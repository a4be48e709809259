---------------------------------- MODULE MCCRC ----------------------------------
(***************************************************************************)
(* Every single byte, which is every entry of the table, and messages of   *)
(* each length up to two rounds of eight bytes and one more.               *)
(***************************************************************************)
EXTENDS CRC

Byte(n) == {i \in 0 .. 7 : (n \div 2^i) % 2 = 1}
Single == {<<b>> : b \in Bytes}
Longer == {[i \in 1 .. n |-> Byte((seed * i + i * i) % 256)] :
              n \in 0 .. 17, seed \in {0, 37, 101, 250}}
MCMessages == Single \cup Longer
==================================================================================
