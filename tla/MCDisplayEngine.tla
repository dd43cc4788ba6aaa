-------------------------- MODULE MCDisplayEngine --------------------------
(***************************************************************************)
(* DisplayEngine on a small instance: 16 stands for 2^32, and a memory of  *)
(* three words is mapped so often that every address in reach is decoded;  *)
(* the mapping in the middle lies across the carry between the halves.     *)
(***************************************************************************)
EXTENDS DisplayEngine, FiniteSetsExt

Bits(n) == {i \in 0 .. 3 : (n \div 2 ^ i) % 2 = 1}
MCOr(a, b) == MapThenSumSet(LAMBDA i : 2 ^ i, Bits(a) \cup Bits(b))

MCWindows == {12 * k : k \in 0 .. 20}
=============================================================================
