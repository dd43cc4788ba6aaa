---------------------------- MODULE MCDmaEngine ----------------------------
(***************************************************************************)
(* DmaEngine on a small instance: 16 stands for 2^32, and a memory of      *)
(* three words is mapped so often that every address in reach is decoded.  *)
(* The second mapping lies across the carry between the address halves.    *)
(***************************************************************************)
EXTENDS DmaEngine

MCWindows == {0, 12, 24, 36}
=============================================================================
