---------------------------- MODULE MCInterrupts ---------------------------
(***************************************************************************)
(* Interrupts on a small instance: three words of program, clock and       *)
(* deadline of two bits each, a direct handler at first and a vectored one *)
(* if the program sets it.                                                 *)
(***************************************************************************)
EXTENDS Interrupts

MCVectors == {[base |-> 1, mode |-> 1]}
=============================================================================
