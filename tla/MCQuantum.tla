----------------------------- MODULE MCQuantum -----------------------------
(***************************************************************************)
(* Quantum with times scaled down: a quantum of three ticks, instructions  *)
(* as long as a tick, and an access to a device that falls between ticks.  *)
(***************************************************************************)
EXTENDS Quantum
=============================================================================
