------------------------------- MODULE MCFpu -------------------------------
(***************************************************************************)
(* Fpu on a small instance: a division, a square root, a sum, a comparison *)
(* and an unknown code, on operands (a, b) of three kinds: both ordinary,  *)
(* a negative and b zero, and both near the ends of the range.             *)
(***************************************************************************)
EXTENDS Fpu

CONSTANTS plain, edge, extreme

MCPowerOn == [op |-> "fadd", args |-> plain]

MCIeee ==
  [q \in Request |->
     CASE q.op = "unknown" -> "zero"
       [] q.op = "fdiv" /\ q.args = edge    -> "inf"
       [] q.op = "fdiv" /\ q.args = extreme -> "subnormal"
       [] q.op = "fsqrt" /\ q.args = edge   -> "nan"
       [] q.op = "fadd" /\ q.args = extreme -> "inf"
       [] OTHER -> "normal"]
=============================================================================
