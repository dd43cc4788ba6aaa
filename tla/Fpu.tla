-------------------------------- MODULE Fpu --------------------------------
(***************************************************************************)
(* The floating-point coprocessor as its driver sees it: the register file *)
(* and compute_thread, which wakes every 100 ns, serves what CTRL asks for *)
(* and goes back to sleep.  It computes without a wait() in between, so a  *)
(* wake-up is one action.  A result stands for itself: m_result is the     *)
(* request it was computed from.  Of the arithmetic only the class of the  *)
(* result matters, the constant Ieee; what the code concludes from it is   *)
(* modelled.                                                               *)
(***************************************************************************)
EXTENDS Naturals

CONSTANTS
  Op,             \* operation codes, unknown ones included
  FDiv, FSqrt,    \* the two with checks of their own
  ToInt,          \* FCVT_W_S, FEQ, FLT, FLE: the result is an integer
  PowerOn,        \* the request that registers of all zeros make
  Args,           \* contents of the three operand registers
  OverZero,       \* those with b equal to zero and a not
  Negative,       \* those with a below zero
  Ieee            \* [Request -> Class]: the class of an operation's result

Class   == {"zero", "normal", "subnormal", "inf", "nan"}
Request == [op : Op, args : Args]
Cause   == {"none", "invalid_op", "div_by_zero", "overflow", "underflow"}
\* BUSY is set and cleared within one wake-up: no access sees it set.
Status  == [done : BOOLEAN, exception : BOOLEAN, cause : Cause]

ASSUME OpAssumption ==
  FDiv \in Op \ ToInt /\ FSqrt \in Op \ ToInt /\ FDiv # FSqrt
ASSUME ArgsAssumption ==
  PowerOn \in Request /\ OverZero \subseteq Args /\ Negative \subseteq Args
ASSUME IeeeAssumption == Ieee \in [Request -> Class]

VARIABLES
  m_op,           \* m_operation; m_op_a, m_op_b and m_op_c
  m_result,       \* the set of the one request it answers; {} at first
  m_status,
  m_ctrl,         \* the bits of CTRL that are set
  job             \* history: what the driver started last

vars == <<m_op, m_result, m_status, m_ctrl, job>>

\* A job is clean until its driver stores to a register it depends on
\* before the start bit is clear again.  "wiped" says that its start came
\* with CLEAR_EXCEPTION, "cleared" that a CLEAR_EXCEPTION came after it.
Job == [clean : BOOLEAN, request : Request, wiped : BOOLEAN,
        cleared : BOOLEAN]

TypeOK ==
  /\ m_op \in Request
  /\ m_result \in SUBSET Request
  /\ m_status \in Status
  /\ m_ctrl \in SUBSET {"start", "clear"}
  /\ job \in Job

Init ==
  /\ m_op = PowerOn
  /\ m_result = {} /\ m_ctrl = {}
  /\ m_status = [done |-> FALSE, exception |-> FALSE, cause |-> "none"]
  /\ job = [clean |-> FALSE, request |-> PowerOn, wiped |-> FALSE,
            cleared |-> FALSE]

(***************************************************************************)
(* The driver: MMIO stores, at any time; RESULT and STATUS ignore them     *)
(***************************************************************************)

OperandStore ==
  /\ \/ \E v \in Op : m_op' = [m_op EXCEPT !.op = v]
     \/ \E v \in Args : m_op' = [m_op EXCEPT !.args = v]
  /\ job' = [job EXCEPT !.clean = job.clean /\ "start" \notin m_ctrl]
  /\ UNCHANGED <<m_result, m_status, m_ctrl>>

\* A store replaces CTRL as a whole, a start still pending in it included.
CtrlStore(bits) ==
  /\ m_ctrl' = bits
  /\ job' = IF "start" \in bits
            THEN [clean |-> TRUE, request |-> m_op, cleared |-> FALSE,
                  wiped |-> "clear" \in bits]
            ELSE [job EXCEPT !.clean = job.clean /\ "start" \notin m_ctrl,
                             !.cleared = job.cleared \/ "clear" \in bits]
  /\ UNCHANGED <<m_op, m_result, m_status>>

(***************************************************************************)
(* compute_thread                                                          *)
(***************************************************************************)

\* Mutant: a sum that is not exact is reported.
CauseOfInexact(q) ==
  CASE q.op = FDiv /\ q.args \in OverZero -> "div_by_zero"
    [] q.op = FSqrt /\ q.args \in Negative -> "invalid_op"
    [] q.op \in ToInt -> "none"
    [] OTHER -> CASE Ieee[q] = "nan" -> "invalid_op"
                  [] Ieee[q] = "inf" -> "overflow"
                  [] Ieee[q] = "subnormal" -> "underflow"
                  [] OTHER -> "inexact"

\* The order of the checks: a division by zero overrules the class of its
\* result, and an integer result is not looked at.
CauseOf(q) ==
  CASE q.op = FDiv /\ q.args \in OverZero -> "div_by_zero"
    [] q.op = FSqrt /\ q.args \in Negative -> "invalid_op"
    [] q.op \in ToInt -> "none"
    [] OTHER -> CASE Ieee[q] = "nan" -> "invalid_op"
                  [] Ieee[q] = "inf" -> "overflow"
                  [] Ieee[q] = "subnormal" -> "underflow"
                  [] OTHER -> "none"

ClearException(s) == [s EXCEPT !.exception = FALSE, !.cause = "none"]

\* Mutant: the exception flag follows the last operation.
FinishedAfresh(s, cause) ==
  [done |-> TRUE, exception |-> cause # "none", cause |-> cause]

\* The cause is that of this operation; the exception flag is only ever set.
Finished(s, cause) ==
  [done |-> TRUE, exception |-> s.exception \/ cause # "none",
   cause |-> cause]

\* Mutant: CLEAR_EXCEPTION is handled after START.
ServeClearLast ==
  /\ m_ctrl # {}
  /\ m_ctrl' = {}
  /\ LET computed == IF "start" \in m_ctrl THEN Finished(m_status, CauseOf(m_op))
                     ELSE m_status
     IN  m_status' = IF "clear" \in m_ctrl THEN ClearException(computed)
                     ELSE computed
  /\ m_result' = IF "start" \in m_ctrl THEN {m_op} ELSE m_result
  /\ UNCHANGED <<m_op, job>>

\* Mutant: START is not cleared after the operation.
ServeAgain ==
  /\ m_ctrl # {}
  /\ m_ctrl' = m_ctrl \ {"clear"}
  /\ m_status' = IF "start" \in m_ctrl THEN Finished(m_status, CauseOf(m_op))
                 ELSE ClearException(m_status)
  /\ m_result' = IF "start" \in m_ctrl THEN {m_op} ELSE m_result
  /\ UNCHANGED <<m_op, job>>

\* Mutant: an operation that raised an exception stores no result.
ServeUnlessRaised ==
  /\ m_ctrl # {}
  /\ m_ctrl' = {}
  /\ m_status' = IF "start" \in m_ctrl THEN Finished(m_status, CauseOf(m_op))
                 ELSE ClearException(m_status)
  /\ m_result' = IF "start" \in m_ctrl /\ CauseOf(m_op) = "none" THEN {m_op}
                 ELSE m_result
  /\ UNCHANGED <<m_op, job>>

\* One wake-up: CLEAR_EXCEPTION first, then START.
Serve ==
  /\ m_ctrl # {}
  /\ m_ctrl' = {}
  /\ LET cleared == IF "clear" \in m_ctrl THEN ClearException(m_status)
                    ELSE m_status
     IN  m_status' = IF "start" \in m_ctrl
                     THEN Finished(cleared, CauseOf(m_op)) ELSE cleared
  /\ m_result' = IF "start" \in m_ctrl THEN {m_op} ELSE m_result
  /\ UNCHANGED <<m_op, job>>

Next ==
  \/ OperandStore
  \/ \E bits \in SUBSET {"start", "clear"} : CtrlStore(bits)
  \/ Serve

Spec == Init /\ [][Next]_vars

\* wait(100, SC_NS) ends.
FairSpec == Spec /\ WF_vars(Serve)

(***************************************************************************)
(* Properties                                                              *)
(***************************************************************************)

\* A driver that leaves the registers alone until it reads the start bit as
\* clear finds DONE, the result of what it started, and its cause, for as
\* long as it starts or clears nothing else.
StartClearMeansResult ==
  job.clean /\ "start" \notin m_ctrl =>
    /\ m_status.done /\ m_result = {job.request}
    /\ ~job.cleared => m_status.cause = CauseOf(job.request)

\* An operation started together with CLEAR_EXCEPTION reports its own
\* exception and no older one.
ClearThenStart ==
  job.clean /\ job.wiped /\ ~job.cleared /\ "start" \notin m_ctrl =>
    (m_status.exception <=> CauseOf(job.request) # "none")

\* No later operation hides an exception the driver has not cleared.
ExceptionKept ==
  [][m_status.exception /\ "clear" \notin m_ctrl => m_status'.exception]_vars

\* Every start is served, or taken back by the driver.
StartServed == "start" \in m_ctrl ~> "start" \notin m_ctrl
=============================================================================
