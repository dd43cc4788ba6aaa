----------------------------- MODULE FpuProofs -----------------------------
(***************************************************************************)
(* Proofs about the floating-point coprocessor's register protocol, for    *)
(* any operations, operands and classes of results.                        *)
(***************************************************************************)
EXTENDS Fpu, TLAPS

\* What a pending start and a pending clear say of the job they belong to.
PendingMatches ==
  /\ job.clean /\ "start" \in m_ctrl =>
       /\ m_op = job.request
       /\ job.wiped => "clear" \in m_ctrl
  /\ job.clean /\ "clear" \in m_ctrl /\ "start" \notin m_ctrl => job.cleared

IInv == TypeOK /\ PendingMatches /\ StartClearMeansResult /\ ClearThenStart

\* compute_thread reports one of the declared causes, and never EXC_INEXACT.
LEMMA CauseType == \A q \in Request : CauseOf(q) \in Cause
BY DEF CauseOf, Cause

\* The registers are 0 and nothing has been started.
LEMMA InitInv == Init => IInv
<1>1. Init => TypeOK
  BY ArgsAssumption DEF Init, TypeOK, Status, Job, Cause
<1>2. Init => PendingMatches /\ StartClearMeansResult /\ ClearThenStart
  BY DEF Init, PendingMatches, StartClearMeansResult, ClearThenStart
<1>. QED BY <1>1, <1>2 DEF IInv

\* An operand store spoils a pending job and touches nothing else.
LEMMA OperandInv == IInv /\ OperandStore => IInv'
<1>. SUFFICES ASSUME IInv, OperandStore PROVE IInv'
  OBVIOUS
<1>. USE DEF IInv
<1>1. TypeOK'
  BY DEF TypeOK, OperandStore, Request, Job
<1>2. /\ job' = [job EXCEPT !.clean = job.clean /\ "start" \notin m_ctrl]
      /\ UNCHANGED <<m_result, m_status, m_ctrl>>
      /\ job \in Job
  BY DEF OperandStore, TypeOK
<1>3. /\ job'.clean = (job.clean /\ "start" \notin m_ctrl)
      /\ job'.request = job.request /\ job'.wiped = job.wiped
      /\ job'.cleared = job.cleared
  BY <1>2 DEF Job
<1>4. (PendingMatches /\ StartClearMeansResult /\ ClearThenStart)'
  BY <1>2, <1>3 DEF PendingMatches, StartClearMeansResult, ClearThenStart
<1>. QED BY <1>1, <1>4

\* A CTRL store starts a job, spoils the pending one or asks for a clear.
LEMMA CtrlInv ==
  ASSUME NEW bits \in SUBSET {"start", "clear"}
  PROVE  IInv /\ CtrlStore(bits) => IInv'
<1>. SUFFICES ASSUME IInv, CtrlStore(bits) PROVE IInv'
  OBVIOUS
<1>. USE DEF IInv
<1>0. m_ctrl' = bits /\ UNCHANGED <<m_op, m_result, m_status>>
  BY DEF CtrlStore
<1>a. m_op \in Request /\ job \in Job
  BY DEF TypeOK
<1>b. job' \in Job
  <2>1. CASE "start" \in bits
    <3>1. job' = [clean |-> TRUE, request |-> m_op, cleared |-> FALSE,
                  wiped |-> "clear" \in bits]
      BY <2>1 DEF CtrlStore
    <3>2. ("clear" \in bits) \in BOOLEAN
      OBVIOUS
    <3>. QED BY <3>1, <3>2, <1>a DEF Job
  <2>2. CASE "start" \notin bits
    <3>1. job' = [job EXCEPT !.clean = job.clean /\ "start" \notin m_ctrl,
                             !.cleared = job.cleared \/ "clear" \in bits]
      BY <2>2 DEF CtrlStore
    <3>2. /\ (job.clean /\ "start" \notin m_ctrl) \in BOOLEAN
          /\ (job.cleared \/ "clear" \in bits) \in BOOLEAN
      OBVIOUS
    <3>. QED BY <3>1, <3>2, <1>a DEF Job
  <2>. QED BY <2>1, <2>2
<1>1. TypeOK'
  BY <1>0, <1>b DEF TypeOK
<1>2. CASE "start" \in bits
  <2>1. job' = [clean |-> TRUE, request |-> m_op, cleared |-> FALSE,
                wiped |-> "clear" \in bits]
    BY <1>2 DEF CtrlStore
  <2>. QED BY <1>0, <1>1, <1>2, <2>1
           DEF PendingMatches, StartClearMeansResult, ClearThenStart
<1>3. CASE "start" \notin bits
  <2>1. /\ job'.clean = (job.clean /\ "start" \notin m_ctrl)
        /\ job'.request = job.request /\ job'.wiped = job.wiped
        /\ job'.cleared = (job.cleared \/ "clear" \in bits)
    BY <1>3 DEF CtrlStore, TypeOK, Job
  <2>. QED BY <1>0, <1>1, <1>3, <2>1
           DEF PendingMatches, StartClearMeansResult, ClearThenStart
<1>. QED BY <1>2, <1>3

\* A wake-up answers the pending job, after the clear that came with it.
LEMMA ServeInv == IInv /\ Serve => IInv'
<1>. SUFFICES ASSUME IInv, Serve PROVE IInv'
  OBVIOUS
<1>. USE DEF IInv
<1>0. PICK cleared :
        /\ cleared = IF "clear" \in m_ctrl THEN ClearException(m_status)
                     ELSE m_status
        /\ m_status' = IF "start" \in m_ctrl
                       THEN Finished(cleared, CauseOf(m_op)) ELSE cleared
  BY DEF Serve
<1>a. cleared \in Status
  BY <1>0 DEF TypeOK, ClearException, Status, Cause
<1>1. /\ cleared \in Status
      /\ cleared = IF "clear" \in m_ctrl THEN ClearException(m_status)
                   ELSE m_status
      /\ m_status' = IF "start" \in m_ctrl
                     THEN Finished(cleared, CauseOf(m_op)) ELSE cleared
  BY <1>0, <1>a
<1>2. /\ m_ctrl # {} /\ m_ctrl' = {}
      /\ m_result' = IF "start" \in m_ctrl THEN {m_op} ELSE m_result
      /\ UNCHANGED <<m_op, job>>
  BY DEF Serve
<1>3. CauseOf(m_op) \in Cause
  BY CauseType DEF TypeOK
<1>4. TypeOK'
  <2>1. m_status' \in Status
    BY <1>1, <1>3 DEF Finished, Status
  <2>. QED BY <1>2, <2>1 DEF TypeOK
<1>5. PendingMatches'
  BY <1>2 DEF PendingMatches
<1>6. CASE "start" \in m_ctrl
  <2>1. /\ m_status'.done /\ m_status'.cause = CauseOf(m_op)
        /\ m_status'.exception =
             (cleared.exception \/ CauseOf(m_op) # "none")
    BY <1>1, <1>6 DEF Finished
  <2>2. job.clean /\ job.wiped => ~cleared.exception
    BY <1>1, <1>6 DEF PendingMatches, ClearException, TypeOK, Status
  <2>3. m_result' = {m_op} /\ (job.clean => m_op = job.request)
    BY <1>2, <1>6 DEF PendingMatches
  <2>. QED BY <1>2, <1>4, <1>5, <2>1, <2>2, <2>3
           DEF StartClearMeansResult, ClearThenStart
<1>7. CASE "start" \notin m_ctrl
  <2>1. "clear" \in m_ctrl /\ m_result' = m_result /\ m_status' = cleared
    BY <1>1, <1>2, <1>7 DEF TypeOK
  <2>2. m_status'.done = m_status.done
    BY <1>1, <2>1 DEF ClearException, TypeOK, Status
  <2>3. job.clean => job.cleared
    BY <1>7, <2>1 DEF PendingMatches
  <2>. QED BY <1>2, <1>4, <1>5, <1>7, <2>1, <2>2, <2>3
           DEF StartClearMeansResult, ClearThenStart
<1>. QED BY <1>6, <1>7

LEMMA StepInv == IInv /\ [Next]_vars => IInv'
<1>1. IInv /\ UNCHANGED vars => IInv'
  BY DEF IInv, vars, TypeOK, PendingMatches, StartClearMeansResult,
         ClearThenStart
<1>. QED BY <1>1, OperandInv, CtrlInv, ServeInv DEF Next

\* The inductive invariant of the register protocol.
THEOREM Invariance == Spec => []IInv
BY InitInv, StepInv, PTL DEF Spec

\* TypeOK: in particular the cause field never leaves its declared codes.
THEOREM TypeCorrect == Spec => []TypeOK
<1>. IInv => TypeOK
  BY DEF IInv
<1>. QED BY Invariance, PTL

\* A driver that polls the start bit reads the result it asked for.
THEOREM StartClearMeansResultHolds == Spec => []StartClearMeansResult
<1>. IInv => StartClearMeansResult
  BY DEF IInv
<1>. QED BY Invariance, PTL

\* CLEAR_EXCEPTION and START in one store: only the new exception is left.
THEOREM ClearThenStartHolds == Spec => []ClearThenStart
<1>. IInv => ClearThenStart
  BY DEF IInv
<1>. QED BY Invariance, PTL

\* An exception stays until the driver has cleared it.
THEOREM ExceptionKeptHolds == Spec => ExceptionKept
<1>. DEFINE Kept == m_status.exception /\ "clear" \notin m_ctrl
                      => m_status'.exception
<1>1. ASSUME Next PROVE Kept
  <2>1. CASE Serve
    BY <2>1 DEF Serve, Finished
  <2>. QED BY <1>1, <2>1 DEF Next, OperandStore, CtrlStore
<1>2. [Next]_vars => [Kept]_vars
  BY <1>1
<1>. QED BY <1>2, PTL DEF Spec, ExceptionKept
=============================================================================
