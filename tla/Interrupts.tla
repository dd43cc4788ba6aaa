---------------------------- MODULE Interrupts -----------------------------
(***************************************************************************)
(* Interrupts end to end: the CLINT's registers and its tick thread, the   *)
(* machine-mode CSRs, and the instruction loop that looks for an interrupt *)
(* before each instruction, enters a handler and returns from it.          *)
(*                                                                         *)
(* Between checkInterrupts and the effects of an instruction on CSRs and   *)
(* CLINT there is no wait; the one after an access to a device leaves only *)
(* registers of the processor to write.  So one iteration of CPU_thread's  *)
(* loop is one action, and the clock ticks any number of times between two *)
(* of them, none included, as the processor runs ahead within its quantum. *)
(* The program is arbitrary, and ECALL, which ends it, is left out.        *)
(* Program counters count words; MPP is left out, as nothing reads it.     *)
(***************************************************************************)
EXTENDS Naturals

CONSTANTS
  Half,           \* 2^32: mtime and mtimecmp are two halves of this width
  Words,          \* size of the space of program counters
  NoFrame,        \* no undisturbed handler is running
  StatusVals, EnableVals, VectorVals, HalfVals   \* what programs write

Pc    == 0 .. Words - 1
Irq   == {"MSI", "MTI", "MEI"}
Code  == [MSI |-> 3, MTI |-> 7, MEI |-> 11]
Mtvec == [base : Pc, mode : 0 .. 3]

ASSUME WidthAssumption == Half \in Nat \ {0} /\ Words \in Nat \ {0}
ASSUME ProgramAssumption ==
  /\ NoFrame \notin Pc
  /\ StatusVals \subseteq SUBSET {"MIE", "MPIE"}
  /\ EnableVals \subseteq SUBSET Irq
  /\ VectorVals \subseteq Mtvec
  /\ HalfVals \subseteq 0 .. Half - 1

VARIABLES
  m_msip, m_mtimecmp, m_mtime,    \* CLINT
  cpu,            \* pc and CSRs; mstatus, mie and mip as sets of bits
  taken,          \* history: the interrupt taken before the last instruction
  frame,          \* history: the pc a handler has interrupted, while the
                  \*   program has left mstatus and mepc alone since
  meant           \* history: the deadline the program means, or the two
                  \*   between which it is about to change over

clint == <<m_msip, m_mtimecmp, m_mtime, meant>>
vars == <<m_msip, m_mtimecmp, m_mtime, cpu, taken, frame, meant>>

Time == 0 .. Half * Half - 1

Cpu == [pc : Pc, mstatus : SUBSET {"MIE", "MPIE"}, mie : SUBSET Irq,
        mip : SUBSET Irq, mepc : Pc, mcause : Irq \cup {"none"},
        mtvec : Mtvec]

\* A change of deadline in three stores: the low half becomes all ones, then
\* come the new high half and the new low half.  "low" and "high" are the
\* steps made, "set" is no change under way; first is the earliest deadline
\* that the program means.
Meant == [step : {"set", "low", "high"}, first : Time, to : Time]

Settled(d) == [step |-> "set", first |-> d, to |-> d]

TypeOK ==
  /\ m_msip \in {0, 1}
  /\ m_mtimecmp \in Time
  /\ m_mtime \in Time
  /\ cpu \in Cpu
  /\ taken \in Irq \cup {"none"}
  /\ frame \in Pc \cup {NoFrame}
  /\ meant \in Meant

Init ==
  /\ m_msip = 0 /\ m_mtimecmp = 0 /\ m_mtime = 0
  /\ cpu = [pc |-> 0, mstatus |-> {}, mie |-> {}, mip |-> {}, mepc |-> 0,
            mcause |-> "none", mtvec |-> [base |-> 0, mode |-> 0]]
  /\ taken = "none" /\ frame = NoFrame /\ meant = Settled(0)

(***************************************************************************)
(* CLINT                                                                   *)
(***************************************************************************)

\* interrupt_pending(): MEIP is reserved and never set.
InterruptPending ==
  {i \in {"MSI"} : m_msip # 0} \cup {i \in {"MTI"} : m_mtime >= m_mtimecmp}

Tick ==
  /\ m_mtime' = (m_mtime + 1) % (Half * Half)
  /\ taken' = "none"
  /\ UNCHANGED <<m_msip, m_mtimecmp, cpu, frame, meant>>

(***************************************************************************)
(* checkInterrupts                                                         *)
(***************************************************************************)

Highest(active) ==
  IF "MEI" \in active THEN "MEI"
  ELSE IF "MSI" \in active THEN "MSI"
  ELSE IF "MTI" \in active THEN "MTI" ELSE "none"

\* update_external_ip: the CLINT's requests replace the three bits of mip,
\* software's included.
Synced == [cpu EXCEPT !.mip = (@ \ Irq) \cup InterruptPending]

\* The interrupt to be taken now: MEI before MSI before MTI.
CauseNow ==
  IF "MIE" \in Synced.mstatus THEN Highest(Synced.mip \cap Synced.mie)
  ELSE "none"

HandlerPc(mtvec, irq) ==
  IF mtvec.mode = 1 THEN (mtvec.base + Code[irq]) % Words ELSE mtvec.base

\* Mutant: interrupts stay enabled in the handler.
TakeTrapOpen(c, irq) ==
  [c EXCEPT !.mepc = c.pc, !.mcause = irq,
            !.mstatus = {"MIE", "MPIE"},
            !.pc = HandlerPc(c.mtvec, irq)]

\* take_trap, and the jump: MPIE is the old MIE, which is set here.
TakeTrap(c, irq) ==
  [c EXCEPT !.mepc = c.pc, !.mcause = irq,
            !.mstatus = {b \in {"MPIE"} : "MIE" \in c.mstatus},
            !.pc = HandlerPc(c.mtvec, irq)]

\* The state in which the next instruction executes.
Checked == IF CauseNow = "none" THEN Synced ELSE TakeTrap(Synced, CauseNow)

FrameNow == IF CauseNow = "none" THEN frame ELSE cpu.pc

(***************************************************************************)
(* The instructions                                                        *)
(***************************************************************************)

Following(pc) == (pc + 1) % Words

\* After the check the CSR file and the frame become those given here.
Execute(csrs, framed) ==
  /\ cpu' = csrs /\ frame' = framed
  /\ taken' = CauseNow

\* Any instruction without effect on CSRs or CLINT; branches go anywhere.
Ordinary ==
  /\ \E p \in Pc : Execute([Checked EXCEPT !.pc = p], FrameNow)
  /\ UNCHANGED clint

\* CSR::write: of mip only MSIP is written, mcause and mhartid not at all.
Written(c) ==
  {c} \cup {[c EXCEPT !.mstatus = v] : v \in StatusVals}
      \cup {[c EXCEPT !.mie = v] : v \in EnableVals}
      \cup {[c EXCEPT !.mip = (@ \ {"MSI"}) \cup v] : v \in SUBSET {"MSI"}}
      \cup {[c EXCEPT !.mepc = v] : v \in Pc}
      \cup {[c EXCEPT !.mtvec = v] : v \in VectorVals}

CsrWrite ==
  /\ \E c \in Written(Checked) :
       Execute([c EXCEPT !.pc = Following(@)],
               IF c.mstatus = Checked.mstatus /\ c.mepc = Checked.mepc
               THEN FrameNow ELSE NoFrame)
  /\ UNCHANGED clint

\* Mutant: mstatus is left as it is.
MretBare ==
  /\ Execute([Checked EXCEPT !.pc = Checked.mepc], NoFrame)
  /\ UNCHANGED clint

Mret ==
  /\ Execute([Checked EXCEPT
                !.pc = Checked.mepc,
                !.mstatus = {"MPIE"} \cup
                            {b \in {"MIE"} : "MPIE" \in Checked.mstatus}],
             NoFrame)
  /\ UNCHANGED clint

SetLo(r, v) == (r \div Half) * Half + v

\* Mutant: the store of the high half loses the low one.
SetHiAlone(r, v) == v * Half

SetHi(r, v) == (v * Half) + (r % Half)

Earlier(d, e) == IF d <= e THEN d ELSE e

Deadlines == {hi * Half + lo : hi \in HalfVals, lo \in HalfVals}

\* A low half of all ones may begin a change to any deadline; the low half of
\* that deadline, in its turn, ends it.  Any other store means what it leaves.
LowMeans(v) ==
  \/ meant' = IF meant.step = "high" /\ v = meant.to % Half
              THEN Settled(meant.to) ELSE Settled(m_mtimecmp')
  \/ /\ v = Half - 1
     /\ \E d \in Deadlines :
          meant' = [step |-> "low", first |-> Earlier(meant.first, d), to |-> d]

HighMeans(v) ==
  meant' = IF meant.step = "low" /\ v = meant.to \div Half
           THEN [meant EXCEPT !.step = "high"]
           ELSE Settled(m_mtimecmp')

DeadlineStore ==
  /\ \E v \in HalfVals :
       \/ m_mtimecmp' = SetLo(m_mtimecmp, v) /\ LowMeans(v)
       \/ m_mtimecmp' = SetHi(m_mtimecmp, v) /\ HighMeans(v)
  /\ UNCHANGED <<m_msip, m_mtime>>

ClintStore ==
  /\ Execute([Checked EXCEPT !.pc = Following(@)], FrameNow)
  /\ \/ m_msip' \in {0, 1} /\ UNCHANGED <<m_mtimecmp, m_mtime, meant>>
     \/ DeadlineStore
     \/ /\ \E v \in HalfVals : m_mtime' \in {SetLo(m_mtime, v),
                                             SetHi(m_mtime, v)}
        /\ UNCHANGED <<m_msip, m_mtimecmp, meant>>

Instruction == Ordinary \/ CsrWrite \/ Mret \/ ClintStore

Next == Tick \/ Instruction

Spec == Init /\ [][Next]_vars

(***************************************************************************)
(* Properties                                                              *)
(***************************************************************************)

\* A handler cannot be interrupted, and has what it needs to return, until
\* the program itself changes mstatus or mepc.
HandlerIsSafe ==
  frame # NoFrame =>
    /\ cpu.mstatus = {"MPIE"}
    /\ cpu.mepc = frame

\* MRET of an undisturbed handler resumes the interrupted instruction with
\* interrupts enabled, and is not itself overtaken by another interrupt.
Resumes ==
  [][frame # NoFrame /\ Mret =>
       cpu'.pc = frame /\ "MIE" \in cpu'.mstatus /\ taken' = "none"]_vars

\* No timer interrupt is taken before a deadline that the program has meant.
\* The registers of the CLINT have halves, which are stored one by one while
\* mtime runs and interrupts are enabled; what the CPU compares mtime with is
\* then a mixture of two deadlines, and what it knows of the request may be
\* left from an earlier one (b_transport of the CLINT, checkInterrupts).  A
\* program that changes over with all ones in the low half first is
\* interrupted before neither the old deadline nor the new one.
NoEarlyTimer == [][taken' = "MTI" => m_mtime >= meant.first]_vars
=============================================================================
