------------------------- MODULE InterruptsProofs --------------------------
(***************************************************************************)
(* Theorems about Interrupts, for every width of the clock, every space of *)
(* program counters and every program.                                     *)
(***************************************************************************)
EXTENDS Interrupts, TLAPS

(***************************************************************************)
(* Arithmetic of the register halves                                       *)
(***************************************************************************)

\* The two halves of a register are halves.
LEMMA Division ==
  ASSUME NEW r \in 0 .. Half * Half - 1
  PROVE  /\ r \div Half \in 0 .. Half - 1
         /\ r % Half \in 0 .. Half - 1
<1>1. Half \in Nat /\ Half > 0 /\ r \in Nat /\ r < Half * Half
  BY WidthAssumption
<1>2. r % Half \in 0 .. Half - 1
  BY <1>1
<1>3. r \div Half \in Nat /\ r \div Half < Half
  BY <1>1
<1>. QED BY <1>1, <1>2, <1>3

\* Two halves make a register.
LEMMA Halves ==
  ASSUME NEW hi \in 0 .. Half - 1, NEW lo \in 0 .. Half - 1
  PROVE  hi * Half + lo \in 0 .. Half * Half - 1
<1>1. Half \in Nat /\ hi \in Nat /\ lo \in Nat /\ lo < Half /\ hi + 1 <= Half
  BY WidthAssumption
<1>2. (hi + 1) * Half <= Half * Half
  BY <1>1
<1>3. (hi + 1) * Half = hi * Half + Half
  BY <1>1
<1>. QED BY <1>1, <1>2, <1>3

\* A register is its two halves, and gives them back.
LEMMA Parts ==
  ASSUME NEW hi \in 0 .. Half - 1, NEW lo \in 0 .. Half - 1
  PROVE  (hi * Half + lo) \div Half = hi /\ (hi * Half + lo) % Half = lo
<1> DEFINE p == hi * Half
<1>1. Half \in Nat \ {0} /\ hi \in Nat /\ lo \in Nat /\ lo < Half /\ p \in Nat
  BY WidthAssumption
<1>2. (hi * Half + lo) \div Half = hi
  BY <1>1
<1>3. (hi * Half + lo) % Half = lo
  BY <1>1, <1>2
<1>. QED BY <1>2, <1>3

LEMMA Whole ==
  ASSUME NEW r \in Time
  PROVE  r = (r \div Half) * Half + (r % Half)
BY WidthAssumption DEF Time

\* A store of one half leaves a register with that half.
LEMMA HalvesStay ==
  ASSUME NEW r \in Time, NEW v \in HalfVals
  PROVE  /\ v \in 0 .. Half - 1
         /\ SetLo(r, v) \in Time
         /\ SetLo(r, v) % Half = v /\ SetLo(r, v) \div Half = r \div Half
         /\ SetHi(r, v) \in Time
         /\ SetHi(r, v) % Half = r % Half /\ SetHi(r, v) \div Half = v
<1>1. v \in 0 .. Half - 1
  BY ProgramAssumption
<1>2. r \div Half \in 0 .. Half - 1 /\ r % Half \in 0 .. Half - 1
  BY Division DEF Time
<1>3. /\ SetLo(r, v) \in Time
      /\ SetLo(r, v) % Half = v /\ SetLo(r, v) \div Half = r \div Half
  BY <1>1, <1>2, Halves, Parts DEF SetLo, Time
<1>4. /\ SetHi(r, v) \in Time
      /\ SetHi(r, v) % Half = r % Half /\ SetHi(r, v) \div Half = v
  BY <1>1, <1>2, Halves, Parts DEF SetHi, Time
<1>. QED BY <1>1, <1>3, <1>4

\* With all ones in its low half a register is at least any with its high
\* half; with both halves of another it is the other.
LEMMA AllOnes ==
  ASSUME NEW r \in Time, NEW s \in Time, r \div Half = s \div Half
  PROVE  /\ r % Half = Half - 1 => r >= s
         /\ r % Half = s % Half => r = s
<1> DEFINE q == (r \div Half) * Half
<1>1. r = q + (r % Half) /\ s = q + (s % Half)
  BY Whole
<1>2. /\ r % Half \in 0 .. Half - 1 /\ s % Half \in 0 .. Half - 1
      /\ r \div Half \in 0 .. Half - 1
  BY Division DEF Time
<1>3. q \in Nat /\ Half \in Nat
  BY <1>2, WidthAssumption
<1>. HIDE DEF q
<1>. QED BY <1>1, <1>2, <1>3

\* The deadlines that a program can change to are times.
LEMMA DeadlinesType == Deadlines \subseteq Time
<1>. SUFFICES ASSUME NEW d \in Deadlines PROVE d \in Time
  OBVIOUS
<1>1. PICK hi \in HalfVals, lo \in HalfVals : d = hi * Half + lo
  BY DEF Deadlines
<1>2. hi \in 0 .. Half - 1 /\ lo \in 0 .. Half - 1
  BY ProgramAssumption
<1>. QED BY <1>1, <1>2, Halves DEF Time

(***************************************************************************)
(* The check before an instruction                                         *)
(***************************************************************************)

\* Half-way between two deadlines the register is not before both: its
\* low half is all ones, and its high half that of the old deadline, or
\* already that of the new one.
MeantInv ==
  /\ m_mtimecmp >= meant.first /\ meant.to >= meant.first
  /\ meant.step = "set" => m_mtimecmp = meant.first
  /\ meant.step # "set" => m_mtimecmp % Half = Half - 1
  /\ meant.step = "high" => m_mtimecmp \div Half = meant.to \div Half

IInv == TypeOK /\ HandlerIsSafe /\ MeantInv

\* What a handler needs to return is in the CSRs c, if f is its frame.
Framed(c, f) == f # NoFrame => c.mstatus = {"MPIE"} /\ c.mepc = f

\* An interrupt is taken for one of the three causes, or none.
LEMMA CauseType == CauseNow \in Irq \cup {"none"}
BY DEF CauseNow, Highest, Irq

\* No interrupt is taken while MIE is clear.
LEMMA MaskedMeansNone ==
  ASSUME cpu \in Cpu, "MIE" \notin cpu.mstatus
  PROVE  CauseNow = "none"
<1>1. Synced.mstatus = cpu.mstatus
  BY DEF Synced, Cpu
<1>. QED BY <1>1 DEF CauseNow

\* The CLINT asserts declared interrupts.
LEMMA PendingType == InterruptPending \in SUBSET Irq
BY DEF InterruptPending, Irq

\* Entering a handler saves the pc, masks interrupts and jumps to a word.
LEMMA TrapEffect ==
  ASSUME NEW c \in Cpu, NEW irq \in Irq
  PROVE  /\ TakeTrap(c, irq) \in Cpu
         /\ TakeTrap(c, irq).mepc = c.pc
         /\ "MIE" \in c.mstatus => TakeTrap(c, irq).mstatus = {"MPIE"}
<1>1. HandlerPc(c.mtvec, irq) \in Pc
  <2>1. c.mtvec.base \in Pc /\ Code[irq] \in Nat /\ Words \in Nat \ {0}
    BY WidthAssumption DEF Cpu, Mtvec, Code, Irq
  <2>. QED BY <2>1 DEF HandlerPc, Pc
<1>2. {b \in {"MPIE"} : "MIE" \in c.mstatus} \in SUBSET {"MIE", "MPIE"}
  OBVIOUS
<1>3. c.pc \in Pc
  BY DEF Cpu
<1>4. TakeTrap(c, irq) \in Cpu
  BY <1>1, <1>2, <1>3 DEF TakeTrap, Cpu
<1>5. /\ TakeTrap(c, irq).mepc = c.pc
      /\ TakeTrap(c, irq).mstatus = {b \in {"MPIE"} : "MIE" \in c.mstatus}
  BY DEF TakeTrap, Cpu
<1>6. "MIE" \in c.mstatus => {b \in {"MPIE"} : "MIE" \in c.mstatus} = {"MPIE"}
  OBVIOUS
<1>. QED BY <1>4, <1>5, <1>6

\* The check leaves the processor as it is but for mip, or enters a handler.
LEMMA CheckEffect ==
  ASSUME IInv
  PROVE  /\ Checked \in Cpu
         /\ FrameNow \in Pc \cup {NoFrame}
         /\ Framed(Checked, FrameNow)
<1>1. cpu \in Cpu /\ frame \in Pc \cup {NoFrame}
  BY DEF IInv, TypeOK
<1>2. /\ Synced \in Cpu
      /\ Synced.pc = cpu.pc /\ Synced.mepc = cpu.mepc
      /\ Synced.mstatus = cpu.mstatus
  BY <1>1, PendingType DEF Synced, Cpu
<1>3. CASE CauseNow = "none"
  <2>1. Checked = Synced /\ FrameNow = frame
    BY <1>3 DEF Checked, FrameNow
  <2>. QED BY <1>1, <1>2, <2>1 DEF Framed, IInv, HandlerIsSafe
<1>4. CASE CauseNow # "none"
  <2>1. Checked = TakeTrap(Synced, CauseNow) /\ FrameNow = cpu.pc
    BY <1>4 DEF Checked, FrameNow
  <2>2. CauseNow \in Irq /\ "MIE" \in Synced.mstatus
    BY <1>1, <1>2, <1>4, CauseType, MaskedMeansNone
  <2>3. cpu.pc \in Pc
    BY <1>1 DEF Cpu
  <2>. QED BY <1>2, <2>1, <2>2, <2>3, TrapEffect DEF Framed
<1>. QED BY <1>3, <1>4

(***************************************************************************)
(* Each instruction keeps the invariant                                    *)
(***************************************************************************)

\* The next word of the program.
LEMMA NextWord == \A p \in Pc : Following(p) \in Pc
BY WidthAssumption DEF Pc, Following

\* An instruction keeps the invariant if its effect fits the frame.
LEMMA ExecuteInv ==
  ASSUME NEW c \in Cpu, NEW f \in Pc \cup {NoFrame}, Framed(c, f),
         Execute(c, f)
  PROVE  /\ HandlerIsSafe'
         /\ cpu' \in Cpu
         /\ frame' \in Pc \cup {NoFrame}
         /\ taken' \in Irq \cup {"none"}
BY CauseType DEF Execute, Framed, HandlerIsSafe

\* The CLINT's registers of an instruction that does not store to them.
LEMMA ClintSame ==
  ASSUME TypeOK, MeantInv, UNCHANGED clint
  PROVE  /\ m_msip' \in {0, 1}
         /\ m_mtimecmp' \in Time /\ m_mtime' \in Time
         /\ meant' \in Meant /\ MeantInv'
BY DEF TypeOK, clint, MeantInv

\* The machine starts with nothing pending and nothing interrupted.
LEMMA InitInv == Init => IInv
<1>. SUFFICES ASSUME Init PROVE IInv
  OBVIOUS
<1>1. 0 \in Pc /\ 0 \in Time
  BY WidthAssumption DEF Pc, Time
<1>2. cpu \in Cpu
  BY <1>1 DEF Init, Cpu, Mtvec
<1>3. meant \in Meant /\ MeantInv
  BY <1>1 DEF Init, Settled, Meant, MeantInv
<1>. QED BY <1>1, <1>2, <1>3 DEF Init, IInv, TypeOK, HandlerIsSafe

\* The clock wraps.
LEMMA TickInv == IInv /\ Tick => IInv'
<1>. SUFFICES ASSUME IInv, Tick PROVE IInv'
  OBVIOUS
<1>1. Half * Half \in Nat \ {0}
  BY WidthAssumption
<1>2. m_mtime' \in Time
  BY <1>1 DEF IInv, TypeOK, Tick, Time
<1>. QED BY <1>2 DEF IInv, TypeOK, HandlerIsSafe, MeantInv, Tick

\* Any instruction without effect on the CSRs keeps the frame's.
LEMMA OrdinaryInv == IInv /\ Ordinary => IInv'
<1>. SUFFICES ASSUME IInv, Ordinary PROVE IInv'
  OBVIOUS
<1>1. PICK p \in Pc : Execute([Checked EXCEPT !.pc = p], FrameNow)
  BY DEF Ordinary
<1> DEFINE c == [Checked EXCEPT !.pc = p]
<1>2. c \in Cpu /\ c.mstatus = Checked.mstatus /\ c.mepc = Checked.mepc
  BY CheckEffect DEF Cpu
<1>3. Framed(c, FrameNow)
  BY <1>2, CheckEffect DEF Framed
<1>. HIDE DEF c
<1>4. Execute(c, FrameNow)
  BY <1>1 DEF c
<1>. QED BY <1>2, <1>3, <1>4, CheckEffect, ExecuteInv, ClintSame
         DEF IInv, TypeOK, Ordinary

\* A CSR keeps its type whatever is written.
LEMMA WrittenType ==
  ASSUME NEW c \in Cpu
  PROVE  Written(c) \subseteq Cpu
<1>. SUFFICES ASSUME NEW d \in Written(c) PROVE d \in Cpu
  OBVIOUS
<1>1. CASE d = c
  BY <1>1
<1>2. CASE \E v \in StatusVals : d = [c EXCEPT !.mstatus = v]
  <2>1. PICK v \in StatusVals : d = [c EXCEPT !.mstatus = v]
    BY <1>2
  <2>. QED BY <2>1, ProgramAssumption DEF Cpu
<1>3. CASE \E v \in EnableVals : d = [c EXCEPT !.mie = v]
  <2>1. PICK v \in EnableVals : d = [c EXCEPT !.mie = v]
    BY <1>3
  <2>. QED BY <2>1, ProgramAssumption DEF Cpu
<1>4. CASE \E v \in SUBSET {"MSI"} :
             d = [c EXCEPT !.mip = (@ \ {"MSI"}) \cup v]
  <2>1. PICK v \in SUBSET {"MSI"} :
               d = [c EXCEPT !.mip = (c.mip \ {"MSI"}) \cup v]
    BY <1>4
  <2>2. (c.mip \ {"MSI"}) \cup v \in SUBSET Irq
    BY DEF Cpu, Irq
  <2>. QED BY <2>1, <2>2 DEF Cpu
<1>5. CASE \E v \in Pc : d = [c EXCEPT !.mepc = v]
  BY <1>5 DEF Cpu
<1>6. CASE \E v \in VectorVals : d = [c EXCEPT !.mtvec = v]
  BY <1>6, ProgramAssumption DEF Cpu
<1>. QED BY <1>1, <1>2, <1>3, <1>4, <1>5, <1>6 DEF Written

\* A write of a CSR keeps what the frame needs or ends it.
LEMMA CsrWriteInv == IInv /\ CsrWrite => IInv'
<1>. SUFFICES ASSUME IInv, CsrWrite PROVE IInv'
  OBVIOUS
<1> DEFINE same(w) == w.mstatus = Checked.mstatus /\ w.mepc = Checked.mepc
<1>1. PICK w \in Written(Checked) :
             Execute([w EXCEPT !.pc = Following(w.pc)],
                     IF same(w) THEN FrameNow ELSE NoFrame)
  BY DEF CsrWrite
<1> DEFINE c == [w EXCEPT !.pc = Following(w.pc)]
           f == IF same(w) THEN FrameNow ELSE NoFrame
<1>2. w \in Cpu
  BY CheckEffect, WrittenType
<1>3. Following(w.pc) \in Pc
  BY <1>2, NextWord DEF Cpu
<1>4. c \in Cpu /\ c.mstatus = w.mstatus /\ c.mepc = w.mepc
  BY <1>2, <1>3 DEF Cpu
<1>5. f \in Pc \cup {NoFrame} /\ Framed(c, f)
  BY <1>4, CheckEffect DEF Framed
<1>6. Execute(c, f)
  BY <1>1
<1>. HIDE DEF c, f
<1>. QED BY <1>4, <1>5, <1>6, ExecuteInv, ClintSame DEF IInv, TypeOK, CsrWrite

\* The return ends the frame.
LEMMA MretInv == IInv /\ Mret => IInv'
<1>. SUFFICES ASSUME IInv, Mret PROVE IInv'
  OBVIOUS
<1> DEFINE s == {"MPIE"} \cup {b \in {"MIE"} : "MPIE" \in Checked.mstatus}
           c == [Checked EXCEPT !.pc = Checked.mepc, !.mstatus = s]
<1>1. s \in SUBSET {"MIE", "MPIE"}
  OBVIOUS
<1>2. Checked.mepc \in Pc
  BY CheckEffect DEF Cpu
<1>3. Execute(c, NoFrame)
  BY DEF Mret
<1>4. c \in Cpu
  <2>. HIDE DEF s
  <2>. QED BY <1>1, <1>2, CheckEffect DEF Cpu
<1>. HIDE DEF c
<1>5. Framed(c, NoFrame)
  BY DEF Framed
<1>. QED BY <1>3, <1>4, <1>5, ExecuteInv, ClintSame DEF IInv, TypeOK, Mret

\* The earlier of two times is one of them and no later than either.
LEMMA EarlierType ==
  ASSUME NEW d \in Time, NEW e \in Time
  PROVE  /\ Earlier(d, e) \in Time
         /\ Earlier(d, e) <= d /\ Earlier(d, e) <= e
BY DEF Earlier, Time

\* A deadline that is meant as the register has it is never early.
LEMMA SettledInv ==
  ASSUME m_mtimecmp' \in Time, meant' = Settled(m_mtimecmp')
  PROVE  meant' \in Meant /\ MeantInv'
<1> DEFINE d == m_mtimecmp'
<1>1. /\ meant'.step = "set" /\ meant'.first = d /\ meant'.to = d
      /\ meant' \in Meant
  BY DEF Settled, Meant
<1>2. d >= d
  BY DEF Time
<1>. QED BY <1>1, <1>2 DEF MeantInv

\* A store of the low half begins a change, ends it or is one by itself.
LEMMA LowInv ==
  ASSUME TypeOK, MeantInv, NEW v \in HalfVals,
         m_mtimecmp' = SetLo(m_mtimecmp, v), LowMeans(v)
  PROVE  meant' \in Meant /\ MeantInv'
<1>1. /\ m_mtimecmp \in Time /\ m_mtimecmp' \in Time
      /\ m_mtimecmp' % Half = v
      /\ m_mtimecmp' \div Half = m_mtimecmp \div Half
  BY HalvesStay DEF TypeOK
<1>2. meant.to \in Time /\ meant.first \in Time
  BY DEF TypeOK, Meant
<1>3. CASE meant.step = "high" /\ v = meant.to % Half /\ meant' = Settled(meant.to)
  <2>1. m_mtimecmp' = meant.to
    BY <1>1, <1>2, <1>3, AllOnes DEF MeantInv
  <2>. QED BY <1>1, <1>3, <2>1, SettledInv
<1>4. CASE meant' = Settled(m_mtimecmp')
  BY <1>1, <1>4, SettledInv
<1>5. CASE /\ v = Half - 1
           /\ \E d \in Deadlines :
                meant' = [step |-> "low", first |-> Earlier(meant.first, d),
                          to |-> d]
  <2>1. PICK d \in Time :
               meant' = [step |-> "low", first |-> Earlier(meant.first, d),
                         to |-> d]
    BY <1>5, DeadlinesType
  <2>2. /\ Earlier(meant.first, d) \in Time
        /\ Earlier(meant.first, d) <= meant.first
        /\ Earlier(meant.first, d) <= d
    BY <1>2, EarlierType
  <2>3. /\ meant' \in Meant /\ meant'.step = "low"
        /\ meant'.first = Earlier(meant.first, d) /\ meant'.to = d
    BY <2>1, <2>2 DEF Meant
  <2>4. m_mtimecmp' >= m_mtimecmp
    BY <1>1, <1>5, AllOnes
  <2>5. m_mtimecmp' >= meant'.first /\ meant'.to >= meant'.first
    BY <1>1, <1>2, <2>2, <2>3, <2>4 DEF MeantInv, Time
  <2>. QED BY <1>1, <1>5, <2>3, <2>5 DEF MeantInv
<1>. QED BY <1>3, <1>4, <1>5 DEF LowMeans

\* A store of the high half is the second of a change or one by itself.
LEMMA HighInv ==
  ASSUME TypeOK, MeantInv, NEW v \in HalfVals,
         m_mtimecmp' = SetHi(m_mtimecmp, v), HighMeans(v)
  PROVE  meant' \in Meant /\ MeantInv'
<1>1. /\ m_mtimecmp' \in Time
      /\ m_mtimecmp' % Half = m_mtimecmp % Half
      /\ m_mtimecmp' \div Half = v
  BY HalvesStay DEF TypeOK
<1>2. CASE meant.step = "low" /\ v = meant.to \div Half
  <2>1. /\ meant' \in Meant /\ meant'.step = "high"
        /\ meant'.first = meant.first /\ meant'.to = meant.to
    BY <1>2 DEF HighMeans, TypeOK, Meant
  <2>2. meant.to \in Time /\ meant.first \in Time
    BY DEF TypeOK, Meant
  <2>3. m_mtimecmp' % Half = Half - 1
    BY <1>1, <1>2 DEF MeantInv
  <2>4. m_mtimecmp' >= meant.to
    BY <1>1, <1>2, <2>2, <2>3, AllOnes
  <2>5. m_mtimecmp' >= meant'.first /\ meant'.to >= meant'.first
    BY <1>1, <2>1, <2>2, <2>4 DEF MeantInv, Time
  <2>. QED BY <1>1, <1>2, <2>1, <2>3, <2>5 DEF MeantInv
<1>3. CASE ~(meant.step = "low" /\ v = meant.to \div Half)
  BY <1>1, <1>3, SettledInv DEF HighMeans
<1>. QED BY <1>2, <1>3

\* A store to the CLINT leaves the CSRs to the check.
LEMMA ClintStoreInv == IInv /\ ClintStore => IInv'
<1>. SUFFICES ASSUME IInv, ClintStore PROVE IInv'
  OBVIOUS
<1> DEFINE c == [Checked EXCEPT !.pc = Following(Checked.pc)]
<1>1. Following(Checked.pc) \in Pc
  BY CheckEffect, NextWord DEF Cpu
<1>2. c \in Cpu /\ c.mstatus = Checked.mstatus /\ c.mepc = Checked.mepc
  BY <1>1, CheckEffect DEF Cpu
<1>3. Execute(c, FrameNow)
  BY DEF ClintStore
<1>. HIDE DEF c
<1>4. Framed(c, FrameNow)
  BY <1>2, CheckEffect DEF Framed
<1>5. CASE m_msip' \in {0, 1} /\ UNCHANGED <<m_mtimecmp, m_mtime, meant>>
  <2>. QED BY <1>2, <1>3, <1>4, <1>5, CheckEffect, ExecuteInv
           DEF IInv, TypeOK, MeantInv
<1>6. CASE DeadlineStore
  <2>1. PICK v \in HalfVals :
               \/ m_mtimecmp' = SetLo(m_mtimecmp, v) /\ LowMeans(v)
               \/ m_mtimecmp' = SetHi(m_mtimecmp, v) /\ HighMeans(v)
    BY <1>6 DEF DeadlineStore
  <2>2. meant' \in Meant /\ MeantInv'
    BY <2>1, LowInv, HighInv DEF IInv
  <2>3. m_mtimecmp' \in Time
    BY <2>1, HalvesStay DEF IInv, TypeOK
  <2>4. m_msip' \in {0, 1} /\ m_mtime' \in Time
    BY <1>6 DEF DeadlineStore, IInv, TypeOK
  <2>. QED BY <1>2, <1>3, <1>4, <2>2, <2>3, <2>4, CheckEffect, ExecuteInv
           DEF IInv, TypeOK
<1>7. CASE /\ \E v \in HalfVals : m_mtime' \in {SetLo(m_mtime, v),
                                               SetHi(m_mtime, v)}
           /\ UNCHANGED <<m_msip, m_mtimecmp, meant>>
  <2>1. m_mtime' \in Time
    BY <1>7, HalvesStay DEF IInv, TypeOK
  <2>. QED BY <1>2, <1>3, <1>4, <1>7, <2>1, CheckEffect, ExecuteInv
           DEF IInv, TypeOK, MeantInv
<1>. QED BY <1>5, <1>6, <1>7 DEF ClintStore

(***************************************************************************)
(* Theorems                                                                *)
(***************************************************************************)

\* The invariant holds initially and every action keeps it.
THEOREM Invariance == Spec => []IInv
<1>1. IInv /\ [Next]_vars => IInv'
  <2>. SUFFICES ASSUME IInv, [Next]_vars PROVE IInv'
    OBVIOUS
  <2>1. CASE Tick
    BY <2>1, TickInv
  <2>2. CASE Ordinary
    BY <2>2, OrdinaryInv
  <2>3. CASE CsrWrite
    BY <2>3, CsrWriteInv
  <2>4. CASE Mret
    BY <2>4, MretInv
  <2>5. CASE ClintStore
    BY <2>5, ClintStoreInv
  <2>6. CASE UNCHANGED vars
    BY <2>6 DEF IInv, TypeOK, HandlerIsSafe, MeantInv, vars
  <2>. QED BY <2>1, <2>2, <2>3, <2>4, <2>5, <2>6 DEF Next, Instruction
<1>. QED BY InitInv, <1>1, PTL DEF Spec

\* The clock wraps and the halves of a register stay halves.
THEOREM TypeCorrect == Spec => []TypeOK
<1>1. IInv => TypeOK
  BY DEF IInv
<1>. QED BY <1>1, Invariance, PTL

\* No interrupt enters a handler whose frame the program has left alone.
THEOREM HandlerIsSafeHolds == Spec => []HandlerIsSafe
<1>1. IInv => HandlerIsSafe
  BY DEF IInv
<1>. QED BY <1>1, Invariance, PTL

\* MRET of an undisturbed handler resumes what the handler interrupted.
THEOREM ResumesHolds == Spec => Resumes
<1> DEFINE Back == frame # NoFrame /\ Mret =>
                     cpu'.pc = frame /\ "MIE" \in cpu'.mstatus /\ taken' = "none"
<1>1. IInv /\ [Next]_vars => [Back]_vars
  <2>. SUFFICES ASSUME IInv, frame # NoFrame, Mret
                PROVE  cpu'.pc = frame /\ "MIE" \in cpu'.mstatus /\ taken' = "none"
    OBVIOUS
  <2>1. cpu \in Cpu /\ cpu.mstatus = {"MPIE"} /\ cpu.mepc = frame
    BY DEF IInv, TypeOK, HandlerIsSafe
  <2>2. CauseNow = "none"
    BY <2>1, MaskedMeansNone
  <2>3. Checked = Synced
    BY <2>2 DEF Checked
  <2>4. Checked \in Cpu /\ Checked.mstatus = {"MPIE"} /\ Checked.mepc = frame
    BY <2>1, <2>3, CheckEffect DEF Synced, Cpu
  <2>5. /\ cpu'.pc = Checked.mepc
        /\ cpu'.mstatus = {"MPIE"} \cup {b \in {"MIE"} : "MPIE" \in Checked.mstatus}
        /\ taken' = CauseNow
    BY <2>4 DEF Mret, Execute, Cpu
  <2>6. "MIE" \in {b \in {"MIE"} : "MPIE" \in Checked.mstatus}
    BY <2>4
  <2>. QED BY <2>2, <2>4, <2>5, <2>6
<1>. QED BY <1>1, Invariance, PTL DEF Spec, Resumes

\* No timer interrupt is taken before a deadline that the program has meant,
\* whatever part of it has been stored.
THEOREM NoEarlyTimerHolds == Spec => NoEarlyTimer
<1>1. IInv /\ [Next]_vars => [taken' = "MTI" => m_mtime >= meant.first]_vars
  <2>. SUFFICES ASSUME IInv, Next, taken' = "MTI"
                PROVE  m_mtime >= meant.first
    OBVIOUS
  <2>1. CauseNow = "MTI"
    BY DEF Next, Tick, Instruction, Ordinary, CsrWrite, Mret, ClintStore, Execute
  <2>2. "MTI" \in Synced.mip
    BY <2>1 DEF CauseNow, Highest
  <2>3. Synced.mip = (cpu.mip \ Irq) \cup InterruptPending
    BY DEF Synced, IInv, TypeOK, Cpu
  <2>4. m_mtime >= m_mtimecmp
    BY <2>2, <2>3 DEF InterruptPending, Irq
  <2>5. /\ m_mtimecmp >= meant.first /\ meant.first \in Time
        /\ m_mtime \in Time /\ m_mtimecmp \in Time
    BY DEF IInv, TypeOK, MeantInv, Meant
  <2>. QED BY <2>4, <2>5 DEF Time
<1>. QED BY <1>1, Invariance, PTL DEF Spec, NoEarlyTimer
=============================================================================
