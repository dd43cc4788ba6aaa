--------------------------- MODULE QuantumProofs ---------------------------
(***************************************************************************)
(* Theorems about Quantum, for every quantum, period, latency and program. *)
(* Simulated time plus the time the processor is ahead of it grows by what *)
(* the program spends; an enabled request stands for a wait that began in  *)
(* a quantum and, after an access, for the instruction it belongs to.      *)
(***************************************************************************)
EXTENDS Quantum, TLAPS

Ahead == IF cpu = "running" THEN local ELSE left

\* How long a request has stood, and will before the processor looks for it.
LateInv ==
  /\ ~(enabled /\ toGo = 0) => late = 0
  /\ cpu \in {"running", "stopped"} => late < Q + MaxStore + Instr
  /\ cpu = "access" => late + left < Q + Mmio
  /\ cpu = "sync" => late + left < Q + MaxStore + Instr

\* What the clock and the program's time differ by stays as it was when mtime
\* was read: a wait of the clock, and a quantum.
Drift == Tick * watch.ticks - watch.since - tick + Ahead
WatchInv == watch.on /\ cpu # "stopped" => -Tick <= Drift /\ Drift < Q

Inv == TypeOK /\ NeverPastQuantum /\ LateInv /\ WatchInv

-----------------------------------------------------------------------------

\* The initial state satisfies the invariant.
LEMMA InitInv == Init => Inv
  <1> SUFFICES ASSUME Init PROVE Inv OBVIOUS
  <1> USE TimeAssumption DEF Init, NoWatch
  <1>1. TypeOK
    <2>1. watch \in [on : BOOLEAN, ticks : Nat, since : 0 .. MaxSince]
      <3>1. 0 \in 0 .. MaxSince /\ 0 \in Nat /\ FALSE \in BOOLEAN OBVIOUS
      <3> QED BY <3>1
    <2>2. phase \in 0 .. Q - 1 /\ left \in 0 .. local /\ tick \in 0 .. Tick OBVIOUS
    <2> QED BY <2>1, <2>2 DEF TypeOK
  <1>2. NeverPastQuantum BY DEF NeverPastQuantum
  <1>3. LateInv BY DEF LateInv
  <1>4. WatchInv BY DEF WatchInv
  <1> QED BY <1>1, <1>2, <1>3, <1>4 DEF Inv

\* The history of an interval keeps its type and follows the local clock.
LEMMA ElapsedAdvances ==
  ASSUME NEW w \in [on : BOOLEAN, ticks : Nat, since : 0 .. MaxSince],
         NEW d \in Nat
  PROVE  /\ Elapsed(w, d) \in [on : BOOLEAN, ticks : Nat, since : 0 .. MaxSince]
         /\ Elapsed(w, d).on => /\ w.on
                                /\ Elapsed(w, d).ticks = w.ticks
                                /\ Elapsed(w, d).since = w.since + d
  BY TimeAssumption DEF Elapsed, NoWatch

\* The end of an instruction leaves the processor within its quantum, or
\* waiting for as long as it is ahead.
LEMMA EndInstructionEffect ==
  ASSUME NEW at \in 0 .. Q - 1, NEW ahead \in Nat, EndInstruction(at, ahead)
  PROVE  /\ local' \in Nat /\ left' \in 0 .. local'
         /\ cpu' \in {"running", "sync"}
         /\ cpu' = "running" => at + local' < Q
         /\ local' = ahead + Instr
         /\ Ahead' = ahead + Instr
         /\ cpu' = "sync" => left' = ahead + Instr
  <1> USE TimeAssumption
  <1>1. CASE NeedSync(at, ahead + Instr)
    BY <1>1 DEF EndInstruction, Ahead
  <1>2. CASE ~NeedSync(at, ahead + Instr)
    <2>1. at + (ahead + Instr) < Q BY <1>2 DEF NeedSync
    <2> QED BY <1>2, <2>1 DEF EndInstruction, Ahead
  <1> QED BY <1>1, <1>2

\* Instructions without a wait.  No request is late after one of them.
LEMMA InstructionInv ==
  ASSUME Inv, NEW c \in 0 .. MaxStore, NEW now \in BOOLEAN, Instruction(c, now)
  PROVE  Inv'
  <1> USE DEF Inv
  <1>1. /\ phase \in 0 .. Q - 1 /\ local \in Nat /\ c \in Nat
        /\ cpu = "running" /\ phase + local < Q
        /\ UNCHANGED <<phase, tick, toGo>> /\ enabled' = now
    BY TimeAssumption DEF TypeOK, NeverPastQuantum, Instruction
  <1>2. EndInstruction(phase, local + c) BY DEF Instruction
  <1>3. /\ local' \in Nat /\ left' \in 0 .. local' /\ cpu' \in {"running", "sync"}
        /\ cpu' = "running" => phase + local' < Q
        /\ Ahead' = local + c + Instr
        /\ cpu' = "sync" => left' = local + c + Instr
    BY <1>1, <1>2, EndInstructionEffect
  <1>4. watch' = Elapsed(watch, c + Instr) BY DEF Instruction
  <1>5. c + Instr \in Nat BY <1>1, TimeAssumption
  <1>6. /\ watch' \in [on : BOOLEAN, ticks : Nat, since : 0 .. MaxSince]
        /\ watch'.on => /\ watch.on /\ watch'.ticks = watch.ticks
                        /\ watch'.since = watch.since + (c + Instr)
    BY <1>4, <1>5, ElapsedAdvances DEF TypeOK
  <1>7. late' = 0
    BY DEF Instruction, Taken, LateInv
  <1>8. TypeOK' BY <1>1, <1>3, <1>6, <1>7, TimeAssumption DEF TypeOK
  <1>9. NeverPastQuantum' BY <1>1, <1>3 DEF NeverPastQuantum
  <1>10. LateInv'
    <2>1. 0 < Q + MaxStore + Instr BY TimeAssumption
    <2>2. cpu' = "sync" => left' < Q + MaxStore + Instr
      BY <1>1, <1>3, TimeAssumption
    <2>3. left' \in Int BY <1>3
    <2> QED BY <1>3, <1>7, <2>1, <2>2, <2>3 DEF LateInv
  <1>11. WatchInv'
    <2> SUFFICES ASSUME watch'.on PROVE -Tick <= Drift' /\ Drift' < Q
      BY DEF WatchInv
    <2>1. -Tick <= Drift /\ Drift < Q BY <1>1, <1>6 DEF WatchInv
    <2>2. Tick * watch.ticks \in Int BY TimeAssumption DEF TypeOK
    <2>3. Drift = Tick * watch.ticks - watch.since - tick + local
      BY <1>1 DEF Drift, Ahead
    <2>4. Drift' = Tick * watch.ticks - (watch.since + (c + Instr)) - tick
                   + (local + c + Instr)
      BY <1>1, <1>3, <1>6 DEF Drift
    <2>5. watch.since \in Int /\ tick \in Int /\ Instr \in Int
      BY TimeAssumption DEF TypeOK
    <2> QED BY <1>1, <2>1, <2>2, <2>3, <2>4, <2>5
  <1> QED BY <1>8, <1>9, <1>10, <1>11

\* Accesses to devices; w is the interval that is measured after it.
LEMMA AccessInv ==
  ASSUME Inv, Access, late' = 0, toGo' \in Nat,
         NEW w \in [on : BOOLEAN, ticks : Nat, since : 0 .. MaxSince],
         watch' = Elapsed(w, Mmio),
         w.on => \/ w = watch
                 \/ w.ticks = 0 /\ w.since = 0
  PROVE  Inv'
  <1> USE DEF Inv
  <1>1. /\ phase \in 0 .. Q - 1 /\ local \in Nat /\ tick \in 0 .. Tick
        /\ cpu = "running" /\ phase + local < Q
        /\ UNCHANGED <<phase, tick>> /\ enabled' \in BOOLEAN
        /\ cpu' = "access" /\ local' = local + Mmio /\ left' = local + Mmio
    BY DEF TypeOK, NeverPastQuantum, Access, WaitAccess, Open
  <1>2. /\ watch' \in [on : BOOLEAN, ticks : Nat, since : 0 .. MaxSince]
        /\ watch'.on => /\ w.on /\ watch'.ticks = w.ticks
                        /\ watch'.since = w.since + Mmio
    BY ElapsedAdvances, TimeAssumption
  <1>3. TypeOK' BY <1>1, <1>2, TimeAssumption DEF TypeOK
  <1>4. NeverPastQuantum' BY <1>1 DEF NeverPastQuantum
  <1>5. LateInv' BY <1>1, TimeAssumption DEF LateInv
  <1>6. WatchInv'
    <2> SUFFICES ASSUME watch'.on PROVE -Tick <= Drift' /\ Drift' < Q
      BY DEF WatchInv
    <2>1. Drift' = Tick * w.ticks - (w.since + Mmio) - tick + (local + Mmio)
      BY <1>1, <1>2 DEF Drift, Ahead
    <2>2. Tick * w.ticks \in Int /\ w.since \in Int /\ Mmio \in Int /\ Tick \in Int
          /\ Q \in Int
      BY TimeAssumption
    <2>3. CASE w = watch
      <3>1. -Tick <= Drift /\ Drift < Q BY <1>1, <1>2, <2>3 DEF WatchInv
      <3>2. Drift = Tick * w.ticks - w.since - tick + local
        BY <1>1, <2>3 DEF Drift, Ahead
      <3> QED BY <1>1, <2>1, <2>2, <3>1, <3>2
    <2>4. CASE w.ticks = 0 /\ w.since = 0
      <3>1. Tick * w.ticks = 0 BY <2>4, TimeAssumption
      <3>2. Drift' = local - tick BY <1>1, <2>1, <2>2, <2>4, <3>1
      <3> QED BY <1>1, <2>2, <3>2
    <2> QED BY <1>2, <2>3, <2>4
  <1> QED BY <1>3, <1>4, <1>5, <1>6

\* A wait is over: the end of an instruction, or of the one with the access.
LEMMA SyncReturnsInv ==
  ASSUME Inv, SyncReturns
  PROVE  Inv'
  <1> USE DEF Inv
  <1>1. /\ phase \in 0 .. Q - 1 /\ tick \in 0 .. Tick /\ left = 0
        /\ UNCHANGED <<phase, tick, toGo, enabled, late>>
        /\ late \in Nat /\ watch \in [on : BOOLEAN, ticks : Nat, since : 0 .. MaxSince]
    BY DEF TypeOK, SyncReturns
  <1>2. CASE cpu = "access"
    <2>1. EndInstruction(phase, 0) /\ watch' = Elapsed(watch, Instr)
      BY <1>2 DEF SyncReturns
    <2>2. /\ local' \in Nat /\ left' \in 0 .. local' /\ cpu' \in {"running", "sync"}
          /\ cpu' = "running" => phase + local' < Q
          /\ Ahead' = 0 + Instr
          /\ cpu' = "sync" => left' = 0 + Instr
      BY <1>1, <2>1, EndInstructionEffect
    <2>3. /\ watch' \in [on : BOOLEAN, ticks : Nat, since : 0 .. MaxSince]
          /\ watch'.on => /\ watch.on /\ watch'.ticks = watch.ticks
                          /\ watch'.since = watch.since + Instr
      BY <1>1, <2>1, ElapsedAdvances, TimeAssumption
    <2>4. TypeOK' BY <1>1, <2>2, <2>3 DEF TypeOK
    <2>5. NeverPastQuantum' BY <1>1, <2>2 DEF NeverPastQuantum
    <2>6. LateInv'
      <3>1. late < Q + Mmio BY <1>1, <1>2, TimeAssumption DEF LateInv
      <3>2. late < Q + MaxStore + Instr /\ late + (0 + Instr) < Q + MaxStore + Instr
        BY <1>1, <3>1, TimeAssumption
      <3>3. ~(enabled' /\ toGo' = 0) => late' = 0 BY <1>1 DEF LateInv
      <3>4. /\ cpu' = "running" => late' < Q + MaxStore + Instr
            /\ cpu' = "sync" => late' + left' < Q + MaxStore + Instr
        BY <1>1, <2>2, <3>2
      <3> QED BY <2>2, <3>3, <3>4 DEF LateInv
    <2>7. WatchInv'
      <3> SUFFICES ASSUME watch'.on PROVE -Tick <= Drift' /\ Drift' < Q
        BY DEF WatchInv
      <3>1. -Tick <= Drift /\ Drift < Q BY <1>2, <2>3 DEF WatchInv
      <3>2. Drift = Tick * watch.ticks - watch.since - tick + 0
        BY <1>1, <1>2 DEF Drift, Ahead
      <3>3. Drift' = Tick * watch.ticks - (watch.since + Instr) - tick + (0 + Instr)
        BY <1>1, <2>2, <2>3 DEF Drift
      <3>4. /\ Tick * watch.ticks \in Int /\ watch.since \in Int /\ Instr \in Int
            /\ Tick \in Int /\ Q \in Int
        BY <1>1, TimeAssumption
      <3> QED BY <1>1, <3>1, <3>2, <3>3, <3>4
    <2> QED BY <2>4, <2>5, <2>6, <2>7
  <1>3. CASE cpu = "sync"
    <2>1. cpu' = "running" /\ local' = 0 /\ left' = 0 /\ watch' = watch
      BY <1>3 DEF SyncReturns
    <2>2. TypeOK' BY <1>1, <2>1 DEF TypeOK
    <2>3. NeverPastQuantum' BY <1>1, <2>1, TimeAssumption DEF NeverPastQuantum
    <2>4. LateInv' BY <1>1, <1>3, <2>1, TimeAssumption DEF LateInv
    <2>5. WatchInv' BY <1>1, <1>3, <2>1 DEF WatchInv, Drift, Ahead
    <2> QED BY <2>2, <2>3, <2>4, <2>5
  <1> QED BY <1>2, <1>3 DEF SyncReturns

\* The clock ticks in the processor's wait.
LEMMA TickThreadInv ==
  ASSUME Inv, TickThread
  PROVE  Inv'
  <1> USE DEF Inv
  <1>1. /\ cpu \in {"access", "sync"} /\ tick = 0 /\ tick' = Tick
        /\ toGo' = IF toGo = 0 THEN 0 ELSE toGo - 1
        /\ UNCHANGED <<phase, cpu, local, left, enabled, late>>
        /\ toGo \in Nat
        /\ watch \in [on : BOOLEAN, ticks : Nat, since : 0 .. MaxSince]
    BY DEF TypeOK, TickThread, Waiting
  <1>2. /\ watch' \in [on : BOOLEAN, ticks : Nat, since : 0 .. MaxSince]
        /\ watch'.on => /\ watch.on /\ watch'.ticks = watch.ticks + 1
                        /\ watch'.since = watch.since
    BY <1>1 DEF TickThread
  <1>3. TypeOK' BY <1>1, <1>2, TimeAssumption DEF TypeOK
  <1>4. NeverPastQuantum' BY <1>1 DEF NeverPastQuantum
  <1>5. LateInv' BY <1>1 DEF LateInv
  <1>6. WatchInv'
    <2> SUFFICES ASSUME watch'.on PROVE -Tick <= Drift' /\ Drift' < Q
      BY DEF WatchInv
    <2>1. -Tick <= Drift /\ Drift < Q BY <1>1, <1>2 DEF WatchInv
    <2>2. Drift = Tick * watch.ticks - watch.since - 0 + left
      BY <1>1 DEF Drift, Ahead
    <2>3. Drift' = Tick * (watch.ticks + 1) - watch.since - Tick + left
      BY <1>1, <1>2 DEF Drift, Ahead
    <2>4. /\ Tick \in Int /\ watch.ticks \in Int /\ watch.since \in Int
          /\ left \in Int /\ Tick * watch.ticks \in Int
      BY <1>1, TimeAssumption DEF TypeOK
    <2>5. Tick * (watch.ticks + 1) = Tick * watch.ticks + Tick BY <2>4
    <2> QED BY <2>1, <2>2, <2>3, <2>4, <2>5
  <1> QED BY <1>3, <1>4, <1>5, <1>6

\* Time advances to the next process, which shortens both waits alike.
LEMMA AdvanceTimeInv ==
  ASSUME Inv, AdvanceTime
  PROVE  Inv'
  <1> USE DEF Inv
  <1> DEFINE d == IF left < tick THEN left ELSE tick
  <1>1. /\ cpu \in {"access", "sync"}
        /\ phase' = (phase + d) % Q /\ left' = left - d /\ tick' = tick - d
        /\ late' = IF enabled /\ toGo = 0 THEN late + d ELSE late
        /\ UNCHANGED <<cpu, local, toGo, enabled, watch>>
        /\ phase \in Nat /\ local \in Nat /\ left \in 0 .. local
        /\ tick \in 0 .. Tick /\ late \in Nat
        /\ watch \in [on : BOOLEAN, ticks : Nat, since : 0 .. MaxSince]
    BY TimeAssumption DEF TypeOK, AdvanceTime, Waiting
  <1>2. left \in Nat /\ tick \in Nat BY <1>1, TimeAssumption
  <1>3. d \in Nat /\ d <= left /\ d <= tick BY <1>2
  <1> HIDE DEF d
  <1>4. phase' \in 0 .. Q - 1
    <2>1. phase + d \in Nat BY <1>1, <1>3
    <2> QED BY <1>1, <2>1, TimeAssumption
  <1>5. /\ left' \in 0 .. local' /\ tick' \in 0 .. Tick /\ late' \in Nat
        /\ late' <= late + d
    BY <1>1, <1>2, <1>3, TimeAssumption
  <1>6. TypeOK' BY <1>1, <1>4, <1>5 DEF TypeOK
  <1>7. NeverPastQuantum' BY <1>1 DEF NeverPastQuantum
  <1>8. LateInv'
    <2>1. late' + left' <= late + left BY <1>1, <1>2, <1>3, <1>5
    <2>2. cpu = "access" => late' + left' < Q + Mmio
      BY <1>1, <1>2, <1>5, <2>1, TimeAssumption DEF LateInv
    <2>3. cpu = "sync" => late' + left' < Q + MaxStore + Instr
      BY <1>1, <1>2, <1>5, <2>1, TimeAssumption DEF LateInv
    <2>4. ~(enabled' /\ toGo' = 0) => late' = 0 BY <1>1 DEF LateInv
    <2> QED BY <1>1, <2>2, <2>3, <2>4 DEF LateInv
  <1>9. WatchInv'
    <2> SUFFICES ASSUME watch.on PROVE -Tick <= Drift' /\ Drift' < Q
      BY <1>1 DEF WatchInv
    <2>1. -Tick <= Drift /\ Drift < Q BY <1>1 DEF WatchInv
    <2>2. Drift = Tick * watch.ticks - watch.since - tick + left
      BY <1>1 DEF Drift, Ahead
    <2>3. Drift' = Tick * watch.ticks - watch.since - (tick - d) + (left - d)
      BY <1>1 DEF Drift, Ahead
    <2>4. Tick * watch.ticks \in Int /\ watch.since \in Int
      BY <1>1, TimeAssumption
    <2> QED BY <1>2, <1>3, <2>1, <2>2, <2>3, <2>4
  <1> QED BY <1>6, <1>7, <1>8, <1>9

\* Every step preserves the invariant.
LEMMA NextInv == Inv /\ [Next]_vars => Inv'
  <1> SUFFICES ASSUME Inv, [Next]_vars PROVE Inv' OBVIOUS
  <1>1. TypeOK /\ LateInv BY DEF Inv
  <1>2. Open \in BOOLEAN BY DEF Open
  <1>3. CASE Plain
    BY <1>2, <1>3, InstructionInv, TimeAssumption DEF Plain
  <1>4. CASE StoreMiss
    <2>1. PICK c \in StoreCosts : Instruction(c, Open) BY <1>4 DEF StoreMiss
    <2>2. c \in 0 .. MaxStore BY TimeAssumption
    <2> QED BY <1>2, <2>1, <2>2, InstructionInv
  <1>5. CASE SetEnabled
    <2>1. 0 \in 0 .. MaxStore /\ TRUE \in BOOLEAN /\ FALSE \in BOOLEAN
      BY TimeAssumption
    <2> QED BY <1>5, <2>1, InstructionInv DEF SetEnabled
  <1>6. CASE ReadMtime
    <2> DEFINE w == [on |-> TRUE, ticks |-> 0, since |-> 0]
    <2>1. late' = 0 BY <1>1, <1>6 DEF ReadMtime, Taken, LateInv
    <2>2. Access /\ watch' = Elapsed(w, Mmio) /\ toGo' \in Nat
      BY <1>1, <1>6 DEF ReadMtime, TypeOK
    <2>3. /\ w \in [on : BOOLEAN, ticks : Nat, since : 0 .. MaxSince]
          /\ w.ticks = 0 /\ w.since = 0
      BY TimeAssumption
    <2> HIDE DEF w
    <2> QED BY <2>1, <2>2, <2>3, AccessInv
  <1>7. CASE SetMtimecmp
    <2>1. toGo' \in Nat BY <1>7, TimeAssumption DEF SetMtimecmp
    <2> QED BY <1>1, <1>7, <2>1, AccessInv DEF SetMtimecmp, TypeOK
  <1>8. CASE OtherAccess
    <2>1. late' = 0 /\ toGo' \in Nat
      BY <1>1, <1>8 DEF OtherAccess, Taken, LateInv, TypeOK
    <2> QED BY <1>1, <1>8, <2>1, AccessInv DEF OtherAccess, TypeOK
  <1>9. CASE SyncReturns BY <1>9, SyncReturnsInv
  <1>10. CASE Ecall
    BY <1>10 DEF Inv, Ecall, TypeOK, NeverPastQuantum, LateInv, WatchInv
  <1>11. CASE TickThread BY <1>11, TickThreadInv
  <1>12. CASE AdvanceTime BY <1>12, AdvanceTimeInv
  <1>13. CASE UNCHANGED vars
    BY <1>13 DEF vars, Inv, TypeOK, NeverPastQuantum, LateInv, WatchInv,
                Drift, Ahead
  <1> QED
    BY <1>3, <1>4, <1>5, <1>6, <1>7, <1>8, <1>9, <1>10, <1>11, <1>12, <1>13
    DEF Next, Processor

-----------------------------------------------------------------------------

\* The invariant holds in every reachable state, however fast the program,
\* the clock and the memory are (CPU_thread, tick_thread).
THEOREM Invariance == Spec => []Inv
  <1> QED BY InitInv, NextInv, PTL DEF Spec

\* Every variable keeps its type; no wait is longer than the processor was
\* ahead, and none goes below zero (tlm_quantumkeeper).
THEOREM TypeCorrect == Spec => []TypeOK
  <1>1. Inv => TypeOK BY DEF Inv
  <1> QED BY <1>1, Invariance, PTL

\* The processor stays inside the quantum it started from (need_sync).
THEOREM NeverPastQuantumHolds == Spec => []NeverPastQuantum
  <1>1. Inv => NeverPastQuantum BY DEF Inv
  <1> QED BY <1>1, Invariance, PTL

\* The bound on how late a timer interrupt is taken (checkInterrupts).
THEOREM TimerLatencyHolds == Spec => []TimerLatency
  <1>1. Inv => TimerLatency
    <2> SUFFICES ASSUME Inv PROVE TimerLatency OBVIOUS
    <2>1. late \in Nat /\ left \in Nat /\ cpu \in {"running", "access", "sync", "stopped"}
      BY DEF Inv, TypeOK
    <2> QED BY <2>1, TimeAssumption DEF Inv, LateInv, TimerLatency
  <1> QED BY <1>1, Invariance, PTL

\* The bound on the error of an interval measured with mtime (memRead).
THEOREM MeasuredTimeHolds == Spec => MeasuredTime
  <1> DEFINE error == Tick * watch.ticks - watch.since
  <1>1. ASSUME Inv, ReadMtime, watch.on
        PROVE  -(Q + Tick) < error /\ error < Q + Tick
    <2>1. /\ cpu = "running" /\ local \in Nat /\ phase \in Nat /\ tick \in Nat
          /\ tick <= Tick /\ phase + local < Q
      BY <1>1, TimeAssumption
      DEF Inv, TypeOK, NeverPastQuantum, ReadMtime, Access
    <2>2. -Tick <= Drift /\ Drift < Q BY <1>1, <2>1 DEF Inv, WatchInv
    <2>3. Drift = error - tick + local BY <2>1 DEF Drift, Ahead
    <2>4. error \in Int BY <1>1, TimeAssumption DEF Inv, TypeOK
    <2>5. Q \in Nat /\ Tick \in Nat BY TimeAssumption
    <2> HIDE DEF error
    <2> QED BY <2>1, <2>2, <2>3, <2>4, <2>5
  <1>2. Inv /\ [Next]_vars
          => [ReadMtime /\ watch.on =>
                -(Q + Tick) < error /\ error < Q + Tick]_vars
    BY <1>1
  <1> QED BY <1>2, Invariance, PTL DEF Spec, MeasuredTime
=============================================================================
