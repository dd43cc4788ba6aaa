------------------------------ MODULE Quantum ------------------------------
(***************************************************************************)
(* Temporal decoupling: the processor runs ahead of simulated time on a    *)
(* local clock of its own (tlm_quantumkeeper) and lets time pass only when *)
(* a quantum is full and after an access to a device.  SystemC is          *)
(* cooperative, so until it does nothing else runs: what it reads from a   *)
(* device, and the interrupts it sees, are of the time it started from.    *)
(*                                                                         *)
(* One action is what a process does between two waits or, for the         *)
(* processor, one instruction of an arbitrary program.  Time is relative:  *)
(* the phase of the current quantum, and how long each process still waits.*)
(* Processes that are ready at the same instant run in any order.          *)
(***************************************************************************)
EXTENDS Integers

CONSTANTS
  Q,              \* the global quantum, 100 ns
  Tick,           \* period of the CLINT's clock, 10 ns
  Instr,          \* what CPU_thread adds for an instruction, 10 ns
  Mmio,           \* what a device adds to an access, 1 ns
  StoreCosts,     \* what the memory adds to a store that misses the cache:
                  \*   the write latency and what is left of a refresh
  MaxStore,       \* the most it adds, 80 ns
  Deadlines,      \* the distances, in ticks, at which programs set mtimecmp
  MaxSince        \* bound: the longest interval that is measured

ASSUME TimeAssumption ==
  /\ Q \in Nat \ {0} /\ Tick \in Nat \ {0} /\ Instr \in Nat \ {0}
  /\ Mmio \in Nat /\ MaxSince \in Nat
  /\ MaxStore \in Nat /\ Mmio <= MaxStore
  /\ StoreCosts \subseteq 0 .. MaxStore /\ Deadlines \subseteq Nat

VARIABLES
  phase,          \* sc_time_stamp() % Q
  cpu,            \* CPU_thread: "running", or waiting in an "access", at the
                  \*   end of an instruction ("sync"), or "stopped" by ECALL
  local,          \* qk's local time
  left,           \* how long CPU_thread still waits
  tick,           \* how long tick_thread still waits
  toGo,           \* ticks until mtime reaches mtimecmp, 0 from then on
  enabled,        \* MIE and MTIE
  late,           \* history: how long an enabled request has been standing
  watch           \* history: since the program last read mtime, the ticks
                  \*   of mtime and the local time that have passed

vars == <<phase, cpu, local, left, tick, toGo, enabled, late, watch>>

NoWatch == [on |-> FALSE, ticks |-> 0, since |-> 0]

TypeOK ==
  /\ phase \in 0 .. Q - 1
  /\ cpu \in {"running", "access", "sync", "stopped"}
  /\ local \in Nat /\ left \in 0 .. local
  /\ tick \in 0 .. Tick
  /\ toGo \in Nat /\ enabled \in BOOLEAN /\ late \in Nat
  /\ watch \in [on : BOOLEAN, ticks : Nat, since : 0 .. MaxSince]

Init ==
  /\ phase = 0 /\ cpu = "running" /\ local = 0 /\ left = 0
  /\ tick = Tick
  /\ toGo = 0 /\ enabled = FALSE
  /\ late = 0 /\ watch = NoWatch

(***************************************************************************)
(* The quantum keeper                                                      *)
(***************************************************************************)

\* Mutant: a full quantum is noticed one step too late.
NeedSyncLate(at, ahead) == at + ahead > Q

\* need_sync() at phase `at' of the quantum: the next synchronisation point
\* is the end of the quantum in which the last reset took place.
NeedSync(at, ahead) == at + ahead >= Q

\* inc(Instr) at the end of an instruction, and sync() if it fills the quantum.
EndInstruction(at, ahead) ==
  /\ local' = ahead + Instr
  /\ IF NeedSync(at, ahead + Instr)
     THEN cpu' = "sync" /\ left' = ahead + Instr
     ELSE cpu' = "running" /\ left' = 0

\* The local clock, and the history with it, advances by d.
Elapsed(w, d) == IF w.on /\ w.since + d <= MaxSince
                 THEN [w EXCEPT !.since = @ + d] ELSE NoWatch

(***************************************************************************)
(* Instructions                                                            *)
(***************************************************************************)

\* Mutant: interrupts are looked for after a synchronisation only.
TakenAtSync == enabled /\ toGo = 0 /\ local = 0

\* checkInterrupts, before each instruction: the timer interrupt.  It
\* disables interrupts, and the instruction is the handler's first.
Taken == enabled /\ toGo = 0

\* What the check leaves of the enable bits.
Open == enabled /\ ~Taken

\* An instruction between whose start and end time does not pass; `now' is
\* what it makes of the enable bits.
Instruction(cost, now) ==
  /\ cpu = "running"
  /\ enabled' = now
  /\ late' = IF Taken THEN 0 ELSE late
  /\ EndInstruction(phase, local + cost)
  /\ watch' = Elapsed(watch, cost + Instr)
  /\ UNCHANGED <<phase, tick, toGo>>

\* Anything that meets the cache only: fetches, loads and stores that hit
\* add nothing, and neither does the fill of a line.
Plain == Instruction(0, Open)

\* A store that misses is charged with what the memory adds.
StoreMiss == \E c \in StoreCosts : Instruction(c, Open)

\* Mutant: the time of these instructions is not counted.
SetEnabledUntimed ==
  /\ cpu = "running"
  /\ enabled' \in BOOLEAN
  /\ UNCHANGED <<phase, cpu, local, left, tick, toGo, late, watch>>

\* MRET, or a write of mstatus or mie.
SetEnabled == Instruction(0, TRUE) \/ Instruction(0, FALSE)

\* Mutant: the local clock is put back without a wait.
WaitAccessReset ==
  /\ cpu' = "access" /\ left' = 0 /\ local' = local + Mmio

\* memRead and memWrite: sync() after the access.
WaitAccess ==
  /\ cpu' = "access"
  /\ local' = local + Mmio /\ left' = local + Mmio

Access ==
  /\ cpu = "running"
  /\ enabled' = Open
  /\ WaitAccess
  /\ UNCHANGED <<phase, tick>>

\* mtime is read, as it is at the simulated time.
ReadMtime ==
  /\ Access
  /\ watch' = Elapsed([on |-> TRUE, ticks |-> 0, since |-> 0], Mmio)
  /\ late' = IF Taken THEN 0 ELSE late
  /\ UNCHANGED toGo

SetMtimecmp ==
  /\ Access
  /\ toGo' \in Deadlines
  /\ watch' = Elapsed(watch, Mmio)
  /\ late' = 0

OtherAccess ==
  /\ Access
  /\ watch' = Elapsed(watch, Mmio)
  /\ late' = IF Taken THEN 0 ELSE late
  /\ UNCHANGED toGo

\* ECALL stops the simulation, the kernel with it.
Ecall ==
  /\ cpu = "running"
  /\ cpu' = "stopped"
  /\ UNCHANGED <<phase, local, left, tick, toGo, enabled, late, watch>>

\* sync() returns with the keeper reset.  An access still has its
\* instruction to finish.
SyncReturns ==
  /\ cpu \in {"access", "sync"} /\ left = 0
  /\ \/ /\ cpu = "access"
        /\ EndInstruction(phase, 0)
        /\ watch' = Elapsed(watch, Instr)
     \/ /\ cpu = "sync"
        /\ cpu' = "running" /\ local' = 0 /\ left' = 0
        /\ watch' = watch
  /\ UNCHANGED <<phase, tick, toGo, enabled, late>>

Processor ==
  \/ Plain \/ StoreMiss \/ SetEnabled
  \/ ReadMtime \/ SetMtimecmp \/ OtherAccess
  \/ SyncReturns

(***************************************************************************)
(* The CLINT and the kernel                                                *)
(***************************************************************************)

Waiting == cpu \in {"access", "sync"}

\* tick_thread: mtime++ and the next wait.
TickThread ==
  /\ Waiting /\ tick = 0
  /\ tick' = Tick
  /\ toGo' = IF toGo = 0 THEN 0 ELSE toGo - 1
  /\ watch' = IF watch.on THEN [watch EXCEPT !.ticks = @ + 1] ELSE watch
  /\ UNCHANGED <<phase, cpu, local, left, enabled, late>>

\* Mutant: time advances to the next tick, past the end of the wait.
AdvanceTimeToTick ==
  /\ Waiting /\ left > 0 /\ tick > 0
  /\ phase' = (phase + tick) % Q
  /\ left' = left - tick /\ tick' = 0
  /\ late' = IF enabled /\ toGo = 0 THEN late + tick ELSE late
  /\ UNCHANGED <<cpu, local, toGo, enabled, watch>>

\* No process is ready: time advances to the next that will be.
AdvanceTime ==
  /\ Waiting /\ left > 0 /\ tick > 0
  /\ LET d == IF left < tick THEN left ELSE tick
     IN  /\ phase' = (phase + d) % Q
         /\ left' = left - d /\ tick' = tick - d
         /\ late' = IF enabled /\ toGo = 0 THEN late + d ELSE late
  /\ UNCHANGED <<cpu, local, toGo, enabled, watch>>

Next == Processor \/ Ecall \/ TickThread \/ AdvanceTime

Spec == Init /\ [][Next]_vars

\* A process that is ready is run, and time advances when none is.
FairSpec == Spec /\ WF_vars(Processor) /\ WF_vars(TickThread)
                 /\ WF_vars(AdvanceTime)

(***************************************************************************)
(* Properties                                                              *)
(***************************************************************************)

\* The processor never acts past the end of the quantum it started from:
\* every load, store and device access falls, in local time, into the same
\* quantum as the simulated time at which the others see it.
NeverPastQuantum == cpu = "running" => phase + local < Q

\* A program that measures time with mtime is wrong by less than a quantum
\* and a tick, although mtime stands still while it runs ahead.
MeasuredTime ==
  [][ReadMtime /\ watch.on =>
       LET error == Tick * watch.ticks - watch.since
       IN  -(Q + Tick) < error /\ error < Q + Tick]_vars

\* An enabled timer interrupt is taken in less than a quantum, the longest
\* store and an instruction of simulated time, even if the processor resumes
\* at the very instant of the tick and before it.
TimerLatency == late < Q + MaxStore + Instr

\* Whatever the program does, a loop that polls a device or nothing at all
\* included, the devices' clock goes on until the program stops.
DevicesRun == <>(cpu = "stopped") \/ []<><<TickThread>>_vars
=============================================================================
