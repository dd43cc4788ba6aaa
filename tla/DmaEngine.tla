----------------------------- MODULE DmaEngine -----------------------------
(***************************************************************************)
(* The DMA controller as its driver sees it: the register file, and the    *)
(* thread that polls CTRL and copies word by word through the AT path.     *)
(* The path is taken as what it promises (MemPort).  A call of the thread  *)
(* ends in one wait and the next begins in the same uninterrupted stretch, *)
(* so the return of a read and the call of the write are one action.       *)
(*                                                                         *)
(* Addresses are aligned byte addresses; a 64-bit address is a pair of     *)
(* 32-bit registers, here of width Half, which stands for 2^32.            *)
(***************************************************************************)
EXTENDS Naturals, FiniteSets

CONSTANTS
  Half,           \* 2^32
  Windows,        \* the addresses at which the memory is mapped
  MemBytes,       \* its size
  NoOffset,       \* no target decodes the address
  Val, Zero,      \* word values; the initial value of m_read_data
  LoVals, HiVals, SizeVals, CtrlVals    \* what drivers write

ASSUME WidthAssumption ==
  /\ Half \in Nat \ {0} /\ Half % 4 = 0
  /\ MemBytes \in Nat /\ MemBytes % 4 = 0
  /\ Windows \in SUBSET {b \in 0 .. Half * Half - 1 :
                           b % 4 = 0 /\ b + MemBytes <= Half * Half}
  /\ \A b, c \in Windows : b < c => b + MemBytes <= c
ASSUME DriverAssumption ==
  /\ LoVals \in SUBSET {v \in 0 .. Half - 1 : v % 4 = 0}
  /\ HiVals \in SUBSET (0 .. Half - 1)
  /\ SizeVals \in SUBSET (0 .. Half - 1)
  /\ CtrlVals \in SUBSET (0 .. Half - 1)
ASSUME ValueAssumption == Zero \in Val /\ NoOffset \notin Nat

VARIABLES
  m_src_addr, m_dst_addr, m_size, m_ctrl,     \* the registers
  pc,             \* transfer_thread: "idle", "reading" or "writing"
  offset,         \* its loop variable, 32 bits wide
  mem, port, buf, \* the AT path and the memory behind it
  job             \* history: the transfer under way, or the last one

regVars  == <<m_src_addr, m_dst_addr, m_size, m_ctrl>>
portVars == <<mem, port, buf>>
vars == <<m_src_addr, m_dst_addr, m_size, m_ctrl, pc, offset,
          mem, port, buf, job>>

dma == "dma"
Wide == Half * Half
Offset == {o \in 0 .. MemBytes - 1 : o % 4 = 0}

Path == INSTANCE MemPort WITH Client <- {dma}

\* Mutant: the region ends one address late.
HoldingInclusive(a) == {b \in Windows : b <= a /\ a <= b + MemBytes}

\* Interconnect: the offset of an absolute address in the memory.
Holding(a) == {b \in Windows : b <= a /\ a < b + MemBytes}
Decode(a) == IF Holding(a) = {} THEN NoOffset
             ELSE a - CHOOSE b \in Holding(a) : TRUE

(***************************************************************************)
(* History.  A job is clean while it has the two blocks to itself and its  *)
(* registers are left alone, and they lie in one window of the memory each.*)
(***************************************************************************)
Words(bytes) == (bytes + 3) \div 4

Within(a, bytes) ==
  /\ Decode(a) # NoOffset
  /\ Decode(a) + 4 * Words(bytes) <= MemBytes

NoJob == [clean |-> FALSE, from |-> 0, to |-> 0, bytes |-> 0,
          base |-> [o \in Offset |-> Zero]]

NewJob ==
  LET inside == /\ Within(m_src_addr, m_size) /\ Within(m_dst_addr, m_size)
                /\ 4 * Words(m_size) < Half
  IN  IF inside THEN [clean |-> TRUE, from |-> Decode(m_src_addr),
                      to |-> Decode(m_dst_addr), bytes |-> m_size,
                      base |-> mem]
      ELSE NoJob

Block(start, bytes) == {start + 4 * k : k \in 0 .. Words(bytes) - 1}
Claimed(j) == Block(j.from, j.bytes) \cup Block(j.to, j.bytes)

\* A forward copy whose target starts inside its source repeats the words
\* in front of the target.
Origin(j, k) ==
  IF j.from < j.to THEN j.from + 4 * (k % ((j.to - j.from) \div 4))
  ELSE j.from + 4 * k

\* The memory once n words of job j have been copied.
Copied(j, n) ==
  [o \in Offset |->
     IF o \in Block(j.to, 4 * n) THEN j.base[Origin(j, (o - j.to) \div 4)]
     ELSE j.base[o]]

WordsWritten ==
  IF pc = "idle" THEN Words(job.bytes)
  ELSE IF pc = "writing" /\ port[dma].st = "done" THEN offset \div 4 + 1
  ELSE offset \div 4

TypeOK ==
  /\ m_src_addr \in 0 .. Wide - 1 /\ m_dst_addr \in 0 .. Wide - 1
  /\ m_size \in 0 .. Half - 1 /\ m_ctrl \in 0 .. Half - 1
  /\ pc \in {"idle", "reading", "writing"}
  /\ offset \in 0 .. Half - 1 /\ offset % 4 = 0
  /\ mem \in [Offset -> Val] /\ buf \in [{dma} -> Val]
  /\ port \in [{dma} -> [st : {"idle", "busy", "refused", "done"},
                         cmd : {"none", "read", "write"},
                         off : Offset \cup {NoOffset}]]
  /\ job \in [clean : BOOLEAN, from : Nat, to : Nat,
              bytes : 0 .. Half - 1, base : [Offset -> Val]]

Init ==
  /\ m_src_addr = 0 /\ m_dst_addr = 0 /\ m_size = 0 /\ m_ctrl = 0
  /\ pc = "idle" /\ offset = 0
  /\ Path!Init
  /\ job = NoJob

(***************************************************************************)
(* The driver: MMIO stores, at any time                                    *)
(***************************************************************************)

SetLo(r, v) == (r \div Half) * Half + v
SetHi(r, v) == (v * Half) + (r % Half)

\* b_transport, write: either half of an address keeps the other.
RegisterStore ==
  /\ \/ /\ \E v \in LoVals : m_src_addr' = SetLo(m_src_addr, v)
        /\ UNCHANGED <<m_dst_addr, m_size, m_ctrl>>
     \/ /\ \E v \in HiVals : m_src_addr' = SetHi(m_src_addr, v)
        /\ UNCHANGED <<m_dst_addr, m_size, m_ctrl>>
     \/ /\ \E v \in LoVals : m_dst_addr' = SetLo(m_dst_addr, v)
        /\ UNCHANGED <<m_src_addr, m_size, m_ctrl>>
     \/ /\ \E v \in HiVals : m_dst_addr' = SetHi(m_dst_addr, v)
        /\ UNCHANGED <<m_src_addr, m_size, m_ctrl>>
     \/ /\ m_size' \in SizeVals
        /\ UNCHANGED <<m_src_addr, m_dst_addr, m_ctrl>>
     \/ /\ m_ctrl' \in CtrlVals
        /\ UNCHANGED <<m_src_addr, m_dst_addr, m_size>>
  /\ job' = IF pc = "idle" THEN job ELSE NoJob
  /\ UNCHANGED <<pc, offset, mem, port, buf>>

\* Any other store of the processor to the memory.
MemoryStore(o, v) ==
  /\ Path!Store(o, v)
  /\ job' = IF ~job.clean \/ o \in Claimed(job) THEN NoJob
            ELSE [job EXCEPT !.base[o] = v]
  /\ UNCHANGED <<regVars, pc, offset>>

(***************************************************************************)
(* transfer_thread                                                         *)
(***************************************************************************)

\* The thread calls the AT path, having returned from its last call.
Call(cmd, a, word) ==
  /\ port' = [port EXCEPT ![dma] =
                [st  |-> IF Decode(a) = NoOffset THEN "refused" ELSE "busy",
                 cmd |-> cmd, off |-> Decode(a)]]
  /\ buf' = [buf EXCEPT ![dma] = word]
  /\ mem' = mem

StartReading(at) ==
  /\ pc' = "reading" /\ offset' = at
  /\ Call("read", (m_src_addr + at) % Wide, buf[dma])
  /\ UNCHANGED m_ctrl

Finish ==
  /\ pc' = "idle" /\ offset' = 0
  /\ m_ctrl' = 0
  /\ port' = [port EXCEPT ![dma] = Path!Idle]
  /\ UNCHANGED <<mem, buf>>

\* Mutant: CTRL is cleared when the last word is begun.
LoopEager(at) ==
  \/ at < m_size /\ at + 4 < m_size /\ StartReading(at)
  \/ /\ at < m_size /\ at + 4 >= m_size
     /\ pc' = "reading" /\ offset' = at /\ m_ctrl' = 0
     /\ Call("read", (m_src_addr + at) % Wide, buf[dma])
  \/ at >= m_size /\ Finish

\* Mutant: the loop ends when the offset equals the size.
LoopUntilEqual(at) ==
  \/ at # m_size /\ StartReading(at)
  \/ at = m_size /\ Finish

\* for (offset = ...; offset < m_size; ...), with the size of this moment.
Loop(at) ==
  \/ at < m_size /\ StartReading(at)
  \/ at >= m_size /\ Finish

\* The poll every 10 ns; the driver may have written again since the start.
Wake ==
  /\ pc = "idle" /\ m_ctrl % 2 = 1
  /\ Loop(0)
  /\ job' = NewJob
  /\ UNCHANGED <<m_src_addr, m_dst_addr, m_size>>

\* Mutant: the word goes to the place of the next one.
ReadReturnsAhead ==
  /\ pc = "reading" /\ port[dma].st = "done"
  /\ pc' = "writing"
  /\ Call("write", (m_dst_addr + offset + 4) % Wide, buf[dma])
  /\ UNCHANGED <<regVars, offset, job>>

\* readWordAT returns and writeWordAT calls, with the target of this moment.
ReadReturns ==
  /\ pc = "reading" /\ port[dma].st = "done"
  /\ pc' = "writing"
  /\ Call("write", (m_dst_addr + offset) % Wide, buf[dma])
  /\ UNCHANGED <<regVars, offset, job>>

\* writeWordAT returns; offset += 4 in 32 bits.
WriteReturns ==
  /\ pc = "writing" /\ port[dma].st = "done"
  /\ Loop((offset + 4) % Half)
  /\ UNCHANGED <<m_src_addr, m_dst_addr, m_size, job>>

\* The memory serves the request that is out.
Serve == Path!Serve(dma) /\ UNCHANGED <<regVars, pc, offset, job>>

Thread == Wake \/ ReadReturns \/ WriteReturns

Next ==
  \/ RegisterStore
  \/ \E o \in Offset, v \in Val : MemoryStore(o, v)
  \/ Thread
  \/ Serve

Spec == Init /\ [][Next]_vars

\* The thread's waits are timed, and the AT path serves what it accepts.
FairSpec == Spec /\ WF_vars(Thread) /\ WF_vars(Serve)

(***************************************************************************)
(* Properties                                                              *)
(***************************************************************************)

\* At every moment of a transfer that is left alone, overlapping blocks and
\* unrelated stores of the processor included, exactly the first words of
\* the block have been copied and nothing else has changed.
CopiedSoFar == job.clean => mem = Copied(job, WordsWritten)

\* The polling loop of test_dma.c: a driver that sees the start bit clear
\* after a transfer it left alone finds the whole block copied and the
\* engine at rest, with no access of it still on its way.
PollSeesCopy ==
  job.clean /\ m_ctrl % 2 = 0 =>
    /\ mem = Copied(job, Words(job.bytes))
    /\ pc = "idle" /\ port[dma] = Path!Idle

\* Whatever the driver writes meanwhile, an engine that has been started
\* comes to rest with the start bit clear, as long as no size is within
\* four bytes of 2^32.
TransferEnds ==
  (pc # "idle" \/ m_ctrl % 2 = 1) ~> (pc = "idle" /\ m_ctrl % 2 = 0)
=============================================================================
