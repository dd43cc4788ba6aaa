# TLA+ models of riscv-soc-tlm

A RISC-V system-on-chip simulator in SystemC/TLM-2.0: one RV32 core, a unified
cache, an interconnect, a DRAM-like memory and four devices (DMA, Display, FPU,
CLINT). This directory holds TLA+ specifications of its protocols, the TLC
configurations that check them on small instances, and proofs for TLAPS.

## 1. The system

```
 CPU --LT--> Cache --LT--> Interconnect --> Memory (two mappings)
                            ^   ^      `--> DMA, Display, FPU, CLINT registers
 DMA ----AT-----------------'   |
 Display -AT--------------------'
```

LT is the blocking `b_transport`; AT the four-phase `nb_transport` protocol
BEGIN_REQ, END_REQ, BEGIN_RESP, END_RESP. SystemC is cooperative: a process
runs from one `wait()` to the next without interruption, so interleaving occurs
at waits only, but the order of the processes that are runnable in one
evaluation phase is not specified.

| component | state | operations | what makes it correct |
|---|---|---|---|
| SoCMM, HopCtx (`tlm/soc_common.h`) | pool of payloads, reference counts, hop context per payload | allocate, free (at the last release) | a payload in use is never handed out; the pool is bounded; a recycled payload carries no stale route |
| Interconnect | address regions, upstream ports | b_transport, nb_transport_fw/bw, DMI, invalidate, debug | each response goes to its issuer with the absolute address restored |
| Memory | bytes, PEQ, refresh state | b_transport, nb_transport_fw, peq_cb, refresh_thread, DMI, debug, loadHex, loadELF | each request is served once, atomically, not during a refresh it met |
| Cache | sets of lines, hit/miss counters | b_transport, nb_transport_fw, reset_stats | loads see the last store; LRU; errors are passed on |
| DMA | src, dst, size, ctrl registers; the AT transfer under way | register access, transfer_thread, nb_transport_bw | every transfer returns; what is copied is what was asked |
| Display | framebuffer registers, AT transfer | register access, refresh_thread, nb_transport_bw | every pixel read returns; a frame of one buffer |
| FPU | operands, operation, result, status, ctrl | register access, compute_thread | DONE means the result of the last start |
| CLINT | mtime, mtimecmp, msip | register access, tick_thread, interrupt_pending | the timer interrupt is pending iff mtime >= mtimecmp |
| CPU | registers, CSRs, quantum keeper, DMI cache | CPU_thread, memRead, memWrite, traps, the instructions | bounded skew to the devices; traps keep and restore state; each instruction does what RV32I says |
| main | the address map, the image | load, map, start | an image is read back from where it was linked, through either mapping |

How they interact: calls down (`b_transport`, `nb_transport_fw`) and up
(`nb_transport_bw`) the sockets, `sc_event`s between a backward call and the
thread that waits, shared payload objects between all AT initiators and the
memory, registers shared between a device's `b_transport` (run by the CPU's
thread) and its own thread.

Hard behaviour: interleaving of threads and PEQ callbacks within a delta cycle;
events that are lost when nobody waits; object recycling under reference
counting; delays that meet a refresh; copies of one memory word in the cache; a
processor that runs ahead of the devices' time; registers written while a
thread works from them; errors that are dropped halfway; counters that wrap.
`PROJECT.json` lists the hazards line by line, each with the properties that
would catch it going wrong.

## 2. Modules

| module | models | status |
|---|---|---|
| `MemPort` | abstract: a memory port that serves each request once, atomically | done |
| `ATTransport` | SoCMM, hop context, initiator threads of DMA and Display, AT path of Interconnect and Memory, refresh, the SystemC kernel; implements `MemPort` | done |
| `MCATTransport` | instances of `ATTransport` | done |
| `ATTransportProofs` | theorems about `ATTransport` | done |
| `FlatMemory` | abstract: one word per address | done |
| `Cache` | the cache with its memory and the other masters; implements `FlatMemory` when alone | done |
| `MCCache` | instances of `Cache` | done |
| `CacheProofs` | theorems about `Cache` | done |
| `DmaEngine` | register interface and copy loop of the DMA on top of `MemPort` | done |
| `MCDmaEngine` | instance of `DmaEngine` | done |
| `DmaEngineProofs` | theorems about `DmaEngine` | done |
| `Fpu` | register protocol against `compute_thread` | done |
| `MCFpu` | instance of `Fpu` | done |
| `FpuProofs` | theorems about `Fpu` | done |
| `Interrupts` | CLINT, CSRs, the check before each instruction, traps and MRET | done |
| `MCInterrupts` | instance of `Interrupts` | done |
| `InterruptsProofs` | theorems about `Interrupts` | done |
| `DisplayEngine`, `MCDisplayEngine` | framebuffer registers and the frame on top of `MemPort` | done |
| `AddressMap`, `MCAddressMap` | image loaders, `toOffset`, regions, LT, debug and direct access | done |
| `Quantum`, `MCQuantum` | temporal decoupling: the CPU's local time against the CLINT's clock | done |
| `QuantumProofs` | theorems about `Quantum` | done |
| `RiscV` | abstract: RV32I and Zicsr on integers | done |
| `RiscVEncoding` | the assembler: instructions to words, as the ISA defines them (external) | done |
| `Isa`, `MCIsa` | fields, immediates, decoder, executor, register file on bits; implements `RiscV` | done |
| `DisplayEngineProofs` | theorems about `DisplayEngine` | done |
| `AddressMapProofs` | theorems about `AddressMap` | done |

The order is that of importance: the AT path carries all concurrency of the
data path and everything else is driven through it or through the cache. How
the modules stand on each other: `ATTransport` implements `MemPort`, and
`DmaEngine` and `DisplayEngine` are built on `MemPort`; `Cache` implements
`FlatMemory`; `Isa` implements `RiscV`; `Interrupts` and `Quantum` look at one
and the same CLINT, `Interrupts` at what it requests, `Quantum` at when.

## 3. ATTransport

**State.** `gp` holds the payload objects (command, address, whose data word
they point to, response, reference count), `made` and `pool` what SoCMM has
created and holds, `hop` the Interconnect's context. `peq` is Memory's queue;
an entry is `due` (to be delivered in this evaluation phase), `delta` (in the
next) or `timed`. `refresh` is `refresh_thread`. A thread is described by `pc`
(running between transfers, or waiting for END_REQ, for the response, or the 1
ns before the release), `at` (`m_at_trans`), `timer`, its events `ev` notified
for the next delta, and whether it is in the runnable set `ready`.

**Actions.** One per uninterrupted stretch of code: `BeginReq` is everything
from `allocate()` to `wait(m_end_req_event)`, through both `nb_transport_fw`;
`BeginReqNoTarget` the same call where no region matches; `EndReqWakeup`,
`RespWakeup`, `ReleaseTrans` the stretches between the next waits;
`PeqBeginReq`, `PeqBeginResp`, `PeqEndResp` the branches of `peq_cb` with the
backward call into the Interconnect and the initiator; `RefreshThread`;
`LtStore`, a store of the processor; `Sleep`, the waits between words,
transfers and frames; `DeltaCycle` and `AdvanceTime`, the kernel. The kernel
and the TLM library are external to the repository and modelled from how it
uses them: an event wakes only a thread that waits for it at that moment;
whether `reset()` drops the hop context is left open.

**Abstractions.** Time is counted down, so no clock grows. A word is one value.
Which of several pooled payloads is reused is left open. `LtStore` carries no
delay. AT requests to device registers, which would go through the library's
nb-to-b adapter, are left out: DMA and Display are given memory addresses (or
unmapped ones).

**Checks.**

| run | bounds | shows |
|---|---|---|
| `at_safety` | DMA and Display, 3 payloads, two aliases of a word and an unmapped address, latency 2, tREFI 6, tRFC 3 | no payload in the pool while in use, phases routed home, the initiator releases last, at most one payload per initiator, no service before the end of the refresh met, no lost wakeup; the path implements `MemPort` |
| `at_liveness` | two words, all mapped, tREFI 4, tRFC 2 | the path implements `MemPort` with its fairness: every request is served, and every transfer returns |

Two initiators suffice to recycle a payload from one to the other, and three
payloads in `at_safety` are one more than `PoolBound` allows. tREFI and tRFC
are chosen so that every relative position of request, service and refresh
occurs. Two values in `at_safety` tell a load before a store from one after it;
two words in `at_liveness` tell the right word from the other. In `at_safety`
payloads are symmetric. `CHECK_DEADLOCK FALSE` is given where an unmapped DMA
read stops the program (`assert`, dma.cpp:173).

**Fairness.** `ThreadStep(i)`, `PeqCallback`, `RefreshThread` and `KernelStep`
are weakly fair: the kernel empties the set of runnable processes before it
goes on, and goes on as long as something is pending. Nothing is assumed of
which process it picks, and no thread is assumed to issue a request. There is
none on `LtStore`.

**Proofs** (`ATTransportProofs`, for every set of initiators, addresses, values
and payloads, every latency and refresh time above zero). `TypeOK` is proved
(`TypeCorrect`) and no longer part of a run. The invariants of the runs are not
inductive: that a payload in the pool is not queued depends on how many
references are left, that on which of the two holders has released, and that on
where the thread is when a phase is delivered. `Inv` ties them together:
`PoolInv` (a payload in use has one holder), `QueueInv` (one queued phase per
transfer; for each phase, the position of the thread, its event, the response
and the reference count 2), `ThreadInv` (a thread whose payload is not queued
holds the last reference, or was refused). `Invariance` proves `Safe => []Inv`,
one step per action; `NoUseAfterFree`, `RoutedHome`, `InitiatorReleasesLast`,
`RefreshStall` and the action property `NoLostWakeup` follow. `PoolBound` needs
one more fact, that a payload is only made when all made ones are held:
`Allocate` makes one only if the pool is empty. `PortRefined` proves that every
step maps to a step of `MemPort` or to none. Assumptions:
`InitiatorAssumption`, `DataAssumption`, `TimeAssumption`. That latencies are
not zero is necessary: BEGIN_RESP must not be delivered before the thread has
left its first wait.

## 4. Cache

**State.** `line` is `m_sets`; `tick` is `m_hits + m_misses`, of which the code
uses nothing but the sum; `mem` the words downstream; `resp` the answer to the
last access. An address is the triple set index, tag, offset, and `Home[s][t]`
the downstream line the Interconnect finds there. History variables: `since`
(ways used since a way was) defines least recently used independently of the
counters; `behind` (words overwritten downstream of a copy) defines what may be
stale.

**Actions.** `b_transport` does not wait anywhere on its way, so each branch is
one action: hit and miss of load and store, bypass, and the two misses on an
address without a target. `ReadMissUnmapped` leaves the outcome of
`m_sets[set][-1]` open: the program dies or answers OK with some value.
`ForwardWrite` is a write of another master past the cache, which in main's
wiring is the DMA's (`Memory::peq_cb`); `Cache::nb_transport_fw` would only pass
one on, and no initiator sits in front of the cache that calls it. `ResetStats`
is `reset_stats()`, which no code calls either.

**Abstractions.** Words instead of bytes, and no access crosses a word. Delays
are left out. The 64-bit counters do not wrap; `lru` has `LruRange` values.
Devices are words that other masters may write. `MaxTick` bounds the accesses
explored between two resets.

**Checks.**

| run | bounds | shows |
|---|---|---|
| `cache_alone` | a set of two ways, three tags, two values, 15 accesses, no `reset_stats` | implements `FlatMemory`; the victim of a full set is the least recently used line |
| `cache_shared` | five tags: two aliases, one of its own, a device, an unmapped one; another master; `reset_stats`; the counter wraps at 3 | one copy per tag; stale only where overwritten downstream; nothing cached from a device or a failed fill |

Sets do not interact but through `mem`, so one set is enough; two ways and
three tags give hits, fills and evictions in every order. A run ends when
`MaxTick` is reached or the program has died, hence `CHECK_DEADLOCK FALSE`.
Nothing here is about liveness: a call returns.

**Proofs** (`CacheProofs`, any geometry, map and masters). `TypeOK`, `OneCopy`,
`StaleOnlyBehind` and `ValidIsMapped` are inductive together: a store that hits
needs a downstream place for its line and must be the only copy. `LruVictim` is
proved for runs without `reset_stats` in which the counters stay below their
range, from `LruOrder`: the counters of two valid ways are ordered as their
last uses. `FlatRefined` proves that the cache implements `FlatMemory` under
`Alone`: no other master, no address without a target, no two addresses of one
line; the invariant added is that no copy is ever behind.

## 5. DmaEngine

**State.** The four registers, `pc` and `offset` of `transfer_thread`, and the
state of `MemPort` with the DMA as its only client. `MemPort` is what
`ATTransport` has been shown to implement, so the engine is checked on the
promise of the path and not on its phases. `readWordAT` returns and
`writeWordAT` calls in one stretch: `ReadReturns` is both, so `DmaEngine` uses
`MemPort`'s `Serve` and `Store` and its own `Call`. The history variable `job`
holds the blocks and the memory at the start of the current or last transfer
while nobody disturbs it ("clean").

**Actions.** `RegisterStore` (any half or register, at any time),
`MemoryStore`, `Wake` (the 10 ns poll), `ReadReturns`, `WriteReturns`, `Serve`.
`Loop` is the head of the `for` statement with `m_size` read anew; `Finish`
stores 0 in CTRL.

**Abstractions.** Addresses are aligned; 2^32 is `Half`. The targets are the
mappings of the memory; an address outside is refused and the thread hangs, as
in `ATTransport`. Register loads change nothing and are left out.

**Check.** `dma_copy`: registers of width 16, a memory of three words mapped so
that every address in reach is decoded, one mapping across the carry between
the address halves (none of main's lies there; the addition is one of 64 bits,
so it costs nothing to include); sizes 0, 7 and 12; any store of the processor
at any time.
`CopiedSoFar` compares the memory with a closed form of the copy at every step,
overlapping blocks included (`Origin`). `PollSeesCopy` is the protocol of
test_dma.c; it shows that the extra loop there (line 69) is not needed.
`TransferEnds` holds under weak fairness of the thread (its waits are timed)
and of the path (`at_liveness`), with registers rewritten at will. Sizes above
2^32 - 4 are excluded by `SizeVals`: with them `offset` wraps and the copy
never ends.

**Proofs** (`DmaEngineProofs`, for every width, memory map and everything
drivers write). The closed form becomes inductive with `ThreadInv`: the thread
still works for the job's registers, its request names the word `offset` of the
source or the target, and its buffer carries the word that belongs there.
`DecodeWithin` shows that no carry is lost between the address halves as long
as a block lies in one mapping. `ReadStep` is the step for overlapping blocks:
the next word of the source either has not been overwritten, or holds the word
copied there earlier, which is the one `Origin` names. `StoreElsewhere` covers
the stores of other masters. `WidthAssumption` says that mappings are aligned,
do not overlap and end below the width of an address.

Two more theorems tie the engine to its surroundings. `PathUsed`: every step
is one that `MemPort` allows, or `Turn`, the return of a call together with the
next one, which the code makes in one stretch. With `PortRefined` of
`ATTransportProofs` this closes the argument: what is proved of the engine
rests on what the AT path has been shown to do. `TransferAdvances` is the
safety half of `TransferEnds`: for sizes up to 2^32 - 4, which its statement
assumes, no word is copied twice in a transfer and `offset` never wraps,
whatever is stored to `m_size` meanwhile.

## 6. Fpu

**State.** `m_op` is the operation and its operands, `m_ctrl` the set of CTRL's
bits, `m_status` DONE, EXCEPTION and the cause. BUSY is left out: it is set and
cleared in one stretch, so no register load sees it. `m_result` names the
request it answers, so results of different requests differ. `job` is what the
driver started last.

**Actions.** `OperandStore` and `CtrlStore` are the stores of `b_transport`;
`Serve` is one wake-up of `compute_thread` that finds something to do.
`CauseOf` is the code's order of checks on top of `Ieee`, the class of the
arithmetic's result, which is the host's and a constant here.

**Checks.** `fpu_driver`: five operations and three kinds of operands, every
order of stores and wake-ups. A driver that polls the start bit gets its own
result and cause (`StartClearMeansResult`); a clear and a start in one store
leave the new exception only (`ClearThenStart`); no operation hides an earlier
exception (`ExceptionKept`); every start is served or taken back
(`StartServed`, with the thread's 100 ns wait as fairness). A driver that polls
STATUS instead of the start bit is not covered: see Findings.

**Proofs** (`FpuProofs`, any operations, operands and arithmetic). The
properties are inductive with `PendingMatches`: a pending start of a clean job
still has its operands, and its clear is pending with it.

## 7. Interrupts

**State.** `m_msip`, `m_mtimecmp`, `m_mtime`; `cpu` holds the pc and the CSRs,
with mstatus, mie and mip as sets of bits. History variables: `taken`, the
interrupt taken before the last instruction; `frame`, the pc a handler has
interrupted, as long as the program leaves mstatus and mepc alone; `meant`, the
deadline that the program means, or the two between which it is changing over.

**Actions.** `Tick` is `tick_thread`. Each instruction is one action and begins
with `Checked`, the effect of `checkInterrupts`: `Synced` is
`update_external_ip`, which overwrites mip, and the decision is made on what
that leaves. `CsrWrite` is CSRRW to CSRRCI,
any of which may leave any value; `Mret`; `ClintStore` stores msip or one half
of a register; `Ordinary` is any other instruction, with branches to anywhere.

**Abstractions.** The program is arbitrary: nothing relates the pc to the
instruction. `Tick` happens any number of times between two instructions, as
the processor is ahead of the kernel by up to a quantum or waits for it. An
access to a device ends in `qk.sync()`; ticks in that wait are ticks after the
instruction, as only registers and the pc are written after it. `Half` is 2^32,
program counters count words, so an mepc or mtvec that is not aligned is left
out. MPP, mscratch and the handler's registers are left out, and ECALL, which
stops the simulation.

**Changing the deadline.** mtimecmp is stored in two halves while mtime runs
and interrupts are enabled, and the device has no way to join them. A driver
that stores the halves one after the other means, for the model, what each
store leaves: the mixture is a deadline like any other. One that first stores
all ones to the low half, then the new high half, then the new low half, which
is what the RISC-V privileged manual advises, means the old deadline and then
the new one. `LowMeans` and `HighMeans` keep account of this in `meant`; any
store out of this order, a handler's in the middle included, ends the change.

**Check.** `irq_traps`: halves of one bit (a register has four values, wrap and
mixtures of an old and a new half included), three words, a direct and a
vectored handler. `NoEarlyTimer`: no timer interrupt before the earlier of the
deadlines that are meant. It takes all three stores, the ticks and the
instructions between them, and fails if a store of one half disturbs the other
(its mutant; it is what the Display's `m_fb_addr` does) or if mip keeps a
request of an earlier check. Interrupts are taken at both intermediate steps in the
run. `HandlerIsSafe` and `Resumes` say that one level of nesting, which is all
the CSRs hold, is enough, even if the source still asserts its request when the
handler returns. That an interrupt is taken if the CLINT asserts an enabled one
is the definition of `CauseNow` and not claimed as a property. Nothing is
claimed of liveness: the processor may never run.

**Proofs** (`InterruptsProofs`, any width, space of words and program).
`TypeOK` is proved and no longer part of the run. `HandlerIsSafe` with `TypeOK`
is inductive; the proofs go by one lemma for the check (`CheckEffect`) and one
for each instruction on top of it. `NoEarlyTimer` needs `MeantInv`: in the
middle of a change the low half of the register is all ones and its high half
that of the old deadline or already that of the new one, so that it is never
before both (`AllOnes`); the third store makes it the new deadline.
`LowInv` and `HighInv` are the two stores.

## 8. DisplayEngine

**State.** The four registers, `reading`, `x` and `y` of `refresh_thread`, and
`MemPort` with the Display as its client, as in `DmaEngine`. History: `told`,
what the driver has said of the framebuffer's address; `frame`, `shown` and
`held`, the frame under way, the pixels printed and what each word held since
the frame began. They are kept while the frame is "clean": the driver stores
the high half of the address once and before the low half, leaves the
dimensions alone and moves the framebuffer at most once in a frame.

**Actions.** `RegisterStore` (any register, any time), `MemoryStore`, `Wake`
(the poll every 100 us and the head of the loops), `PixelReturns` (a pixel is
printed and the loops go on, with the registers read anew), `Serve`.

**Abstractions.** Addresses are aligned; 2^32 is `Half`, 16 in the run. The
`|=` of `b_transport` is the constant operator `Or`, of which the module
assumes (`OrAssumption`) that it stays in the width and that 0 leaves the other
operand alone; in the run it is the OR of the bits. Printing is the history
`shown`. Between a pixel and the request for the next one the thread
does not wait (`readPixelAT` has its waits before it returns). The fallback
`readPixel` is off, as main() gives the device a memory manager.

**Check.** `display_frame`: registers of four bits, a memory of three words
mapped at every address in reach, one mapping across the carry between the
halves; dimensions 0 to 2. A frame of four pixels meets every store at every
pixel. `FrameShows` says that the screen shows a beginning of the old buffer
and the rest of the new one and no third place, `FrameFull` that it has exactly
its pixels. `FrameEnds` holds under weak fairness of the thread, whose waits
are timed, and of the path (`at_liveness`), with the registers rewritten at
will: the 32-bit loop variables bound the frame. A driver that stores the low
half first, or the high half twice, does not get the address it stored (see
Findings), which is why "clean" excludes it.

**Proofs** (`DisplayEngineProofs`, for every width, memory map, frame size and
everything drivers store). Neither property is inductive: `FrameShows` says
nothing of the pixel under way, `FrameFull` nothing before the frame ends. The
invariant adds that what the driver has said of the address is what the
register holds (`ToldInv`), that the loop variables count the pixels shown
(`FrameInv`: y * width + x), and that the request under way names the place of
the next pixel, in the old framebuffer or the new, and comes back with a word
that place has held (`ShowInv`, `Pending`). The place where the frame moves,
`cut`, is a witness: a store of the new address puts it behind the pixel under
way, whose address has been formed already. `PathUsed` is as in `DmaEngine`.
`FrameAdvances` is the safety half of `FrameEnds`: with dimensions rewritten at
will the thread comes to no pixel twice in a frame, and neither loop variable
wraps.

## 9. AddressMap

**State.** `mem` and `base_addr` of Memory, the position of the loader in its
file, and the history `want` and `linked`: what a reader should find at each
place of the mapping, as long as the image keeps to the rules that make it
readable.

**Actions.** `HexExtended` and `HexData`, the record types 04 and 00;
`ElfSegment`, `ElfOther` and `ElfRefused`, the program headers; `Start`. Then
`LtStore` and `AtStore`, the stores of the masters through `Interconnect` and
`Memory`, which check the end of the memory in different ways. What the reading
paths answer is `LtRead`, `DebugRead` and `DmiRead`.

**The rules.** They were found with the model, by weakening `linked` until TLC
objected. A HEX image is readable if its first data record starts a mapping (0
or 0x80000000) and all others lie in the same one: the first record gives the
base, and a record below it is lost. An ELF image is readable if every segment
lies in a mapping and, where the first program header is a segment, it starts
the low mapping and all others lie there, or lies in the high one and no other
segment follows unless it starts that mapping. An image that link.ld makes
keeps these rules.

**Abstractions.** Addresses are 0 to 31 instead of 32 bits wide, a byte has two
values. Syntax of the files, entry point, byte enables and streaming width are
left out: no master uses the latter two.

**Check.** `address_map`: six bytes mapped at 0 and 16, a device between,
images of up to three records or segments at the starts, insides and ends of
the mappings, accesses of 1, 2 and 4 bytes, so that every access crosses the
end of the memory somewhere. `ImageAndStores` and `PathsAgree`. `PathsAgree`
does not hold for a base inside the low mapping: the same address is then taken
as absolute by the one and as relative by the other. The range granted for
direct access is right, although nobody obtains it: the cache stands between
the processor and the Interconnect and registers no `get_direct_mem_ptr`, so
the processor's DMI cache stays empty, and no target ever calls
`invalidate_direct_mem_ptr`. `CHECK_DEADLOCK FALSE` because a program of three
parts ends.

**Proofs** (`AddressMapProofs`, for every map that the assumptions admit, every
size of memory and word, any image). `LinkInv` is inductive with the types: as
long as the image is readable the memory is what its readers expect, and its
base is 0 or at least 0x80000000 (`Plain`), so that an offset formed by the
Interconnect means itself. The second half is what a store needs to keep the
first: with another base `toOffset` may take the offset as absolute.
`ImageAndStoresHold` follows by `MappedPlace`, which splits an address of the
memory into its mapping and its offset, and `PathsAgreeHolds` holds for every
base that is not inside the low mapping, readable image or not. The proof
needed one fact that the model had left open: the mappings lie so far apart
that no access to one reaches the other (`SIZE + WordLen <= High` in
`InputAssumption`). main.cpp's sizes satisfy it; were the memory to fill the
space up to its high mapping, an AT store across its end would come out at its
beginning.

## 10. Quantum

**State.** Time is relative: the `phase` of the quantum, the processor's
`local` time, what is `left` of the waits of the processor and of
`tick_thread`, and the ticks `toGo` until mtimecmp. History: `late`, how long
an enabled request has stood, in simulated time; `watch`, the ticks and the
local time since the program last read mtime.

**Actions.** One per instruction of an arbitrary program (`Plain`, `StoreMiss`,
`SetEnabled`, `ReadMtime`, `SetMtimecmp`, `OtherAccess`, `Ecall`), with what
each adds to the local time; `SyncReturns`; `TickThread`; `AdvanceTime`, which
moves to the next process that becomes ready. Processes ready at one instant
run in either order. `tlm_quantumkeeper` is external and modelled from how the
code uses it.

**Check.** `quantum`: a quantum of 12, ticks and instructions of 4, a device
access of 1, stores of up to 10, so that instructions end before, at and after
the ends of ticks and quanta. `NeverPastQuantum`; `TimerLatency` (less than a
quantum, the longest store and an instruction); `MeasuredTime` (an interval
measured with mtime is wrong by less than a quantum and a tick); `DevicesRun`:
no program keeps the devices from running. Fairness: SystemC runs a process
that is ready, and advances time when none is.

**Proofs** (`QuantumProofs`, every quantum, period, latency and program; the
lengths need not divide each other). The bounds become inductive with how long
the processor has still to wait: `LateInv` bounds `late` by how far it was
ahead less what is left of the wait, `WatchInv` relates the ticks seen to the
local time through the phases of the two clocks.

## 11. Isa and RiscV

`RiscV` is what an assembler programmer is promised: instructions on integers,
records instead of words. `RiscVEncoding` turns such a record into a word, with
the formats of the RISC-V manual. `Isa` is the code: it cuts fields and
immediates out of the word with C's shifts and masks, on sets of bits, as
`base_isa.h` does, and decodes and executes as `Executor` does. The two are
independent in their arithmetic, so that a shift by the wrong number or a
missing sign extension cannot be wrong in both. `RvSpec` states that every step
of `Isa` is the step of `RiscV` for the instruction that was encoded.

**Bounds.** `isa`: registers are 28 bits wide, so that TLC's integers hold sums
and products of them; instruction words have 32 bits. Registers x0 to x3.
Programs of four instructions: two put values from the ends of the ranges into
registers, one is any of some 180 instructions with registers that coincide or
not and immediates at their ends, and one looks at what it has left. Store
offsets are 0 and 1 (see Findings; `isa_store` has 32). `CHECK_DEADLOCK FALSE`:
a program ends.

**What the promise leaves open.** A word that no case of the decoder takes,
EBREAK included, is reported and passed over. funct7 is looked at for ADD, SUB,
SRL and SRA only: a word of the M extension such as MULH executes as SLL. ECALL
leaves the loop of the thread. Nothing here is proved.

## 12. Findings

1. `isa_store`: `imm_S` (base_isa.h:54) puts imm[11:5] into the place of
   imm[4:0]: the `<< 5` is missing, although the comments at base_isa.h:55-56
   set only the bottom five bits from rd and extend the sign from bit 11. A
   store goes to its base plus the two parts ORed: 32(sp) is written to 1(sp),
   -4(sp) to 127(sp). Loads have the right immediate and read another place.

Met while modelling, without a run of their own:

- A DMA write or a Display read of an unmapped address hangs its thread for
  ever (dma.cpp:223, display.cpp:121); a DMA read asserts. `at_safety` contains
  these states, `at_liveness` leaves the addresses out.
- AT and DMA writes leave stale lines in the cache, against the comment at
  cache.cpp:223-225, and the two mappings of the memory (main.cpp:99-100) are
  incoherent in the same way. `StaleOnlyBehind` says that nothing else does.
- A failed fill is answered with OK, through an access out of bounds
  (cache.cpp:208-211); `ReadMissUnmapped` has it.
- After a start, STATUS shows the DONE of the operation before until the thread
  wakes; BUSY is never visible (fpu.h:20).
- A store to the high half of `m_fb_addr` clears the low half and is ORed into
  the high half (display.cpp:46-50); the DMA and the CLINT keep the halves
  apart.
- The 32-bit LRU counter wraps while its sources have 64 bits, and
  `reset_stats()`, which no code calls, turns it back, so that the newest line
  is replaced first.
- A DMA size above 2^32 - 4 never ends, one that is not a multiple of four is
  rounded up; a start written during a transfer is lost with `m_ctrl = 0`.
- `mip.MSIP`, which csr.h:104 calls writable, is overwritten by
  `update_external_ip` (csr.h:125) before anything but a CSR instruction can
  look at it, so software raises the software interrupt through the CLINT only.
- Images outside the rules of section 9 are loaded without a message and read
  back wrong: an ELF base inside the low mapping, a second segment beside a
  first header that does not start the mapping, HEX records below the first.

## 13. What is only model-checked, and what is left out

Liveness (`PortSpec`'s fairness part, `EveryTransferCompletes`, `TransferEnds`,
`StartServed`, `FrameEnds`, `DevicesRun`) is checked by TLC only: temporal
reasoning under fairness is out of the prover's reach. Of `TransferEnds` and
`FrameEnds` the part without fairness is proved (`TransferAdvances`,
`FrameAdvances`): the loops only go forward, below a fixed bound. The
refinement of `RiscV` (`RvSpec`) stays with TLC: its sums over sets of bits
need induction over data. Everything else that the passing runs check, the
refinements of `FlatMemory` and of `MemPort`'s safety part included, is also
proved.

Not modelled: an access that crosses the end of a cache line, which compiled
code does not make and whose outcome is undefined; the processor's DMI cache
and the invalidation of DMI regions, which main's wiring never reaches (section
9); byte enables and streaming width; IEEE arithmetic, a constant of `Fpu`; the
entry point, ELF and hex syntax, the command line, printing, the statistics as
such, the verdict on the result word, the diagram generator; the test programs,
which were read for what they expect.

## 14. Running

`tlc -config ATSafety.cfg MCATTransport` and likewise for the other
configurations (`AT*.cfg` with `MCATTransport`, `Cache*.cfg` with `MCCache`,
`DmaCopy.cfg` with `MCDmaEngine`, `FpuDriver.cfg` with `MCFpu`, `IrqTraps.cfg`
with `MCInterrupts`, `DisplayFrame.cfg` with `MCDisplayEngine`,
`AddressMap.cfg` with `MCAddressMap`, `Quantum.cfg` with `MCQuantum`,
`Isa*.cfg` with `MCIsa`); `tlapm ATTransportProofs.tla` and likewise
`CacheProofs`, `DmaEngineProofs`, `DisplayEngineProofs`, `AddressMapProofs`,
`FpuProofs`, `InterruptsProofs` and `QuantumProofs`. All TLC runs together take
some ten minutes, the proofs about as long.
