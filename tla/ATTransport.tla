---------------------------- MODULE ATTransport ----------------------------
(***************************************************************************)
(* The approximately-timed memory path of the SoC: the initiator threads   *)
(* (DMA, Display), the pool of payload objects they share (SoCMM), the     *)
(* Interconnect's hop context and routing, and the Memory target with its  *)
(* payload event queue (PEQ) and DRAM refresh.  One transaction is         *)
(*                                                                         *)
(*    BEGIN_REQ -> END_REQ -> BEGIN_RESP -> END_RESP                       *)
(*                                                                         *)
(* SystemC is cooperative: a thread runs from one wait() to the next, and  *)
(* a PEQ callback runs to its end, without interruption.  Each such stretch*)
(* is one action.  Within an evaluation phase the runnable processes run   *)
(* in any order; when none is left the kernel starts the next delta cycle  *)
(* if something was notified for it, and advances time otherwise.  Waits   *)
(* and latencies count down, so no clock value is kept.                    *)
(***************************************************************************)
EXTENDS Naturals, FiniteSets

CONSTANTS
  Dma,            \* DMA-like initiators: reads and writes, asserts on reads
  Display,        \* Display-like initiators: reads only, no assertion
  Port0,          \* the initiator bound first to targ_socket (the cache)
  Addr,           \* absolute word addresses
  Offset,         \* word offsets inside the memory
  NoOffset,       \* "no target": Interconnect::find_port returns -1
  Decode,         \* [Addr -> Offset \cup {NoOffset}]
  NoAddr,         \* the address of a payload nobody has set
  Val, Zero,      \* word values; the initial value of m_read_data
  Gp, NoGp,       \* payload objects; the null pointer
  ReadLatency, WriteLatency, tREFI, tRFC,
  IdleWaits       \* the waits of an initiator between transactions

Initiator == Dma \cup Display

ASSUME InitiatorAssumption ==
  /\ Dma \cap Display = {} /\ Port0 \notin Initiator
  /\ IsFiniteSet(Initiator)
ASSUME DataAssumption ==
  /\ NoOffset \notin Offset /\ NoAddr \notin Addr /\ NoGp \notin Gp
  /\ Addr \cap Offset = {} /\ NoAddr \notin Offset
  /\ Decode \in [Addr -> Offset \cup {NoOffset}]
  /\ Zero \in Val
ASSUME TimeAssumption ==
  /\ ReadLatency \in Nat \ {0} /\ WriteLatency \in Nat \ {0}
  /\ tREFI \in Nat \ {0} /\ tRFC \in Nat \ {0}
  /\ IdleWaits \subseteq Nat \ {0}

VARIABLES
  \* ---- data
  mem,            \* [Offset -> Val]: Memory::mem
  buf,            \* [Initiator -> Val]: the word the payload's data pointer
                  \*   refers to (m_read_data, or writeWordAT's parameter)
  \* ---- SoCMM and the payload objects
  made,           \* payloads ever created by new
  pool,           \* payloads waiting for reuse
  gp,             \* [Gp -> payload]: command, address, data pointer, response
                  \*   status and reference count
  hop,            \* [Gp -> HopCtx]; master_id is Port0 when there is no context
  \* ---- Memory
  peq,            \* the queued (payload, phase) notifications
  refresh,        \* refresh_thread: in a refresh?, and the ns left of its wait
  stalled,        \* history: payloads that arrived in the refresh under way
  \* ---- initiator threads and the kernel
  pc,             \* where the thread is: "run", or the wait it is in
  at,             \* m_at_trans
  timer,          \* ns left of a timed wait
  ready,          \* threads in the runnable queue of this evaluation phase
  ev,             \* events of each initiator notified for the next delta
  halted          \* an assert() failed: the program is gone

poolVars == <<made, pool>>
memVars  == <<mem, refresh, stalled>>
vars == <<mem, buf, made, pool, gp, hop, peq, refresh, stalled,
          pc, at, timer, ready, ev, halted>>

Phase == {"BEGIN_REQ", "BEGIN_RESP", "END_RESP"}
Lane  == {"due", "delta", "timed"}
Event == {"endreq", "resp"}

NewPayload == [cmd |-> "ignore", addr |-> NoAddr, ptr |-> Port0,
               resp |-> "incomplete", ref |-> 0]
NoHop == [orig |-> NoAddr, master |-> Port0]

Payload == [cmd : {"ignore", "read", "write"},
            addr : Addr \cup Offset \cup {NoAddr},
            ptr : Initiator \cup {Port0},
            resp : {"incomplete", "ok", "address_error"},
            ref : Nat]
HopCtx == [orig : Addr \cup {NoAddr}, master : Initiator \cup {Port0}]
Notice == [trans : Gp, phase : Phase, lane : Lane, when : Nat]

TypeOK ==
  /\ mem \in [Offset -> Val]
  /\ buf \in [Initiator -> Val]
  /\ made \in SUBSET Gp /\ pool \in SUBSET made
  /\ gp \in [Gp -> Payload]
  /\ hop \in [Gp -> HopCtx]
  /\ peq \in SUBSET Notice
  /\ refresh \in [on : BOOLEAN, left : Nat]
  /\ stalled \in SUBSET Gp
  /\ pc \in [Initiator -> {"run", "endreq", "resp", "settle"}]
  /\ at \in [Initiator -> Gp \cup {NoGp}]
  /\ timer \in [Initiator -> Nat]
  /\ ready \in SUBSET Initiator
  /\ ev \in [Initiator -> SUBSET Event]
  /\ halted \in BOOLEAN

Init ==
  /\ mem \in [Offset -> Val]
  /\ buf = [i \in Initiator |-> Zero]
  /\ made = {} /\ pool = {}
  /\ gp = [g \in Gp |-> NewPayload]
  /\ hop = [g \in Gp |-> NoHop]
  /\ peq = {}
  /\ refresh = [on |-> FALSE, left |-> tREFI]
  /\ stalled = {}
  /\ pc = [i \in Initiator |-> "run"]
  /\ at = [i \in Initiator |-> NoGp]
  /\ timer = [i \in Initiator |-> 0]
  /\ ready = Initiator
  /\ ev = [i \in Initiator |-> {}]
  /\ halted = FALSE

(***************************************************************************)
(* SoCMM                                                                   *)
(***************************************************************************)

\* Mutant: the pooled payload handed out is not popped.
AllocateWithoutPop(g) ==
  /\ g \in pool \/ (pool = {} /\ g \notin made)
  /\ made' = made \cup {g} /\ pool' = pool

\* allocate(): reuse a pooled payload, and make a new one only if none is left.
Allocate(g) ==
  \/ /\ g \in pool
     /\ pool' = pool \ {g} /\ made' = made
  \/ /\ pool = {} /\ g \notin made
     /\ made' = made \cup {g} /\ pool' = pool

\* Mutant: the last release never reaches SoCMM::free.
ReleaseWithoutFree(g) ==
  /\ gp' = [gp EXCEPT ![g].ref = @ - 1]
  /\ UNCHANGED <<made, pool, hop>>

\* Dropping the last reference resets the payload and pools it.  Whether the
\* library drops the hop context with the reset is left open.
Release(g) ==
  IF gp[g].ref = 1
  THEN /\ gp' = [gp EXCEPT ![g].ref = 0, ![g].resp = "incomplete"]
       /\ pool' = pool \cup {g} /\ made' = made
       /\ \E ctx \in {hop[g], NoHop} : hop' = [hop EXCEPT ![g] = ctx]
  ELSE /\ gp' = [gp EXCEPT ![g].ref = @ - 1]
       /\ UNCHANGED <<made, pool, hop>>

(***************************************************************************)
(* Memory's queue and refresh                                              *)
(***************************************************************************)

Latency(cmd) == IF cmd = "read" THEN ReadLatency ELSE WriteLatency

\* peq.notify: a zero delay means the next delta cycle.
Notification(g, ph, t) ==
  [trans |-> g, phase |-> ph,
   lane |-> IF t = 0 THEN "delta" ELSE "timed", when |-> t]

\* Mutants: the time already spent in the refresh; the difference reversed.
RefreshElapsed == IF refresh.on THEN tRFC - refresh.left ELSE 0
RefreshReversed == IF refresh.on THEN 0 - refresh.left ELSE 0

\* What is left of tRFC while a refresh is under way.
RefreshPenalty == IF refresh.on THEN refresh.left ELSE 0

(***************************************************************************)
(* Initiator threads                                                       *)
(***************************************************************************)

Running(i, where) == ~halted /\ i \in ready /\ pc[i] = where

\* The thread blocks in wait(), at the given place.
Block(i, where) ==
  /\ ready' = ready \ {i}
  /\ pc' = [pc EXCEPT ![i] = where]

\* The data pointer is set to m_read_data, or to the word to write.
PointData(i, cmd, v) ==
  IF cmd = "write" THEN buf' = [buf EXCEPT ![i] = v] ELSE buf' = buf

Commands(i) == IF i \in Dma THEN {"read", "write"} ELSE {"read"}

\* Mutant: a context found on a recycled payload is kept as it is.
SetHopOnce(g, i, a) ==
  hop' = IF hop[g] # NoHop THEN hop
         ELSE [hop EXCEPT ![g] = [orig |-> a, master |-> i]]

\* The Interconnect attaches its context, or overwrites the one it finds.
SetHop(g, i, a) == hop' = [hop EXCEPT ![g] = [orig |-> a, master |-> i]]

\* readWordAT / writeWordAT / readPixelAT up to the wait for END_REQ, through
\* the Interconnect's and the Memory's nb_transport_fw.
BeginReq(i, cmd, a, v) ==
  /\ Running(i, "run") /\ cmd \in Commands(i)
  /\ Decode[a] # NoOffset
  /\ PointData(i, cmd, v)
  /\ \E g \in Gp :
       /\ Allocate(g)
       /\ gp' = [gp EXCEPT ![g] =
                   [cmd |-> cmd, addr |-> Decode[a], ptr |-> i,
                    resp |-> "incomplete", ref |-> @.ref + 2]]
       /\ SetHop(g, i, a)
       /\ peq' = peq \cup {Notification(g, "BEGIN_REQ",
                                        Latency(cmd) + RefreshPenalty)}
       /\ stalled' = IF refresh.on THEN stalled \cup {g} ELSE stalled
       /\ at' = [at EXCEPT ![i] = g]
  /\ Block(i, "endreq")
  /\ UNCHANGED <<mem, refresh, timer, ev, halted>>

\* The same call on an address no target decodes: the Interconnect answers
\* TLM_COMPLETED.  A DMA read asserts on that; the others wait for END_REQ.
BeginReqNoTarget(i, cmd, a, v) ==
  /\ Running(i, "run") /\ cmd \in Commands(i)
  /\ Decode[a] = NoOffset
  /\ PointData(i, cmd, v)
  /\ \E g \in Gp :
       /\ Allocate(g)
       /\ gp' = [gp EXCEPT ![g] =
                   [cmd |-> cmd, addr |-> a, ptr |-> i,
                    resp |-> "address_error", ref |-> @.ref + 1]]
       /\ at' = [at EXCEPT ![i] = g]
  /\ Block(i, "endreq")
  /\ halted' = (i \in Dma /\ cmd = "read")
  /\ UNCHANGED <<mem, hop, peq, refresh, stalled, timer, ev>>

\* wait(m_end_req_event) returns; the thread goes on to wait(m_resp_event).
EndReqWakeup(i) ==
  /\ Running(i, "endreq")
  /\ Block(i, "resp")
  /\ UNCHANGED <<memVars, buf, poolVars, gp, hop, peq, at, timer, ev, halted>>

\* Mutant: no wait before the release.
RespWakeupNoWait(i) ==
  /\ Running(i, "resp")
  /\ pc' = [pc EXCEPT ![i] = "settle"]
  /\ UNCHANGED <<memVars, buf, poolVars, gp, hop, peq, at, timer, ready, ev,
                 halted>>

\* wait(m_resp_event) returns; the thread waits 1 ns before it releases.
RespWakeup(i) ==
  /\ Running(i, "resp")
  /\ Block(i, "settle")
  /\ timer' = [timer EXCEPT ![i] = 1]
  /\ UNCHANGED <<memVars, buf, poolVars, gp, hop, peq, at, ev, halted>>

\* The initiator drops its reference and may go on to its next word at once.
ReleaseTrans(i) ==
  /\ Running(i, "settle")
  /\ Release(at[i])
  /\ at' = [at EXCEPT ![i] = NoGp]
  /\ pc' = [pc EXCEPT ![i] = "run"]
  /\ UNCHANGED <<memVars, buf, peq, timer, ready, ev, halted>>

\* Between transfers and frames the threads wait a fixed time and poll again.
Sleep(i, t) ==
  /\ Running(i, "run")
  /\ Block(i, "run")
  /\ timer' = [timer EXCEPT ![i] = t]
  /\ UNCHANGED <<memVars, buf, poolVars, gp, hop, peq, at, ev, halted>>

(***************************************************************************)
(* The backward path                                                       *)
(***************************************************************************)

\* Interconnect::nb_transport_bw forwards to the master of the hop context.
Master(g) == hop[g].master

\* An initiator's nb_transport_bw notifies its event for the next delta.
NotifyMaster(g, event) ==
  ev' = [ev EXCEPT ![Master(g)] = @ \cup {event}]

\* Memory::accessMem on the translated address.
AccessMem(g) ==
  LET t == gp[g] IN
  IF t.cmd = "read"
  THEN buf' = [buf EXCEPT ![t.ptr] = mem[t.addr]] /\ mem' = mem
  ELSE mem' = [mem EXCEPT ![t.addr] = buf[t.ptr]] /\ buf' = buf

Due(e, ph) == ~halted /\ e \in peq /\ e.lane = "due" /\ e.phase = ph

\* Mutant: BEGIN_RESP without END_REQ, which TLM-2.0 allows a target.
PeqBeginReqEarly(e) ==
  LET g == e.trans IN
  /\ Due(e, "BEGIN_REQ")
  /\ AccessMem(g)
  /\ gp' = [gp EXCEPT ![g].resp = "ok"]
  /\ peq' = (peq \ {e})
              \cup {Notification(g, "BEGIN_RESP", Latency(gp[g].cmd))}
  /\ stalled' = stalled \ {g}
  /\ UNCHANGED <<poolVars, hop, refresh, pc, at, timer, ready, ev, halted>>

\* peq_cb on BEGIN_REQ: access, END_REQ backward, BEGIN_RESP after the latency.
PeqBeginReq(e) ==
  LET g == e.trans IN
  /\ Due(e, "BEGIN_REQ")
  /\ AccessMem(g)
  /\ gp' = [gp EXCEPT ![g].resp = "ok"]
  /\ NotifyMaster(g, "endreq")
  /\ peq' = (peq \ {e})
              \cup {Notification(g, "BEGIN_RESP", Latency(gp[g].cmd))}
  /\ stalled' = stalled \ {g}
  /\ UNCHANGED <<poolVars, hop, refresh, pc, at, timer, ready, halted>>

\* Mutants: the access is done with the response too; m_resp_event is not
\* notified.
PeqBeginRespAgain(e) ==
  LET g == e.trans IN
  /\ Due(e, "BEGIN_RESP")
  /\ AccessMem(g)
  /\ gp' = [gp EXCEPT ![g].addr = hop[g].orig]
  /\ NotifyMaster(g, "resp")
  /\ peq' = (peq \ {e}) \cup {Notification(g, "END_RESP", 0)}
  /\ UNCHANGED <<refresh, stalled, poolVars, hop, pc, at, timer, ready, halted>>
PeqBeginRespMute(e) ==
  /\ Due(e, "BEGIN_RESP")
  /\ peq' = (peq \ {e}) \cup {Notification(e.trans, "END_RESP", 0)}
  /\ UNCHANGED <<memVars, buf, poolVars, gp, hop, pc, at, timer, ready, ev,
                 halted>>

\* peq_cb on BEGIN_RESP: the Interconnect restores the absolute address, the
\* initiator copies read data and returns END_RESP, queued for the next delta.
PeqBeginResp(e) ==
  LET g == e.trans IN
  /\ Due(e, "BEGIN_RESP")
  /\ gp' = [gp EXCEPT ![g].addr = hop[g].orig]
  /\ IF gp[g].cmd = "read"
     THEN buf' = [buf EXCEPT ![Master(g)] = buf[gp[g].ptr]]
     ELSE buf' = buf
  /\ NotifyMaster(g, "resp")
  /\ peq' = (peq \ {e}) \cup {Notification(g, "END_RESP", 0)}
  /\ UNCHANGED <<memVars, poolVars, hop, pc, at, timer, ready, halted>>

\* peq_cb on END_RESP: the target drops its reference.
PeqEndResp(e) ==
  /\ Due(e, "END_RESP")
  /\ Release(e.trans)
  /\ peq' = peq \ {e}
  /\ UNCHANGED <<memVars, buf, pc, at, timer, ready, ev, halted>>

\* refresh_thread wakes: it enters or leaves the refresh and waits again.
RefreshThread ==
  /\ ~halted /\ refresh.left = 0
  /\ refresh' = IF refresh.on THEN [on |-> FALSE, left |-> tREFI]
                              ELSE [on |-> TRUE, left |-> tRFC]
  /\ stalled' = {}
  /\ UNCHANGED <<mem, buf, poolVars, gp, hop, peq, pc, at, timer, ready, ev,
                 halted>>

\* A store of the processor reaches the memory through b_transport.
LtStore(o, v) ==
  /\ ~halted
  /\ mem' = [mem EXCEPT ![o] = v]
  /\ UNCHANGED <<buf, poolVars, gp, hop, peq, refresh, stalled, pc, at, timer,
                 ready, ev, halted>>

(***************************************************************************)
(* The SystemC kernel                                                      *)
(***************************************************************************)

\* Nothing is left to run in this evaluation phase.
Settled ==
  /\ ~halted /\ ready = {} /\ refresh.left > 0
  /\ \A e \in peq : e.lane # "due"

DeltaPending ==
  (\E e \in peq : e.lane = "delta") \/ (\E i \in Initiator : ev[i] # {})

Promote(e) == [e EXCEPT !.lane = IF @ = "delta" THEN "due" ELSE @]

\* Delta notifications fire.  An event wakes its thread only if the thread is
\* waiting for that event; otherwise the notification is lost.
DeltaCycle ==
  /\ Settled /\ DeltaPending
  /\ peq' = {Promote(e) : e \in peq}
  /\ ready' = {i \in Initiator : pc[i] \in ev[i]}
  /\ ev' = [i \in Initiator |-> {}]
  /\ UNCHANGED <<memVars, buf, poolVars, gp, hop, pc, at, timer, halted>>

\* Threads in a timed wait (waits on events have no timeout in this code).
Timed == {i \in Initiator : pc[i] \in {"run", "settle"}}

Elapse(e, d) ==
  [e EXCEPT !.when = @ - d, !.lane = IF e.when = d THEN "due" ELSE @]

\* Time advances by d, to the next timeout.
AdvanceTime(d) ==
  /\ Settled /\ ~DeltaPending
  /\ d <= refresh.left
  /\ \A i \in Timed : d <= timer[i]
  /\ \A e \in peq : d <= e.when
  /\ \/ d = refresh.left
     \/ \E i \in Timed : timer[i] = d
     \/ \E e \in peq : e.when = d
  /\ refresh' = [refresh EXCEPT !.left = @ - d]
  /\ timer' = [i \in Initiator |-> IF i \in Timed THEN timer[i] - d
                                   ELSE timer[i]]
  /\ ready' = {i \in Timed : timer[i] = d}
  /\ peq' = {Elapse(e, d) : e \in peq}
  /\ UNCHANGED <<mem, stalled, buf, poolVars, gp, hop, pc, at, ev, halted>>

ThreadStep(i) ==
  \/ \E cmd \in {"read", "write"}, a \in Addr, v \in Val :
       BeginReq(i, cmd, a, v) \/ BeginReqNoTarget(i, cmd, a, v)
  \/ EndReqWakeup(i)
  \/ RespWakeup(i)
  \/ ReleaseTrans(i)
  \/ \E t \in IdleWaits : Sleep(i, t)

PeqCallback == \E e \in peq : PeqBeginReq(e) \/ PeqBeginResp(e) \/ PeqEndResp(e)

KernelStep == DeltaCycle \/ \E d \in 1..(tREFI + tRFC) : AdvanceTime(d)

Next ==
  \/ \E i \in Initiator : ThreadStep(i)
  \/ PeqCallback
  \/ RefreshThread
  \/ KernelStep
  \/ \E o \in Offset, v \in Val : LtStore(o, v)

Safe == Init /\ [][Next]_vars

\* The kernel runs every runnable process and never stops advancing.
Fairness ==
  /\ \A i \in Initiator : WF_vars(ThreadStep(i))
  /\ WF_vars(PeqCallback)
  /\ WF_vars(RefreshThread)
  /\ WF_vars(KernelStep)

Spec == Safe /\ Fairness

-----------------------------------------------------------------------------
(***************************************************************************)
(* Properties                                                              *)
(***************************************************************************)

\* A payload is in the pool, or it has one owner, never both: nothing that is
\* queued or held by a thread can be handed out again, and it still counts the
\* references of everybody who will release it (SoCMM::free, peq_cb, the
\* release at the end of each transfer).
NoUseAfterFree ==
  /\ \A e \in peq : e.trans \notin pool /\ gp[e.trans].ref >= 1
  /\ \A i \in Initiator :
       at[i] # NoGp => at[i] \in made \ pool /\ gp[at[i]].ref >= 1
  /\ \A i, j \in Initiator : at[i] = at[j] /\ at[i] # NoGp => i = j
  /\ \A g \in pool : gp[g].ref = 0

\* Whatever is still queued for a payload will be routed back to the initiator
\* that issued it, and addresses that initiator's buffer, although payloads are
\* recycled between initiators with their hop context
\* (Interconnect::nb_transport_bw).
RoutedHome ==
  \A e \in peq : LET m == hop[e.trans].master IN
    m \in Initiator /\ at[m] = e.trans /\ gp[e.trans].ptr = m

\* The 1 ns wait makes the initiator the last to release: when it does, the
\* target has let go, so the payload is recycled by that very step
\* ("our release decrements 1 -> 0", dma.cpp).
InitiatorReleasesLast ==
  \A i \in ready : pc[i] = "settle" =>
    /\ gp[at[i]].ref = 1
    /\ \A e \in peq : e.trans # at[i]

\* The pool never grows beyond one payload per initiator.
PoolBound == Cardinality(made) <= Cardinality(Initiator)

\* A request that reaches the memory during a refresh is not served before
\* that refresh is over (refresh_penalty).
RefreshStall ==
  \A e \in peq : e.phase = "BEGIN_REQ" /\ e.trans \in stalled =>
    IF e.lane = "due" THEN refresh.left = 0 ELSE e.when >= refresh.left

\* An event is never notified while its thread waits for something else: each
\* notification wakes the thread it is meant for (m_end_req_event and
\* m_resp_event are not sticky).
NoLostWakeup ==
  [][DeltaCycle => \A i \in Initiator : ev[i] # {} => i \in ready']_vars

\* The AT path implements the atomic memory port.
PortOf(i) ==
  LET t == gp[at[i]] IN
  IF at[i] = NoGp
  THEN [st |-> "idle", cmd |-> "none", off |-> NoOffset]
  ELSE IF t.resp = "address_error"
  THEN [st |-> "refused", cmd |-> t.cmd, off |-> NoOffset]
  ELSE [st |-> IF t.resp = "ok" THEN "done" ELSE "busy",
        cmd |-> t.cmd, off |-> Decode[hop[at[i]].orig]]

Port == INSTANCE MemPort WITH
          Client <- Initiator, port <- [i \in Initiator |-> PortOf(i)]

PortSafe == Port!Safe
PortSpec == Port!Spec

\* "Each word transfer is a complete AT transaction" (dma.cpp): an initiator
\* that has issued a request gets through to the release and runs on.
EveryTransferCompletes ==
  \A i \in Initiator : pc[i] = "endreq" ~> pc[i] = "run"
-----------------------------------------------------------------------------
(***************************************************************************)
(* The inductive invariant                                                 *)
(***************************************************************************)

\* A payload that is not in use counts no reference; one in use is held by
\* exactly one initiator.
PoolInv ==
  /\ \A g \in Gp : g \notin made \/ g \in pool => gp[g].ref = 0
  /\ \A i \in Initiator : at[i] # NoGp => at[i] \in made \ pool
  /\ \A i, j \in Initiator : at[i] # NoGp /\ at[i] = at[j] => i = j
  /\ \A g \in made \ pool : \E i \in Initiator : at[i] = g

\* Where the thread of a queued notification is.
BeginReqQueued(i, e) ==
  /\ e.lane \in {"timed", "due"}
  /\ pc[i] = "endreq" /\ i \notin ready /\ ev[i] = {}
  /\ gp[e.trans].resp = "incomplete"
  /\ gp[e.trans].addr = Decode[hop[e.trans].orig]

BeginRespQueued(i, e) ==
  /\ e.lane \in {"timed", "due"}
  /\ gp[e.trans].resp = "ok"
  /\ \/ /\ pc[i] = "endreq" /\ e.lane = "timed" /\ e.when > 0
        /\ ev[i] = IF i \in ready THEN {} ELSE {"endreq"}
     \/ pc[i] = "resp" /\ i \notin ready /\ ev[i] = {}

EndRespQueued(i, e) ==
  /\ gp[e.trans].resp = "ok"
  /\ \/ e.lane = "delta" /\ pc[i] = "resp" /\ i \notin ready /\ ev[i] = {"resp"}
     \/ /\ e.lane = "due" /\ ev[i] = {}
        /\ \/ pc[i] = "resp" /\ i \in ready
           \/ pc[i] = "settle" /\ i \notin ready

\* A queued notification belongs to a transfer under way, on which the
\* initiator and the target hold one reference each.
Owned(i, g) ==
  /\ i \in Initiator /\ at[i] = g
  /\ gp[g].ptr = i /\ gp[g].ref = 2 /\ gp[g].cmd \in {"read", "write"}
  /\ hop[g].orig \in Addr /\ Decode[hop[g].orig] \in Offset

QueueInv ==
  /\ \A e, f \in peq : e.trans = f.trans => e = f
  /\ \A e \in peq : LET i == hop[e.trans].master IN
       /\ Owned(i, e.trans)
       /\ \/ e.phase = "BEGIN_REQ" /\ BeginReqQueued(i, e)
          \/ e.phase = "BEGIN_RESP" /\ BeginRespQueued(i, e)
          \/ e.phase = "END_RESP" /\ EndRespQueued(i, e)

\* A thread that waits for nothing queued has let go of its payload, is about
\* to, or was refused.
Unqueued(g) == \A e \in peq : e.trans # g

ThreadInv ==
  \A i \in Initiator :
    /\ at[i] = NoGp <=> pc[i] = "run"
    /\ at[i] = NoGp => ev[i] = {}
    /\ at[i] # NoGp /\ Unqueued(at[i]) =>
         /\ ev[i] = {} /\ gp[at[i]].ref = 1
         /\ gp[at[i]].cmd \in {"read", "write"}
         /\ \/ /\ pc[i] = "endreq" /\ i \notin ready
               /\ gp[at[i]].resp = "address_error"
            \/ /\ pc[i] = "settle" \/ (pc[i] = "resp" /\ i \in ready)
               /\ gp[at[i]].resp = "ok"

RefreshInv == refresh.on \/ stalled = {}

\* References, queue entries and thread positions fit together: the invariant
\* the safety theorems rest on.
Inv == TypeOK /\ PoolInv /\ QueueInv /\ ThreadInv /\ RefreshInv /\ RefreshStall
=============================================================================
