------------------------- MODULE ATTransportProofs -------------------------
(***************************************************************************)
(* Theorems about ATTransport: its inductive invariant and the safety      *)
(* properties that follow, for any number of initiators, words, payloads   *)
(* and any latencies.  The invariant ties every queued notification to the *)
(* place where its initiator's thread waits; each lemma below shows that   *)
(* one action keeps it.                                                    *)
(***************************************************************************)
EXTENDS ATTransport, FiniteSetTheorems, TLAPS

\* What a notification put into the queue looks like.
LEMMA NotificationFields ==
  ASSUME NEW g \in Gp, NEW ph \in Phase, NEW t \in Nat
  PROVE  /\ Notification(g, ph, t) \in Notice
         /\ Notification(g, ph, t).trans = g
         /\ Notification(g, ph, t).phase = ph
         /\ Notification(g, ph, t).lane = IF t = 0 THEN "delta" ELSE "timed"
         /\ Notification(g, ph, t).when = t
  BY DEF Notification, Notice, Lane

\* A payload that can be allocated is held by nobody and counts no reference.
LEMMA AllocateFacts ==
  ASSUME Inv, NEW g \in Gp, Allocate(g)
  PROVE  /\ g \notin made \/ g \in pool
         /\ made' = made \cup {g} /\ pool' = pool \ {g}
         /\ gp[g].ref = 0
         /\ \A j \in Initiator : at[j] # g
         /\ \A e \in peq : e.trans # g
<1> USE DataAssumption
<1>1. g \notin made \/ g \in pool
  BY DEF Allocate
<1>2. made' = made \cup {g} /\ pool' = pool \ {g}
  BY DEF Allocate, Inv, TypeOK
<1>3. gp[g].ref = 0 /\ \A j \in Initiator : at[j] # g
  BY <1>1 DEF Inv, TypeOK, PoolInv
<1>4. \A e \in peq : e.trans # g
  BY <1>3 DEF Inv, QueueInv, Owned
<1> QED
  BY <1>1, <1>2, <1>3, <1>4

\* Giving it to an idle initiator keeps the pool sound.
LEMMA AllocatePool ==
  ASSUME Inv, NEW g \in Gp, NEW i \in Initiator, Allocate(g),
         at[i] = NoGp, at' = [at EXCEPT ![i] = g],
         \A h \in Gp : h # g => gp'[h].ref = gp[h].ref
  PROVE  PoolInv'
<1> USE DataAssumption
<1>1. /\ g \notin made \/ g \in pool
      /\ made' = made \cup {g} /\ pool' = pool \ {g}
      /\ \A j \in Initiator : at[j] # g
  BY AllocateFacts
<1>2. \A h \in Gp : h \notin made' \/ h \in pool' => gp'[h].ref = 0
  BY <1>1 DEF Inv, TypeOK, PoolInv
<1>3. \A j \in Initiator : at'[j] # NoGp => at'[j] \in made' \ pool'
  BY <1>1 DEF Inv, TypeOK, PoolInv
<1>4. \A j, k \in Initiator : at'[j] # NoGp /\ at'[j] = at'[k] => j = k
  BY <1>1 DEF Inv, TypeOK, PoolInv
<1>5. \A h \in made' \ pool' : \E j \in Initiator : at'[j] = h
  <2>1. TAKE h \in made' \ pool'
  <2>2. CASE h = g
    BY <2>2 DEF Inv, TypeOK
  <2>3. CASE h # g
    <3>1. PICK j \in Initiator : at[j] = h
      BY <1>1, <2>1, <2>3 DEF Inv, PoolInv
    <3>2. h # NoGp
      BY <1>1, <2>1, <2>3 DEF Inv, TypeOK
    <3> QED
      BY <3>1, <3>2 DEF Inv, TypeOK
  <2> QED
    BY <2>2, <2>3
<1> QED
  BY <1>2, <1>3, <1>4, <1>5 DEF PoolInv

-----------------------------------------------------------------------------
(***************************************************************************)
(* The initiator threads                                                   *)
(***************************************************************************)

\* The new request meets an idle thread and a payload nobody refers to.
LEMMA BeginReqInv ==
  ASSUME Inv, NEW i \in Initiator, NEW cmd \in {"read", "write"},
         NEW a \in Addr, NEW v \in Val, BeginReq(i, cmd, a, v)
  PROVE  Inv'
<1> USE DataAssumption, TimeAssumption, InitiatorAssumption
<1>1. PICK g \in Gp :
       /\ Allocate(g)
       /\ gp' = [gp EXCEPT ![g] =
                   [cmd |-> cmd, addr |-> Decode[a], ptr |-> i,
                    resp |-> "incomplete", ref |-> @.ref + 2]]
       /\ SetHop(g, i, a)
       /\ peq' = peq \cup {Notification(g, "BEGIN_REQ",
                                        Latency(cmd) + RefreshPenalty)}
       /\ stalled' = IF refresh.on THEN stalled \cup {g} ELSE stalled
       /\ at' = [at EXCEPT ![i] = g]
  BY DEF BeginReq
<1>2. /\ made' = made \cup {g} /\ pool' = pool \ {g}
      /\ gp[g].ref = 0
      /\ \A j \in Initiator : at[j] # g
      /\ \A e \in peq : e.trans # g
  BY <1>1, AllocateFacts
<1> DEFINE n == Notification(g, "BEGIN_REQ", Latency(cmd) + RefreshPenalty)
<1>3. /\ n \in Notice /\ n.trans = g /\ n.phase = "BEGIN_REQ" /\ n.lane = "timed"
      /\ n.when = Latency(cmd) + RefreshPenalty
      /\ Latency(cmd) + RefreshPenalty \in Nat
  BY NotificationFields DEF Latency, RefreshPenalty, Inv, TypeOK, Phase
<1>4. peq' = peq \cup {n}
  BY <1>1
<1> HIDE DEF n
<1>5. /\ i \in ready /\ pc[i] = "run" /\ Decode[a] \in Offset
      /\ ready' = ready \ {i} /\ pc' = [pc EXCEPT ![i] = "endreq"]
      /\ UNCHANGED <<mem, refresh, timer, ev, halted>>
      /\ buf' \in [Initiator -> Val]
      /\ hop' = [hop EXCEPT ![g] = [orig |-> a, master |-> i]]
  BY <1>1 DEF BeginReq, Running, Block, PointData, Inv, TypeOK, SetHop
<1>6. TypeOK'
  <2>1. gp' \in [Gp -> Payload]
    BY <1>1, <1>5 DEF Inv, TypeOK, Payload
  <2>2. /\ hop' \in [Gp -> HopCtx] /\ peq' \in SUBSET Notice
        /\ pc' \in [Initiator -> {"run", "endreq", "resp", "settle"}]
        /\ at' \in [Initiator -> Gp \cup {NoGp}]
    BY <1>1, <1>3, <1>4, <1>5 DEF Inv, TypeOK, HopCtx
  <2>3. /\ made' \in SUBSET Gp /\ pool' \in SUBSET made'
        /\ stalled' \in SUBSET Gp /\ ready' \in SUBSET Initiator
    BY <1>1, <1>2, <1>5 DEF Inv, TypeOK
  <2> QED
    BY <1>5, <2>1, <2>2, <2>3 DEF Inv, TypeOK
<1>7. PoolInv'
  BY <1>1, <1>5, AllocatePool DEF Inv, TypeOK, ThreadInv
<1>8. QueueInv'
  BY <1>1, <1>2, <1>3, <1>4, <1>5
     DEF Inv, TypeOK, QueueInv, ThreadInv, Owned, BeginReqQueued,
         BeginRespQueued, EndRespQueued, Payload, HopCtx, Notice
<1>9. ThreadInv'
  BY <1>1, <1>2, <1>3, <1>4, <1>5
     DEF Inv, TypeOK, ThreadInv, Unqueued, Payload
<1>10. RefreshInv' /\ RefreshStall'
  BY <1>1, <1>2, <1>3, <1>4, <1>5
     DEF Inv, TypeOK, RefreshInv, RefreshStall, RefreshPenalty, Latency
<1> QED
  BY <1>6, <1>7, <1>8, <1>9, <1>10 DEF Inv

\* A refused request leaves its thread waiting with the only reference.
LEMMA BeginReqNoTargetInv ==
  ASSUME Inv, NEW i \in Initiator, NEW cmd \in {"read", "write"},
         NEW a \in Addr, NEW v \in Val, BeginReqNoTarget(i, cmd, a, v)
  PROVE  Inv'
<1> USE DataAssumption, TimeAssumption
<1>1. TypeOK'
  BY DEF Inv, TypeOK, BeginReqNoTarget, Running, Block, PointData, Allocate,
         Payload, Commands
<1>2. PoolInv'
  <2>1. PICK g \in Gp :
          /\ Allocate(g) /\ at' = [at EXCEPT ![i] = g]
          /\ \A h \in Gp : h # g => gp'[h].ref = gp[h].ref
    BY DEF BeginReqNoTarget, Inv, TypeOK
  <2> QED
    BY <2>1, AllocatePool DEF BeginReqNoTarget, Running, Inv, TypeOK, ThreadInv
<1>3. QueueInv'
  BY DEF Inv, TypeOK, QueueInv, ThreadInv, Owned, BeginReqQueued,
         BeginRespQueued, EndRespQueued, Notice, PoolInv, BeginReqNoTarget,
         Running, Block, Allocate
<1>4. ThreadInv'
  BY DEF Inv, TypeOK, PoolInv, QueueInv, ThreadInv, Owned, Unqueued,
         BeginReqNoTarget, Running, Block, Allocate, Payload
<1>5. RefreshInv' /\ RefreshStall'
  BY DEF Inv, TypeOK, RefreshInv, RefreshStall, BeginReqNoTarget
<1> QED
  BY <1>1, <1>2, <1>3, <1>4, <1>5 DEF Inv

\* Between END_REQ and BEGIN_RESP the thread changes its wait.
LEMMA EndReqWakeupInv ==
  ASSUME Inv, NEW i \in Initiator, EndReqWakeup(i)
  PROVE  Inv'
<1> USE DataAssumption, TimeAssumption
<1>1. TypeOK'
  BY DEF Inv, TypeOK, EndReqWakeup, Running, Block, memVars, poolVars
<1>2. PoolInv'
  BY DEF Inv, TypeOK, PoolInv, EndReqWakeup, Running, Block, memVars, poolVars
<1>3. QueueInv'
  BY DEF Inv, TypeOK, PoolInv, QueueInv, ThreadInv, Owned, BeginReqQueued,
         BeginRespQueued, EndRespQueued, EndReqWakeup, Running, Block,
         memVars, poolVars
<1>4. ThreadInv'
  BY DEF Inv, TypeOK, PoolInv, QueueInv, ThreadInv, Owned, BeginReqQueued,
         BeginRespQueued, EndRespQueued, Unqueued, EndReqWakeup, Running,
         Block, memVars, poolVars
<1>5. RefreshInv' /\ RefreshStall'
  BY DEF Inv, TypeOK, RefreshInv, RefreshStall, EndReqWakeup, Running, Block,
         memVars, poolVars
<1> QED
  BY <1>1, <1>2, <1>3, <1>4, <1>5 DEF Inv

\* The thread begins its 1 ns wait, the END_RESP notification still due or
\* already served.
LEMMA RespWakeupInv ==
  ASSUME Inv, NEW i \in Initiator, RespWakeup(i)
  PROVE  Inv'
<1> USE DataAssumption, TimeAssumption
<1>1. TypeOK'
  BY DEF Inv, TypeOK, RespWakeup, Running, Block, memVars, poolVars
<1>2. PoolInv'
  BY DEF Inv, TypeOK, PoolInv, RespWakeup, Running, Block, memVars, poolVars
<1>3. QueueInv'
  BY DEF Inv, TypeOK, PoolInv, QueueInv, ThreadInv, Owned, BeginReqQueued,
         BeginRespQueued, EndRespQueued, RespWakeup, Running, Block, memVars,
         poolVars
<1>4. ThreadInv'
  BY DEF Inv, TypeOK, PoolInv, QueueInv, ThreadInv, Owned, BeginReqQueued,
         BeginRespQueued, EndRespQueued, Unqueued, RespWakeup, Running, Block,
         memVars, poolVars
<1>5. RefreshInv' /\ RefreshStall'
  BY DEF Inv, TypeOK, RefreshInv, RefreshStall, RespWakeup, Running, Block,
         memVars, poolVars
<1> QED
  BY <1>1, <1>2, <1>3, <1>4, <1>5 DEF Inv

\* A thread that is about to release is the last to hold its payload.
LEMMA ReleaserFacts ==
  ASSUME Inv, NEW i \in Initiator, i \in ready, pc[i] = "settle"
  PROVE  /\ at[i] \in Gp /\ at[i] \in made \ pool
         /\ Unqueued(at[i]) /\ gp[at[i]].ref = 1 /\ ev[i] = {}
<1>1. at[i] # NoGp
  BY DEF Inv, ThreadInv
<1>2. at[i] \in Gp /\ at[i] \in made \ pool
  BY <1>1 DEF Inv, TypeOK, PoolInv
<1>3. Unqueued(at[i])
  <2> SUFFICES ASSUME NEW e \in peq, e.trans = at[i]
               PROVE  FALSE
    BY DEF Unqueued
  <2>1. hop[e.trans].master = i
    BY <1>1 DEF Inv, QueueInv, Owned, PoolInv
  <2> QED
    BY <2>1 DEF Inv, QueueInv, BeginReqQueued, BeginRespQueued, EndRespQueued
<1> QED
  BY <1>1, <1>2, <1>3 DEF Inv, ThreadInv

\* The last reference goes and the payload returns to the pool.
LEMMA ReleaseTransInv ==
  ASSUME Inv, NEW i \in Initiator, ReleaseTrans(i)
  PROVE  Inv'
<1> USE DataAssumption, TimeAssumption
<1> DEFINE g == at[i]
<1>1. /\ g \in Gp /\ g \in made \ pool
      /\ Unqueued(g) /\ gp[g].ref = 1 /\ ev[i] = {}
  BY ReleaserFacts DEF ReleaseTrans, Running
<1>2. PICK ctx \in {hop[g], NoHop} : hop' = [hop EXCEPT ![g] = ctx]
  BY <1>1 DEF ReleaseTrans, Release
<1>3. /\ gp' = [gp EXCEPT ![g].ref = 0, ![g].resp = "incomplete"]
      /\ pool' = pool \cup {g} /\ made' = made
      /\ at' = [at EXCEPT ![i] = NoGp]
      /\ pc' = [pc EXCEPT ![i] = "run"]
      /\ UNCHANGED <<memVars, buf, peq, timer, ready, ev, halted>>
  BY <1>1 DEF ReleaseTrans, Release
<1> HIDE DEF g
<1>4. g = at[i] /\ g # NoGp
  BY <1>1 DEF g
<1>5. TypeOK'
  <2>1. gp' \in [Gp -> Payload]
    <3>1. gp' = [gp EXCEPT ![g] = [gp[g] EXCEPT !.ref = 0,
                                                !.resp = "incomplete"]]
      BY <1>1, <1>3 DEF Inv, TypeOK
    <3>2. gp[g] \in Payload
      BY <1>1 DEF Inv, TypeOK
    <3>3. [gp[g] EXCEPT !.ref = 0, !.resp = "incomplete"] \in Payload
      BY <3>2 DEF Payload
    <3> QED
      BY <3>1, <3>3, <1>1 DEF Inv, TypeOK
  <2>2. hop' \in [Gp -> HopCtx]
    <3>1. ctx \in HopCtx
      BY <1>1, <1>2 DEF Inv, TypeOK, HopCtx, NoHop
    <3> QED
      BY <1>2, <3>1 DEF Inv, TypeOK
  <2> QED
    BY <1>1, <1>3, <2>1, <2>2 DEF Inv, TypeOK, memVars
<1>6. PoolInv'
  <2>1. \A h \in Gp : h \notin made' \/ h \in pool' => gp'[h].ref = 0
    BY <1>1, <1>3 DEF Inv, TypeOK, PoolInv, Payload
  <2>2. \A j \in Initiator : at'[j] # NoGp => at'[j] \in made' \ pool'
    BY <1>1, <1>3, <1>4 DEF Inv, TypeOK, PoolInv
  <2>3. \A j, k \in Initiator : at'[j] # NoGp /\ at'[j] = at'[k] => j = k
    BY <1>3 DEF Inv, TypeOK, PoolInv
  <2>4. \A h \in made' \ pool' : \E j \in Initiator : at'[j] = h
    BY <1>3, <1>4 DEF Inv, TypeOK, PoolInv
  <2> QED
    BY <2>1, <2>2, <2>3, <2>4 DEF PoolInv
<1>7. QueueInv'
  <2>1. \A e \in peq : /\ e.trans \in Gp /\ e.trans # g
                       /\ hop[e.trans].master # i
    BY <1>1, <1>4 DEF Unqueued, Inv, TypeOK, QueueInv, Owned, Notice
  <2> QED
    BY <1>2, <1>3, <2>1 DEF Inv, TypeOK, QueueInv, Owned, BeginReqQueued,
       BeginRespQueued, EndRespQueued
<1>8. ThreadInv'
  BY <1>1, <1>3, <1>4 DEF Inv, TypeOK, PoolInv, ThreadInv, Unqueued
<1>9. RefreshInv' /\ RefreshStall'
  BY <1>3 DEF Inv, RefreshInv, RefreshStall, memVars
<1> QED
  BY <1>5, <1>6, <1>7, <1>8, <1>9 DEF Inv

\* An idle thread waits.
LEMMA SleepInv ==
  ASSUME Inv, NEW i \in Initiator, NEW t \in IdleWaits, Sleep(i, t)
  PROVE  Inv'
<1> USE DataAssumption, TimeAssumption
<1>1. TypeOK'
  BY DEF Inv, TypeOK, Sleep, Running, Block, memVars, poolVars
<1>2. PoolInv'
  BY DEF Inv, TypeOK, PoolInv, Sleep, Running, Block, memVars, poolVars
<1>3. QueueInv'
  BY DEF Inv, TypeOK, PoolInv, QueueInv, ThreadInv, Owned, BeginReqQueued,
         BeginRespQueued, EndRespQueued, Sleep, Running, Block, memVars,
         poolVars
<1>4. ThreadInv'
  BY DEF Inv, TypeOK, PoolInv, QueueInv, ThreadInv, Owned, BeginReqQueued,
         BeginRespQueued, EndRespQueued, Unqueued, Sleep, Running, Block,
         memVars, poolVars
<1>5. RefreshInv' /\ RefreshStall'
  BY DEF Inv, TypeOK, RefreshInv, RefreshStall, Sleep, Running, Block,
         memVars, poolVars
<1> QED
  BY <1>1, <1>2, <1>3, <1>4, <1>5 DEF Inv

-----------------------------------------------------------------------------
(***************************************************************************)
(* Memory                                                                  *)
(***************************************************************************)

\* A queued notification, its payload and its initiator know each other, and
\* no other notification concerns them.
LEMMA QueuedFacts ==
  ASSUME Inv, NEW e \in peq, NEW g, NEW i, g = e.trans, i = hop[g].master
  PROVE  /\ e \in Notice /\ g \in Gp /\ Owned(i, g) /\ g \in made \ pool
         /\ g # NoGp
         /\ \A f \in peq : f # e => f.trans # g /\ hop[f.trans].master # i
         /\ \A f \in peq : f.trans \in Gp /\ hop[f.trans].master \in Initiator
         /\ \A j \in Initiator : j # i => at[j] # g
<1> USE DataAssumption
<1>1. e \in Notice /\ g \in Gp /\ g # NoGp
  BY DEF Inv, TypeOK, Notice
<1>2. Owned(i, g)
  BY DEF Inv, QueueInv
<1>3. g \in made \ pool
  BY <1>1, <1>2 DEF Owned, Inv, PoolInv
<1>4. \A f \in peq : f # e => f.trans # g
  BY DEF Inv, QueueInv
<1>5. \A f \in peq : f # e => hop[f.trans].master # i
  BY <1>2, <1>4 DEF Owned, Inv, QueueInv
<1>6. \A f \in peq : f.trans \in Gp /\ hop[f.trans].master \in Initiator
  BY DEF Owned, Inv, TypeOK, QueueInv, Notice
<1>7. \A j \in Initiator : j # i => at[j] # g
  BY <1>1, <1>2 DEF Owned, Inv, PoolInv
<1> QED
  BY <1>1, <1>2, <1>3, <1>4, <1>5, <1>6, <1>7

\* The served request's thread is notified, its response is queued.
LEMMA PeqBeginReqInv ==
  ASSUME Inv, NEW e \in peq, PeqBeginReq(e)
  PROVE  Inv'
<1> USE DataAssumption, TimeAssumption
<1>0. PICK g, i, n :
        /\ g = e.trans /\ i = hop[g].master
        /\ n = Notification(g, "BEGIN_RESP", Latency(gp[g].cmd))
  OBVIOUS
<1>1. /\ g \in Gp /\ Owned(i, g) /\ g # NoGp
      /\ \A f \in peq : f # e => f.trans # g /\ hop[f.trans].master # i
      /\ \A f \in peq : f.trans \in Gp /\ hop[f.trans].master \in Initiator
      /\ \A j \in Initiator : j # i => at[j] # g
  BY <1>0, QueuedFacts
<1>2. BeginReqQueued(i, e)
  BY <1>0 DEF PeqBeginReq, Due, Inv, QueueInv
<1>3. /\ n \in Notice /\ n.trans = g /\ n.phase = "BEGIN_RESP"
      /\ n.lane = "timed" /\ n.when > 0
  BY <1>0, <1>1, NotificationFields DEF Latency, Phase
<1>4. /\ gp' = [gp EXCEPT ![g].resp = "ok"]
      /\ peq' = (peq \ {e}) \cup {n}
      /\ stalled' = stalled \ {g}
      /\ UNCHANGED <<poolVars, hop, refresh, pc, at, timer, ready, halted>>
  BY <1>0 DEF PeqBeginReq
<1>5. ev' = [ev EXCEPT ![i] = {"endreq"}]
  BY <1>0, <1>2 DEF PeqBeginReq, NotifyMaster, Master, BeginReqQueued
<1>6. mem' \in [Offset -> Val] /\ buf' \in [Initiator -> Val]
  <2>1. AccessMem(g)
    BY <1>0 DEF PeqBeginReq
  <2>2. gp[g].addr \in Offset /\ gp[g].ptr = i /\ i \in Initiator
    BY <1>0, <1>1, <1>2 DEF Owned, BeginReqQueued
  <2>3. mem \in [Offset -> Val] /\ buf \in [Initiator -> Val]
    BY DEF Inv, TypeOK
  <2> QED
    BY <2>1, <2>2, <2>3 DEF AccessMem
<1>7. i \in Initiator /\ at[i] = g /\ pc[i] = "endreq" /\ i \notin ready
  BY <1>1, <1>2 DEF Owned, BeginReqQueued
<1>8. TypeOK'
  <2>1. gp' \in [Gp -> Payload]
    <3>1. g \in Gp /\ gp \in [Gp -> Payload] /\ gp[g] \in Payload
      BY <1>1 DEF Inv, TypeOK
    <3> QED
      BY <1>4, <3>1 DEF Payload
  <2>2. peq' \in SUBSET Notice /\ ev' \in [Initiator -> SUBSET Event]
    BY <1>3, <1>4, <1>5 DEF Inv, TypeOK, Event
  <2> QED
    BY <1>4, <1>6, <2>1, <2>2 DEF Inv, TypeOK, poolVars
<1>9. PoolInv'
  BY <1>1, <1>4 DEF Inv, TypeOK, PoolInv, Payload, poolVars
<1>10. QueueInv'
  <2>1. \A f1, f2 \in peq' : f1.trans = f2.trans => f1 = f2
    BY <1>1, <1>3, <1>4 DEF Inv, QueueInv
  <2>2. Owned(i, g)' /\ hop' = hop /\ gp'[g].resp = "ok"
    BY <1>1, <1>4 DEF Owned, Inv, TypeOK, Payload
  <2>3. BeginRespQueued(i, n)'
    BY <1>3, <1>4, <1>5, <1>7, <2>2 DEF BeginRespQueued, Inv, TypeOK
  <2>4. ASSUME NEW f \in peq, f # e
        PROVE  /\ Owned(hop[f.trans].master, f.trans)'
               /\ \/ f.phase = "BEGIN_REQ"
                     /\ BeginReqQueued(hop[f.trans].master, f)'
                  \/ f.phase = "BEGIN_RESP"
                     /\ BeginRespQueued(hop[f.trans].master, f)'
                  \/ f.phase = "END_RESP"
                     /\ EndRespQueued(hop[f.trans].master, f)'
    BY <1>1, <1>4, <1>5, <1>7, <2>4 DEF Inv, TypeOK, QueueInv, Owned,
       BeginReqQueued, BeginRespQueued, EndRespQueued
  <2> QED
    BY <1>3, <1>4, <2>1, <2>2, <2>3, <2>4, <1>0 DEF QueueInv
<1>11. ThreadInv'
  <2> SUFFICES ASSUME NEW j \in Initiator
               PROVE  /\ at[j] = NoGp <=> pc[j] = "run"
                      /\ at[j] = NoGp => ev'[j] = {}
                      /\ at[j] # NoGp /\ Unqueued(at[j])' =>
                           /\ ev'[j] = {} /\ gp'[at[j]].ref = 1
                           /\ gp'[at[j]].cmd \in {"read", "write"}
                           /\ \/ /\ pc[j] = "endreq" /\ j \notin ready
                                 /\ gp'[at[j]].resp = "address_error"
                              \/ /\ pc[j] = "settle"
                                    \/ (pc[j] = "resp" /\ j \in ready)
                                 /\ gp'[at[j]].resp = "ok"
    BY <1>4 DEF ThreadInv, Unqueued
  <2>1. CASE j = i
    BY <1>1, <1>3, <1>4, <1>7, <2>1 DEF Inv, ThreadInv, Unqueued
  <2>2. CASE j # i
    <3>1. at[j] # g /\ ev'[j] = ev[j]
          /\ (at[j] # NoGp => gp'[at[j]] = gp[at[j]])
      BY <1>1, <1>4, <1>5, <2>2 DEF Inv, TypeOK
    <3>2. Unqueued(at[j])' => Unqueued(at[j])
      BY <1>0, <1>4, <3>1 DEF Unqueued
    <3> QED
      BY <3>1, <3>2 DEF Inv, ThreadInv
  <2> QED
    BY <2>1, <2>2
<1>12. RefreshInv' /\ RefreshStall'
  BY <1>3, <1>4 DEF Inv, RefreshInv, RefreshStall
<1> QED
  BY <1>8, <1>9, <1>10, <1>11, <1>12 DEF Inv

\* The response is delivered and END_RESP queued for the next delta.
LEMMA PeqBeginRespInv ==
  ASSUME Inv, NEW e \in peq, PeqBeginResp(e)
  PROVE  Inv'
<1> USE DataAssumption, TimeAssumption
<1>0. PICK g, i, n :
        /\ g = e.trans /\ i = hop[g].master
        /\ n = Notification(g, "END_RESP", 0)
  OBVIOUS
<1>1. /\ g \in Gp /\ Owned(i, g) /\ g # NoGp
      /\ \A f \in peq : f # e => f.trans # g /\ hop[f.trans].master # i
      /\ \A f \in peq : f.trans \in Gp /\ hop[f.trans].master \in Initiator
      /\ \A j \in Initiator : j # i => at[j] # g
  BY <1>0, QueuedFacts
<1>2. BeginRespQueued(i, e) /\ e.lane = "due"
  BY <1>0 DEF PeqBeginResp, Due, Inv, QueueInv
<1>3. /\ n \in Notice /\ n.trans = g /\ n.phase = "END_RESP"
      /\ n.lane = "delta"
  BY <1>0, <1>1, NotificationFields DEF Phase
<1>4. /\ gp' = [gp EXCEPT ![g].addr = hop[g].orig]
      /\ peq' = (peq \ {e}) \cup {n}
      /\ UNCHANGED <<memVars, poolVars, hop, pc, at, timer, ready, halted>>
  BY <1>0 DEF PeqBeginResp
<1>5. ev' = [ev EXCEPT ![i] = {"resp"}]
  BY <1>0, <1>2 DEF PeqBeginResp, NotifyMaster, Master, BeginRespQueued
<1>6. buf' \in [Initiator -> Val]
  <2>1. buf \in [Initiator -> Val] /\ gp[g].ptr \in Initiator
    BY <1>1 DEF Inv, TypeOK, Owned
  <2> QED
    BY <1>0, <2>1 DEF PeqBeginResp
<1>7. /\ i \in Initiator /\ at[i] = g /\ pc[i] = "resp" /\ i \notin ready
      /\ gp[g].resp = "ok"
  BY <1>0, <1>1, <1>2 DEF Owned, BeginRespQueued
<1>8. TypeOK'
  <2>1. gp' \in [Gp -> Payload]
    <3>1. /\ g \in Gp /\ gp \in [Gp -> Payload] /\ gp[g] \in Payload
          /\ hop[g].orig \in Addr
      BY <1>1 DEF Inv, TypeOK, Owned
    <3> QED
      BY <1>4, <3>1 DEF Payload
  <2>2. peq' \in SUBSET Notice /\ ev' \in [Initiator -> SUBSET Event]
    BY <1>3, <1>4, <1>5 DEF Inv, TypeOK, Event
  <2> QED
    BY <1>4, <1>6, <2>1, <2>2 DEF Inv, TypeOK, poolVars, memVars
<1>9. PoolInv'
  BY <1>1, <1>4 DEF Inv, TypeOK, PoolInv, Payload, poolVars
<1>10. QueueInv'
  <2>1. \A f1, f2 \in peq' : f1.trans = f2.trans => f1 = f2
    BY <1>1, <1>3, <1>4 DEF Inv, QueueInv
  <2>2. Owned(i, g)' /\ hop' = hop /\ gp'[g].resp = "ok"
    BY <1>1, <1>4, <1>7 DEF Owned, Inv, TypeOK, Payload
  <2>3. EndRespQueued(i, n)'
    BY <1>3, <1>4, <1>5, <1>7, <2>2 DEF EndRespQueued, Inv, TypeOK
  <2>4. ASSUME NEW f \in peq, f # e
        PROVE  /\ Owned(hop[f.trans].master, f.trans)'
               /\ \/ f.phase = "BEGIN_REQ"
                     /\ BeginReqQueued(hop[f.trans].master, f)'
                  \/ f.phase = "BEGIN_RESP"
                     /\ BeginRespQueued(hop[f.trans].master, f)'
                  \/ f.phase = "END_RESP"
                     /\ EndRespQueued(hop[f.trans].master, f)'
    BY <1>1, <1>4, <1>5, <1>7, <2>4 DEF Inv, TypeOK, QueueInv, Owned,
       BeginReqQueued, BeginRespQueued, EndRespQueued
  <2> QED
    BY <1>0, <1>3, <1>4, <2>1, <2>2, <2>3, <2>4 DEF QueueInv
<1>11. ThreadInv'
  <2> SUFFICES ASSUME NEW j \in Initiator
               PROVE  /\ at[j] = NoGp <=> pc[j] = "run"
                      /\ at[j] = NoGp => ev'[j] = {}
                      /\ at[j] # NoGp /\ Unqueued(at[j])' =>
                           /\ ev'[j] = {} /\ gp'[at[j]].ref = 1
                           /\ gp'[at[j]].cmd \in {"read", "write"}
                           /\ \/ /\ pc[j] = "endreq" /\ j \notin ready
                                 /\ gp'[at[j]].resp = "address_error"
                              \/ /\ pc[j] = "settle"
                                    \/ (pc[j] = "resp" /\ j \in ready)
                                 /\ gp'[at[j]].resp = "ok"
    BY <1>4 DEF ThreadInv, Unqueued
  <2>1. CASE j = i
    BY <1>1, <1>3, <1>4, <1>7, <2>1 DEF Inv, ThreadInv, Unqueued
  <2>2. CASE j # i
    <3>1. at[j] # g /\ ev'[j] = ev[j]
          /\ (at[j] # NoGp => gp'[at[j]] = gp[at[j]])
      BY <1>1, <1>4, <1>5, <2>2 DEF Inv, TypeOK
    <3>2. Unqueued(at[j])' => Unqueued(at[j])
      BY <1>0, <1>4, <3>1 DEF Unqueued
    <3> QED
      BY <3>1, <3>2 DEF Inv, ThreadInv
  <2> QED
    BY <2>1, <2>2
<1>12. RefreshInv' /\ RefreshStall'
  BY <1>3, <1>4 DEF Inv, RefreshInv, RefreshStall, memVars
<1> QED
  BY <1>8, <1>9, <1>10, <1>11, <1>12 DEF Inv

\* The target's reference goes; nothing is queued for the payload any more.
LEMMA PeqEndRespInv ==
  ASSUME Inv, NEW e \in peq, PeqEndResp(e)
  PROVE  Inv'
<1> USE DataAssumption, TimeAssumption
<1>0. PICK g, i : g = e.trans /\ i = hop[g].master
  OBVIOUS
<1>1. /\ g \in Gp /\ Owned(i, g) /\ g # NoGp
      /\ \A f \in peq : f # e => f.trans # g /\ hop[f.trans].master # i
      /\ \A f \in peq : f.trans \in Gp /\ hop[f.trans].master \in Initiator
      /\ \A j \in Initiator : j # i => at[j] # g
  BY <1>0, QueuedFacts
<1>2. EndRespQueued(i, e) /\ e.lane = "due"
  BY <1>0 DEF PeqEndResp, Due, Inv, QueueInv
<1>3. /\ gp' = [gp EXCEPT ![g].ref = 1]
      /\ peq' = peq \ {e}
      /\ UNCHANGED <<memVars, buf, poolVars, hop, pc, at, timer, ready, ev,
                     halted>>
  BY <1>0, <1>1 DEF PeqEndResp, Release, Owned, poolVars
<1>4. /\ i \in Initiator /\ at[i] = g /\ ev[i] = {} /\ gp[g].resp = "ok"
      /\ gp[g].cmd \in {"read", "write"}
      /\ pc[i] = "settle" \/ (pc[i] = "resp" /\ i \in ready)
  BY <1>0, <1>1, <1>2 DEF Owned, EndRespQueued
<1>5. TypeOK'
  <2>1. gp' \in [Gp -> Payload]
    <3>1. g \in Gp /\ gp \in [Gp -> Payload] /\ gp[g] \in Payload
      BY <1>1 DEF Inv, TypeOK
    <3> QED
      BY <1>3, <3>1 DEF Payload
  <2> QED
    BY <1>3, <2>1 DEF Inv, TypeOK, poolVars, memVars
<1>6. PoolInv'
  <2>1. g \in made \ pool
    BY <1>0, QueuedFacts
  <2> QED
    BY <1>1, <1>3, <2>1 DEF Inv, TypeOK, PoolInv, poolVars
<1>7. QueueInv'
  BY <1>0, <1>1, <1>3 DEF Inv, TypeOK, QueueInv, Owned, BeginReqQueued,
     BeginRespQueued, EndRespQueued
<1>8. ThreadInv'
  <2> SUFFICES ASSUME NEW j \in Initiator
               PROVE  /\ at[j] = NoGp <=> pc[j] = "run"
                      /\ at[j] = NoGp => ev[j] = {}
                      /\ at[j] # NoGp /\ Unqueued(at[j])' =>
                           /\ ev[j] = {} /\ gp'[at[j]].ref = 1
                           /\ gp'[at[j]].cmd \in {"read", "write"}
                           /\ \/ /\ pc[j] = "endreq" /\ j \notin ready
                                 /\ gp'[at[j]].resp = "address_error"
                              \/ /\ pc[j] = "settle"
                                    \/ (pc[j] = "resp" /\ j \in ready)
                                 /\ gp'[at[j]].resp = "ok"
    BY <1>3 DEF ThreadInv, Unqueued
  <2>1. CASE j = i
    BY <1>1, <1>3, <1>4, <2>1 DEF Inv, TypeOK, ThreadInv, Payload
  <2>2. CASE j # i
    <3>1. at[j] # g /\ (at[j] # NoGp => gp'[at[j]] = gp[at[j]])
      BY <1>1, <1>3, <2>2 DEF Inv, TypeOK
    <3>2. Unqueued(at[j])' => Unqueued(at[j])
      BY <1>0, <1>3, <3>1 DEF Unqueued
    <3> QED
      BY <3>1, <3>2 DEF Inv, ThreadInv
  <2> QED
    BY <2>1, <2>2
<1>9. RefreshInv' /\ RefreshStall'
  BY <1>3 DEF Inv, RefreshInv, RefreshStall, memVars
<1> QED
  BY <1>5, <1>6, <1>7, <1>8, <1>9 DEF Inv

\* A refresh begins or ends.
LEMMA RefreshThreadInv ==
  ASSUME Inv, RefreshThread
  PROVE  Inv'
<1> USE DataAssumption, TimeAssumption
<1>1. TypeOK'
  BY DEF Inv, TypeOK, RefreshThread, poolVars
<1>2. PoolInv'
  BY DEF Inv, TypeOK, PoolInv, RefreshThread, poolVars
<1>3. QueueInv'
  BY DEF Inv, TypeOK, PoolInv, QueueInv, ThreadInv, Owned, BeginReqQueued,
         BeginRespQueued, EndRespQueued, RefreshThread, poolVars
<1>4. ThreadInv'
  BY DEF Inv, TypeOK, PoolInv, QueueInv, ThreadInv, Owned, BeginReqQueued,
         BeginRespQueued, EndRespQueued, Unqueued, RefreshThread, poolVars
<1>5. RefreshInv' /\ RefreshStall'
  BY DEF Inv, TypeOK, RefreshInv, RefreshStall, RefreshThread, poolVars
<1> QED
  BY <1>1, <1>2, <1>3, <1>4, <1>5 DEF Inv

\* A store of the processor changes one word only.
LEMMA LtStoreInv ==
  ASSUME Inv, NEW o \in Offset, NEW v \in Val, LtStore(o, v)
  PROVE  Inv'
<1> USE DataAssumption, TimeAssumption
<1>1. TypeOK'
  BY DEF Inv, TypeOK, LtStore, poolVars
<1>2. PoolInv'
  BY DEF Inv, TypeOK, PoolInv, LtStore, poolVars
<1>3. QueueInv'
  BY DEF Inv, TypeOK, PoolInv, QueueInv, ThreadInv, Owned, BeginReqQueued,
         BeginRespQueued, EndRespQueued, LtStore, poolVars
<1>4. ThreadInv'
  BY DEF Inv, TypeOK, PoolInv, QueueInv, ThreadInv, Owned, BeginReqQueued,
         BeginRespQueued, EndRespQueued, Unqueued, LtStore, poolVars
<1>5. RefreshInv' /\ RefreshStall'
  BY DEF Inv, TypeOK, RefreshInv, RefreshStall, LtStore, poolVars
<1> QED
  BY <1>1, <1>2, <1>3, <1>4, <1>5 DEF Inv

-----------------------------------------------------------------------------
(***************************************************************************)
(* The kernel                                                              *)
(***************************************************************************)

\* Promotion changes the lane only.
LEMMA PromoteFields ==
  ASSUME NEW e \in Notice
  PROVE  /\ Promote(e) \in Notice
         /\ Promote(e).trans = e.trans /\ Promote(e).phase = e.phase
         /\ Promote(e).when = e.when
         /\ Promote(e).lane = IF e.lane = "delta" THEN "due" ELSE e.lane
  BY DEF Promote, Notice, Lane

\* The passing of time changes the remaining delay and the lane.
LEMMA ElapseFields ==
  ASSUME NEW e \in Notice, NEW d \in Nat, d <= e.when
  PROVE  /\ Elapse(e, d) \in Notice
         /\ Elapse(e, d).trans = e.trans /\ Elapse(e, d).phase = e.phase
         /\ Elapse(e, d).when = e.when - d
         /\ Elapse(e, d).lane = IF e.when = d THEN "due" ELSE e.lane
<1>1. PICK w : w \in Nat /\ w = e.when - d
  BY DEF Notice
<1>2. PICK l : l \in Lane /\ l = IF e.when = d THEN "due" ELSE e.lane
  BY DEF Notice, Lane
<1>3. Elapse(e, d) = [e EXCEPT !.when = w, !.lane = l]
  BY <1>1, <1>2 DEF Elapse
<1>4. [e EXCEPT !.when = w, !.lane = l] \in Notice
  BY <1>1, <1>2 DEF Notice
<1> QED
  BY <1>1, <1>2, <1>3, <1>4 DEF Notice

\* Each notified event finds its thread waiting for it.
LEMMA DeltaCycleInv ==
  ASSUME Inv, DeltaCycle
  PROVE  Inv'
<1> USE DataAssumption, TimeAssumption
<1>1. \A e \in peq : /\ e \in Notice /\ Promote(e) \in Notice
                     /\ Promote(e).trans = e.trans
                     /\ Promote(e).phase = e.phase
                     /\ Promote(e).when = e.when
                     /\ Promote(e).lane = IF e.lane = "delta" THEN "due"
                                          ELSE e.lane
  BY PromoteFields DEF Inv, TypeOK
<1>2. /\ peq' = {Promote(e) : e \in peq}
      /\ ready = {} /\ ready' = {i \in Initiator : pc[i] \in ev[i]}
      /\ ev' = [i \in Initiator |-> {}]
      /\ \A e \in peq : e.lane # "due"
      /\ UNCHANGED <<memVars, buf, poolVars, gp, hop, pc, at, timer, halted>>
  BY DEF DeltaCycle, Settled
<1>3. TypeOK'
  BY <1>1, <1>2 DEF Inv, TypeOK, memVars, poolVars
<1>4. PoolInv'
  BY <1>2 DEF Inv, PoolInv, poolVars
<1>5. QueueInv'
  <2>1. \A f1, f2 \in peq' : f1.trans = f2.trans => f1 = f2
    BY <1>1, <1>2 DEF Inv, QueueInv
  <2>2. ASSUME NEW e \in peq
        PROVE  LET i == hop[e.trans].master IN
               /\ Owned(i, e.trans)'
               /\ \/ e.phase = "BEGIN_REQ" /\ BeginReqQueued(i, Promote(e))'
                  \/ e.phase = "BEGIN_RESP" /\ BeginRespQueued(i, Promote(e))'
                  \/ e.phase = "END_RESP" /\ EndRespQueued(i, Promote(e))'
    <3>1. PICK i : i = hop[e.trans].master
      OBVIOUS
    <3>2. Owned(i, e.trans) /\ i \in Initiator /\ Owned(i, e.trans)'
      BY <1>2, <3>1 DEF Inv, QueueInv, Owned
    <3>3. CASE e.phase = "BEGIN_REQ"
      BY <1>1, <1>2, <3>1, <3>2, <3>3
         DEF Inv, TypeOK, QueueInv, BeginReqQueued, Event
    <3>4. CASE e.phase = "BEGIN_RESP"
      BY <1>1, <1>2, <3>1, <3>2, <3>4
         DEF Inv, TypeOK, QueueInv, BeginRespQueued, Event
    <3>5. CASE e.phase = "END_RESP"
      BY <1>1, <1>2, <3>1, <3>2, <3>5
         DEF Inv, TypeOK, QueueInv, EndRespQueued, Event
    <3> QED
      BY <3>1, <3>2, <3>3, <3>4, <3>5 DEF Inv, QueueInv
  <2> QED
    BY <1>1, <1>2, <2>1, <2>2 DEF QueueInv
<1>6. ThreadInv'
  <2>1. \A g : Unqueued(g)' => Unqueued(g)
    BY <1>1, <1>2 DEF Unqueued
  <2> QED
    BY <1>2, <2>1 DEF Inv, TypeOK, ThreadInv
<1>7. RefreshInv' /\ RefreshStall'
  BY <1>1, <1>2 DEF Inv, RefreshInv, RefreshStall, QueueInv, BeginReqQueued,
                    memVars
<1> QED
  BY <1>3, <1>4, <1>5, <1>6, <1>7 DEF Inv

\* Time passes only when nothing is runnable or notified.
LEMMA AdvanceTimeInv ==
  ASSUME Inv, NEW d \in 1..(tREFI + tRFC), AdvanceTime(d)
  PROVE  Inv'
<1> USE DataAssumption, TimeAssumption
<1>0. d \in Nat /\ d > 0
  OBVIOUS
<1>1. \A e \in peq : /\ e \in Notice /\ Elapse(e, d) \in Notice
                     /\ Elapse(e, d).trans = e.trans
                     /\ Elapse(e, d).phase = e.phase
                     /\ Elapse(e, d).when = e.when - d
                     /\ Elapse(e, d).lane = IF e.when = d THEN "due" ELSE e.lane
  BY <1>0, ElapseFields DEF Inv, TypeOK, AdvanceTime
<1>2. /\ peq' = {Elapse(e, d) : e \in peq}
      /\ \A e \in peq : d <= e.when /\ e.lane \notin {"due", "delta"}
      /\ ready = {} /\ ready' \subseteq Timed
      /\ \A i \in Initiator : ev[i] = {}
      /\ d <= refresh.left
      /\ refresh' = [refresh EXCEPT !.left = @ - d]
      /\ timer' = [i \in Initiator |-> IF i \in Timed THEN timer[i] - d
                                       ELSE timer[i]]
      /\ \A i \in Timed : d <= timer[i]
      /\ UNCHANGED <<mem, stalled, buf, poolVars, gp, hop, pc, at, ev, halted>>
  BY DEF AdvanceTime, Settled, DeltaPending
<1>3. TypeOK'
  <2>1. timer' \in [Initiator -> Nat]
    <3>1. ASSUME NEW i \in Initiator
          PROVE  (IF i \in Timed THEN timer[i] - d ELSE timer[i]) \in Nat
      BY <1>0, <1>2 DEF Inv, TypeOK
    <3> QED
      BY <1>2, <3>1
  <2>2. refresh' \in [on : BOOLEAN, left : Nat]
    BY <1>0, <1>2 DEF Inv, TypeOK
  <2>3. peq' \in SUBSET Notice /\ ready' \in SUBSET Initiator
    BY <1>1, <1>2 DEF Timed
  <2> QED
    BY <1>2, <2>1, <2>2, <2>3 DEF Inv, TypeOK, poolVars
<1>4. PoolInv'
  BY <1>2 DEF Inv, PoolInv, poolVars
<1>5. QueueInv'
  <2>1. \A f1, f2 \in peq' : f1.trans = f2.trans => f1 = f2
    BY <1>1, <1>2 DEF Inv, QueueInv
  <2>2. ASSUME NEW e \in peq
        PROVE  LET i == hop[e.trans].master IN
               /\ Owned(i, e.trans)'
               /\ \/ e.phase = "BEGIN_REQ" /\ BeginReqQueued(i, Elapse(e, d))'
                  \/ e.phase = "BEGIN_RESP" /\ BeginRespQueued(i, Elapse(e, d))'
                  \/ e.phase = "END_RESP" /\ EndRespQueued(i, Elapse(e, d))'
    <3>1. PICK i : i = hop[e.trans].master
      OBVIOUS
    <3>2. Owned(i, e.trans) /\ i \in Initiator /\ Owned(i, e.trans)'
      BY <1>2, <3>1 DEF Inv, QueueInv, Owned
    <3>3. CASE e.phase = "BEGIN_REQ"
      BY <1>1, <1>2, <3>1, <3>2, <3>3
         DEF Inv, QueueInv, BeginReqQueued, Timed
    <3>4. CASE e.phase = "BEGIN_RESP"
      BY <1>1, <1>2, <3>1, <3>2, <3>4
         DEF Inv, QueueInv, BeginRespQueued, Timed
    <3>5. CASE e.phase = "END_RESP"
      BY <1>2, <3>1, <3>2, <3>5 DEF Inv, QueueInv, EndRespQueued
    <3> QED
      BY <3>1, <3>2, <3>3, <3>4, <3>5 DEF Inv, QueueInv
  <2> QED
    BY <1>1, <1>2, <2>1, <2>2 DEF QueueInv
<1>6. ThreadInv'
  <2>1. \A g : Unqueued(g)' => Unqueued(g)
    BY <1>1, <1>2 DEF Unqueued
  <2> QED
    BY <1>2, <2>1 DEF Inv, ThreadInv, Timed
<1>7. RefreshInv' /\ RefreshStall'
  <2>1. RefreshInv'
    BY <1>2 DEF Inv, TypeOK, RefreshInv
  <2>2. ASSUME NEW e \in peq, e.phase = "BEGIN_REQ", e.trans \in stalled
        PROVE  IF Elapse(e, d).lane = "due" THEN refresh'.left = 0
               ELSE Elapse(e, d).when >= refresh'.left
    <3>1. /\ e.when \in Nat /\ refresh.left \in Nat
          /\ refresh'.left = refresh.left - d
      BY <1>1, <1>2 DEF Inv, TypeOK, Notice
    <3>2. e.when >= refresh.left
      BY <1>2, <2>2 DEF Inv, RefreshStall
    <3> QED
      BY <1>0, <1>1, <1>2, <3>1, <3>2
  <2> QED
    BY <1>1, <1>2, <2>1, <2>2 DEF RefreshStall
<1> QED
  BY <1>3, <1>4, <1>5, <1>6, <1>7 DEF Inv

-----------------------------------------------------------------------------
(***************************************************************************)
(* Theorems                                                                *)
(***************************************************************************)

\* Nothing is queued and no payload exists.
LEMMA InitInv ==
  ASSUME Init
  PROVE  Inv
<1> USE DataAssumption, TimeAssumption
<1>1. TypeOK
  BY DEF Init, TypeOK, Payload, HopCtx, NewPayload, NoHop
<1>2. PoolInv /\ QueueInv /\ ThreadInv /\ RefreshInv /\ RefreshStall
  BY DEF Init, PoolInv, QueueInv, ThreadInv, RefreshInv, RefreshStall,
         NewPayload
<1> QED
  BY <1>1, <1>2 DEF Inv

\* Every action keeps the invariant.
LEMMA NextInv ==
  ASSUME Inv, [Next]_vars
  PROVE  Inv'
<1>1. ASSUME NEW i \in Initiator, ThreadStep(i)
      PROVE  Inv'
  BY <1>1, BeginReqInv, BeginReqNoTargetInv, EndReqWakeupInv, RespWakeupInv,
     ReleaseTransInv, SleepInv DEF ThreadStep
<1>2. CASE PeqCallback
  BY <1>2, PeqBeginReqInv, PeqBeginRespInv, PeqEndRespInv DEF PeqCallback
<1>3. CASE RefreshThread
  BY <1>3, RefreshThreadInv
<1>4. CASE KernelStep
  BY <1>4, DeltaCycleInv, AdvanceTimeInv DEF KernelStep
<1>5. ASSUME NEW o \in Offset, NEW v \in Val, LtStore(o, v)
      PROVE  Inv'
  BY <1>5, LtStoreInv
<1>6. CASE UNCHANGED vars
  BY <1>6 DEF Inv, TypeOK, PoolInv, QueueInv, Owned, BeginReqQueued,
     BeginRespQueued, EndRespQueued, ThreadInv, Unqueued, RefreshInv,
     RefreshStall, vars
<1> QED
  BY <1>1, <1>2, <1>3, <1>4, <1>5, <1>6 DEF Next

\* References, queue entries and thread positions always fit together.
THEOREM Invariance == Safe => []Inv
<1>1. Init => Inv
  BY InitInv
<1>2. Inv /\ [Next]_vars => Inv'
  BY NextInv
<1> QED
  BY <1>1, <1>2, PTL DEF Safe

\* Every variable keeps its type: no reference count and no wait goes below 0,
\* and no thread releases a null payload.
THEOREM TypeCorrect == Safe => []TypeOK
  BY Invariance, PTL DEF Inv

\* Nothing queued or held can be handed out again, and everybody who will
\* release a payload still counts on it: no release comes after the last one.
THEOREM NoUseAfterFreeHolds == Safe => []NoUseAfterFree
<1>1. Inv => NoUseAfterFree
  <2> SUFFICES ASSUME Inv PROVE NoUseAfterFree
    OBVIOUS
  <2>1. \A e \in peq : e.trans \notin pool /\ gp[e.trans].ref >= 1
    BY QueuedFacts DEF Owned
  <2>2. ASSUME NEW i \in Initiator, at[i] # NoGp
        PROVE  at[i] \in made \ pool /\ gp[at[i]].ref >= 1
    <3>1. CASE Unqueued(at[i])
      BY <2>2, <3>1 DEF Inv, PoolInv, ThreadInv
    <3>2. CASE ~Unqueued(at[i])
      BY <2>1, <2>2, <3>2 DEF Inv, PoolInv, Unqueued
    <3> QED
      BY <3>1, <3>2
  <2> QED
    BY <2>1, <2>2 DEF NoUseAfterFree, Inv, TypeOK, PoolInv
<1> QED
  BY <1>1, Invariance, PTL

\* Every notification goes back to the initiator whose transfer it is, and
\* carries that initiator's buffer.
THEOREM RoutedHomeHolds == Safe => []RoutedHome
<1>1. Inv => RoutedHome
  BY QueuedFacts DEF RoutedHome, Owned
<1> QED
  BY <1>1, Invariance, PTL

\* The initiator's release is always the last one.
THEOREM InitiatorReleasesLastHolds == Safe => []InitiatorReleasesLast
<1>1. Inv => InitiatorReleasesLast
  BY ReleaserFacts DEF InitiatorReleasesLast, Unqueued, Inv, TypeOK
<1> QED
  BY <1>1, Invariance, PTL

\* No request that met a refresh is served before the refresh is over.
THEOREM RefreshStallHolds == Safe => []RefreshStall
  BY Invariance, PTL DEF Inv

\* Each of the two events finds its thread waiting for it.
THEOREM NoLostWakeupHolds == Safe => NoLostWakeup
<1>1. ASSUME Inv, DeltaCycle, NEW i \in Initiator, ev[i] # {}
      PROVE  i \in ready'
  <2>1. PICK e \in peq : e.trans = at[i]
    BY <1>1 DEF Inv, ThreadInv, Unqueued
  <2>2. hop[e.trans].master = i
    BY <1>1, <2>1, QueuedFacts DEF Owned, Inv, PoolInv
  <2>3. pc[i] \in ev[i]
    <3>1. i \notin ready /\ \A f \in peq : f.lane # "due"
      BY <1>1 DEF DeltaCycle, Settled
    <3> QED
      BY <1>1, <2>2, <3>1 DEF Inv, QueueInv, BeginReqQueued, BeginRespQueued,
         EndRespQueued
  <2> QED
    BY <1>1, <2>3 DEF DeltaCycle
<1>2. Inv /\ [Next]_vars
      => [DeltaCycle => \A i \in Initiator : ev[i] # {} => i \in ready']_vars
  BY <1>1
<1> QED
  BY <1>2, Invariance, PTL DEF Safe, NoLostWakeup

\* The pool makes a new payload only when every existing one is held, so there
\* is never more than one per initiator.
THEOREM PoolBoundHolds == Safe => []PoolBound
<1> USE InitiatorAssumption
<1>1. Inv /\ pool = {} => PoolBound
  <2> SUFFICES ASSUME Inv, pool = {} PROVE PoolBound
    OBVIOUS
  <2> DEFINE f == [g \in made |-> CHOOSE i \in Initiator : at[i] = g]
  <2>1. \A g \in made : f[g] \in Initiator /\ at[f[g]] = g
    BY DEF Inv, PoolInv
  <2>2. f \in Injection(made, Initiator)
    BY <2>1 DEF Injection, IsInjective
  <2> QED
    BY <2>2, FS_Injection DEF PoolBound
<1>2. ASSUME Inv, [Next]_vars
      PROVE  made' = made \/ pool' = {}
  <2>1. ASSUME NEW g, Allocate(g)
        PROVE  made' = made \/ pool' = {}
    BY <2>1 DEF Allocate
  <2>2. ASSUME NEW g, Release(g)
        PROVE  made' = made
    BY <2>2 DEF Release
  <2>3. ASSUME NEW i, ThreadStep(i)
        PROVE  made' = made \/ pool' = {}
    BY <2>1, <2>2, <2>3 DEF ThreadStep, BeginReq, BeginReqNoTarget,
       EndReqWakeup, RespWakeup, ReleaseTrans, Sleep, poolVars
  <2>4. CASE PeqCallback
    BY <2>2, <2>4 DEF PeqCallback, PeqBeginReq, PeqBeginResp, PeqEndResp,
       poolVars
  <2>5. CASE KernelStep
    BY <2>5 DEF KernelStep, DeltaCycle, AdvanceTime, poolVars
  <2>6. CASE RefreshThread \/ UNCHANGED vars
    BY <2>6 DEF RefreshThread, vars, poolVars
  <2>7. ASSUME NEW o, NEW v, LtStore(o, v)
        PROVE  made' = made
    BY <2>7 DEF LtStore, poolVars
  <2> QED
    BY <1>2, <2>3, <2>4, <2>5, <2>6, <2>7 DEF Next
<1>3. Init => PoolBound
  BY FS_EmptySet, FS_CardinalityType DEF Init, PoolBound
<1>4. Inv /\ Inv' /\ PoolBound /\ [Next]_vars => PoolBound'
  <2>1. (Inv /\ pool = {} => PoolBound)'
    BY <1>1, PTL
  <2> QED
    BY <1>2, <2>1 DEF PoolBound
<1> QED
  BY <1>3, <1>4, Invariance, PTL DEF Safe

-----------------------------------------------------------------------------
(***************************************************************************)
(* The AT path implements the atomic memory port                           *)
(***************************************************************************)

\* A step that keeps an initiator's payload, its command, status and context
\* keeps its port.
LEMMA PortKept ==
  ASSUME NEW i \in Initiator, at'[i] = at[i],
         at[i] # NoGp => /\ gp'[at[i]].cmd = gp[at[i]].cmd
                         /\ gp'[at[i]].resp = gp[at[i]].resp
                         /\ hop'[at[i]].orig = hop[at[i]].orig
  PROVE  PortOf(i)' = PortOf(i)
  BY DEF PortOf

\* A step that keeps them all, and the data, stutters.
LEMMA PortStutter ==
  ASSUME UNCHANGED <<mem, buf, at, hop>>,
         \A i \in Initiator : at[i] # NoGp =>
           /\ gp'[at[i]].cmd = gp[at[i]].cmd
           /\ gp'[at[i]].resp = gp[at[i]].resp
  PROVE  UNCHANGED Port!vars
<1>1. \A i \in Initiator : PortOf(i)' = PortOf(i)
  BY PortKept
<1> QED
  BY <1>1 DEF Port!vars

\* Issuing a request that decodes is the port's Request.
LEMMA BeginReqPort ==
  ASSUME Inv, NEW i \in Initiator, NEW cmd \in {"read", "write"},
         NEW a \in Addr, NEW v \in Val, BeginReq(i, cmd, a, v)
  PROVE  Port!Request(i, cmd, Decode[a], v)
<1> USE DataAssumption
<1>1. PICK g \in Gp :
       /\ Allocate(g)
       /\ gp' = [gp EXCEPT ![g] =
                   [cmd |-> cmd, addr |-> Decode[a], ptr |-> i,
                    resp |-> "incomplete", ref |-> @.ref + 2]]
       /\ SetHop(g, i, a)
       /\ at' = [at EXCEPT ![i] = g]
  BY DEF BeginReq
<1>2. \A j \in Initiator : at[j] # g
  BY <1>1, AllocateFacts
<1>3. at[i] = NoGp
  BY DEF BeginReq, Running, Inv, ThreadInv
<1>4. PortOf(i) = Port!Idle
  BY <1>3 DEF PortOf, Port!Idle
<1>5. PortOf(i)' = [st |-> "busy", cmd |-> cmd, off |-> Decode[a]]
  <2>1. at'[i] = g /\ g # NoGp
    BY <1>1 DEF Inv, TypeOK
  <2>2. /\ gp'[g].cmd = cmd /\ gp'[g].resp = "incomplete"
        /\ hop'[g].orig = a
    BY <1>1 DEF Inv, TypeOK, SetHop
  <2> QED
    BY <2>1, <2>2 DEF PortOf
<1>6. ASSUME NEW j \in Initiator, j # i
      PROVE  PortOf(j)' = PortOf(j)
  BY <1>1, <1>2, <1>6, PortKept DEF Inv, TypeOK, SetHop
<1>7. Port!Load(i, cmd, v) /\ mem' = mem
  BY DEF BeginReq, PointData, Port!Load
<1> QED
  BY <1>4, <1>5, <1>6, <1>7 DEF Port!Request

\* Issuing one that does not is the port's Refuse.
LEMMA BeginReqNoTargetPort ==
  ASSUME Inv, NEW i \in Initiator, NEW cmd \in {"read", "write"},
         NEW a \in Addr, NEW v \in Val, BeginReqNoTarget(i, cmd, a, v)
  PROVE  Port!Refuse(i, cmd, v)
<1> USE DataAssumption
<1>1. PICK g \in Gp :
       /\ Allocate(g)
       /\ gp' = [gp EXCEPT ![g] =
                   [cmd |-> cmd, addr |-> a, ptr |-> i,
                    resp |-> "address_error", ref |-> @.ref + 1]]
       /\ at' = [at EXCEPT ![i] = g]
  BY DEF BeginReqNoTarget
<1>2. \A j \in Initiator : at[j] # g
  BY <1>1, AllocateFacts
<1>3. at[i] = NoGp /\ hop' = hop
  BY DEF BeginReqNoTarget, Running, Inv, ThreadInv
<1>4. PortOf(i) = Port!Idle
  BY <1>3 DEF PortOf, Port!Idle
<1>5. PortOf(i)' = [st |-> "refused", cmd |-> cmd, off |-> NoOffset]
  <2>1. at'[i] = g /\ g # NoGp
    BY <1>1 DEF Inv, TypeOK
  <2>2. gp'[g].cmd = cmd /\ gp'[g].resp = "address_error"
    BY <1>1 DEF Inv, TypeOK
  <2> QED
    BY <2>1, <2>2 DEF PortOf
<1>6. ASSUME NEW j \in Initiator, j # i
      PROVE  PortOf(j)' = PortOf(j)
  BY <1>1, <1>2, <1>3, <1>6, PortKept DEF Inv, TypeOK
<1>7. Port!Load(i, cmd, v) /\ mem' = mem
  BY DEF BeginReqNoTarget, PointData, Port!Load
<1> QED
  BY <1>4, <1>5, <1>6, <1>7 DEF Port!Refuse

\* The initiator's release is the port's Return.
LEMMA ReleaseTransPort ==
  ASSUME Inv, NEW i \in Initiator, ReleaseTrans(i)
  PROVE  Port!Return(i)
<1> USE DataAssumption
<1> DEFINE g == at[i]
<1>1. /\ g \in Gp /\ Unqueued(g) /\ gp[g].ref = 1 /\ g # NoGp
      /\ pc[i] = "settle"
  BY ReleaserFacts DEF ReleaseTrans, Running
<1>2. gp[g].resp = "ok"
  BY <1>1 DEF Inv, ThreadInv
<1>3. /\ gp' = [gp EXCEPT ![g].ref = 0, ![g].resp = "incomplete"]
      /\ at' = [at EXCEPT ![i] = NoGp]
      /\ \A h \in Gp : h # g => hop'[h] = hop[h]
      /\ UNCHANGED <<mem, buf>>
  BY <1>1 DEF ReleaseTrans, Release, memVars, Inv, TypeOK
<1>4. PortOf(i).st = "done"
  BY <1>1, <1>2 DEF PortOf
<1>5. PortOf(i)' = Port!Idle
  BY <1>3 DEF PortOf, Port!Idle, Inv, TypeOK
<1>6. ASSUME NEW j \in Initiator, j # i
      PROVE  PortOf(j)' = PortOf(j)
  <2>1. at'[j] = at[j] /\ at[j] # g
    BY <1>1, <1>3, <1>6 DEF Inv, TypeOK, PoolInv
  <2>2. at[j] # NoGp => at[j] \in Gp
    BY DEF Inv, TypeOK
  <2> QED
    BY <1>3, <2>1, <2>2, PortKept DEF Inv, TypeOK
<1> QED
  BY <1>3, <1>4, <1>5, <1>6 DEF Port!Return

\* The access on BEGIN_REQ is the port's Serve.
LEMMA PeqBeginReqPort ==
  ASSUME Inv, NEW e \in peq, PeqBeginReq(e)
  PROVE  \E i \in Initiator : Port!Serve(i)
<1> USE DataAssumption
<1>0. PICK g, i : g = e.trans /\ i = hop[g].master
  OBVIOUS
<1>1. /\ g \in Gp /\ Owned(i, g) /\ g # NoGp
      /\ \A j \in Initiator : j # i => at[j] # g
  BY <1>0, QueuedFacts
<1>2. /\ gp[g].resp = "incomplete" /\ gp[g].addr = Decode[hop[g].orig]
  BY <1>0 DEF PeqBeginReq, Due, Inv, QueueInv, BeginReqQueued
<1>3. /\ gp' = [gp EXCEPT ![g].resp = "ok"]
      /\ AccessMem(g) /\ at' = at /\ hop' = hop
  BY <1>0 DEF PeqBeginReq, poolVars
<1>4. i \in Initiator /\ at[i] = g /\ gp[g].ptr = i /\ gp[g].cmd \in {"read", "write"}
  BY <1>1 DEF Owned
<1>5. PortOf(i) = [st |-> "busy", cmd |-> gp[g].cmd, off |-> gp[g].addr]
  BY <1>1, <1>2, <1>4 DEF PortOf
<1>6. PortOf(i)' = [st |-> "done", cmd |-> gp[g].cmd, off |-> gp[g].addr]
  <2>1. at'[i] = g /\ gp'[g].resp = "ok" /\ gp'[g].cmd = gp[g].cmd
    BY <1>1, <1>3, <1>4 DEF Inv, TypeOK, Payload
  <2> QED
    BY <1>1, <1>2, <1>3, <2>1 DEF PortOf
<1>7. ASSUME NEW j \in Initiator, j # i
      PROVE  PortOf(j)' = PortOf(j)
  BY <1>1, <1>3, <1>7, PortKept DEF Inv, TypeOK
<1>8. /\ gp[g].cmd = "read" => /\ buf' = [buf EXCEPT ![i] = mem[gp[g].addr]]
                               /\ mem' = mem
      /\ gp[g].cmd = "write" => /\ mem' = [mem EXCEPT ![gp[g].addr] = buf[i]]
                                /\ buf' = buf
  BY <1>3, <1>4 DEF AccessMem
<1>9. [j \in Initiator |-> PortOf(j)'] =
        [[j \in Initiator |-> PortOf(j)] EXCEPT ![i].st = "done"]
  <2>1. PortOf(i)' = [PortOf(i) EXCEPT !.st = "done"]
    BY <1>5, <1>6
  <2> QED
    BY <1>4, <1>7, <2>1
<1>10. Port!Serve(i)
  <2>1. CASE gp[g].cmd = "read"
    BY <1>4, <1>5, <1>8, <1>9, <2>1 DEF Port!Serve
  <2>2. CASE gp[g].cmd = "write"
    BY <1>4, <1>5, <1>8, <1>9, <2>2 DEF Port!Serve
  <2> QED
    BY <1>4, <2>1, <2>2
<1> QED
  BY <1>4, <1>10

\* The copy of the read data in BEGIN_RESP is of a buffer onto itself.
LEMMA PeqBeginRespPort ==
  ASSUME Inv, NEW e \in peq, PeqBeginResp(e)
  PROVE  UNCHANGED Port!vars
<1>0. PICK g, i : g = e.trans /\ i = hop[g].master
  OBVIOUS
<1>1. g \in Gp /\ gp[g].ptr = i /\ i \in Initiator
  BY <1>0, QueuedFacts DEF Owned
<1>2. gp' = [gp EXCEPT ![g].addr = hop[g].orig] /\ UNCHANGED <<mem, at, hop>>
  BY <1>0 DEF PeqBeginResp, memVars
<1>3. buf' = buf
  BY <1>0, <1>1 DEF PeqBeginResp, Master, Inv, TypeOK
<1>4. \A i1 \in Initiator : at[i1] # NoGp =>
           /\ gp'[at[i1]].cmd = gp[at[i1]].cmd
           /\ gp'[at[i1]].resp = gp[at[i1]].resp
  BY <1>1, <1>2 DEF Inv, TypeOK, Payload
<1> QED
  BY <1>2, <1>3, <1>4, PortStutter

\* The target's release is not visible at the port.
LEMMA PeqEndRespPort ==
  ASSUME Inv, NEW e \in peq, PeqEndResp(e)
  PROVE  UNCHANGED Port!vars
<1>0. PICK g, i : g = e.trans /\ i = hop[g].master
  OBVIOUS
<1>1. g \in Gp /\ gp[g].ref = 2
  BY <1>0, QueuedFacts DEF Owned
<1>2. gp' = [gp EXCEPT ![g].ref = 1] /\ UNCHANGED <<mem, buf, at, hop>>
  BY <1>0, <1>1 DEF PeqEndResp, Release, memVars
<1>3. \A i1 \in Initiator : at[i1] # NoGp =>
           /\ gp'[at[i1]].cmd = gp[at[i1]].cmd
           /\ gp'[at[i1]].resp = gp[at[i1]].resp
  BY <1>1, <1>2 DEF Inv, TypeOK, Payload
<1> QED
  BY <1>2, <1>3, PortStutter

\* Every transfer over the AT path is one atomic access of the word its address
\* names, between its call and its return.
THEOREM PortRefined == Safe => PortSafe
<1> USE DataAssumption
<1>1. Init => Port!Init
  BY DEF Init, Port!Init, PortOf, Port!Idle
<1>2. ASSUME Inv, [Next]_vars
      PROVE  [Port!Next]_Port!vars
  <2>1. ASSUME NEW i \in Initiator, ThreadStep(i)
        PROVE  Port!Next \/ UNCHANGED Port!vars
    <3>1. ASSUME NEW cmd \in {"read", "write"}, NEW a \in Addr, NEW v \in Val,
                 BeginReq(i, cmd, a, v)
          PROVE  Port!Next
      <4>1. Decode[a] \in Offset
        BY <3>1 DEF BeginReq
      <4> QED
        BY <1>2, <3>1, <4>1, BeginReqPort DEF Port!Next
    <3>2. ASSUME NEW cmd \in {"read", "write"}, NEW a \in Addr, NEW v \in Val,
                 BeginReqNoTarget(i, cmd, a, v)
          PROVE  Port!Next
      BY <1>2, <3>2, BeginReqNoTargetPort DEF Port!Next
    <3>3. CASE ReleaseTrans(i)
      BY <1>2, <3>3, ReleaseTransPort DEF Port!Next
    <3>4. CASE EndReqWakeup(i) \/ RespWakeup(i) \/ \E t \in IdleWaits : Sleep(i, t)
      BY <3>4, PortStutter DEF EndReqWakeup, RespWakeup, Sleep, memVars
    <3> QED
      BY <2>1, <3>1, <3>2, <3>3, <3>4 DEF ThreadStep
  <2>2. CASE PeqCallback
    BY <1>2, <2>2, PeqBeginReqPort, PeqBeginRespPort, PeqEndRespPort
       DEF PeqCallback, Port!Next
  <2>3. CASE RefreshThread \/ KernelStep \/ UNCHANGED vars
    BY <2>3, PortStutter DEF RefreshThread, KernelStep, DeltaCycle, AdvanceTime,
       vars, memVars
  <2>4. ASSUME NEW o \in Offset, NEW v \in Val, LtStore(o, v)
        PROVE  Port!Next
    <3>1. \A i \in Initiator : PortOf(i)' = PortOf(i)
      BY <2>4, PortKept DEF LtStore
    <3> QED
      BY <2>4, <3>1 DEF LtStore, Port!Next, Port!Store
  <2> QED
    BY <1>2, <2>1, <2>2, <2>3, <2>4 DEF Next
<1> QED
  BY <1>1, <1>2, Invariance, PTL DEF Safe, PortSafe, Port!Safe
=============================================================================
