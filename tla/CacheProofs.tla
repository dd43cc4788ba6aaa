---------------------------- MODULE CacheProofs ----------------------------
(***************************************************************************)
(* Proofs about Cache, for any geometry, any map of addresses to lines and *)
(* any other masters: at most one copy of an address, no store lost by the *)
(* cache itself, and no line filled from a device or from nowhere.         *)
(***************************************************************************)
EXTENDS Cache, TLAPS

\* The inductive invariant: the three need each other, a store hits the only
\* copy of a line that has a place in the memory.
Inv == TypeOK /\ OneCopy /\ StaleOnlyBehind /\ ValidIsMapped

\* A value of the LRU counter fits its width.
LEMMA LruFits == ASSUME TypeOK, NEW n \in Nat PROVE Lru(n) \in 0 .. LruRange - 1
  <1> DEFINE x == tick + n
  <1>1. x \in Nat /\ LruRange \in Nat /\ LruRange > 0
    BY CacheAssumption DEF TypeOK
  <1> HIDE DEF x
  <1>2. x % LruRange \in 0 .. LruRange - 1 BY <1>1
  <1> QED BY <1>2 DEF Lru, x

\* The kinds of response are responses.
LEMMA ResponseType ==
  ASSUME NEW s \in Set, NEW t \in Tag, NEW w \in Word, NEW v \in Val,
         NEW op \in {"load", "store"}, NEW st \in {"ok", "address_error"},
         Response(op, <<s, t, w>>, v, st)
  PROVE  resp' \in Responses
  <1>1. <<s, t, w>> \in Addr BY DEF Addr
  <1>2. [op |-> op, addr |-> <<s, t, w>>, val |-> v, status |-> st]
        \in [op : {"load", "store"}, addr : Addr, val : Val,
             status : {"ok", "address_error"}]
    BY <1>1
  <1> QED BY <1>2 DEF Response, Responses

\* Replacing one way of one set leaves the others as they were.
LEMMA PutOne ==
  ASSUME line \in [Set -> [Way -> CacheLine]], NEW s \in Set, NEW k \in Way,
         NEW ln \in CacheLine, Put(s, k, ln)
  PROVE  /\ line' \in [Set -> [Way -> CacheLine]]
         /\ line'[s][k] = ln
         /\ \A s2 \in Set, k2 \in Way :
              (s2 # s \/ k2 # k) => line'[s2][k2] = line[s2][k2]
  BY DEF Put

\* A store downstream changes one word.
LEMMA MemWriteOne ==
  ASSUME mem \in [Line -> [Word -> Val]], NEW l \in Line, NEW w \in Word,
         NEW v \in Val, MemWrite(l, w, v)
  PROVE  /\ mem' \in [Line -> [Word -> Val]]
         /\ mem'[l][w] = v
         /\ \A l2 \in Line, w2 \in Word :
              (l2 # l \/ w2 # w) => mem'[l2][w2] = mem[l2][w2]
  BY DEF MemWrite

\* Overtaken adds the written word to every copy and takes nothing away.
LEMMA OvertakenFacts ==
  ASSUME behind \in [Set -> [Way -> SUBSET Word]], NEW l, NEW w \in Word
  PROVE  /\ Overtaken(l, w) \in [Set -> [Way -> SUBSET Word]]
         /\ \A s \in Set, k \in Way :
              Overtaken(l, w)[s][k] =
                IF CopyOf(s, k, l) THEN behind[s][k] \cup {w} ELSE behind[s][k]
  BY DEF Overtaken

\* The history of the uses keeps its type.
LEMMA TouchType ==
  ASSUME since \in [Set -> [Way -> SUBSET Way]], NEW s \in Set, NEW k \in Way,
         Touch(s, k)
  PROVE  since' \in [Set -> [Way -> SUBSET Way]]
  BY DEF Touch

\* The machine starts with no line valid.
LEMMA InitInv == Init => Inv
  <1> SUFFICES ASSUME Init PROVE Inv
    OBVIOUS
  <1>1. 0 \in 0 .. LruRange - 1 BY CacheAssumption
  <1>2. [valid |-> FALSE, tag |-> Tag0, data |-> [w \in Word |-> Zero], lru |-> 0]
        \in CacheLine
    BY <1>1, CacheAssumption DEF CacheLine
  <1>3. TypeOK BY <1>2 DEF Init, TypeOK, Responses
  <1>4. \A s \in Set, k \in Way : ~line[s][k].valid BY DEF Init
  <1> QED BY <1>3, <1>4 DEF Inv, OneCopy, StaleOnlyBehind, ValidIsMapped

\* A store into memory by somebody else: the copies it passes are behind.
LEMMA PassedBy ==
  ASSUME Inv, NEW l \in Line, NEW w \in Word, NEW v \in Val,
         MemWrite(l, w, v), behind' = Overtaken(l, w), line' = line
  PROVE  OneCopy' /\ StaleOnlyBehind' /\ ValidIsMapped'
  <1> USE DEF Inv
  <1>1. OneCopy' /\ ValidIsMapped' BY DEF OneCopy, ValidIsMapped
  <1>2. StaleOnlyBehind'
    <2> SUFFICES ASSUME NEW s \in Set, NEW k \in Way, NEW x \in Word,
                        line[s][k].valid
                 PROVE  \/ line[s][k].data[x] = mem'[Home[s][line[s][k].tag]][x]
                        \/ x \in behind'[s][k]
      BY DEF StaleOnlyBehind
    <2>1. Home[s][line[s][k].tag] \in Line
      <3>1. line[s][k].tag \in Tag BY DEF TypeOK, CacheLine
      <3> QED BY <3>1, CacheAssumption DEF ValidIsMapped
    <2>2. \/ line[s][k].data[x] = mem[Home[s][line[s][k].tag]][x]
          \/ x \in behind[s][k]
      BY DEF StaleOnlyBehind
    <2>3. behind'[s][k] = IF CopyOf(s, k, l) THEN behind[s][k] \cup {w}
                                            ELSE behind[s][k]
      BY OvertakenFacts DEF TypeOK
    <2>4. CASE Home[s][line[s][k].tag] = l /\ x = w
      BY <2>3, <2>4 DEF CopyOf
    <2>5. CASE ~(Home[s][line[s][k].tag] = l /\ x = w)
      BY <2>1, <2>2, <2>3, <2>5, MemWriteOne DEF TypeOK
    <2> QED BY <2>4, <2>5
  <1> QED BY <1>1, <1>2

\* Every step of the processor, of another master and of reset_stats() keeps
\* the invariant.
LEMMA NextInv == Inv /\ [Next]_vars => Inv'
  <1> SUFFICES ASSUME Inv, [Next]_vars PROVE Inv'
    OBVIOUS
  <1> USE DEF Inv
  <1>a. ASSUME NEW s \in Set, NEW k \in Way
        PROVE  line[s][k] \in CacheLine /\ line[s][k].tag \in Tag
    BY <1>a DEF TypeOK, CacheLine
  <1>1. ASSUME NEW s \in Set, NEW t \in Tag, NEW w \in Word, ReadHit(s, t, w)
        PROVE  Inv'
    <2>1. PICK k \in Way : ReadHit(s, t, w)!(k) BY <1>1 DEF ReadHit
    <2> DEFINE ln == [line[s][k] EXCEPT !.lru = Lru(2)]
    <2>2. /\ ln \in CacheLine /\ ln.valid = line[s][k].valid
          /\ ln.tag = line[s][k].tag /\ ln.data = line[s][k].data
      BY <1>a, LruFits DEF CacheLine
    <2> HIDE DEF ln
    <2>3. /\ line' \in [Set -> [Way -> CacheLine]] /\ line'[s][k] = ln
          /\ \A s2 \in Set, k2 \in Way :
               (s2 # s \/ k2 # k) => line'[s2][k2] = line[s2][k2]
      BY <2>1, <2>2, PutOne DEF ln, TypeOK
    <2>4. line[s][k].data[w] \in Val BY <1>a DEF CacheLine
    <2>5. TypeOK'
      BY <2>1, <2>3, <2>4, ResponseType, TouchType DEF TypeOK
    <2>6. \A s2 \in Set, k2 \in Way :
            /\ line'[s2][k2].valid = line[s2][k2].valid
            /\ line'[s2][k2].tag = line[s2][k2].tag
            /\ line'[s2][k2].data = line[s2][k2].data
      BY <2>2, <2>3
    <2>7. OneCopy' BY <2>6 DEF OneCopy
    <2>8. StaleOnlyBehind' BY <2>1, <2>6 DEF StaleOnlyBehind
    <2>9. ValidIsMapped' BY <2>6 DEF ValidIsMapped
    <2> QED BY <2>5, <2>7, <2>8, <2>9
  <1>2. ASSUME NEW s \in Set, NEW t \in Tag, NEW w \in Word, NEW v \in Val,
               WriteHit(s, t, w, v)
        PROVE  Inv'
    <2>1. PICK k \in Way : WriteHit(s, t, w, v)!(k) BY <1>2 DEF WriteHit
    <2> DEFINE ln == [line[s][k] EXCEPT !.lru = Lru(2), !.data[w] = v]
    <2>2. /\ ln \in CacheLine /\ ln.valid = line[s][k].valid
          /\ ln.tag = line[s][k].tag
          /\ ln.data = [line[s][k].data EXCEPT ![w] = v]
      BY <1>a, LruFits DEF CacheLine
    <2> HIDE DEF ln
    <2>3. /\ line' \in [Set -> [Way -> CacheLine]] /\ line'[s][k] = ln
          /\ \A s2 \in Set, k2 \in Way :
               (s2 # s \/ k2 # k) => line'[s2][k2] = line[s2][k2]
      BY <2>1, <2>2, PutOne DEF ln, TypeOK
    <2>4. line[s][k].valid /\ line[s][k].tag = t BY <2>1 DEF Hit, Found
    <2>5. Home[s][t] \in Line
      BY <2>4, CacheAssumption DEF ValidIsMapped
    <2>6. /\ mem' \in [Line -> [Word -> Val]] /\ mem'[Home[s][t]][w] = v
          /\ \A l2 \in Line, w2 \in Word :
               (l2 # Home[s][t] \/ w2 # w) => mem'[l2][w2] = mem[l2][w2]
      BY <2>1, <2>5, MemWriteOne DEF TypeOK
    <2>7. PICK ov \in [Set -> [Way -> SUBSET Word]] :
            /\ behind' = [ov EXCEPT ![s][k] = @ \ {w}]
            /\ \A s2 \in Set, k2 \in Way :
                 ov[s2][k2] = IF CopyOf(s2, k2, Home[s][t])
                              THEN behind[s2][k2] \cup {w} ELSE behind[s2][k2]
      BY <2>1, OvertakenFacts DEF TypeOK
    <2>8. /\ behind' \in [Set -> [Way -> SUBSET Word]]
          /\ \A s2 \in Set, k2 \in Way :
               (s2 # s \/ k2 # k) =>
                 behind'[s2][k2] = IF CopyOf(s2, k2, Home[s][t])
                                   THEN behind[s2][k2] \cup {w}
                                   ELSE behind[s2][k2]
      BY <2>7
    <2>9. TypeOK'
      BY <2>1, <2>3, <2>6, <2>8, ResponseType, TouchType DEF TypeOK
    <2>10. \A s2 \in Set, k2 \in Way :
             /\ line'[s2][k2].valid = line[s2][k2].valid
             /\ line'[s2][k2].tag = line[s2][k2].tag
      BY <2>2, <2>3
    <2>11. OneCopy' BY <2>10 DEF OneCopy
    <2>12. ValidIsMapped' BY <2>10 DEF ValidIsMapped
    <2>13. StaleOnlyBehind'
      <3> SUFFICES ASSUME NEW s2 \in Set, NEW k2 \in Way, NEW x \in Word,
                          line[s2][k2].valid
                   PROVE  \/ line'[s2][k2].data[x] =
                               mem'[Home[s2][line[s2][k2].tag]][x]
                          \/ x \in behind'[s2][k2]
        BY <2>10 DEF StaleOnlyBehind
      <3>1. Home[s2][line[s2][k2].tag] \in Line
        BY <1>a, CacheAssumption DEF ValidIsMapped
      <3>2. \/ line[s2][k2].data[x] = mem[Home[s2][line[s2][k2].tag]][x]
            \/ x \in behind[s2][k2]
        BY DEF StaleOnlyBehind
      <3>3. CASE s2 = s /\ k2 = k
        <4>1. line'[s2][k2].data = [line[s][k].data EXCEPT ![w] = v]
          BY <2>2, <2>3, <3>3
        <4>2. line[s][k].data \in [Word -> Val] BY <1>a DEF CacheLine
        <4>3. CASE x = w BY <2>4, <2>6, <3>3, <4>1, <4>2, <4>3
        <4>4. CASE x # w
          <5>1. x \in behind[s2][k2] => x \in behind'[s2][k2]
            BY <2>7, <3>3, <4>4
          <5>2. line'[s2][k2].data[x] = line[s2][k2].data[x]
            BY <3>3, <4>1, <4>2, <4>4
          <5> QED BY <2>6, <3>1, <3>2, <4>4, <5>1, <5>2
        <4> QED BY <4>3, <4>4
      <3>4. CASE ~(s2 = s /\ k2 = k)
        <4>1. line'[s2][k2] = line[s2][k2] BY <2>3, <3>4
        <4>2. behind'[s2][k2] = IF CopyOf(s2, k2, Home[s][t])
                                THEN behind[s2][k2] \cup {w}
                                ELSE behind[s2][k2]
          BY <2>8, <3>4
        <4>3. CASE Home[s2][line[s2][k2].tag] = Home[s][t] /\ x = w
          BY <4>2, <4>3 DEF CopyOf
        <4>4. CASE ~(Home[s2][line[s2][k2].tag] = Home[s][t] /\ x = w)
          BY <2>6, <3>1, <3>2, <4>1, <4>2, <4>4
        <4> QED BY <4>3, <4>4
      <3> QED BY <3>3, <3>4
    <2> QED BY <2>9, <2>11, <2>12, <2>13
  <1>3. ASSUME NEW s \in Set, NEW t \in Tag, NEW w \in Word, ReadMiss(s, t, w)
        PROVE  Inv'
    <2>1. PICK k \in Way : ReadMiss(s, t, w)!(k) BY <1>3 DEF ReadMiss
    <2>2. Home[s][t] \in Line BY <2>1, CacheAssumption
    <2> DEFINE ln == [valid |-> TRUE, tag |-> t, data |-> mem[Home[s][t]],
                      lru |-> Lru(2)]
    <2>3. /\ ln \in CacheLine /\ ln.valid /\ ln.tag = t
          /\ ln.data = mem[Home[s][t]]
      BY <2>2, LruFits DEF CacheLine, TypeOK
    <2> HIDE DEF ln
    <2>4. /\ line' \in [Set -> [Way -> CacheLine]] /\ line'[s][k] = ln
          /\ \A s2 \in Set, k2 \in Way :
               (s2 # s \/ k2 # k) => line'[s2][k2] = line[s2][k2]
      BY <2>1, <2>3, PutOne DEF ln, TypeOK
    <2>5. mem[Home[s][t]][w] \in Val BY <2>2 DEF TypeOK
    <2>6. /\ behind' \in [Set -> [Way -> SUBSET Word]]
          /\ \A s2 \in Set, k2 \in Way :
               (s2 # s \/ k2 # k) => behind'[s2][k2] = behind[s2][k2]
      BY <2>1 DEF TypeOK
    <2>7. TypeOK'
      BY <2>1, <2>4, <2>5, <2>6, ResponseType, TouchType DEF TypeOK
    <2>8. OneCopy'
      BY <2>1, <2>3, <2>4 DEF OneCopy, Miss, Found
    <2>9. ValidIsMapped'
      BY <2>1, <2>3, <2>4 DEF ValidIsMapped, Cached
    <2>10. StaleOnlyBehind'
      BY <2>1, <2>3, <2>4, <2>6 DEF StaleOnlyBehind
    <2> QED BY <2>7, <2>8, <2>9, <2>10
  <1>4. ASSUME NEW s \in Set, NEW t \in Tag, NEW w \in Word,
               ReadMissUnmapped(s, t, w)
        PROVE  Inv'
    <2>1. resp' \in Responses
      BY <1>4, ResponseType DEF ReadMissUnmapped, TypeOK
    <2>2. tick' \in Nat /\ crashed' \in BOOLEAN
      <3>1. tick' = tick + 2 BY <1>4 DEF ReadMissUnmapped
      <3>2. crashed' = TRUE \/ crashed' = FALSE BY <1>4 DEF ReadMissUnmapped
      <3>3. tick' \in Nat BY <3>1 DEF TypeOK
      <3>4. crashed' \in BOOLEAN BY <3>2
      <3> QED BY <3>3, <3>4
    <2>3. TypeOK' BY <1>4, <2>1, <2>2 DEF ReadMissUnmapped, TypeOK
    <2> QED
      BY <1>4, <2>3
      DEF ReadMissUnmapped, OneCopy, StaleOnlyBehind, ValidIsMapped
  <1>5. ASSUME NEW s \in Set, NEW t \in Tag, NEW w \in Word, NEW v \in Val,
               WriteMiss(s, t, w, v)
        PROVE  Inv'
    <2>1. Home[s][t] \in Line BY <1>5, CacheAssumption DEF WriteMiss
    <2>2. TypeOK'
      BY <1>5, <2>1, ResponseType, MemWriteOne, OvertakenFacts
      DEF WriteMiss, TypeOK
    <2>3. OneCopy' /\ StaleOnlyBehind' /\ ValidIsMapped'
      BY <1>5, <2>1, PassedBy DEF WriteMiss
    <2> QED BY <2>2, <2>3
  <1>6. ASSUME NEW s \in Set, NEW t \in Tag, NEW w \in Word, NEW v \in Val,
               WriteMissUnmapped(s, t, w, v)
        PROVE  Inv'
    <2>1. TypeOK' BY <1>6, ResponseType DEF WriteMissUnmapped, TypeOK
    <2> QED
      BY <1>6, <2>1
      DEF WriteMissUnmapped, OneCopy, StaleOnlyBehind, ValidIsMapped
  <1>7. ASSUME NEW s \in Set, NEW t \in Tag, NEW w \in Word, NEW v \in Val,
               BypassWrite(s, t, w, v)
        PROVE  Inv'
    <2>1. Home[s][t] \in Line BY <1>7, CacheAssumption DEF BypassWrite
    <2>2. TypeOK'
      BY <1>7, <2>1, ResponseType, MemWriteOne, OvertakenFacts
      DEF BypassWrite, TypeOK
    <2>3. OneCopy' /\ StaleOnlyBehind' /\ ValidIsMapped'
      BY <1>7, <2>1, PassedBy DEF BypassWrite
    <2> QED BY <2>2, <2>3
  <1>8. ASSUME NEW s \in Set, NEW t \in Tag, NEW w \in Word, BypassRead(s, t, w)
        PROVE  Inv'
    <2>1. mem[Home[s][t]][w] \in Val
      BY <1>8, CacheAssumption DEF BypassRead, TypeOK
    <2>2. TypeOK' BY <1>8, <2>1, ResponseType DEF BypassRead, TypeOK
    <2> QED
      BY <1>8, <2>2 DEF BypassRead, OneCopy, StaleOnlyBehind, ValidIsMapped
  <1>9. ASSUME NEW m \in Masters, NEW l \in Line, NEW w \in Word, NEW v \in Val,
               ForwardWrite(m, l, w, v)
        PROVE  Inv'
    <2>1. TypeOK'
      BY <1>9, MemWriteOne, OvertakenFacts DEF ForwardWrite, TypeOK, Responses
    <2>2. OneCopy' /\ StaleOnlyBehind' /\ ValidIsMapped'
      BY <1>9, PassedBy DEF ForwardWrite
    <2> QED BY <2>1, <2>2
  <1>10. CASE ResetStats
    <2>1. TypeOK' BY <1>10 DEF ResetStats, TypeOK
    <2> QED
      BY <1>10, <2>1 DEF ResetStats, OneCopy, StaleOnlyBehind, ValidIsMapped
  <1>11. CASE UNCHANGED vars
    BY <1>11 DEF vars, TypeOK, OneCopy, StaleOnlyBehind, ValidIsMapped
  <1> QED
    BY <1>1, <1>2, <1>3, <1>4, <1>5, <1>6, <1>7, <1>8, <1>9, <1>10, <1>11
    DEF Next, Access, Others

\* The invariant holds in every state.
THEOREM Invariance == Spec => []Inv
  BY InitInv, NextInv, PTL DEF Spec

\* Every variable keeps its type.
THEOREM TypeCorrect == Spec => []TypeOK
  BY Invariance, PTL DEF Inv

\* find_line() never has two candidates.
THEOREM OneCopyHolds == Spec => []OneCopy
  BY Invariance, PTL DEF Inv

\* A copy differs from memory only where somebody wrote past it.
THEOREM StaleOnlyBehindHolds == Spec => []StaleOnlyBehind
  BY Invariance, PTL DEF Inv

\* Device registers and failed fills are never cached.
THEOREM ValidIsMappedHolds == Spec => []ValidIsMapped
  BY Invariance, PTL DEF Inv

-----------------------------------------------------------------------------
(***************************************************************************)
(* Replacement: as long as the counters neither wrap nor are reset, their  *)
(* order is the order of use.                                              *)
(***************************************************************************)

\* The counters of two valid ways order them by their last use, and none is
\* ahead of the clock.
LruOrder ==
  /\ \A s \in Set, k \in Way : line[s][k].valid => line[s][k].lru <= tick
  /\ \A s \in Set, k \in Way : k \notin since[s][k]
  /\ \A s \in Set, j, k \in Way :
       line[s][j].valid /\ line[s][k].valid /\ line[s][k].lru <= line[s][j].lru
       => j = k \/ j \in since[s][k]

\* A counter is the clock itself while the run is shorter than its range.
LEMMA LruIsClock ==
  ASSUME MaxTick \in Nat, MaxTick < LruRange, TypeOK, Call
  PROVE  Lru(2) = tick + 2
  <1> DEFINE x == tick + 2
  <1>1. x \in Nat /\ x < LruRange /\ LruRange \in Nat
    BY CacheAssumption DEF TypeOK, Call
  <1> HIDE DEF x
  <1>2. x % LruRange = x BY <1>1
  <1> QED BY <1>2 DEF Lru, x

\* Using a way puts it last in the order of its set.
LEMMA UseKeepsOrder ==
  ASSUME TypeOK, LruOrder, NEW s \in Set, NEW k \in Way, NEW ln \in CacheLine,
         Put(s, k, ln), ln.lru = tick + 2, tick' = tick + 2, Touch(s, k)
  PROVE  LruOrder'
  <1>1. /\ line'[s][k] = ln
        /\ \A s2 \in Set, k2 \in Way :
             (s2 # s \/ k2 # k) => line'[s2][k2] = line[s2][k2]
    BY PutOne DEF TypeOK
  <1>2. /\ \A s2 \in Set, j \in Way : s2 # s => since'[s2][j] = since[s2][j]
        /\ since'[s][k] = {}
        /\ \A j \in Way : j # k => since'[s][j] = since[s][j] \cup {k}
    BY DEF Touch, TypeOK
  <1>3. tick \in Nat /\ \A s2 \in Set, j \in Way : line[s2][j].lru \in Nat
    <2>1. ASSUME NEW s2 \in Set, NEW j \in Way PROVE line[s2][j].lru \in Nat
      <3>1. line[s2][j] \in CacheLine BY DEF TypeOK
      <3>2. LruRange \in Nat BY CacheAssumption
      <3> QED BY <3>1, <3>2 DEF CacheLine
    <2> QED BY <2>1 DEF TypeOK
  <1>4. \A s2 \in Set, j \in Way : line'[s2][j].valid => line'[s2][j].lru <= tick'
    BY <1>1, <1>3 DEF LruOrder
  <1>5. \A s2 \in Set, j \in Way : j \notin since'[s2][j]
    <2>1. \A s2 \in Set, j \in Way : j \notin since[s2][j] BY DEF LruOrder
    <2> QED BY <1>2, <2>1
  <1>6. ASSUME NEW s2 \in Set, NEW i \in Way, NEW j \in Way,
               line'[s2][i].valid, line'[s2][j].valid,
               line'[s2][j].lru <= line'[s2][i].lru
        PROVE  i = j \/ i \in since'[s2][j]
    <2>1. CASE s2 # s BY <1>1, <1>2, <1>6, <2>1 DEF LruOrder
    <2>2. CASE s2 = s /\ j = k /\ i # k
      BY <1>1, <1>3, <1>6, <2>2 DEF LruOrder
    <2>3. CASE s2 = s /\ j # k /\ i = k BY <1>2, <2>3
    <2>4. CASE s2 = s /\ j # k /\ i # k
      <3>1. i = j \/ i \in since[s2][j]
        BY <1>1, <1>6, <2>4 DEF LruOrder
      <3> QED BY <1>2, <2>4, <3>1
    <2> QED BY <2>1, <2>2, <2>3, <2>4
  <1> QED BY <1>4, <1>5, <1>6 DEF LruOrder

\* A step that leaves lines and uses alone, the clock running on or standing.
LEMMA ClockKeepsOrder ==
  ASSUME TypeOK, LruOrder, UNCHANGED <<line, since>>, tick' \in Nat, tick <= tick'
  PROVE  LruOrder'
  <1>1. \A s \in Set, k \in Way : line[s][k].lru \in Nat
    <2>1. ASSUME NEW s \in Set, NEW k \in Way PROVE line[s][k].lru \in Nat
      <3>1. line[s][k] \in CacheLine BY DEF TypeOK
      <3>2. LruRange \in Nat BY CacheAssumption
      <3> QED BY <3>1, <3>2 DEF CacheLine
    <2> QED BY <2>1
  <1>2. \A s \in Set, k \in Way : line'[s][k].valid => line'[s][k].lru <= tick'
    BY <1>1 DEF LruOrder, TypeOK
  <1> QED BY <1>2 DEF LruOrder

\* Every step but reset_stats() keeps the order.
LEMMA OrderNext ==
  ASSUME MaxTick \in Nat, MaxTick < LruRange, Inv, LruOrder,
         [Access \/ Others]_vars
  PROVE  LruOrder'
  <1> USE DEF Inv
  <1>1. ASSUME NEW s \in Set, NEW t \in Tag, NEW w \in Word, ReadHit(s, t, w)
        PROVE  LruOrder'
    <2>1. PICK k \in Way : ReadHit(s, t, w)!(k) BY <1>1 DEF ReadHit
    <2> DEFINE ln == [line[s][k] EXCEPT !.lru = Lru(2)]
    <2>2. line[s][k] \in CacheLine BY DEF TypeOK
    <2>3. ln \in CacheLine /\ ln.lru = Lru(2) BY <2>2, LruFits DEF CacheLine
    <2>4. Put(s, k, ln) BY <2>1
    <2>5. Lru(2) = tick + 2 BY <2>1, LruIsClock
    <2> HIDE DEF ln
    <2> QED BY <2>1, <2>3, <2>4, <2>5, UseKeepsOrder
  <1>2. ASSUME NEW s \in Set, NEW t \in Tag, NEW w \in Word, NEW v \in Val,
               WriteHit(s, t, w, v)
        PROVE  LruOrder'
    <2>1. PICK k \in Way : WriteHit(s, t, w, v)!(k) BY <1>2 DEF WriteHit
    <2> DEFINE ln == [line[s][k] EXCEPT !.lru = Lru(2), !.data[w] = v]
    <2>2. line[s][k] \in CacheLine BY DEF TypeOK
    <2>3. ln \in CacheLine /\ ln.lru = Lru(2) BY <2>2, LruFits DEF CacheLine
    <2>4. Put(s, k, ln) BY <2>1
    <2>5. Lru(2) = tick + 2 BY <2>1, LruIsClock
    <2> HIDE DEF ln
    <2> QED BY <2>1, <2>3, <2>4, <2>5, UseKeepsOrder
  <1>3. ASSUME NEW s \in Set, NEW t \in Tag, NEW w \in Word, ReadMiss(s, t, w)
        PROVE  LruOrder'
    <2>1. PICK k \in Way : ReadMiss(s, t, w)!(k) BY <1>3 DEF ReadMiss
    <2> DEFINE ln == [valid |-> TRUE, tag |-> t, data |-> mem[Home[s][t]],
                      lru |-> Lru(2)]
    <2>2. Home[s][t] \in Line BY <2>1, CacheAssumption
    <2>3. ln \in CacheLine /\ ln.lru = Lru(2)
      BY <2>2, LruFits DEF CacheLine, TypeOK
    <2>4. Put(s, k, ln) BY <2>1
    <2>5. Lru(2) = tick + 2 BY <2>1, LruIsClock
    <2> HIDE DEF ln
    <2> QED BY <2>1, <2>3, <2>4, <2>5, UseKeepsOrder
  <1>4. ASSUME UNCHANGED <<line, since>>,
               tick' = tick \/ tick' = tick + 1 \/ tick' = tick + 2
        PROVE  LruOrder'
    <2>1. tick \in Nat BY DEF TypeOK
    <2>2. tick' \in Nat /\ tick <= tick' BY <1>4, <2>1
    <2> QED BY <1>4, <2>2, ClockKeepsOrder
  <1>5. ASSUME NEW s \in Set, NEW t \in Tag, NEW w \in Word,
               ReadMissUnmapped(s, t, w) \/ BypassRead(s, t, w)
        PROVE  LruOrder'
    <2>1. UNCHANGED <<line, since>> BY <1>5 DEF ReadMissUnmapped, BypassRead
    <2>2. tick' = tick \/ tick' = tick + 2
      BY <1>5 DEF ReadMissUnmapped, BypassRead
    <2> QED BY <1>4, <2>1, <2>2
  <1>8. ASSUME NEW s \in Set, NEW t \in Tag, NEW w \in Word, NEW v \in Val,
               \/ WriteMiss(s, t, w, v) \/ WriteMissUnmapped(s, t, w, v)
               \/ BypassWrite(s, t, w, v)
        PROVE  LruOrder'
    <2>1. UNCHANGED <<line, since>>
      BY <1>8 DEF WriteMiss, WriteMissUnmapped, BypassWrite
    <2>2. tick' = tick \/ tick' = tick + 1
      BY <1>8 DEF WriteMiss, WriteMissUnmapped, BypassWrite
    <2> QED BY <1>4, <2>1, <2>2
  <1>6. CASE Others BY <1>4, <1>6 DEF Others, ForwardWrite
  <1>7. CASE UNCHANGED vars BY <1>4, <1>7 DEF vars
  <1> QED BY <1>1, <1>2, <1>3, <1>5, <1>6, <1>7, <1>8 DEF Access

\* In a run shorter than the range of the counters, without reset_stats(), a
\* full set loses its least recently used line.
THEOREM LruVictimHolds ==
  ASSUME MaxTick \in Nat, MaxTick < LruRange
  PROVE  SpecMain => []LruVictim
  <1>1. Init => Inv /\ LruOrder
    <2>1. Init => LruOrder
      <3> SUFFICES ASSUME Init PROVE LruOrder
        OBVIOUS
      <3>1. \A s \in Set, k \in Way : ~line[s][k].valid /\ since[s][k] = {}
        BY DEF Init
      <3> QED BY <3>1 DEF LruOrder
    <2> QED BY <2>1, InitInv
  <1>2. Inv /\ LruOrder /\ [Access \/ Others]_vars => (Inv /\ LruOrder)'
    <2> SUFFICES ASSUME Inv, LruOrder, [Access \/ Others]_vars
                 PROVE  (Inv /\ LruOrder)'
      OBVIOUS
    <2>1. [Next]_vars BY DEF Next
    <2> QED BY <2>1, NextInv, OrderNext
  <1>3. Inv /\ LruOrder => LruVictim
    <2> SUFFICES ASSUME Inv, LruOrder, NEW s \in Set, NEW k \in Way,
                        \A j \in Way : line[s][j].valid, Victim(s, k)
                 PROVE  since[s][k] = Way \ {k}
      BY DEF LruVictim
    <2>1. \A j \in Way : line[s][k].lru <= line[s][j].lru BY DEF Victim
    <2>2. \A j \in Way : j = k \/ j \in since[s][k] BY <2>1 DEF LruOrder
    <2>3. since[s][k] \subseteq Way BY DEF Inv, TypeOK
    <2>4. k \notin since[s][k] BY DEF LruOrder
    <2> QED BY <2>2, <2>3, <2>4
  <1> QED BY <1>1, <1>2, <1>3, PTL DEF SpecMain

-----------------------------------------------------------------------------
(***************************************************************************)
(* With the memory to itself, a place for every address and no aliases,    *)
(* the processor cannot tell the cache from a flat memory.                 *)
(***************************************************************************)

\* No other master, no address without a line, no two addresses of one line.
Alone ==
  /\ Masters = {}
  /\ \A s \in Set, t \in Tag : Home[s][t] # NoLine
  /\ \A s1, s2 \in Set, t1, t2 \in Tag :
       Home[s1][t1] = Home[s2][t2] => s1 = s2 /\ t1 = t2

\* Then no copy is ever behind.
NoneBehind == \A s \in Set, k \in Way : line[s][k].valid => behind[s][k] = {}

\* The flat memory the processor sees.
Seen == [a \in Addr |-> mem[Home[a[1]][a[2]]][a[3]]]

\* Its words, by address.
LEMMA SeenWord ==
  ASSUME NEW s \in Set, NEW t \in Tag, NEW w \in Word
  PROVE  <<s, t, w>> \in Addr /\ Seen[<<s, t, w>>] = mem[Home[s][t]][w]
  BY DEF Addr, Seen

\* A store downstream is a store into the flat memory.
LEMMA SeenStore ==
  ASSUME Alone, TypeOK, NEW s \in Set, NEW t \in Tag, NEW w \in Word,
         NEW v \in Val, MemWrite(Home[s][t], w, v)
  PROVE  Seen' = [Seen EXCEPT ![<<s, t, w>>] = v]
  <1>1. Home[s][t] \in Line BY CacheAssumption DEF Alone
  <1>2. \A s2 \in Set, t2 \in Tag, w2 \in Word :
          mem'[Home[s2][t2]][w2] =
            IF s2 = s /\ t2 = t /\ w2 = w THEN v ELSE mem[Home[s2][t2]][w2]
    <2> TAKE s2 \in Set, t2 \in Tag, w2 \in Word
    <2>1. Home[s2][t2] \in Line BY CacheAssumption DEF Alone
    <2> QED BY <1>1, <2>1, MemWriteOne DEF Alone, TypeOK
  <1>3. \A a \in Addr : Seen'[a] = IF a = <<s, t, w>> THEN v ELSE Seen[a]
    <2> SUFFICES ASSUME NEW a \in Addr
                 PROVE  Seen'[a] = IF a = <<s, t, w>> THEN v ELSE Seen[a]
      OBVIOUS
    <2>1. PICK s2 \in Set, t2 \in Tag, w2 \in Word : a = <<s2, t2, w2>>
      BY DEF Addr
    <2>2. Seen[a] = mem[Home[s2][t2]][w2] BY <2>1 DEF Seen
    <2>3. Seen'[a] = mem'[Home[s2][t2]][w2] BY <2>1 DEF Seen
    <2> QED BY <1>2, <2>1, <2>2, <2>3
  <1> QED BY <1>3 DEF Seen

\* Only a store through the copy reaches the line of a copy.
LEMMA NoneBehindNext ==
  ASSUME Alone, Inv, NoneBehind, [Next]_vars PROVE NoneBehind'
  <1> USE DEF Inv
  <1>1. ASSUME NEW s \in Set, NEW t \in Tag, NEW w \in Word,
               ReadHit(s, t, w)
        PROVE  NoneBehind'
    <2>1. PICK k \in Way : ReadHit(s, t, w)!(k) BY <1>1 DEF ReadHit
    <2>2. behind' = behind BY <2>1
    <2> DEFINE ln == [line[s][k] EXCEPT !.lru = Lru(2)]
    <2>3. line[s][k] \in CacheLine BY DEF TypeOK
    <2>4. ln \in CacheLine /\ ln.valid = line[s][k].valid
      BY <2>3, LruFits DEF CacheLine
    <2>5. Put(s, k, ln) BY <2>1
    <2> HIDE DEF ln
    <2>6. \A s2 \in Set, k2 \in Way : line'[s2][k2].valid = line[s2][k2].valid
      <3>1. /\ line'[s][k] = ln
            /\ \A s2 \in Set, k2 \in Way :
                 (s2 # s \/ k2 # k) => line'[s2][k2] = line[s2][k2]
        BY <2>4, <2>5, PutOne DEF TypeOK
      <3> QED BY <2>4, <2>5, <3>1
    <2> QED BY <2>2, <2>6 DEF NoneBehind
  <1>2. ASSUME NEW s \in Set, NEW t \in Tag, NEW w \in Word, NEW v \in Val,
               WriteHit(s, t, w, v)
        PROVE  NoneBehind'
    <2>1. PICK k \in Way : WriteHit(s, t, w, v)!(k) BY <1>2 DEF WriteHit
    <2> DEFINE ln == [line[s][k] EXCEPT !.lru = Lru(2), !.data[w] = v]
    <2>2. line[s][k] \in CacheLine BY DEF TypeOK
    <2>3. /\ ln \in CacheLine /\ ln.valid = line[s][k].valid
          /\ ln.tag = line[s][k].tag
      BY <2>2, LruFits DEF CacheLine
    <2>4. Put(s, k, ln) BY <2>1
    <2> HIDE DEF ln
    <2>5. \A s2 \in Set, k2 \in Way : line'[s2][k2].valid = line[s2][k2].valid
      <3>1. /\ line'[s][k] = ln
            /\ \A s2 \in Set, k2 \in Way :
                 (s2 # s \/ k2 # k) => line'[s2][k2] = line[s2][k2]
        BY <2>3, <2>4, PutOne DEF TypeOK
      <3> QED BY <2>3, <2>4, <3>1
    <2>6. line[s][k].valid /\ line[s][k].tag = t BY <2>1 DEF Hit, Found
    <2>7. PICK ov \in [Set -> [Way -> SUBSET Word]] :
            /\ behind' = [ov EXCEPT ![s][k] = @ \ {w}]
            /\ \A s2 \in Set, k2 \in Way :
                 ov[s2][k2] = IF CopyOf(s2, k2, Home[s][t])
                              THEN behind[s2][k2] \cup {w} ELSE behind[s2][k2]
      BY <2>1, OvertakenFacts DEF TypeOK
    <2>8. /\ behind'[s][k] = ov[s][k] \ {w}
          /\ \A s2 \in Set, k2 \in Way :
               (s2 # s \/ k2 # k) => behind'[s2][k2] = ov[s2][k2]
      BY <2>7
    <2>9. ASSUME NEW s2 \in Set, NEW k2 \in Way, line[s2][k2].valid
          PROVE  behind'[s2][k2] = {}
      <3>1. behind[s2][k2] = {} BY <2>9 DEF NoneBehind
      <3>2. CASE s2 = s /\ k2 = k BY <2>7, <2>8, <3>1, <3>2
      <3>3. CASE ~(s2 = s /\ k2 = k)
        <4>1. line[s2][k2].tag \in Tag BY DEF TypeOK, CacheLine
        <4>2. ~CopyOf(s2, k2, Home[s][t])
          BY <2>6, <2>9, <3>3, <4>1 DEF CopyOf, Alone, OneCopy
        <4> QED BY <2>7, <2>8, <3>1, <3>3, <4>2
      <3> QED BY <3>2, <3>3
    <2> QED BY <2>5, <2>9 DEF NoneBehind
  <1>3. ASSUME NEW s \in Set, NEW t \in Tag, NEW w \in Word, ReadMiss(s, t, w)
        PROVE  NoneBehind'
    <2>1. PICK k \in Way : ReadMiss(s, t, w)!(k) BY <1>3 DEF ReadMiss
    <2> DEFINE ln == [valid |-> TRUE, tag |-> t, data |-> mem[Home[s][t]],
                      lru |-> Lru(2)]
    <2>2. Home[s][t] \in Line BY <2>1, CacheAssumption
    <2>3. ln \in CacheLine BY <2>2, LruFits DEF CacheLine, TypeOK
    <2>4. Put(s, k, ln) BY <2>1
    <2> HIDE DEF ln
    <2>5. \A s2 \in Set, k2 \in Way :
            (s2 # s \/ k2 # k) => line'[s2][k2] = line[s2][k2]
      BY <2>3, <2>4, PutOne DEF TypeOK
    <2>6. /\ behind'[s][k] = {}
          /\ \A s2 \in Set, k2 \in Way :
               (s2 # s \/ k2 # k) => behind'[s2][k2] = behind[s2][k2]
      BY <2>1 DEF TypeOK
    <2> QED BY <2>5, <2>6 DEF NoneBehind
  <1>4. ASSUME NEW s \in Set, NEW t \in Tag, NEW w \in Word,
               line' = line, behind' = Overtaken(Home[s][t], w),
               \A k \in Way : ~(line[s][k].valid /\ line[s][k].tag = t)
        PROVE  NoneBehind'
    <2>1. ASSUME NEW s2 \in Set, NEW k2 \in Way, line[s2][k2].valid
          PROVE  behind'[s2][k2] = behind[s2][k2]
      <3>1. line[s2][k2].tag \in Tag BY DEF TypeOK, CacheLine
      <3>2. ~CopyOf(s2, k2, Home[s][t])
        BY <1>4, <2>1, <3>1 DEF CopyOf, Alone
      <3> QED BY <1>4, <3>2, OvertakenFacts DEF TypeOK
    <2> QED BY <1>4, <2>1 DEF NoneBehind
  <1>5. ASSUME NEW s \in Set, NEW t \in Tag, NEW w \in Word, NEW v \in Val,
               WriteMiss(s, t, w, v)
        PROVE  NoneBehind'
    BY <1>4, <1>5 DEF WriteMiss, Miss, Found
  <1>6. ASSUME NEW s \in Set, NEW t \in Tag, NEW w \in Word, NEW v \in Val,
               BypassWrite(s, t, w, v)
        PROVE  NoneBehind'
    <2>1. \A k \in Way : ~(line[s][k].valid /\ line[s][k].tag = t)
      BY <1>6 DEF BypassWrite, Cached, ValidIsMapped
    <2> QED BY <1>4, <1>6, <2>1 DEF BypassWrite
  <1>7. ASSUME UNCHANGED <<line, behind>> PROVE NoneBehind'
    BY <1>7 DEF NoneBehind
  <1>8. CASE Others BY <1>8 DEF Others, Alone
  <1>9. CASE ResetStats \/ UNCHANGED vars
    BY <1>7, <1>9 DEF ResetStats, vars
  <1>10. ASSUME NEW s \in Set, NEW t \in Tag, NEW w \in Word
         PROVE  /\ ReadMissUnmapped(s, t, w) \/ BypassRead(s, t, w) => NoneBehind'
                /\ \A v \in Val : WriteMissUnmapped(s, t, w, v) => NoneBehind'
    BY <1>7 DEF ReadMissUnmapped, BypassRead, WriteMissUnmapped
  <1> QED
    BY <1>1, <1>2, <1>3, <1>5, <1>6, <1>8, <1>9, <1>10 DEF Next, Access

\* Every step is a load or a store of the flat memory, or leaves it alone.
LEMMA FlatNext ==
  ASSUME Alone, Inv, NoneBehind, [Next]_vars PROVE [Flat!Next]_(Flat!vars)
  <1> USE DEF Inv
  <1>1. ASSUME NEW s \in Set, NEW t \in Tag, NEW w \in Word,
               Response("load", <<s, t, w>>, mem[Home[s][t]][w], "ok"), mem' = mem
        PROVE  Flat!Next
    <2>1. Seen' = Seen BY <1>1 DEF Seen
    <2>2. Flat!Load(<<s, t, w>>)
      BY <1>1, <2>1, SeenWord DEF Flat!Load, Response, Seen
    <2> QED BY <2>2, SeenWord DEF Flat!Next
  <1>2. ASSUME NEW s \in Set, NEW t \in Tag, NEW w \in Word, NEW v \in Val,
               Response("store", <<s, t, w>>, v, "ok"), MemWrite(Home[s][t], w, v)
        PROVE  Flat!Next
    <2>1. Seen' = [Seen EXCEPT ![<<s, t, w>>] = v] BY <1>2, SeenStore
    <2>2. Flat!Store(<<s, t, w>>, v)
      BY <1>2, <2>1 DEF Flat!Store, Response, Seen
    <2> QED BY <2>2, SeenWord DEF Flat!Next
  <1>3. ASSUME NEW s \in Set, NEW t \in Tag, NEW w \in Word, ReadHit(s, t, w)
        PROVE  Flat!Next
    <2>1. PICK k \in Way : ReadHit(s, t, w)!(k) BY <1>3 DEF ReadHit
    <2>2. line[s][k].valid /\ line[s][k].tag = t BY <2>1 DEF Hit, Found
    <2>3. line[s][k].data[w] = mem[Home[s][t]][w]
      BY <2>2 DEF StaleOnlyBehind, NoneBehind
    <2> QED BY <1>1, <2>1, <2>3
  <1>4. ASSUME NEW s \in Set, NEW t \in Tag, NEW w \in Word,
               ReadMiss(s, t, w) \/ BypassRead(s, t, w)
        PROVE  Flat!Next
    BY <1>1, <1>4 DEF ReadMiss, BypassRead
  <1>5. ASSUME NEW s \in Set, NEW t \in Tag, NEW w \in Word, NEW v \in Val,
               \/ WriteHit(s, t, w, v) \/ WriteMiss(s, t, w, v)
               \/ BypassWrite(s, t, w, v)
        PROVE  Flat!Next
    BY <1>2, <1>5 DEF WriteHit, WriteMiss, BypassWrite
  <1>6. ASSUME NEW s \in Set, NEW t \in Tag, NEW w \in Word
        PROVE  /\ ~ReadMissUnmapped(s, t, w)
               /\ \A v \in Val : ~WriteMissUnmapped(s, t, w, v)
    BY DEF Alone, ReadMissUnmapped, WriteMissUnmapped
  <1>7. CASE Others BY <1>7 DEF Others, Alone
  <1>8. CASE ResetStats \/ UNCHANGED vars
    BY <1>8 DEF ResetStats, vars, Flat!vars
  <1> QED BY <1>3, <1>4, <1>5, <1>6, <1>7, <1>8 DEF Next, Access

\* The cache implements a flat memory.
THEOREM FlatRefined == ASSUME Alone PROVE Spec => FlatSpec
  <1>1. Init => Inv /\ NoneBehind
    <2>1. Init => NoneBehind BY DEF Init, NoneBehind
    <2> QED BY <2>1, InitInv
  <1>2. Inv /\ NoneBehind /\ [Next]_vars => (Inv /\ NoneBehind)'
    BY NextInv, NoneBehindNext
  <1>3. Init => Flat!Init
    <2> SUFFICES ASSUME Init PROVE Flat!Init
      OBVIOUS
    <2>1. \A s \in Set, t \in Tag, w \in Word : mem[Home[s][t]][w] \in Val
      <3> TAKE s \in Set, t \in Tag, w \in Word
      <3>1. Home[s][t] \in Line BY CacheAssumption DEF Alone
      <3> QED BY <3>1 DEF Init
    <2>2. Seen \in [Addr -> Val] BY <2>1 DEF Seen, Addr
    <2>3. resp = Flat!NoResp BY DEF Init, Flat!NoResp
    <2> QED BY <2>2, <2>3 DEF Flat!Init, Seen
  <1>4. Inv /\ NoneBehind /\ [Next]_vars => [Flat!Next]_(Flat!vars)
    BY FlatNext
  <1> QED BY <1>1, <1>2, <1>3, <1>4, PTL DEF Spec, FlatSpec, Flat!Spec
=============================================================================
