------------------------------- MODULE Cache -------------------------------
(***************************************************************************)
(* The set-associative, write-through cache between the processor and the  *)
(* Interconnect, with the memory behind it and the other masters (DMA)     *)
(* that reach that memory past the cache.  An access is a b_transport call *)
(* of the processor; no call in its path waits, so it is one action.       *)
(*                                                                         *)
(* An address is the triple <<set_index, tag, line_offset>> the code takes *)
(* it apart into.  Home says which line of the memory (or of a device) the *)
(* Interconnect finds at it: two tags may share a line, as the two         *)
(* mappings of the memory in main.cpp do, or have none.                    *)
(***************************************************************************)
EXTENDS Naturals

CONSTANTS
  Set, Tag, Word,   \* the values of set_index, tag and line_offset
  Ways,             \* associativity
  Line, NoLine,     \* downstream lines; no target decodes the address
  Home,             \* the line at set s and tag t is Home[s][t]
  Mmio,             \* Mmio[s]: the tags of the bypass ranges
  Val, Zero,        \* data; what line.data is resized with
  Tag0,             \* the tag of a line that was never filled
  LruRange,         \* lru has log2(LruRange) bits
  Masters,          \* the other masters
  MaxTick           \* bound on the accesses explored

ASSUME CacheAssumption ==
  /\ Ways \in Nat \ {0} /\ LruRange \in Nat \ {0}
  /\ Home \in [Set -> [Tag -> Line \cup {NoLine}]] /\ NoLine \notin Line
  /\ Mmio \in [Set -> SUBSET Tag]
  /\ \A s \in Set : \A t \in Mmio[s] : Home[s][t] # NoLine
  /\ Zero \in Val /\ Tag0 \in Tag

Way  == 0 .. Ways - 1
Addr == Set \X Tag \X Word

VARIABLES
  line,       \* m_sets
  tick,       \* m_hits + m_misses, the clock of the LRU counters
  mem,        \* the words behind the cache
  resp,       \* the response of the access just made, if one was
  crashed,    \* the process died in an access out of bounds
  since,      \* history: since[s][k], the ways used since way k was
  behind      \* history: behind[s][k], the words of the line overwritten
              \*   downstream, not through this copy

vars == <<line, tick, mem, resp, crashed, since, behind>>

CacheLine == [valid : BOOLEAN, tag : Tag, data : [Word -> Val],
              lru : 0 .. LruRange - 1]

Responses == [op : {"none"}] \cup
             [op : {"load", "store"}, addr : Addr, val : Val,
              status : {"ok", "address_error"}]

TypeOK ==
  /\ line \in [Set -> [Way -> CacheLine]]
  /\ tick \in Nat
  /\ mem \in [Line -> [Word -> Val]]
  /\ resp \in Responses
  /\ crashed \in BOOLEAN
  /\ since \in [Set -> [Way -> SUBSET Way]]
  /\ behind \in [Set -> [Way -> SUBSET Word]]

Init ==
  /\ line = [s \in Set |-> [k \in Way |->
               [valid |-> FALSE, tag |-> Tag0, data |-> [w \in Word |-> Zero],
                lru |-> 0]]]
  /\ tick = 0
  /\ mem \in [Line -> [Word -> Val]]
  /\ resp = [op |-> "none"]
  /\ crashed = FALSE
  /\ since = [s \in Set |-> [k \in Way |-> {}]]
  /\ behind = [s \in Set |-> [k \in Way |-> {}]]

(***************************************************************************)
(* Lookup and replacement                                                  *)
(***************************************************************************)

\* Mutants: the valid bit is not looked at; only the first way is.
FoundInvalid(s, t, k) == line[s][k].tag = t
FoundFirst(s, t, k) == k = 0 /\ line[s][k].valid /\ line[s][k].tag = t

\* find_line(): the line of way k matches.
Found(s, t, k) == line[s][k].valid /\ line[s][k].tag = t

Hit(s, t, k) == Found(s, t, k) /\ \A j \in Way : j < k => ~Found(s, t, j)

Miss(s, t) == \A k \in Way : ~Found(s, t, k)

\* Mutant: the largest counter is evicted.
VictimNewest(s, k) ==
  IF \A j \in Way : line[s][j].valid
  THEN \A j \in Way : line[s][j].lru <= line[s][k].lru
  ELSE ~line[s][k].valid /\ \A j \in Way : j < k => line[s][j].valid

\* victim_way(): the first invalid line, else the first with the smallest lru.
Victim(s, k) ==
  IF \A j \in Way : line[s][j].valid
  THEN \A j \in Way : /\ line[s][k].lru <= line[s][j].lru
                      /\ j < k => line[s][k].lru < line[s][j].lru
  ELSE ~line[s][k].valid /\ \A j \in Way : j < k => line[s][j].valid

\* Mutant: the counter does not fit.
LruUnbounded(n) == tick + n

\* A hit counts one tick in b_transport and another one in read_hit or
\* write_hit; lru takes the low bits.
Lru(n) == (tick + n) % LruRange

Touch(s, k) ==
  since' = [since EXCEPT ![s] = [j \in Way |->
              IF j = k THEN {} ELSE since[s][j] \cup {k}]]

\* Put(s, k, ln): way k of set s becomes ln.
Put(s, k, ln) == line' = [line EXCEPT ![s][k] = ln]

\* Way k of set s holds a copy of line l.
CopyOf(s, k, l) == line[s][k].valid /\ Home[s][line[s][k].tag] = l

\* Word w of line l is written: its copies fall behind.
Overtaken(l, w) ==
  [s \in Set |-> [k \in Way |->
     IF CopyOf(s, k, l) THEN behind[s][k] \cup {w} ELSE behind[s][k]]]

\* Word w of line l takes the value v in the memory.
MemWrite(l, w, v) == mem' = [mem EXCEPT ![l][w] = v]

(***************************************************************************)
(* The processor's accesses                                                *)
(***************************************************************************)

Response(op, a, v, st) ==
  resp' = [op |-> op, addr |-> a, val |-> v, status |-> st]

Call == ~crashed /\ tick + 2 <= MaxTick

\* Mutant: no range is bypassed.
CachedAlways(s, t) == t \in Tag

\* ~is_mmio().
Cached(s, t) == t \notin Mmio[s]

ReadHit(s, t, w) ==
  \E k \in Way :
    /\ Call /\ Cached(s, t) /\ Hit(s, t, k)
    /\ Response("load", <<s, t, w>>, line[s][k].data[w], "ok")
    /\ Put(s, k, [line[s][k] EXCEPT !.lru = Lru(2)])
    /\ tick' = tick + 2
    /\ Touch(s, k)
    /\ UNCHANGED <<mem, crashed, behind>>

\* Mutant: the store goes downstream only.
WriteHitThrough(s, t, w, v) ==
  \E k \in Way :
    /\ Call /\ Cached(s, t) /\ Hit(s, t, k)
    /\ Response("store", <<s, t, w>>, v, "ok")
    /\ Put(s, k, [line[s][k] EXCEPT !.lru = Lru(2)])
    /\ MemWrite(Home[s][t], w, v)
    /\ tick' = tick + 2
    /\ Touch(s, k)
    /\ behind' = [Overtaken(Home[s][t], w) EXCEPT ![s][k] = @ \ {w}]
    /\ UNCHANGED crashed

\* write_hit(): the copy is updated and the store forwarded.
WriteHit(s, t, w, v) ==
  \E k \in Way :
    /\ Call /\ Cached(s, t) /\ Hit(s, t, k)
    /\ Response("store", <<s, t, w>>, v, "ok")
    /\ Put(s, k, [line[s][k] EXCEPT !.lru = Lru(2), !.data[w] = v])
    /\ MemWrite(Home[s][t], w, v)
    /\ tick' = tick + 2
    /\ Touch(s, k)
    /\ behind' = [Overtaken(Home[s][t], w) EXCEPT ![s][k] = @ \ {w}]
    /\ UNCHANGED crashed

\* fill_line() of the victim, then read_hit().
ReadMiss(s, t, w) ==
  \E k \in Way :
    /\ Call /\ Cached(s, t) /\ Miss(s, t) /\ Home[s][t] # NoLine
    /\ Victim(s, k)
    /\ Response("load", <<s, t, w>>, mem[Home[s][t]][w], "ok")
    /\ Put(s, k, [valid |-> TRUE, tag |-> t, data |-> mem[Home[s][t]],
                  lru |-> Lru(2)])
    /\ tick' = tick + 2
    /\ Touch(s, k)
    /\ behind' = [behind EXCEPT ![s][k] = {}]
    /\ UNCHANGED <<mem, crashed>>

\* The fill fails, the line stays as it was, find_line() answers -1 and
\* read_hit() indexes the set with it: it dies, or answers OK with whatever it
\* finds there.  (Its lru goes into the heap's bookkeeping: left out.)
ReadMissUnmapped(s, t, w) ==
  /\ Call /\ Cached(s, t) /\ Miss(s, t) /\ Home[s][t] = NoLine
  /\ \/ crashed' = TRUE /\ resp' = resp
     \/ crashed' = FALSE /\ \E v \in Val : Response("load", <<s, t, w>>, v, "ok")
  /\ tick' = tick + 2
  /\ UNCHANGED <<line, mem, since, behind>>

\* Mutant: a line is allocated on a write miss too.
WriteMissAllocates(s, t, w, v) ==
  \E k \in Way :
    /\ Call /\ Cached(s, t) /\ Miss(s, t) /\ Home[s][t] # NoLine
    /\ Victim(s, k)
    /\ Response("store", <<s, t, w>>, v, "ok")
    /\ MemWrite(Home[s][t], w, v)
    /\ Put(s, k, [line[s][k] EXCEPT !.valid = TRUE, !.tag = t, !.data[w] = v])
    /\ tick' = tick + 1
    /\ behind' = [Overtaken(Home[s][t], w) EXCEPT ![s][k] = {}]
    /\ UNCHANGED <<crashed, since>>

\* A write miss is forwarded without allocating.
WriteMiss(s, t, w, v) ==
  /\ Call /\ Cached(s, t) /\ Miss(s, t) /\ Home[s][t] # NoLine
  /\ Response("store", <<s, t, w>>, v, "ok")
  /\ MemWrite(Home[s][t], w, v)
  /\ tick' = tick + 1
  /\ behind' = Overtaken(Home[s][t], w)
  /\ UNCHANGED <<line, crashed, since>>

WriteMissUnmapped(s, t, w, v) ==
  /\ Call /\ Cached(s, t) /\ Miss(s, t) /\ Home[s][t] = NoLine
  /\ Response("store", <<s, t, w>>, v, "address_error")
  /\ tick' = tick + 1
  /\ UNCHANGED <<line, mem, crashed, since, behind>>

\* Device registers are read and written downstream, past the cache.
BypassRead(s, t, w) ==
  /\ Call /\ ~Cached(s, t) /\ Home[s][t] # NoLine
  /\ Response("load", <<s, t, w>>, mem[Home[s][t]][w], "ok")
  /\ UNCHANGED <<line, tick, mem, crashed, since, behind>>

BypassWrite(s, t, w, v) ==
  /\ Call /\ ~Cached(s, t) /\ Home[s][t] # NoLine
  /\ Response("store", <<s, t, w>>, v, "ok")
  /\ MemWrite(Home[s][t], w, v)
  /\ behind' = Overtaken(Home[s][t], w)
  /\ UNCHANGED <<line, tick, crashed, since>>

(***************************************************************************)
(* Other masters, statistics                                               *)
(***************************************************************************)

\* A write of another master: the DMA's, which enters the Interconnect at a
\* port of its own and is carried out by Memory::peq_cb.
ForwardWrite(m, l, w, v) ==
  /\ ~crashed
  /\ MemWrite(l, w, v)
  /\ resp' = [op |-> "none"]
  /\ behind' = Overtaken(l, w)
  /\ UNCHANGED <<line, tick, crashed, since>>

\* reset_stats() clears the counters the LRU clock is made of.
ResetStats ==
  /\ ~crashed /\ tick > 0
  /\ tick' = 0
  /\ UNCHANGED <<line, mem, resp, crashed, since, behind>>

Access ==
  \E s \in Set, t \in Tag, w \in Word :
    \/ ReadHit(s, t, w) \/ ReadMiss(s, t, w) \/ ReadMissUnmapped(s, t, w)
    \/ BypassRead(s, t, w)
    \/ \E v \in Val : \/ WriteHit(s, t, w, v) \/ WriteMiss(s, t, w, v)
                      \/ WriteMissUnmapped(s, t, w, v)
                      \/ BypassWrite(s, t, w, v)

Others ==
  \E m \in Masters, l \in Line, w \in Word, v \in Val : ForwardWrite(m, l, w, v)

Next == Access \/ Others \/ ResetStats

Spec == Init /\ [][Next]_vars

\* main() never calls reset_stats().
SpecMain == Init /\ [][Access \/ Others]_vars

-----------------------------------------------------------------------------
(***************************************************************************)
(* Properties                                                              *)
(***************************************************************************)

\* No two ways of a set hold the same tag, so a store updates the only copy a
\* later load can find (find_line, b_transport).
OneCopy ==
  \A s \in Set, j, k \in Way :
    (/\ line[s][j].valid /\ line[s][k].valid
     /\ line[s][j].tag = line[s][k].tag) => j = k

\* Whatever the other masters and the aliases do, a cached word differs from
\* the memory only if it was overwritten downstream since it was last filled or
\* stored through this copy: the cache itself never loses a store.
StaleOnlyBehind ==
  \A s \in Set, k \in Way, w \in Word : line[s][k].valid =>
    \/ line[s][k].data[w] = mem[Home[s][line[s][k].tag]][w]
    \/ w \in behind[s][k]

\* What is valid was filled from memory, never from a device or from nowhere:
\* a failed fill and an MMIO access leave no line behind.
ValidIsMapped ==
  \A s \in Set, k \in Way : line[s][k].valid =>
    /\ Home[s][line[s][k].tag] # NoLine
    /\ line[s][k].tag \notin Mmio[s]

\* "LRU eviction - smallest lru counter" (victim_way): the line that a miss in
\* a full set replaces is the least recently used one.
LruVictim ==
  \A s \in Set, k \in Way :
    (\A j \in Way : line[s][j].valid) /\ Victim(s, k)
    => since[s][k] = Way \ {k}

\* With the memory to itself the processor sees a flat memory.
Flat == INSTANCE FlatMemory WITH
          store <- [a \in Addr |-> mem[Home[a[1]][a[2]]][a[3]]]

FlatSpec == Flat!Spec
=============================================================================
