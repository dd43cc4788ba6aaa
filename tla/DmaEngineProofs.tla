-------------------------- MODULE DmaEngineProofs --------------------------
(***************************************************************************)
(* Theorems about DmaEngine, for every width of the registers, every       *)
(* memory map and everything drivers write.  The closed form of the copy   *)
(* becomes inductive with what the thread is about to do: which address    *)
(* its request names and which word its buffer carries.                    *)
(***************************************************************************)
EXTENDS DmaEngine, TLAPS

\* The word that the thread is about to copy.
Word == job.base[Origin(job, offset \div 4)]

Aligned == m_src_addr % 4 = 0 /\ m_dst_addr % 4 = 0

PathInv ==
  /\ pc = "idle" <=> port[dma] = Path!Idle
  /\ port[dma].st = "busy" => port[dma].off # NoOffset

\* A clean job lies in the memory, and so much of it has been copied.
JobInv ==
  job.clean =>
    /\ job.from \in Offset /\ job.from + 4 * Words(job.bytes) <= MemBytes
    /\ job.to \in Offset /\ job.to + 4 * Words(job.bytes) <= MemBytes
    /\ 4 * Words(job.bytes) < Half
    /\ mem = Copied(job, WordsWritten)

\* The thread works for the job: its registers, and the request under way.
ThreadInv ==
  job.clean /\ pc # "idle" =>
    /\ m_size = job.bytes /\ m_ctrl % 2 = 1
    /\ Within(m_src_addr, m_size) /\ Decode(m_src_addr) = job.from
    /\ Within(m_dst_addr, m_size) /\ Decode(m_dst_addr) = job.to
    /\ offset < m_size
    /\ port[dma].st \in {"busy", "done"}
    /\ pc = "reading" =>
         /\ port[dma].cmd = "read" /\ port[dma].off = job.from + offset
         /\ port[dma].st = "done" => buf[dma] = Word
    /\ pc = "writing" =>
         /\ port[dma].cmd = "write" /\ port[dma].off = job.to + offset
         /\ buf[dma] = Word

Inv == TypeOK /\ Aligned /\ PathInv /\ JobInv /\ ThreadInv

-----------------------------------------------------------------------------
(* Arithmetic                                                              *)

\* Remainders of small numbers.
LEMMA ModSmall ==
  ASSUME NEW n \in Nat \ {0}, NEW i \in 0 .. n - 1
  PROVE  i % n = i
  OBVIOUS

\* Remainders of a sum of two numbers below the modulus.
LEMMA ModSum ==
  ASSUME NEW n \in Nat \ {0}, NEW i \in 0 .. 2 * n - 1
  PROVE  i % n = IF i < n THEN i ELSE i - n
  OBVIOUS

\* Division with remainder, and what is left of a sum.
LEMMA DivMod ==
  ASSUME NEW d \in Nat \ {0}, NEW k \in Nat
  PROVE  /\ k \div d \in Nat /\ k % d \in 0 .. d - 1
         /\ k = (k \div d) * d + (k % d)
  OBVIOUS

LEMMA ModOfSum ==
  ASSUME NEW d \in Nat \ {0}, NEW q \in Nat, NEW r \in 0 .. d - 1
  PROVE  (q * d + r) % d = r
  OBVIOUS

\* A remainder does not depend on a multiple.
LEMMA ModPlus ==
  ASSUME NEW d \in Nat \ {0}, NEW k \in Nat
  PROVE  (k + d) % d = k % d
  <1>1. PICK q \in Nat, r \in 0 .. d - 1 : k = q * d + r BY DivMod
  <1>2. k + d = (q + 1) * d + r BY <1>1
  <1> QED BY <1>1, <1>2, ModOfSum

\* A remainder is below the modulus and not above the number.
LEMMA ModBound ==
  ASSUME NEW d \in Nat \ {0}, NEW k \in Nat
  PROVE  k % d \in 0 .. d - 1 /\ k % d <= k
  OBVIOUS

\* Registers: the halves of an address and their alignment.
LEMMA WideFacts ==
  /\ Wide \in Nat \ {0} /\ Half <= Wide /\ Wide % 4 = 0
  /\ \A q \in Nat : q * Half \in Nat /\ (q * Half) % 4 = 0
  <1>1. Half \in Nat \ {0} /\ Half % 4 = 0 BY WidthAssumption
  <1>2. PICK h \in Nat : Half = 4 * h BY <1>1
  <1>3. ASSUME NEW q \in Nat PROVE q * Half \in Nat /\ (q * Half) % 4 = 0
    <2>1. q * Half = 4 * (q * h) BY <1>2
    <2>2. q * h \in Nat BY <1>2
    <2> QED BY <2>1, <2>2
  <1>4. Half * Half >= Half BY <1>1
  <1> QED BY <1>1, <1>3, <1>4 DEF Wide

\* A store to the low half of an address.
LEMMA SetLoType ==
  ASSUME NEW r \in 0 .. Wide - 1, NEW v \in LoVals, r % 4 = 0
  PROVE  SetLo(r, v) \in 0 .. Wide - 1 /\ SetLo(r, v) % 4 = 0
  <1>1. Half \in Nat \ {0} BY WidthAssumption
  <1>2. v \in 0 .. Half - 1 /\ v % 4 = 0 BY DriverAssumption
  <1> DEFINE q == r \div Half
  <1>3. q \in Nat /\ q < Half
    BY <1>1 DEF Wide
  <1>4. (q + 1) * Half <= Half * Half
    BY <1>1, <1>3
  <1>5. (q + 1) * Half = q * Half + Half
    BY <1>1, <1>3
  <1>6. q * Half \in Nat /\ (q * Half) % 4 = 0
    BY <1>3, WideFacts
  <1>7. q * Half + Half <= Wide /\ Wide \in Nat
    BY <1>4, <1>5, WideFacts DEF Wide
  <1> DEFINE p == q * Half
  <1> HIDE DEF p
  <1>8. p + v \in 0 .. Wide - 1 /\ (p + v) % 4 = 0
    <2>1. p \in Nat /\ p % 4 = 0 /\ p + Half <= Wide /\ Wide \in Nat
      BY <1>6, <1>7 DEF p
    <2> QED BY <1>1, <1>2, <2>1
  <1> QED BY <1>8 DEF SetLo, p

\* A store to the high half.
LEMMA SetHiType ==
  ASSUME NEW r \in 0 .. Wide - 1, NEW v \in HiVals, r % 4 = 0
  PROVE  SetHi(r, v) \in 0 .. Wide - 1 /\ SetHi(r, v) % 4 = 0
  <1>1. Half \in Nat \ {0} BY WidthAssumption
  <1>2. v \in 0 .. Half - 1 BY DriverAssumption
  <1> DEFINE q == r \div Half
             m == r % Half
  <1>3. q \in Nat /\ m \in 0 .. Half - 1 /\ r = q * Half + m
    BY <1>1, WideFacts
  <1>4. (v + 1) * Half <= Half * Half /\ (v + 1) * Half = v * Half + Half
    BY <1>1, <1>2
  <1>5. /\ q * Half \in Nat /\ (q * Half) % 4 = 0
        /\ v * Half \in Nat /\ (v * Half) % 4 = 0
    BY <1>2, <1>3, WideFacts
  <1>6. v * Half + Half <= Wide /\ Wide \in Nat
    BY <1>4, WideFacts DEF Wide
  <1> DEFINE old == q * Half
             new == v * Half
  <1> HIDE DEF q, m, old, new
  <1>7. m % 4 = 0
    <2>1. old \in Nat /\ old % 4 = 0 /\ r = old + m BY <1>3, <1>5 DEF old
    <2> QED BY <1>1, <1>3, <2>1
  <1>8. new + m \in 0 .. Wide - 1 /\ (new + m) % 4 = 0
    <2>1. new \in Nat /\ new % 4 = 0 /\ new + Half <= Wide /\ Wide \in Nat
      BY <1>5, <1>6 DEF new
    <2> QED BY <1>1, <1>3, <1>7, <2>1
  <1> QED BY <1>8 DEF SetHi, m, new

-----------------------------------------------------------------------------
(* The map                                                                 *)

\* Windows do not overlap, so an address means one place.
LEMMA DecodeIn ==
  ASSUME NEW a \in Nat, NEW b \in Windows, b <= a, a < b + MemBytes
  PROVE  Decode(a) = a - b
  <1>1. \A c \in Windows : c \in Nat
    BY WidthAssumption, WideFacts DEF Wide
  <1>2. \A c \in Holding(a) : c = b
    <2> SUFFICES ASSUME NEW c \in Windows, c <= a, a < c + MemBytes, c # b
                 PROVE  FALSE
      BY DEF Holding
    <2>1. b < c \/ c < b BY <1>1
    <2> QED BY <1>1, <2>1, WidthAssumption
  <1>3. b \in Holding(a) BY DEF Holding
  <1> QED BY <1>2, <1>3 DEF Decode

\* An aligned address means a word of the memory, or nothing.
LEMMA DecodeType ==
  ASSUME NEW a \in Nat, a % 4 = 0
  PROVE  /\ Decode(a) \in Offset \cup {NoOffset}
         /\ Decode(a) # NoOffset =>
              \E b \in Windows : /\ b \in Nat /\ b <= a /\ a < b + MemBytes
                                 /\ b + MemBytes <= Wide /\ Decode(a) = a - b
  <1>1. CASE Holding(a) = {} BY <1>1 DEF Decode
  <1>2. CASE Holding(a) # {}
    <2>1. PICK b \in Windows : b <= a /\ a < b + MemBytes
      BY <1>2 DEF Holding
    <2>2. b \in Nat /\ b % 4 = 0 /\ b + MemBytes <= Wide
      BY WidthAssumption, WideFacts DEF Wide
    <2>3. Decode(a) = a - b BY <2>1, DecodeIn
    <2>4. a - b \in Offset BY <2>1, <2>2, WidthAssumption DEF Offset
    <2> QED BY <2>1, <2>2, <2>3, <2>4
  <1> QED BY <1>1, <1>2

\* Where a call in the middle of a block goes: no carry is lost.
LEMMA DecodeWithin ==
  ASSUME NEW a \in 0 .. Wide - 1, a % 4 = 0, NEW bytes \in Nat,
         Within(a, bytes), NEW at \in Nat, at < 4 * Words(bytes)
  PROVE  Decode((a + at) % Wide) = Decode(a) + at
  <1>1. PICK b \in Windows : /\ b \in Nat /\ b <= a /\ a < b + MemBytes
                             /\ b + MemBytes <= Wide /\ Decode(a) = a - b
    BY DecodeType, WideFacts DEF Within
  <1>2. Words(bytes) \in Nat BY DEF Words
  <1>3. a - b + at < MemBytes /\ MemBytes \in Nat /\ Wide \in Nat \ {0} /\ a \in Nat
    BY <1>1, <1>2, WidthAssumption, WideFacts DEF Within
  <1>4. a + at \in 0 .. Wide - 1 BY <1>1, <1>3
  <1>5. (a + at) % Wide = a + at BY <1>3, <1>4, ModSmall
  <1>6. Decode(a + at) = a + at - b BY <1>1, <1>3, DecodeIn
  <1> QED BY <1>1, <1>3, <1>5, <1>6

\* The target of any call is a word of the memory, or nothing.
LEMMA CallType ==
  ASSUME NEW a \in 0 .. Wide - 1, a % 4 = 0,
         NEW at \in 0 .. Half - 1, at % 4 = 0
  PROVE  Decode((a + at) % Wide) \in Offset \cup {NoOffset}
  <1>1. Half \in Nat \ {0} /\ Wide \in Nat \ {0} /\ Half <= Wide /\ Wide % 4 = 0
    BY WidthAssumption, WideFacts
  <1> DEFINE i == a + at
  <1>2. i \in 0 .. 2 * Wide - 1 /\ i % 4 = 0 BY <1>1
  <1> HIDE DEF i
  <1>3. i % Wide = IF i < Wide THEN i ELSE i - Wide
    BY <1>1, <1>2, ModSum
  <1>4. i % Wide \in Nat /\ (i % Wide) % 4 = 0
    <2>1. CASE i < Wide BY <1>1, <1>2, <1>3, <2>1
    <2>2. CASE i >= Wide BY <1>1, <1>2, <1>3, <2>2
    <2> QED BY <1>1, <1>2, <2>1, <2>2
  <1>5. Decode(i % Wide) \in Offset \cup {NoOffset} BY <1>4, DecodeType
  <1> QED BY <1>5 DEF i

-----------------------------------------------------------------------------
(* The copy                                                                *)

\* The jobs the lemmas are about: two blocks inside the memory.
Fits(j) ==
  /\ j.from \in Offset /\ j.to \in Offset /\ j.bytes \in Nat
  /\ j.from + 4 * Words(j.bytes) <= MemBytes
  /\ j.to + 4 * Words(j.bytes) <= MemBytes

\* Words and their places in a block.
LEMMA WordsFacts ==
  /\ \A n \in Nat : Words(4 * n) = n
  /\ \A n \in Nat : Words(n) \in Nat /\ n <= 4 * Words(n) /\ 4 * Words(n) < n + 4
  BY DEF Words

LEMMA PlaceIsOffset ==
  ASSUME NEW o \in Offset, NEW n \in Nat, o + 4 * n < MemBytes
  PROVE  o \in Nat /\ o % 4 = 0 /\ o + 4 * n \in Offset
  BY WidthAssumption DEF Offset

\* The origin of a word is a word of the source not after it.
LEMMA OriginInBlock ==
  ASSUME NEW j, j.from \in Offset, j.to \in Offset, NEW k \in Nat
  PROVE  \E i \in 0 .. k : Origin(j, k) = j.from + 4 * i
  <1>1. /\ j.from \in Nat /\ j.from % 4 = 0 /\ j.to \in Nat /\ j.to % 4 = 0
    BY WidthAssumption DEF Offset
  <1>2. CASE j.from < j.to
    <2> DEFINE d == (j.to - j.from) \div 4
    <2>1. d \in Nat \ {0} BY <1>1, <1>2
    <2> HIDE DEF d
    <2>2. k % d \in 0 .. k BY <2>1, ModBound
    <2>3. Origin(j, k) = j.from + 4 * (k % d) BY <1>2 DEF Origin, d
    <2> QED BY <2>2, <2>3
  <1>3. CASE ~(j.from < j.to) BY <1>3 DEF Origin
  <1> QED BY <1>2, <1>3

\* Which words of the memory the first n of a block are.
LEMMA BlockMember ==
  ASSUME NEW start \in Nat, NEW n \in Nat, NEW o
  PROVE  o \in Block(start, 4 * n) <=> \E k \in 0 .. n - 1 : o = start + 4 * k
  BY WordsFacts DEF Block

\* When n words have been copied, the next word of the source still is, or
\* has become, the one that belongs to the next place of the target.
LEMMA ReadStep ==
  ASSUME NEW j, Fits(j), NEW n \in Nat, n < Words(j.bytes)
  PROVE  Copied(j, n)[j.from + 4 * n] = j.base[Origin(j, n)]
  <1>1. /\ j.from \in Nat /\ j.from % 4 = 0 /\ j.to \in Nat /\ j.to % 4 = 0
    BY WidthAssumption DEF Fits, Offset
  <1>2. Words(j.bytes) \in Nat BY WordsFacts DEF Fits
  <1>3. j.from + 4 * n < MemBytes BY <1>1, <1>2, WidthAssumption DEF Fits
  <1> DEFINE o == j.from + 4 * n
  <1>4. o \in Offset BY <1>3, PlaceIsOffset DEF Fits
  <1>5. CASE o \in Block(j.to, 4 * n)
    <2>1. PICK k \in 0 .. n - 1 : o = j.to + 4 * k
      BY <1>1, <1>5, BlockMember
    <2> DEFINE d == (j.to - j.from) \div 4
    <2>2. d \in Nat \ {0} /\ n = k + d /\ k \in Nat /\ j.from < j.to
      <3>1. j.to - j.from = 4 * (n - k) /\ n - k \in Nat \ {0} BY <1>1, <2>1
      <3>2. d = n - k BY <3>1
      <3> QED BY <1>1, <2>1, <3>1, <3>2
    <2>3. (o - j.to) \div 4 = k BY <1>1, <2>1
    <2> HIDE DEF d
    <2>4. n % d = k % d BY <2>2, ModPlus
    <2>5. Origin(j, n) = Origin(j, k) BY <2>2, <2>4 DEF Origin, d
    <2>6. Copied(j, n)[o] = j.base[Origin(j, k)]
      BY <1>4, <1>5, <2>3 DEF Copied
    <2> QED BY <2>5, <2>6
  <1>6. CASE o \notin Block(j.to, 4 * n)
    <2>1. Copied(j, n)[o] = j.base[o] BY <1>4, <1>6 DEF Copied
    <2>2. Origin(j, n) = o
      <3>1. CASE j.from < j.to
        <4> DEFINE d == (j.to - j.from) \div 4
                   k == (o - j.to) \div 4
        <4>1. d \in Nat \ {0} /\ j.to = j.from + 4 * d BY <1>1, <3>1
        <4>2. n < d
          <5> SUFFICES ASSUME n >= d PROVE FALSE BY <4>1
          <5>1. n - d \in 0 .. n - 1 /\ o = j.to + 4 * (n - d)
            BY <4>1, <1>1
          <5> QED BY <1>1, <1>6, <5>1, BlockMember
        <4> HIDE DEF d
        <4>3. n % d = n BY <4>1, <4>2, ModSmall
        <4> QED BY <3>1, <4>3 DEF Origin, d
      <3>2. CASE ~(j.from < j.to) BY <3>2 DEF Origin
      <3> QED BY <3>1, <3>2
    <2> QED BY <2>1, <2>2
  <1> QED BY <1>5, <1>6

\* Writing that word makes one more.
LEMMA WriteStep ==
  ASSUME NEW j, Fits(j), NEW n \in Nat, n < Words(j.bytes)
  PROVE  [Copied(j, n) EXCEPT ![j.to + 4 * n] = j.base[Origin(j, n)]]
           = Copied(j, n + 1)
  <1>1. j.to \in Nat BY WidthAssumption DEF Fits, Offset
  <1> DEFINE here == j.to + 4 * n
  <1>2. (here - j.to) \div 4 = n BY <1>1
  <1>3. Block(j.to, 4 * (n + 1)) = {j.to + 4 * k : k \in 0 .. n}
    <2>1. Words(4 * (n + 1)) = n + 1 BY WordsFacts
    <2>2. 0 .. (n + 1) - 1 = 0 .. n OBVIOUS
    <2> QED BY <2>1, <2>2 DEF Block
  <1>4. here \in Block(j.to, 4 * (n + 1)) BY <1>3
  <1>5. ASSUME NEW o \in Offset, o # here
        PROVE  o \in Block(j.to, 4 * (n + 1)) <=> o \in Block(j.to, 4 * n)
    <2>1. o \in Block(j.to, 4 * (n + 1)) <=> \E k \in 0 .. n : o = j.to + 4 * k
      BY <1>3
    <2>2. o \in Block(j.to, 4 * n) <=> \E k \in 0 .. n - 1 : o = j.to + 4 * k
      BY <1>1, BlockMember
    <2> QED BY <1>5, <2>1, <2>2
  <1> HIDE DEF here
  <1>6. ASSUME NEW o \in Offset
        PROVE  [Copied(j, n) EXCEPT ![here] = j.base[Origin(j, n)]][o]
                 = Copied(j, n + 1)[o]
    <2>1. CASE o = here BY <1>2, <1>4, <2>1 DEF Copied
    <2>2. CASE o # here BY <1>5, <2>2 DEF Copied
    <2> QED BY <2>1, <2>2
  <1>7. /\ Copied(j, n + 1) = [o \in Offset |-> Copied(j, n + 1)[o]]
        /\ [Copied(j, n) EXCEPT ![here] = j.base[Origin(j, n)]]
             = [o \in Offset |->
                  [Copied(j, n) EXCEPT ![here] = j.base[Origin(j, n)]][o]]
    BY DEF Copied
  <1>8. [o \in Offset |-> [Copied(j, n) EXCEPT ![here] = j.base[Origin(j, n)]][o]]
          = [o \in Offset |-> Copied(j, n + 1)[o]]
    BY <1>6
  <1> QED BY <1>7, <1>8 DEF here

\* A store elsewhere is a store to what the job began with.
LEMMA StoreElsewhere ==
  ASSUME NEW j, Fits(j), NEW o \in Offset \ Claimed(j), NEW v,
         NEW i, i.from = j.from, i.to = j.to, i.bytes = j.bytes,
         \A p \in Offset : i.base[p] = IF p = o THEN v ELSE j.base[p],
         NEW n \in Nat, n <= Words(j.bytes)
  PROVE  /\ \A p \in Offset :
              Copied(i, n)[p] = IF p = o THEN v ELSE Copied(j, n)[p]
         /\ n < Words(j.bytes) => i.base[Origin(i, n)] = j.base[Origin(j, n)]
  <1>1. j.from \in Nat /\ j.to \in Nat /\ Words(j.bytes) \in Nat
    <2>1. Words(j.bytes) \in Nat BY WordsFacts DEF Fits
    <2>2. Offset \subseteq Nat BY WidthAssumption DEF Offset
    <2> QED BY <2>1, <2>2 DEF Fits
  <1>2. \A k \in Nat : Origin(i, k) = Origin(j, k) BY DEF Origin
  <1>3. ASSUME NEW k \in Nat, k < Words(j.bytes)
        PROVE  Origin(j, k) \in Offset /\ Origin(j, k) # o
    <2>1. PICK m \in 0 .. k : Origin(j, k) = j.from + 4 * m
      BY OriginInBlock DEF Fits
    <2>2. j.from + 4 * m \in Offset
      BY <1>1, <1>3, <2>1, WidthAssumption, PlaceIsOffset DEF Fits
    <2>3. j.from + 4 * m \in Claimed(j)
      <3>1. m \in 0 .. Words(j.bytes) - 1 BY <1>1, <1>3
      <3> QED BY <3>1 DEF Claimed, Block
    <2> QED BY <2>1, <2>2, <2>3
  <1>4. o \notin Block(j.to, 4 * n)
    <2> SUFFICES ASSUME o \in Block(j.to, 4 * n) PROVE FALSE OBVIOUS
    <2>1. PICK k \in 0 .. n - 1 : o = j.to + 4 * k BY <1>1, BlockMember
    <2>2. o \in Claimed(j) BY <1>1, <2>1 DEF Claimed, Block
    <2> QED BY <2>2
  <1>5. ASSUME NEW p \in Offset
        PROVE  Copied(i, n)[p] = IF p = o THEN v ELSE Copied(j, n)[p]
    <2>1. CASE p = o BY <1>4, <2>1 DEF Copied
    <2>2. CASE p # o /\ p \in Block(j.to, 4 * n)
      <3>1. PICK k \in 0 .. n - 1 : p = j.to + 4 * k
        BY <1>1, <2>2, BlockMember
      <3>2. (p - j.to) \div 4 = k /\ k \in Nat /\ k < Words(j.bytes)
        BY <1>1, <3>1
      <3>3. Copied(i, n)[p] = i.base[Origin(i, k)]
        BY <2>2, <3>2 DEF Copied
      <3>4. Copied(j, n)[p] = j.base[Origin(j, k)]
        BY <2>2, <3>2 DEF Copied
      <3> QED BY <1>2, <1>3, <2>2, <3>2, <3>3, <3>4
    <2>3. CASE p # o /\ p \notin Block(j.to, 4 * n)
      BY <2>3 DEF Copied
    <2> QED BY <2>1, <2>2, <2>3
  <1>6. n < Words(j.bytes) => i.base[Origin(i, n)] = j.base[Origin(j, n)]
    BY <1>2, <1>3
  <1> QED BY <1>5, <1>6

-----------------------------------------------------------------------------
(* The invariant                                                           *)

JobType == [clean : BOOLEAN, from : Nat, to : Nat,
            bytes : 0 .. Half - 1, base : [Offset -> Val]]
PortType == [st : {"idle", "busy", "refused", "done"},
             cmd : {"none", "read", "write"}, off : Offset \cup {NoOffset}]

LEMMA NoJobType == NoJob \in JobType /\ ~NoJob.clean
  <1>1. Half \in Nat \ {0} /\ Zero \in Val BY WidthAssumption, ValueAssumption
  <1> QED BY <1>1 DEF NoJob, JobType

\* The initial state satisfies the invariant.
LEMMA InitInv == Init => Inv
  <1> SUFFICES ASSUME Init PROVE Inv OBVIOUS
  <1>1. Half \in Nat \ {0} /\ Wide \in Nat \ {0} /\ Zero \in Val
    BY WidthAssumption, WideFacts, ValueAssumption
  <1>2. port[dma] = Path!Idle BY DEF Init, Path!Init
  <1>3. TypeOK
    <2>1. job \in JobType BY NoJobType DEF Init
    <2>2. port \in [{dma} -> PortType] /\ buf \in [{dma} -> Val]
      BY <1>1 DEF Init, Path!Init, Path!Idle, PortType
    <2> QED BY <1>1, <2>1, <2>2 DEF TypeOK, Init, Path!Init, JobType, PortType
  <1>4. Aligned BY DEF Aligned, Init
  <1>5. PathInv BY <1>2 DEF PathInv, Init, Path!Idle
  <1>6. ~job.clean BY NoJobType DEF Init
  <1> QED BY <1>3, <1>4, <1>5, <1>6 DEF Inv, JobInv, ThreadInv

\* How much of a clean job has been copied.
LEMMA WrittenBound ==
  ASSUME Inv, job.clean
  PROVE  /\ Fits(job) /\ Words(job.bytes) \in Nat
         /\ WordsWritten \in Nat /\ WordsWritten <= Words(job.bytes)
         /\ pc # "idle" => /\ offset \div 4 \in Nat
                           /\ offset \div 4 < Words(job.bytes)
                           /\ offset = 4 * (offset \div 4)
  <1>1. job.bytes \in Nat BY WidthAssumption DEF Inv, TypeOK
  <1>2. Fits(job) BY <1>1 DEF Inv, JobInv, Fits
  <1>3. Words(job.bytes) \in Nat /\ job.bytes <= 4 * Words(job.bytes)
    BY <1>1, WordsFacts
  <1>4. ASSUME pc # "idle"
        PROVE  /\ offset \div 4 \in Nat /\ offset \div 4 < Words(job.bytes)
               /\ offset = 4 * (offset \div 4)
    <2>1. offset \in Nat /\ offset % 4 = 0 /\ offset < job.bytes
      BY <1>4, WidthAssumption DEF Inv, TypeOK, ThreadInv
    <2> QED BY <1>1, <1>3, <2>1
  <1>5. CASE pc = "idle" BY <1>2, <1>3, <1>5 DEF WordsWritten
  <1>6. CASE pc # "idle"
    <2>1. WordsWritten \in {offset \div 4, offset \div 4 + 1}
      BY <1>6 DEF WordsWritten
    <2> QED BY <1>2, <1>3, <1>4, <1>6, <2>1
  <1> QED BY <1>5, <1>6

\* A call of the thread leaves a request of the right type.
LEMMA CallEffect ==
  ASSUME TypeOK, NEW a, Decode(a) \in Offset \cup {NoOffset},
         NEW cmd \in {"read", "write"}, NEW word \in Val, Call(cmd, a, word)
  PROVE  /\ mem' = mem /\ buf' \in [{dma} -> Val] /\ buf'[dma] = word
         /\ port' \in [{dma} -> PortType] /\ port'[dma] # Path!Idle
         /\ port'[dma].cmd = cmd /\ port'[dma].off = Decode(a)
         /\ port'[dma].st = IF Decode(a) = NoOffset THEN "refused" ELSE "busy"
  <1> DEFINE r == [st  |-> IF Decode(a) = NoOffset THEN "refused" ELSE "busy",
                   cmd |-> cmd, off |-> Decode(a)]
  <1>1. /\ port \in [{dma} -> PortType] /\ buf \in [{dma} -> Val]
    BY DEF TypeOK, PortType
  <1>2. mem' = mem /\ buf' = [buf EXCEPT ![dma] = word]
    BY DEF Call
  <1>3. port' = [port EXCEPT ![dma] = r] BY DEF Call
  <1>4. r \in PortType /\ r # Path!Idle BY DEF PortType, Path!Idle
  <1>5. /\ r.cmd = cmd /\ r.off = Decode(a)
        /\ r.st = IF Decode(a) = NoOffset THEN "refused" ELSE "busy"
    OBVIOUS
  <1> HIDE DEF r
  <1>6. port'[dma] = r /\ port' \in [{dma} -> PortType]
    BY <1>1, <1>3, <1>4
  <1>7. buf'[dma] = word /\ buf' \in [{dma} -> Val] BY <1>1, <1>2
  <1> QED BY <1>2, <1>4, <1>5, <1>6, <1>7

\* The head of the loop.
LEMMA LoopEffect ==
  ASSUME TypeOK, Aligned, NEW at \in 0 .. Half - 1, at % 4 = 0, Loop(at),
         UNCHANGED <<m_src_addr, m_dst_addr, m_size>>, job' \in JobType
  PROVE  /\ TypeOK' /\ Aligned' /\ PathInv' /\ mem' = mem
         /\ at < m_size =>
              /\ pc' = "reading" /\ offset' = at /\ m_ctrl' = m_ctrl
              /\ port'[dma].cmd = "read"
              /\ port'[dma].off = Decode((m_src_addr + at) % Wide)
              /\ port'[dma].st = IF Decode((m_src_addr + at) % Wide) = NoOffset
                                 THEN "refused" ELSE "busy"
         /\ at >= m_size => pc' = "idle"
  <1>1. m_src_addr \in 0 .. Wide - 1 /\ m_src_addr % 4 = 0 /\ buf[dma] \in Val
    BY DEF TypeOK, Aligned
  <1>2. Decode((m_src_addr + at) % Wide) \in Offset \cup {NoOffset}
    BY <1>1, CallType
  <1>3. Half \in Nat \ {0} /\ m_size \in 0 .. Half - 1
    BY WidthAssumption DEF TypeOK
  <1>4. CASE at < m_size /\ StartReading(at)
    <2> DEFINE a == (m_src_addr + at) % Wide
    <2>1. Call("read", a, buf[dma]) BY <1>4 DEF StartReading
    <2>2. pc' = "reading" /\ offset' = at /\ m_ctrl' = m_ctrl
      BY <1>4 DEF StartReading
    <2>3. Decode(a) \in Offset \cup {NoOffset} BY <1>2
    <2> HIDE DEF a
    <2>4. /\ mem' = mem /\ buf' \in [{dma} -> Val]
          /\ port' \in [{dma} -> PortType] /\ port'[dma] # Path!Idle
          /\ port'[dma].cmd = "read" /\ port'[dma].off = Decode(a)
          /\ port'[dma].st = IF Decode(a) = NoOffset THEN "refused" ELSE "busy"
      BY <1>1, <2>1, <2>3, CallEffect
    <2>5. TypeOK'
      BY <2>2, <2>4 DEF TypeOK, PortType, JobType
    <2>6. Aligned' BY DEF Aligned
    <2>7. PathInv' BY <2>2, <2>4 DEF PathInv
    <2> QED BY <1>3, <1>4, <2>2, <2>4, <2>5, <2>6, <2>7 DEF a
  <1>5. CASE at >= m_size /\ Finish
    <2>1. /\ pc' = "idle" /\ offset' = 0 /\ m_ctrl' = 0 /\ mem' = mem /\ buf' = buf
          /\ port' = [port EXCEPT ![dma] = Path!Idle]
      BY <1>5 DEF Finish
    <2>2. Path!Idle \in PortType /\ Path!Idle.st = "idle"
      BY DEF PortType, Path!Idle
    <2>3. port \in [{dma} -> PortType] BY DEF TypeOK, PortType
    <2>4. port'[dma] = Path!Idle /\ port' \in [{dma} -> PortType]
      BY <2>1, <2>2, <2>3
    <2>5. TypeOK' BY <1>3, <2>1, <2>4 DEF TypeOK, PortType, JobType
    <2>6. Aligned' BY DEF Aligned
    <2>7. PathInv' BY <2>1, <2>2, <2>4 DEF PathInv
    <2> QED BY <1>3, <1>5, <2>1, <2>5, <2>6, <2>7
  <1> QED BY <1>4, <1>5 DEF Loop

\* A register is written: a transfer under way is no longer clean.
LEMMA RegisterStoreInv ==
  ASSUME Inv, RegisterStore
  PROVE  Inv'
  <1> USE DEF Inv
  <1>1. UNCHANGED <<pc, offset, mem, port, buf>> BY DEF RegisterStore
  <1>2. job' = IF pc = "idle" THEN job ELSE NoJob BY DEF RegisterStore
  <1>3. /\ m_src_addr' \in 0 .. Wide - 1 /\ m_src_addr' % 4 = 0
        /\ m_dst_addr' \in 0 .. Wide - 1 /\ m_dst_addr' % 4 = 0
        /\ m_size' \in 0 .. Half - 1 /\ m_ctrl' \in 0 .. Half - 1
    <2>1. /\ m_src_addr \in 0 .. Wide - 1 /\ m_src_addr % 4 = 0
          /\ m_dst_addr \in 0 .. Wide - 1 /\ m_dst_addr % 4 = 0
          /\ m_size \in 0 .. Half - 1 /\ m_ctrl \in 0 .. Half - 1
      BY DEF TypeOK, Aligned
    <2> QED BY <2>1, SetLoType, SetHiType, DriverAssumption DEF RegisterStore
  <1>4. job' \in JobType BY <1>2, NoJobType DEF TypeOK, JobType
  <1>5. TypeOK' BY <1>1, <1>3, <1>4 DEF TypeOK, JobType
  <1>6. Aligned' BY <1>3 DEF Aligned
  <1>7. PathInv' BY <1>1 DEF PathInv
  <1>8. CASE pc = "idle"
    <2>1. job' = job /\ pc' = "idle" BY <1>1, <1>2, <1>8
    <2>2. WordsWritten' = WordsWritten BY <1>1, <2>1 DEF WordsWritten
    <2>3. JobInv' BY <1>1, <2>1, <2>2 DEF JobInv
    <2> QED BY <1>5, <1>6, <1>7, <2>1, <2>3 DEF ThreadInv
  <1>9. CASE pc # "idle"
    <2>1. ~job'.clean BY <1>2, <1>9, NoJobType
    <2> QED BY <1>5, <1>6, <1>7, <2>1 DEF JobInv, ThreadInv
  <1> QED BY <1>8, <1>9

\* Another master stores a word: in the blocks, or elsewhere.
LEMMA MemoryStoreInv ==
  ASSUME Inv, NEW o \in Offset, NEW v \in Val, MemoryStore(o, v)
  PROVE  Inv'
  <1> USE DEF Inv
  <1>1. /\ UNCHANGED <<m_src_addr, m_dst_addr, m_size, m_ctrl, pc, offset, port, buf>>
        /\ mem' = [mem EXCEPT ![o] = v]
    BY DEF MemoryStore, regVars, Path!Store
  <1>2. mem' \in [Offset -> Val] BY <1>1 DEF TypeOK
  <1>3. Aligned' /\ PathInv' BY <1>1 DEF Aligned, PathInv
  <1>4. CASE ~job.clean \/ o \in Claimed(job)
    <2>1. job' = NoJob BY <1>4 DEF MemoryStore
    <2>2. job' \in JobType /\ ~job'.clean BY <2>1, NoJobType
    <2>3. TypeOK' BY <1>1, <1>2, <2>2 DEF TypeOK, JobType
    <2> QED BY <1>3, <2>2, <2>3 DEF JobInv, ThreadInv
  <1>5. CASE job.clean /\ o \notin Claimed(job)
    <2>1. job' = [job EXCEPT !.base[o] = v] BY <1>5 DEF MemoryStore
    <2>2. job \in JobType BY DEF TypeOK, JobType
    <2>3. job' = [job EXCEPT !.base = [job.base EXCEPT ![o] = v]]
      BY <2>1, <2>2 DEF JobType
    <2>4. /\ job'.clean = job.clean /\ job'.from = job.from
          /\ job'.to = job.to /\ job'.bytes = job.bytes /\ job' \in JobType
      BY <2>2, <2>3 DEF JobType
    <2>5. WordsWritten' = WordsWritten BY <1>1, <2>4 DEF WordsWritten
    <2>6. /\ Fits(job) /\ WordsWritten \in Nat
          /\ WordsWritten <= Words(job.bytes)
          /\ pc # "idle" => /\ offset \div 4 \in Nat
                            /\ offset \div 4 < Words(job.bytes)
          /\ Words(job.bytes) \in Nat
      BY <1>5, WrittenBound
    <2>7. /\ o \in Offset \ Claimed(job)
          /\ \A p \in Offset :
               job'.base[p] = IF p = o THEN v ELSE job.base[p]
      BY <1>5, <2>2, <2>3 DEF JobType
    <2>8. mem' = Copied(job', WordsWritten)
      <3>1. \A p \in Offset : Copied(job', WordsWritten)[p]
                = IF p = o THEN v ELSE Copied(job, WordsWritten)[p]
        BY <2>4, <2>6, <2>7, StoreElsewhere
      <3>2. mem = Copied(job, WordsWritten) BY <1>5 DEF JobInv
      <3>3. \A p \in Offset : mem'[p] = Copied(job', WordsWritten)[p]
        BY <1>1, <3>1, <3>2 DEF TypeOK
      <3>4. /\ Copied(job', WordsWritten)
                 = [p \in Offset |-> Copied(job', WordsWritten)[p]]
            /\ mem' = [p \in Offset |-> mem'[p]]
        BY <1>2 DEF Copied
      <3> QED BY <3>3, <3>4
    <2>9. JobInv' BY <1>5, <2>4, <2>5, <2>8 DEF JobInv
    <2>10. pc # "idle" => Word' = Word
      BY <1>1, <2>4, <2>6, <2>7, StoreElsewhere DEF Word
    <2>11. ThreadInv' BY <1>1, <1>5, <2>4, <2>10 DEF ThreadInv
    <2>12. TypeOK' BY <1>1, <1>2, <2>4 DEF TypeOK, JobType
    <2> QED BY <1>3, <2>9, <2>11, <2>12
  <1> QED BY <1>4, <1>5

\* A transfer starts; one of no bytes ends at once.
LEMMA WakeInv ==
  ASSUME Inv, Wake
  PROVE  Inv'
  <1> USE DEF Inv
  <1>1. /\ m_ctrl % 2 = 1 /\ Loop(0) /\ job' = NewJob
        /\ UNCHANGED <<m_src_addr, m_dst_addr, m_size>>
    BY DEF Wake
  <1>2. Half \in Nat \ {0} /\ m_size \in 0 .. Half - 1 /\ m_size \in Nat
    BY WidthAssumption DEF TypeOK
  <1>3. /\ m_src_addr \in Nat /\ m_src_addr % 4 = 0 /\ m_src_addr \in 0 .. Wide - 1
        /\ m_dst_addr \in Nat /\ m_dst_addr % 4 = 0
    BY WideFacts DEF TypeOK, Aligned
  <1> DEFINE inside == /\ Within(m_src_addr, m_size) /\ Within(m_dst_addr, m_size)
                       /\ 4 * Words(m_size) < Half
  <1>4. CASE inside
    <2>1. NewJob = [clean |-> TRUE, from |-> Decode(m_src_addr),
                    to |-> Decode(m_dst_addr), bytes |-> m_size, base |-> mem]
      BY <1>4 DEF NewJob
    <2>2. /\ Decode(m_src_addr) \in Offset /\ Decode(m_dst_addr) \in Offset
          /\ Decode(m_src_addr) + 4 * Words(m_size) <= MemBytes
          /\ Decode(m_dst_addr) + 4 * Words(m_size) <= MemBytes
      BY <1>3, <1>4, DecodeType DEF Within
    <2>3. /\ job' \in JobType /\ job'.from = Decode(m_src_addr)
          /\ job'.to = Decode(m_dst_addr) /\ job'.bytes = m_size /\ job'.base = mem
      <3>1. Offset \subseteq Nat BY WidthAssumption DEF Offset
      <3>2. mem \in [Offset -> Val] BY DEF TypeOK
      <3> QED BY <1>1, <1>2, <2>1, <2>2, <3>1, <3>2 DEF JobType
    <2>4. /\ TypeOK' /\ Aligned' /\ PathInv' /\ mem' = mem
          /\ 0 < m_size =>
              /\ pc' = "reading" /\ offset' = 0 /\ m_ctrl' = m_ctrl
              /\ port'[dma].cmd = "read"
              /\ port'[dma].off = Decode((m_src_addr + 0) % Wide)
              /\ port'[dma].st = IF Decode((m_src_addr + 0) % Wide) = NoOffset
                                 THEN "refused" ELSE "busy"
          /\ 0 >= m_size => pc' = "idle"
      <3> DEFINE at == 0
      <3>1. at \in 0 .. Half - 1 /\ at % 4 = 0 BY <1>2
      <3>2. Loop(at) BY <1>1
      <3> HIDE DEF at
      <3>3. /\ TypeOK' /\ Aligned' /\ PathInv' /\ mem' = mem
            /\ at < m_size =>
                /\ pc' = "reading" /\ offset' = at /\ m_ctrl' = m_ctrl
                /\ port'[dma].cmd = "read"
                /\ port'[dma].off = Decode((m_src_addr + at) % Wide)
                /\ port'[dma].st = IF Decode((m_src_addr + at) % Wide) = NoOffset
                                   THEN "refused" ELSE "busy"
            /\ at >= m_size => pc' = "idle"
        BY <1>1, <2>3, <3>1, <3>2, LoopEffect
      <3> QED BY <3>3 DEF at
    <2>5. (m_src_addr + 0) % Wide = m_src_addr
      <3>1. m_src_addr + 0 = m_src_addr BY <1>3
      <3>2. m_src_addr % Wide = m_src_addr BY <1>3, WideFacts, ModSmall
      <3> QED BY <3>1, <3>2
    <2>6. WordsWritten' = 0
      <3>1. CASE 0 < m_size
        <4>1. pc' = "reading" /\ offset' = 0 BY <2>4, <3>1
        <4> QED BY <4>1 DEF WordsWritten
      <3>2. CASE 0 >= m_size
        <4>1. pc' = "idle" /\ m_size = 0 BY <1>2, <2>4, <3>2
        <4>2. Words(0) = 0 BY DEF Words
        <4> QED BY <2>3, <4>1, <4>2 DEF WordsWritten
      <3> QED BY <1>2, <3>1, <3>2
    <2>7. Copied(job', 0) = mem
      <3>1. Block(job'.to, 4 * 0) = {} BY DEF Block, Words
      <3>2. Copied(job', 0) = [o \in Offset |-> mem[o]]
        BY <2>3, <3>1 DEF Copied
      <3> QED BY <3>2 DEF TypeOK
    <2>8. JobInv' BY <1>4, <2>2, <2>3, <2>4, <2>6, <2>7 DEF JobInv
    <2>9. ThreadInv'
      <3>1. CASE 0 < m_size
        <4>1. Decode(m_src_addr) # NoOffset BY <1>4 DEF Within
        <4>2. /\ pc' = "reading" /\ offset' = 0 /\ m_ctrl' % 2 = 1
              /\ port'[dma].cmd = "read" /\ port'[dma].off = Decode(m_src_addr)
              /\ port'[dma].st = "busy"
          BY <1>1, <2>4, <2>5, <3>1, <4>1
        <4>3. Decode(m_src_addr) + 0 = Decode(m_src_addr)
          BY <2>2, WidthAssumption DEF Offset
        <4> QED BY <1>1, <1>4, <2>3, <3>1, <4>2, <4>3 DEF ThreadInv, Within
      <3>2. CASE 0 >= m_size BY <2>4, <3>2 DEF ThreadInv
      <3> QED BY <1>2, <3>1, <3>2
    <2> QED BY <2>4, <2>8, <2>9
  <1>5. CASE ~inside
    <2>1. job' = NoJob BY <1>1, <1>5 DEF NewJob
    <2>2. job' \in JobType /\ ~job'.clean BY <2>1, NoJobType
    <2>3. TypeOK' /\ Aligned' /\ PathInv'
      <3>1. 0 \in 0 .. Half - 1 /\ 0 % 4 = 0 BY <1>2
      <3> QED BY <1>1, <2>2, <3>1, LoopEffect
    <2> QED BY <2>2, <2>3 DEF JobInv, ThreadInv
  <1> QED BY <1>4, <1>5

\* A word has been read and is on its way to its place.
LEMMA ReadReturnsInv ==
  ASSUME Inv, ReadReturns
  PROVE  Inv'
  <1> USE DEF Inv
  <1> DEFINE a == (m_dst_addr + offset) % Wide
  <1>1. /\ pc = "reading" /\ port[dma].st = "done" /\ pc' = "writing"
        /\ Call("write", a, buf[dma])
        /\ UNCHANGED <<m_src_addr, m_dst_addr, m_size, m_ctrl, offset, job>>
    BY DEF ReadReturns, regVars
  <1>2. /\ m_dst_addr \in 0 .. Wide - 1 /\ m_dst_addr % 4 = 0
        /\ offset \in 0 .. Half - 1 /\ offset % 4 = 0 /\ buf[dma] \in Val
    BY DEF TypeOK, Aligned
  <1>3. Decode(a) \in Offset \cup {NoOffset} BY <1>2, CallType
  <1>4. job.clean => Decode(a) = job.to + offset /\ Decode(a) # NoOffset
    <2> SUFFICES ASSUME job.clean
                 PROVE  Decode(a) = job.to + offset /\ Decode(a) # NoOffset
      OBVIOUS
    <2>1. /\ Within(m_dst_addr, job.bytes) /\ Decode(m_dst_addr) = job.to
      BY <1>1 DEF ThreadInv
    <2>2. /\ job.bytes \in Nat /\ offset \in Nat /\ offset < 4 * Words(job.bytes)
      BY <1>1, WrittenBound DEF Fits
    <2>3. Decode(a) = job.to + offset BY <1>2, <2>1, <2>2, DecodeWithin
    <2>4. job.to \in Nat BY DEF TypeOK
    <2> QED BY <2>2, <2>3, <2>4, ValueAssumption
  <1> HIDE DEF a
  <1>5. /\ mem' = mem /\ buf' \in [{dma} -> Val] /\ buf'[dma] = buf[dma]
        /\ port' \in [{dma} -> PortType] /\ port'[dma] # Path!Idle
        /\ port'[dma].cmd = "write" /\ port'[dma].off = Decode(a)
        /\ port'[dma].st = IF Decode(a) = NoOffset THEN "refused" ELSE "busy"
    BY <1>1, <1>2, <1>3, CallEffect
  <1>6. TypeOK' BY <1>1, <1>5 DEF TypeOK, PortType
  <1>7. Aligned' /\ PathInv' BY <1>1, <1>5 DEF Aligned, PathInv
  <1>8. WordsWritten' = WordsWritten
    <2>1. port'[dma].st # "done" BY <1>5
    <2> QED BY <1>1, <2>1 DEF WordsWritten
  <1>9. JobInv' BY <1>1, <1>5, <1>8 DEF JobInv
  <1>10. ThreadInv'
    <2> SUFFICES ASSUME job.clean PROVE ThreadInv' BY <1>1 DEF ThreadInv
    <2>1. Word' = Word BY <1>1 DEF Word
    <2>2. buf[dma] = Word BY <1>1 DEF ThreadInv
    <2> QED BY <1>1, <1>4, <1>5, <2>1, <2>2 DEF ThreadInv
  <1> QED BY <1>6, <1>7, <1>9, <1>10

\* The loop variable after one more word, in 32 bits.
LEMMA NextOffset ==
  ASSUME TypeOK
  PROVE  (offset + 4) % Half \in 0 .. Half - 1 /\ ((offset + 4) % Half) % 4 = 0
  <1> DEFINE i == offset + 4
  <1>1. /\ offset \in 0 .. Half - 1 /\ offset % 4 = 0
        /\ Half \in Nat \ {0} /\ Half % 4 = 0
    BY WidthAssumption DEF TypeOK
  <1>2. Half >= 4 /\ i \in 0 .. 2 * Half - 1 /\ i % 4 = 0 BY <1>1
  <1> HIDE DEF i
  <1>3. i % Half = IF i < Half THEN i ELSE i - Half BY ONLY <1>1, <1>2, ModSum
  <1>4. CASE i < Half BY <1>1, <1>2, <1>3, <1>4 DEF i
  <1>5. CASE i >= Half
    <2>1. i - Half \in 0 .. Half - 1 /\ (i - Half) % 4 = 0 BY <1>1, <1>2, <1>5
    <2> QED BY <1>3, <1>5, <2>1, <1>1, <1>2 DEF i
  <1> QED BY <1>1, <1>2, <1>4, <1>5

\* A word has been written: the next one is read, or the transfer ends.
LEMMA WriteReturnsInv ==
  ASSUME Inv, WriteReturns
  PROVE  Inv'
  <1> USE DEF Inv
  <1> DEFINE at == (offset + 4) % Half
             a == (m_src_addr + at) % Wide
  <1>1. /\ pc = "writing" /\ port[dma].st = "done" /\ Loop(at)
        /\ UNCHANGED <<m_src_addr, m_dst_addr, m_size, job>>
    BY DEF WriteReturns
  <1>2. /\ offset \in 0 .. Half - 1 /\ offset % 4 = 0 /\ job \in JobType
        /\ Half \in Nat \ {0} /\ Half % 4 = 0 /\ m_size \in 0 .. Half - 1
        /\ m_src_addr \in 0 .. Wide - 1 /\ m_src_addr % 4 = 0
    BY WidthAssumption DEF TypeOK, Aligned, JobType
  <1>3. at \in 0 .. Half - 1 /\ at % 4 = 0 BY NextOffset
  <1>4. job' \in JobType BY <1>1, <1>2
  <1>5. job.clean => at = offset + 4
    <2> SUFFICES ASSUME job.clean PROVE at = offset + 4 OBVIOUS
    <2>1. offset + 4 <= 4 * Words(job.bytes) /\ 4 * Words(job.bytes) < Half
      BY <1>1, WrittenBound DEF JobInv
    <2>2. Words(job.bytes) \in Nat BY WrittenBound
    <2>3. offset + 4 \in 0 .. Half - 1 BY <1>2, <2>1, <2>2
    <2> QED BY <1>2, <2>3, ModSmall
  <1> HIDE DEF at
  <1>6. /\ TypeOK' /\ Aligned' /\ PathInv' /\ mem' = mem
        /\ at < m_size =>
             /\ pc' = "reading" /\ offset' = at /\ m_ctrl' = m_ctrl
             /\ port'[dma].cmd = "read" /\ port'[dma].off = Decode(a)
             /\ port'[dma].st = IF Decode(a) = NoOffset
                                THEN "refused" ELSE "busy"
        /\ at >= m_size => pc' = "idle"
    BY <1>1, <1>3, <1>4, LoopEffect
  <1>7. CASE ~job.clean BY <1>1, <1>6, <1>7 DEF JobInv, ThreadInv
  <1>8. CASE job.clean
    <2>1. /\ Words(job.bytes) \in Nat /\ offset \div 4 \in Nat
          /\ offset \div 4 < Words(job.bytes) /\ offset = 4 * (offset \div 4)
          /\ job.bytes \in Nat
      BY <1>1, <1>8, WrittenBound DEF Fits
    <2>2. /\ m_size = job.bytes /\ m_ctrl % 2 = 1 /\ offset < job.bytes
          /\ Within(m_src_addr, m_size) /\ Decode(m_src_addr) = job.from
          /\ Within(m_dst_addr, m_size) /\ Decode(m_dst_addr) = job.to
      BY <1>1, <1>8 DEF ThreadInv
    <2>3. WordsWritten = offset \div 4 + 1 BY <1>1 DEF WordsWritten
    <2>4. at = offset + 4 BY <1>5, <1>8
    <2>5. CASE at < m_size
      <3>1. /\ pc' = "reading" /\ offset' = at /\ m_ctrl' = m_ctrl
            /\ port'[dma].cmd = "read" /\ port'[dma].off = Decode(a)
            /\ port'[dma].st = IF Decode(a) = NoOffset THEN "refused" ELSE "busy"
        BY <1>6, <2>5
      <3>2. WordsWritten' = WordsWritten
        <4>1. WordsWritten' = at \div 4 BY <3>1 DEF WordsWritten
        <4>2. at \div 4 = offset \div 4 + 1 BY <2>1, <2>4
        <4> QED BY <2>3, <4>1, <4>2
      <3>3. Decode(a) = job.from + at /\ Decode(a) # NoOffset
        <4>1. at \in Nat /\ at < 4 * Words(job.bytes)
          <5>1. job.bytes <= 4 * Words(job.bytes) BY <2>1, WordsFacts
          <5>2. at \in Nat /\ at < job.bytes BY <1>3, <1>2, <2>2, <2>5
          <5> QED BY <2>1, <5>1, <5>2
        <4>2. Decode(a) = job.from + at
          BY <1>2, <2>1, <2>2, <4>1, DecodeWithin
        <4>3. job.from \in Nat BY <1>2 DEF JobType
        <4> QED BY <4>1, <4>2, <4>3, ValueAssumption
      <3>4. JobInv' BY <1>1, <1>6, <3>2 DEF JobInv
      <3>5. ThreadInv'
        BY <1>1, <2>2, <2>5, <3>1, <3>3 DEF ThreadInv, Within
      <3> QED BY <1>6, <3>4, <3>5
    <2>6. CASE at >= m_size
      <3>1. pc' = "idle" BY <1>6, <2>6
      <3>2. WordsWritten' = Words(job.bytes) BY <1>1, <3>1 DEF WordsWritten
      <3>3. Words(job.bytes) = offset \div 4 + 1
        BY <2>1, <2>2, <2>4, <2>6, WordsFacts
      <3>4. JobInv' BY <1>1, <1>6, <2>3, <3>2, <3>3 DEF JobInv
      <3> QED BY <1>6, <3>1, <3>4 DEF ThreadInv
    <2> QED BY <1>2, <1>3, <2>5, <2>6
  <1> QED BY <1>7, <1>8

\* The memory serves the request: the word of the source is the right one,
\* and goes to the next place of the target.
LEMMA ServeInv ==
  ASSUME Inv, Serve
  PROVE  Inv'
  <1> USE DEF Inv
  <1>1. /\ UNCHANGED <<m_src_addr, m_dst_addr, m_size, m_ctrl, pc, offset, job>>
        /\ port[dma].st = "busy" /\ port' = [port EXCEPT ![dma].st = "done"]
        /\ \/ /\ port[dma].cmd = "read" /\ mem' = mem
              /\ buf' = [buf EXCEPT ![dma] = mem[port[dma].off]]
           \/ /\ port[dma].cmd = "write" /\ buf' = buf
              /\ mem' = [mem EXCEPT ![port[dma].off] = buf[dma]]
    BY DEF Serve, Path!Serve, regVars
  <1>2. /\ port \in [{dma} -> PortType] /\ buf \in [{dma} -> Val]
        /\ mem \in [Offset -> Val] /\ job \in JobType
    BY DEF TypeOK, PortType, JobType
  <1>3. port[dma].off \in Offset BY <1>1, <1>2 DEF PathInv, PortType
  <1>4. /\ port' \in [{dma} -> PortType] /\ port'[dma].st = "done"
        /\ port'[dma].cmd = port[dma].cmd /\ port'[dma].off = port[dma].off
    BY <1>1, <1>2 DEF PortType
  <1>5. mem' \in [Offset -> Val] /\ buf' \in [{dma} -> Val]
    BY <1>1, <1>2, <1>3
  <1>6. TypeOK' BY <1>1, <1>4, <1>5 DEF TypeOK, PortType
  <1>7. Aligned' BY <1>1 DEF Aligned
  <1>8. pc # "idle" BY <1>1 DEF PathInv, Path!Idle
  <1>9. PathInv' BY <1>1, <1>4, <1>8 DEF PathInv, Path!Idle
  <1>10. CASE ~job.clean
    BY <1>1, <1>6, <1>7, <1>9, <1>10 DEF JobInv, ThreadInv
  <1>11. CASE job.clean
    <2> DEFINE n == offset \div 4
    <2>1. /\ n \in Nat /\ n < Words(job.bytes) /\ offset = 4 * n /\ Fits(job)
      BY <1>8, <1>11, WrittenBound
    <2>2. mem = Copied(job, n)
      BY <1>1, <1>8, <1>11 DEF JobInv, WordsWritten
    <2>3. Word' = Word BY <1>1 DEF Word
    <2> HIDE DEF n
    <2>4. Word = job.base[Origin(job, n)] BY DEF Word, n
    <2>5. CASE pc = "reading"
      <3>1. /\ port[dma].cmd = "read" /\ port[dma].off = job.from + 4 * n
        BY <1>11, <2>1, <2>5 DEF ThreadInv
      <3>2. mem' = mem /\ buf'[dma] = mem[job.from + 4 * n]
        BY <1>1, <1>2, <3>1
      <3>3. buf'[dma] = Word BY <2>1, <2>2, <2>4, <3>2, ReadStep
      <3>4. WordsWritten' = WordsWritten BY <1>1, <2>5 DEF WordsWritten
      <3>5. JobInv' BY <1>1, <3>2, <3>4 DEF JobInv
      <3>6. ThreadInv'
        BY <1>1, <1>4, <1>11, <2>3, <2>5, <3>3 DEF ThreadInv
      <3> QED BY <1>6, <1>7, <1>9, <3>5, <3>6
    <2>6. CASE pc = "writing"
      <3>1. /\ port[dma].cmd = "write" /\ port[dma].off = job.to + 4 * n
            /\ buf[dma] = Word
        BY <1>11, <2>1, <2>6 DEF ThreadInv
      <3>2. buf' = buf /\ mem' = [mem EXCEPT ![job.to + 4 * n] = Word]
        BY <1>1, <3>1
      <3>3. mem' = Copied(job, n + 1)
        BY <2>1, <2>2, <2>4, <3>2, WriteStep
      <3>4. WordsWritten' = n + 1 BY <1>1, <1>4, <2>6 DEF WordsWritten, n
      <3>5. JobInv' BY <1>1, <1>11, <3>3, <3>4 DEF JobInv
      <3>6. ThreadInv'
        BY <1>1, <1>4, <1>11, <2>3, <2>6, <3>1, <3>2 DEF ThreadInv
      <3> QED BY <1>6, <1>7, <1>9, <3>5, <3>6
    <2>7. pc \in {"reading", "writing"} BY <1>8 DEF TypeOK
    <2> QED BY <2>5, <2>6, <2>7
  <1> QED BY <1>10, <1>11

\* Every step preserves the invariant.
LEMMA NextInv == Inv /\ [Next]_vars => Inv'
  <1> SUFFICES ASSUME Inv, [Next]_vars PROVE Inv' OBVIOUS
  <1>1. CASE RegisterStore BY <1>1, RegisterStoreInv
  <1>2. CASE \E o \in Offset, v \in Val : MemoryStore(o, v)
    BY <1>2, MemoryStoreInv
  <1>3. CASE Wake BY <1>3, WakeInv
  <1>4. CASE ReadReturns BY <1>4, ReadReturnsInv
  <1>5. CASE WriteReturns BY <1>5, WriteReturnsInv
  <1>6. CASE Serve BY <1>6, ServeInv
  <1>7. CASE UNCHANGED vars
    BY <1>7 DEF vars, Inv, TypeOK, Aligned, PathInv, JobInv, ThreadInv,
                WordsWritten, Word
  <1> QED
    BY <1>1, <1>2, <1>3, <1>4, <1>5, <1>6, <1>7 DEF Next, Thread

-----------------------------------------------------------------------------

\* The invariant holds in every reachable state, whatever drivers and other
\* masters store and when (b_transport, transfer_thread).
THEOREM Invariance == Spec => []Inv
  <1> QED BY InitInv, NextInv, PTL DEF Spec

\* Registers keep their width, the loop variable its alignment, and requests
\* name words of the memory.
THEOREM TypeCorrect == Spec => []TypeOK
  <1>1. Inv => TypeOK BY DEF Inv
  <1> QED BY <1>1, Invariance, PTL

\* What a transfer that is left alone has copied, at every moment of it
\* (transfer_thread's loop).
THEOREM CopiedSoFarHolds == Spec => []CopiedSoFar
  <1>1. Inv => CopiedSoFar BY DEF Inv, JobInv, CopiedSoFar
  <1> QED BY <1>1, Invariance, PTL

\* A clear start bit means that all of it has been (m_ctrl = 0 at the end of
\* transfer_thread).
THEOREM PollSeesCopyHolds == Spec => []PollSeesCopy
  <1>1. Inv => PollSeesCopy
    <2> SUFFICES ASSUME Inv, job.clean, m_ctrl % 2 = 0 PROVE PollSeesCopy
      BY DEF PollSeesCopy
    <2>1. pc = "idle" BY DEF Inv, ThreadInv
    <2>2. port[dma] = Path!Idle BY <2>1 DEF Inv, PathInv
    <2>3. mem = Copied(job, Words(job.bytes))
      BY <2>1 DEF Inv, JobInv, WordsWritten
    <2> QED BY <2>1, <2>2, <2>3 DEF PollSeesCopy
  <1> QED BY <1>1, Invariance, PTL

-----------------------------------------------------------------------------
(* The AT path                                                             *)

\* The end of one call and the beginning of the next, without a pause.
Turn ==
  /\ port[dma].st = "done"
  /\ \E cmd \in {"read", "write"}, o \in Offset \cup {NoOffset}, v \in Val :
       /\ port' = [port EXCEPT ![dma] =
                     [st  |-> IF o = NoOffset THEN "refused" ELSE "busy",
                      cmd |-> cmd, off |-> o]]
       /\ Path!Load(dma, cmd, v)
  /\ mem' = mem

\* A call is one the path expects: the first, or the next after a return.
LEMMA CallIsPathStep ==
  ASSUME TypeOK, NEW a, Decode(a) \in Offset \cup {NoOffset},
         NEW cmd \in {"read", "write"}, Call(cmd, a, buf[dma]),
         port[dma] = Path!Idle \/ port[dma].st = "done"
  PROVE  Path!Next \/ Turn
  <1> DEFINE o == Decode(a)
             v == buf[dma]
  <1>1. v \in Val /\ buf \in [{dma} -> Val] BY DEF TypeOK
  <1>2. /\ mem' = mem /\ buf' = [buf EXCEPT ![dma] = v]
        /\ port' = [port EXCEPT ![dma] =
                      [st  |-> IF o = NoOffset THEN "refused" ELSE "busy",
                       cmd |-> cmd, off |-> o]]
    BY DEF Call
  <1>3. buf' = buf BY <1>1, <1>2
  <1>4. Path!Load(dma, cmd, v) BY <1>2, <1>3 DEF Path!Load
  <1>5. o \in Offset \cup {NoOffset} OBVIOUS
  <1> HIDE DEF o, v
  <1>6. CASE port[dma].st = "done"
    BY <1>1, <1>2, <1>4, <1>5, <1>6 DEF Turn
  <1>7. CASE port[dma] = Path!Idle /\ o = NoOffset
    <2>1. Path!Refuse(dma, cmd, v) BY <1>2, <1>4, <1>7 DEF Path!Refuse
    <2> QED BY <1>1, <2>1 DEF Path!Next
  <1>8. CASE port[dma] = Path!Idle /\ o # NoOffset
    <2>1. Path!Request(dma, cmd, o, v) BY <1>2, <1>4, <1>8 DEF Path!Request
    <2>2. o \in Offset BY <1>5, <1>8
    <2> QED BY <1>1, <2>1, <2>2 DEF Path!Next
  <1> QED BY <1>6, <1>7, <1>8

\* The head of the loop makes such a call, or returns from the last one.
LEMMA LoopIsPathStep ==
  ASSUME TypeOK, Aligned, NEW at \in 0 .. Half - 1, at % 4 = 0, Loop(at),
         port[dma] = Path!Idle \/ port[dma].st = "done"
  PROVE  Path!Next \/ Turn \/ UNCHANGED Path!vars
  <1>1. CASE StartReading(at)
    <2> DEFINE a == (m_src_addr + at) % Wide
    <2>1. m_src_addr \in 0 .. Wide - 1 /\ m_src_addr % 4 = 0
      BY DEF TypeOK, Aligned
    <2>2. Decode(a) \in Offset \cup {NoOffset} BY <2>1, CallType
    <2>3. Call("read", a, buf[dma]) BY <1>1 DEF StartReading
    <2> HIDE DEF a
    <2> QED BY <2>2, <2>3, CallIsPathStep
  <1>2. CASE Finish
    <2>1. port' = [port EXCEPT ![dma] = Path!Idle] /\ UNCHANGED <<mem, buf>>
      BY <1>2 DEF Finish
    <2>2. CASE port[dma].st = "done"
      BY <2>1, <2>2 DEF Path!Next, Path!Return
    <2>3. CASE port[dma] = Path!Idle
      <3>1. port' = port
        <4> DEFINE r == Path!Idle
        <4>1. port \in [{dma} -> PortType] /\ port[dma] = r
          BY <2>3 DEF TypeOK, PortType
        <4>2. port' = [port EXCEPT ![dma] = r] BY <2>1
        <4> HIDE DEF r
        <4> QED BY <4>1, <4>2
      <3> QED BY <2>1, <3>1 DEF Path!vars
    <2> QED BY <2>2, <2>3
  <1> QED BY <1>1, <1>2 DEF Loop

\* The thread, and whoever stores to the registers and the memory, use the
\* path as it promises: a call is made when none is out, names a word of the
\* memory or nothing, and is returned from when it has been served.  What
\* ATTransport implements is therefore all that this module relies on.
THEOREM PathUsed == Spec => [][Path!Next \/ Turn]_(Path!vars)
  <1>1. Inv /\ [Next]_vars => [Path!Next \/ Turn]_(Path!vars)
    <2> SUFFICES ASSUME Inv, [Next]_vars
                 PROVE  Path!Next \/ Turn \/ UNCHANGED Path!vars
      OBVIOUS
    <2>1. CASE RegisterStore BY <2>1 DEF RegisterStore, Path!vars
    <2>2. CASE \E o \in Offset, v \in Val : MemoryStore(o, v)
      BY <2>2 DEF MemoryStore, Path!Next
    <2>3. CASE Wake
      <3>1. Loop(0) /\ port[dma] = Path!Idle BY <2>3 DEF Wake, Inv, PathInv
      <3> DEFINE at == 0
      <3>2. at \in 0 .. Half - 1 /\ at % 4 = 0 /\ Loop(at)
        BY <3>1, WidthAssumption
      <3> HIDE DEF at
      <3> QED BY <3>1, <3>2, LoopIsPathStep DEF Inv
    <2>4. CASE ReadReturns
      <3> DEFINE a == (m_dst_addr + offset) % Wide
      <3>1. /\ m_dst_addr \in 0 .. Wide - 1 /\ m_dst_addr % 4 = 0
            /\ offset \in 0 .. Half - 1 /\ offset % 4 = 0
        BY DEF Inv, TypeOK, Aligned
      <3>2. Decode(a) \in Offset \cup {NoOffset} BY <3>1, CallType
      <3>3. Call("write", a, buf[dma]) /\ port[dma].st = "done"
        BY <2>4 DEF ReadReturns
      <3> HIDE DEF a
      <3> QED BY <3>2, <3>3, CallIsPathStep DEF Inv
    <2>5. CASE WriteReturns
      <3> DEFINE at == (offset + 4) % Half
      <3>1. Loop(at) /\ port[dma].st = "done" BY <2>5 DEF WriteReturns
      <3>2. at \in 0 .. Half - 1 /\ at % 4 = 0 BY NextOffset DEF Inv
      <3> HIDE DEF at
      <3> QED BY <3>1, <3>2, LoopIsPathStep DEF Inv
    <2>6. CASE Serve BY <2>6 DEF Serve, Path!Next
    <2>7. CASE UNCHANGED vars BY <2>7 DEF vars, Path!vars
    <2> QED BY <2>1, <2>2, <2>3, <2>4, <2>5, <2>6, <2>7 DEF Next, Thread
  <1> QED BY <1>1, Invariance, PTL DEF Spec

-----------------------------------------------------------------------------
(* Progress                                                                *)

\* No size is within four bytes of 2^32, and so no offset is.
SizeInv == m_size <= Half - 4 /\ (pc # "idle" => offset + 4 < Half)

\* The thread comes to no word twice.
Onward ==
  pc # "idle" /\ pc' # "idle" =>
    \/ UNCHANGED <<pc, offset>>
    \/ pc = "reading" /\ pc' = "writing" /\ offset' = offset
    \/ pc = "writing" /\ pc' = "reading" /\ offset' > offset

\* What a step does to the loop variable.
LEMMA OnwardStep ==
  ASSUME \A s \in SizeVals : s <= Half - 4,
         TypeOK, SizeInv, [Next]_vars
  PROVE  SizeInv' /\ Onward
  <1>1. /\ m_size \in Nat /\ offset \in Nat /\ offset % 4 = 0
        /\ Half \in Nat \ {0} /\ Half % 4 = 0 /\ Half >= 4
    BY WidthAssumption DEF TypeOK
  <1>2. ASSUME NEW at \in Nat, at % 4 = 0, Loop(at)
        PROVE  \/ pc' = "reading" /\ offset' = at /\ at + 4 < Half
               \/ pc' = "idle"
    <2>1. at < m_size => at + 4 < Half
      BY <1>1, <1>2 DEF SizeInv
    <2> QED
      BY <1>2, <2>1 DEF Loop, StartReading, Finish
  <1>3. CASE RegisterStore
    <2>1. m_size' = m_size \/ m_size' \in SizeVals
      BY <1>3 DEF RegisterStore
    <2> QED BY <1>1, <1>3, <2>1 DEF RegisterStore, SizeInv, Onward
  <1>4. CASE \E o \in Offset, v \in Val : MemoryStore(o, v)
    BY <1>4 DEF MemoryStore, regVars, SizeInv, Onward
  <1>5. CASE Wake
    <2> DEFINE at == 0
    <2>1. /\ Loop(at) /\ at \in Nat /\ at % 4 = 0
          /\ pc = "idle" /\ m_size' = m_size
      BY <1>5 DEF Wake
    <2> HIDE DEF at
    <2> QED BY <1>1, <1>2, <2>1 DEF SizeInv, Onward
  <1>6. CASE ReadReturns
    BY <1>6 DEF ReadReturns, regVars, SizeInv, Onward
  <1>7. CASE WriteReturns
    <2> DEFINE at == (offset + 4) % Half
    <2>1. /\ Loop(at) /\ pc = "writing" /\ m_size' = m_size
      BY <1>7 DEF WriteReturns
    <2>2. offset + 4 \in 0 .. Half - 1 BY <1>1, <2>1 DEF SizeInv
    <2>3. at = offset + 4 BY <1>1, <2>2, ModSmall
    <2> HIDE DEF at
    <2>4. at \in Nat /\ at % 4 = 0 /\ at > offset BY <1>1, <2>3
    <2> QED BY <1>1, <1>2, <2>1, <2>3, <2>4 DEF SizeInv, Onward
  <1>8. CASE Serve BY <1>8 DEF Serve, regVars, SizeInv, Onward
  <1>9. CASE UNCHANGED vars BY <1>9 DEF vars, SizeInv, Onward
  <1> QED
    BY <1>3, <1>4, <1>5, <1>6, <1>7, <1>8, <1>9 DEF Next, Thread

\* Whatever drivers store to the registers during a transfer, each word lies
\* behind the last one, as long as no size is within four bytes of 2^32: then
\* offset += 4 never wraps round (transfer_thread's loop).  This is why
\* TransferEnds holds; that every call returns is the fairness of the path.
THEOREM TransferAdvances ==
  ASSUME \A s \in SizeVals : s <= Half - 4
  PROVE  Spec => [][Onward]_vars
  <1>1. Init => SizeInv
    <2>1. Half \in Nat /\ Half >= 4 BY WidthAssumption
    <2> QED BY <2>1 DEF Init, SizeInv
  <1>2. TypeOK /\ SizeInv /\ [Next]_vars => SizeInv' /\ Onward
    BY OnwardStep
  <1> QED BY <1>1, <1>2, TypeCorrect, PTL DEF Spec
=============================================================================
