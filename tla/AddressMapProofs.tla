-------------------------- MODULE AddressMapProofs --------------------------
(***************************************************************************)
(* Theorems about AddressMap, for every memory map that the assumptions    *)
(* admit and every image.  While an image keeps to the rules of Linked the *)
(* memory is what its readers expect, whatever part of it has been loaded, *)
(* and the base is one for which offsets in the memory mean themselves;    *)
(* both are needed for a store to keep the first.                          *)
(***************************************************************************)
EXTENDS AddressMap, TLAPS

\* Bases that leave an offset in the memory as it is.
Plain(base) == base = 0 \/ base >= High

LinkInv == linked => mem = want /\ Plain(base_addr)

Inv == TypeOK /\ LinkInv

-----------------------------------------------------------------------------
(* The regions                                                             *)

\* The sizes in a linear form, for the provers.
LEMMA Sizes ==
  /\ Space \in Nat /\ SIZE \in Nat \ {0} /\ High \in Nat \ {0}
  /\ WordLen \in Nat \ {0}
  /\ SIZE + WordLen <= High /\ High + SIZE <= Space
  BY MapAssumption, InputAssumption

\* The region of an address of the memory is one of its two mappings, and
\* the address lies in it.
LEMMA MappedPlace ==
  ASSUME NEW a \in Mapped
  PROVE  /\ a \in 0 .. Space - 1
         /\ BaseOf(a) \in {0, High}
         /\ Relative(a) \in Index /\ a = BaseOf(a) + Relative(a)
  <1> DEFINE S == Holding(a)
             f == FirstOf(S)
  <1>1. /\ a \in 0 .. Space - 1 /\ S # {} /\ S \subseteq DOMAIN Region
        /\ Region[f].port = MemPort
    BY DEF Mapped, Holding
  <1>2. S \subseteq Nat
    <2> DEFINE T == [base : Nat, size : Nat \ {0}, port : Nat]
    <2>1. Region \in Seq(T)
      BY MapAssumption
    <2> HIDE DEF T
    <2> QED
      BY ONLY <1>1, <2>1
  <1>3. PICK s \in S : TRUE
    BY <1>1
  <1>4. f = s
    <2>1. \A i \in S : i = s
      BY <1>1, <1>3, MapAssumption DEF Holding
    <2>2. s <= s
      BY <1>2, <1>3
    <2> QED
      BY <2>1, <2>2, <1>3 DEF FirstOf
  <1>5. f \in DOMAIN Region /\ InRegion(f, a)
    BY <1>3, <1>4 DEF Holding
  <1>6. Region[f].size = SIZE /\ Region[f].base \in {0, High}
    BY <1>1, <1>5, MapAssumption
  <1> HIDE DEF f
  <1> QED
    BY <1>1, <1>5, <1>6, Sizes
    DEF InRegion, BaseOf, Relative, Index, f, S

-----------------------------------------------------------------------------
(* The translation                                                         *)

\* Under a plain base an offset means itself, and no access that starts in
\* the memory comes back into it past its end.
LEMMA PlainOffset ==
  ASSUME NEW base \in 0 .. Space - 1, Plain(base), NEW r \in Nat,
         r < SIZE + WordLen
  PROVE  OffsetOf(base, r) = IF r < SIZE THEN r ELSE SIZE
  BY Sizes DEF Plain, OffsetOf

\* Whatever the base, if it is not inside the low mapping, an offset in the
\* memory means itself.
LEMMA OutsideOffset ==
  ASSUME NEW base \in 0 .. Space - 1, base \notin 1 .. SIZE - 1,
         NEW r \in Index
  PROVE  OffsetOf(base, r) = r
  BY Sizes DEF OffsetOf, Index

\* The translation yields an index or the end of the memory.
LEMMA OffsetType ==
  ASSUME NEW base \in 0 .. Space - 1, NEW a \in Nat
  PROVE  OffsetOf(base, a) \in 0 .. SIZE
  BY Sizes DEF OffsetOf

\* The translation agrees with the place of an address in its window, for
\* what is linked in a window the base can reach.
LEMMA WindowOffset ==
  ASSUME NEW base \in {0, High}, NEW w \in {0, High}, NEW n \in Nat,
         NEW a \in 0 .. Space - 1, InWindow(w, a, n),
         base = 0 => InWindow(0, a, n)
  PROVE  OffsetOf(base, a) = IF a < High THEN a ELSE a - High
  BY Sizes DEF OffsetOf, InWindow

-----------------------------------------------------------------------------
(* Overlays                                                                *)

\* Laying bytes over a memory gives a memory.
LEMMA OverlayType ==
  ASSUME NEW f \in [Index -> Byte], NEW at \in Int, NEW n \in Nat,
         NEW data \in Data(n)
  PROVE  Overlay(f, at, data) \in [Index -> Byte]
  <1>1. Len(data) = n /\ \A k \in 1 .. n : data[k] \in Byte
    BY DEF Data
  <1>2. ASSUME NEW i \in Index, i - at \in 0 .. Len(data) - 1
        PROVE  data[i - at + 1] \in Byte
    BY <1>1, <1>2, Sizes DEF Index
  <1> QED
    BY <1>2 DEF Overlay

\* What a store writes is a memory, too.
LEMMA AccessType ==
  ASSUME TypeOK, NEW r \in Nat, NEW n \in Nat, NEW data \in Data(n)
  PROVE  AccessMem(r, data) \in [Index -> Byte]
  <1>1. Len(data) = n /\ \A k \in 1 .. n : data[k] \in Byte
    BY DEF Data
  <1> DEFINE Hits(i) == {k \in 1 .. Len(data) : ToOffset(r + k - 1) = i}
             Last(H) == CHOOSE k \in H : \A l \in H : l <= k
  <1>2. ASSUME NEW i \in Index, Hits(i) # {}
        PROVE  data[Last(Hits(i))] \in Byte
    <2> DEFINE p == i - r + 1
               q == base_addr + i - r + 1
    <2>1. \A k \in 1 .. n : ToOffset(r + k - 1) = i => k = p \/ k = q
      BY Sizes DEF ToOffset, OffsetOf, Index, TypeOK
    <2>2. Hits(i) \subseteq 1 .. n /\ Hits(i) \subseteq {p, q}
      BY <1>1, <2>1
    <2>3. p \in Int /\ q \in Int
      BY Sizes DEF Index, TypeOK
    <2> HIDE DEF Hits, p, q
    <2>4. \E k \in Hits(i) : \A l \in Hits(i) : l <= k
      <3>1. CASE p \in Hits(i) /\ q \in Hits(i)
        BY <2>2, <2>3, <3>1
      <3>2. CASE ~(p \in Hits(i) /\ q \in Hits(i))
        BY <1>2, <2>2, <2>3, <3>2
      <3> QED
        BY <3>1, <3>2
    <2>5. Last(Hits(i)) \in Hits(i)
      BY <2>4
    <2> QED
      BY <1>1, <2>2, <2>5
  <1> QED
    BY <1>2 DEF AccessMem, TypeOK

\* Under a plain base a store lays its bytes over the memory where it
\* starts, and what lies past the end is dropped.
LEMMA AccessIsOverlay ==
  ASSUME TypeOK, Plain(base_addr), NEW r \in Index, NEW n \in Nat,
         NEW data \in Data(n), r + n < SIZE + WordLen + 1
  PROVE  AccessMem(r, data) = Overlay(mem, r, data)
  <1>1. Len(data) = n
    BY DEF Data
  <1> DEFINE Hits(i) == {k \in 1 .. Len(data) : ToOffset(r + k - 1) = i}
             Last(H) == CHOOSE k \in H : \A l \in H : l <= k
             Hit(i) == IF Hits(i) = {} THEN mem[i] ELSE data[Last(Hits(i))]
             Laid(i) == IF i - r \in 0 .. Len(data) - 1
                        THEN data[i - r + 1] ELSE mem[i]
  <1>2. ASSUME NEW i \in Index PROVE Hit(i) = Laid(i)
    <2> DEFINE p == i - r + 1
    <2>1. \A k \in 1 .. n : ToOffset(r + k - 1) = i <=> k = p
      BY PlainOffset, Sizes DEF ToOffset, Index, TypeOK
    <2>2. p \in Int /\ p - 1 = i - r /\ p = i - r + 1
      BY DEF Index
    <2> HIDE DEF p
    <2>3. CASE p \in 1 .. n
      <3>1. Hits(i) = {p}
        BY <1>1, <2>1, <2>3
      <3>2. Last(Hits(i)) = p
        BY <2>2, <3>1
      <3> HIDE DEF Hits, Last
      <3> QED
        BY <1>1, <2>2, <2>3, <3>1, <3>2
    <2>4. CASE p \notin 1 .. n
      <3>1. Hits(i) = {}
        BY <1>1, <2>1, <2>4
      <3> HIDE DEF Hits, Last
      <3> QED
        BY <1>1, <2>2, <2>4, <3>1
    <2> QED
      BY <2>3, <2>4
  <1> QED
    BY <1>2 DEF AccessMem, Overlay

-----------------------------------------------------------------------------
(* The steps of the loaders                                                *)

\* What remains true of the history when the loader has met data that it
\* laid at index `at': the memory keeps up with what is expected of it.
LEMMA ExpectEffect ==
  ASSUME Inv, NEW keeps \in BOOLEAN, NEW a \in 0 .. Space - 1, NEW at \in Int,
         NEW n \in Nat, NEW data \in Data(n),
         Expect(keeps, a, data),
         mem' = Overlay(mem, at, data),
         linked /\ keeps => at = IF a < High THEN a ELSE a - High
  PROVE  /\ mem' \in [Index -> Byte] /\ want' \in [Index -> Byte]
         /\ linked' \in BOOLEAN /\ (linked' => linked /\ keeps)
         /\ linked' => mem' = want'
  <1> DEFINE place == IF a < High THEN a ELSE a - High
  <1>1. place \in Int
    BY Sizes
  <1>2. Overlay(mem, at, data) \in [Index -> Byte]
    BY OverlayType DEF Inv, TypeOK
  <1>3. Overlay(want, place, data) \in [Index -> Byte]
    BY <1>1, OverlayType DEF Inv, TypeOK
  <1>4. [i \in Index |-> Zero] \in [Index -> Byte]
    BY InputAssumption
  <1> HIDE DEF place
  <1>5. want' = IF linked /\ keeps THEN Overlay(want, place, data)
                ELSE [i \in Index |-> Zero]
    BY DEF Expect, place
  <1>6. linked' = (linked /\ keeps) /\ linked \in BOOLEAN
    BY DEF Expect, Inv, TypeOK
  <1>7. linked /\ keeps => at = place /\ mem = want
    BY DEF place, Inv, LinkInv
  <1> QED
    BY <1>2, <1>3, <1>4, <1>5, <1>6, <1>7

\* A data record, at the place that the base of the image gives it.
LEMMA HexDataStep ==
  ASSUME Inv, NEW a \in RecordAddr, NEW n \in RecordLen, NEW data \in Data(n),
         HexData(a, data)
  PROVE  Inv'
  <1> DEFINE full == (a + ext_addr) % Space
             base == IF first_data THEN full ELSE base_addr
             at == (full - base) % Space
             keeps == base \in {0, High} /\ InWindow(base, full, Len(data))
  <1>1. n \in Nat /\ Len(data) = n
    BY InputAssumption DEF Data
  <1>2. full \in 0 .. Space - 1
    BY Sizes, InputAssumption DEF Inv, TypeOK
  <1>3. base \in 0 .. Space - 1
    BY <1>2 DEF Inv, TypeOK
  <1>4. /\ base_addr' = base /\ mem' = Overlay(mem, at, data)
        /\ Expect(keeps, full, data)
        /\ header' = header + 1 /\ header < Parts /\ first_data' = FALSE
        /\ UNCHANGED <<loader, ext_addr>>
    BY DEF HexData
  <1> HIDE DEF full, base
  <1>5. at \in Int
    BY <1>2, <1>3, Sizes
  <1>6. keeps => at = IF full < High THEN full ELSE full - High
    <2>1. SUFFICES ASSUME keeps PROVE at = IF full < High THEN full ELSE full - High
      OBVIOUS
    <2>2. full - base \in 0 .. Space - 1
      BY <1>1, <1>2, <2>1, Sizes DEF InWindow
    <2>3. at = full - base
      BY <2>2, Sizes
    <2> HIDE DEF at
    <2> QED
      BY <1>1, <1>2, <2>1, <2>3, Sizes DEF InWindow
  <1>7. keeps \in BOOLEAN /\ (keeps => Plain(base))
    BY Sizes DEF InWindow, Plain
  <1> HIDE DEF at, keeps
  <1>8. /\ mem' \in [Index -> Byte] /\ want' \in [Index -> Byte]
        /\ linked' \in BOOLEAN /\ (linked' => linked /\ keeps)
        /\ linked' => mem' = want'
    BY <1>1, <1>2, <1>4, <1>5, <1>6, <1>7, ExpectEffect
  <1>9. header' \in 0 .. Parts
    BY <1>4, InputAssumption DEF Inv, TypeOK
  <1> QED
    BY <1>3, <1>4, <1>7, <1>8, <1>9 DEF Inv, TypeOK, LinkInv

\* A segment: the bytes the file has, and zeros.
LEMMA ElfSegmentStep ==
  ASSUME Inv, NEW a \in SegmentAddr, NEW n \in SegmentLen, NEW k \in 0 .. n,
         NEW data \in Data(k), ElfSegment(a, data, n)
  PROVE  Inv'
  <1> DEFINE all == [i \in 1 .. n |-> IF i <= Len(data) THEN data[i] ELSE Zero]
             keeps == /\ \E w \in {0, High} : InWindow(w, a, n)
                      /\ header = 0 => a = 0 \/ a >= High
                      /\ base_addr \in {0, High}
                      /\ base_addr = 0 => InWindow(0, a, n)
  <1>1. n \in Nat /\ a \in 0 .. Space - 1
    BY InputAssumption
  <1>2. all \in Data(n)
    <2>1. Len(data) = k /\ \A i \in 1 .. k : data[i] \in Byte
      BY <1>1 DEF Data
    <2> QED
      BY <1>1, <2>1, InputAssumption DEF Data
  <1>3. ToOffset(a) \in Int
    BY <1>1, OffsetType, Sizes DEF ToOffset, Inv, TypeOK
  <1>4. /\ base_addr' = IF header = 0 THEN a ELSE base_addr
        /\ mem' = Overlay(mem, ToOffset(a), all)
        /\ Expect(keeps, a, all)
        /\ header' = header + 1 /\ header < Parts
        /\ UNCHANGED <<loader, ext_addr, first_data>>
    BY DEF ElfSegment
  <1>5. keeps => ToOffset(a) = IF a < High THEN a ELSE a - High
    BY <1>1, WindowOffset DEF ToOffset
  <1>6. keeps \in BOOLEAN /\ (keeps => Plain(base_addr)')
    BY <1>4, Sizes DEF Plain
  <1> HIDE DEF all, keeps
  <1>7. /\ mem' \in [Index -> Byte] /\ want' \in [Index -> Byte]
        /\ linked' \in BOOLEAN /\ (linked' => linked /\ keeps)
        /\ linked' => mem' = want'
    BY <1>1, <1>2, <1>3, <1>4, <1>5, <1>6, ExpectEffect
  <1>8. header' \in 0 .. Parts /\ base_addr' \in 0 .. Space - 1
    BY <1>1, <1>4, InputAssumption DEF Inv, TypeOK
  <1> QED
    BY <1>4, <1>6, <1>7, <1>8 DEF Inv, TypeOK, LinkInv

\* The steps of the loaders that lay no data.
LEMMA OtherLoadingStep ==
  ASSUME Inv,
         \/ \E e \in Ext : HexExtended(e)
         \/ ElfOther
         \/ \E a \in SegmentAddr, n \in SegmentLen : ElfRefused(a, n)
         \/ Start
  PROVE  Inv'
  <1>1. CASE \E e \in Ext : HexExtended(e)
    BY <1>1, InputAssumption DEF HexExtended, Inv, TypeOK, LinkInv, Plain
  <1>2. CASE ElfOther
    BY <1>2, InputAssumption DEF ElfOther, Inv, TypeOK, LinkInv, Plain
  <1>3. CASE \E a \in SegmentAddr, n \in SegmentLen : ElfRefused(a, n)
    <2>1. /\ linked' = FALSE /\ want' = [i \in Index |-> Zero] /\ loader' = "done"
          /\ UNCHANGED <<mem, base_addr, ext_addr, first_data, header>>
      BY <1>3 DEF ElfRefused, Expect
    <2> QED
      BY <2>1, InputAssumption DEF Inv, TypeOK, LinkInv
  <1>4. CASE Start
    BY <1>4 DEF Start, Inv, TypeOK, LinkInv, Plain
  <1> QED
    BY <1>1, <1>2, <1>3, <1>4

-----------------------------------------------------------------------------
(* The steps of the masters                                                *)

\* A store, refused or not: what it does to the memory is what is expected.
LEMMA StoreStep ==
  ASSUME Inv, NEW r \in Index, NEW n \in Nat, NEW data \in Data(n),
         NEW fits \in BOOLEAN, fits => r + n < SIZE + WordLen + 1,
         mem' = IF fits THEN AccessMem(r, data) ELSE mem,
         want' = IF linked /\ fits THEN Overlay(want, r, data) ELSE want,
         UNCHANGED <<base_addr, loader, ext_addr, first_data, header, linked>>
  PROVE  Inv'
  <1>1. r \in Nat /\ r \in Int
    BY DEF Index
  <1>2. mem' \in [Index -> Byte]
    BY <1>1, AccessType DEF Inv, TypeOK
  <1>3. want' \in [Index -> Byte]
    BY <1>1, OverlayType DEF Inv, TypeOK
  <1>4. linked => mem' = want'
    <2>1. linked /\ fits => AccessMem(r, data) = Overlay(mem, r, data)
      BY AccessIsOverlay DEF Inv, LinkInv
    <2> QED
      BY <2>1 DEF Inv, LinkInv
  <1> QED
    BY <1>2, <1>3, <1>4 DEF Inv, TypeOK, LinkInv, Plain

\* A store without delay: if it does not fit, it is an error.  That the code
\* and the history agree on what fits is the plain base.
LEMMA LtStoreStep ==
  ASSUME Inv, NEW a \in Mapped, NEW n \in Lengths, NEW data \in Data(n),
         LtStore(a, data)
  PROVE  Inv'
  <1> DEFINE r == Relative(a)
             fits == ToOffset(r) + n <= SIZE
  <1>1. n \in Nat \ {0} /\ Len(data) = n
    BY InputAssumption DEF Data
  <1>2. r \in Index
    BY MappedPlace
  <1> HIDE DEF r
  <1>3. linked => (fits <=> r + n <= SIZE)
    <2>1. linked => ToOffset(r) = r
      BY <1>2, PlainOffset, Sizes
      DEF ToOffset, Inv, TypeOK, LinkInv, Index
    <2> QED
      BY <2>1
  <1>4. /\ mem' = IF fits THEN AccessMem(r, data) ELSE mem
        /\ UNCHANGED <<base_addr, loader, ext_addr, first_data, header, linked>>
    <2>1. ToOffset(r) \in 0 .. SIZE
      <3>1. r \in Nat /\ base_addr \in 0 .. Space - 1
        BY <1>2 DEF Index, Inv, TypeOK
      <3> QED
        BY <3>1, OffsetType DEF ToOffset
    <2>2. ToOffset(r) + n > SIZE <=> ~fits
      <3>1. n \in Nat /\ SIZE \in Nat
        BY <1>1, Sizes
      <3> QED
        BY ONLY <2>1, <3>1 DEF fits
    <2> HIDE DEF fits
    <2> QED
      BY <1>1, <2>2 DEF LtStore, r
  <1>5. want' = IF linked /\ r + n <= SIZE THEN Overlay(want, r, data) ELSE want
    BY <1>1 DEF LtStore, r
  <1> HIDE DEF fits
  <1>6. CASE linked
    <2>1. fits \in BOOLEAN /\ (fits => r + n < SIZE + WordLen + 1)
      BY <1>1, <1>2, <1>3, <1>6, Sizes DEF fits, Index
    <2>2. want' = IF linked /\ fits THEN Overlay(want, r, data) ELSE want
      BY <1>3, <1>5, <1>6
    <2> QED
      BY <1>1, <1>2, <1>4, <2>1, <2>2, StoreStep
  <1>7. CASE ~linked
    <2>1. mem' \in [Index -> Byte] /\ want' = want
      BY <1>1, <1>2, <1>4, <1>5, <1>7, AccessType DEF Inv, TypeOK, Index
    <2> QED
      BY <1>4, <1>7, <2>1 DEF Inv, TypeOK, LinkInv
  <1> QED
    BY <1>6, <1>7

\* A store on the AT path: nothing is checked, nothing wraps round.
LEMMA AtStoreStep ==
  ASSUME Inv, NEW a \in Mapped, NEW data \in Data(WordLen), AtStore(a, data)
  PROVE  Inv'
  <1> DEFINE r == Relative(a)
             fits == TRUE
  <1>1. r \in Index
    BY MappedPlace
  <1>2. /\ mem' = IF fits THEN AccessMem(r, data) ELSE mem
        /\ want' = IF linked /\ fits THEN Overlay(want, r, data) ELSE want
        /\ UNCHANGED <<base_addr, loader, ext_addr, first_data, header, linked>>
    BY DEF AtStore
  <1>3. fits \in BOOLEAN /\ (fits => r + WordLen < SIZE + WordLen + 1)
    BY <1>1, Sizes DEF Index
  <1>4. WordLen \in Nat
    BY Sizes
  <1> HIDE DEF r, fits
  <1> QED
    BY <1>1, <1>2, <1>3, <1>4, StoreStep

-----------------------------------------------------------------------------
(* The theorems                                                            *)

\* The invariant holds of a fresh memory.
LEMMA InitInv == Init => Inv
  <1>1. [i \in Index |-> Zero] \in [Index -> Byte]
    BY InputAssumption
  <1>2. High \in 0 .. Space - 1 /\ 0 \in 0 .. Space - 1 /\ 0 \in 0 .. Parts
    BY Sizes, InputAssumption
  <1> QED
    BY <1>1, <1>2, Sizes DEF Init, Inv, TypeOK, LinkInv, Plain

\* Every step keeps it.
LEMMA StepInv == Inv /\ [Next]_vars => Inv'
  <1> SUFFICES ASSUME Inv, [Next]_vars PROVE Inv'
    OBVIOUS
  <1>1. CASE \E a \in RecordAddr, n \in RecordLen :
               \E d \in Data(n) : HexData(a, d)
    BY <1>1, HexDataStep
  <1>2. CASE \E a \in SegmentAddr, n \in SegmentLen :
               \E k \in 0 .. n : \E d \in Data(k) : ElfSegment(a, d, n)
    BY <1>2, ElfSegmentStep
  <1>3. CASE \/ \E e \in Ext : HexExtended(e)
             \/ ElfOther
             \/ \E a \in SegmentAddr, n \in SegmentLen : ElfRefused(a, n)
             \/ Start
    BY <1>3, OtherLoadingStep
  <1>4. CASE \E a \in Mapped : \E n \in Lengths : \E d \in Data(n) : LtStore(a, d)
    BY <1>4, LtStoreStep
  <1>5. CASE \E a \in Mapped : \E d \in Data(WordLen) : AtStore(a, d)
    BY <1>5, AtStoreStep
  <1>6. CASE UNCHANGED vars
    BY <1>6 DEF vars, Inv, TypeOK, LinkInv, Plain
  <1> QED
    BY <1>1, <1>2, <1>3, <1>4, <1>5, <1>6 DEF Next, Loading, Running

\* The invariant holds throughout, for every image and every memory map.
THEOREM Invariance == Spec => []Inv
  BY InitInv, StepInv, PTL DEF Spec

\* The variables keep their types.
THEOREM TypeCorrect == Spec => []TypeOK
  <1>1. Inv => TypeOK
    BY DEF Inv
  <1> QED
    BY <1>1, Invariance, PTL

\* An image that keeps to the rules, and the stores of any master after it,
\* are read at their addresses through either mapping of the memory.
THEOREM ImageAndStoresHold == Spec => []ImageAndStores
  <1>1. Inv => ImageAndStores
    <2> SUFFICES ASSUME Inv, linked, NEW a \in Mapped
                 PROVE  LtRead(a, 1) = <<want[Relative(a)]>>
      BY DEF ImageAndStores
    <2> DEFINE r == Relative(a)
               answer == [k \in 1 .. 1 |-> mem[ToOffset(r + k - 1)]]
    <2>1. r \in Index
      BY MappedPlace
    <2> HIDE DEF r
    <2>2. ToOffset(r) = r /\ r \in Nat /\ r + 1 <= SIZE
      BY <2>1, PlainOffset, Sizes DEF ToOffset, Inv, TypeOK, LinkInv, Index
    <2>3. LtRead(a, 1) = answer
      <3>1. ~(ToOffset(r) + 1 > SIZE)
        BY <2>2, Sizes
      <3> QED
        BY <3>1 DEF LtRead, r
    <2>4. answer = [k \in 1 .. 1 |-> want[r]]
      <3>1. \A k \in 1 .. 1 : mem[ToOffset(r + k - 1)] = want[r]
        <4>1. \A k \in 1 .. 1 : r + k - 1 = r
          BY <2>2
        <4> QED
          BY <2>2, <4>1 DEF Inv, LinkInv
      <3> QED
        BY <3>1
    <2>5. [k \in 1 .. 1 |-> want[r]] = <<want[r]>>
      OBVIOUS
    <2> QED
      BY <2>3, <2>4, <2>5 DEF r
  <1> QED
    BY <1>1, Invariance, PTL

\* The bus, the debug transport and a direct pointer answer the same, and
\* refuse the same accesses, wherever no base lies inside the low mapping.
THEOREM PathsAgreeHolds == Spec => []PathsAgree
  <1>1. TypeOK => PathsAgree
    <2> SUFFICES ASSUME TypeOK, base_addr \notin 1 .. SIZE - 1,
                        NEW a \in Mapped, NEW n \in Lengths
                 PROVE  /\ LtRead(a, n) = DebugRead(a, n)
                        /\ a + n - 1 <= DmiEnd(a) <=> LtRead(a, n) # Error
                        /\ LtRead(a, n) # Error => LtRead(a, n) = DmiRead(a, n)
      BY DEF PathsAgree
    <2> DEFINE r == Relative(a)
               lt == [k \in 1 .. n |-> mem[ToOffset(r + k - 1)]]
               debug == [k \in 1 .. n |-> mem[ToOffset(r) + k - 1]]
               direct == [k \in 1 .. n |-> mem[a - DmiStart(a) + k - 1]]
    <2>1. r \in Index /\ n \in Nat \ {0}
      BY MappedPlace, InputAssumption
    <2>2. /\ r = a - DmiStart(a)
          /\ a + n - 1 <= DmiEnd(a) <=> r + n <= SIZE
      BY <2>1, MappedPlace, Sizes DEF DmiStart, DmiEnd, Relative
    <2> HIDE DEF r
    <2>3. ToOffset(r) = r
      BY <2>1, OutsideOffset DEF ToOffset, TypeOK
    <2>4. /\ LtRead(a, n) = IF r + n > SIZE THEN Error ELSE lt
          /\ DebugRead(a, n) = IF r + n > SIZE THEN Error ELSE debug
          /\ DmiRead(a, n) = direct
      BY <2>3 DEF LtRead, DebugRead, DmiRead, r
    <2>5. CASE r + n <= SIZE
      <3>1. \A k \in 1 .. n : ToOffset(r + k - 1) = r + k - 1
        BY <2>1, <2>5, OutsideOffset, Sizes DEF ToOffset, TypeOK, Index
      <3>2. lt = debug /\ lt = direct
        BY <2>2, <2>3, <3>1
      <3>3. lt # Error
        BY <2>1 DEF Error
      <3>4. ~(r + n > SIZE)
        BY <2>1, <2>5, Sizes DEF Index
      <3> HIDE DEF lt, debug, direct
      <3> QED
        BY <2>2, <2>4, <2>5, <3>2, <3>3, <3>4
    <2>6. CASE ~(r + n <= SIZE)
      <3>1. r + n > SIZE
        BY <2>1, <2>6, Sizes DEF Index
      <3> QED
        BY <2>2, <2>4, <2>6, <3>1
    <2> QED
      BY <2>5, <2>6
  <1> QED
    BY <1>1, TypeCorrect, PTL
=============================================================================
