----------------------------- MODULE AddressMap -----------------------------
(***************************************************************************)
(* Which byte of the memory an address means: to the image loaders, which  *)
(* take addresses as the file gives them, and to the masters, whose        *)
(* addresses the Interconnect has made relative to a region before the     *)
(* Memory turns them into an index with the base the loader left behind.   *)
(* An image is loaded record by record or segment by segment, and then     *)
(* masters store through the bus, without delay or as the AT path does.    *)
(*                                                                         *)
(* Addresses are 32 bits wide (Space); bytes are values of a small set.    *)
(* Masters pass a streaming width of at least the length and no byte       *)
(* enables, so those of accessMem are left out.                            *)
(***************************************************************************)
EXTENDS Integers, Sequences

CONSTANTS
  Space,          \* 2^32
  SIZE,           \* bytes of memory
  High,           \* 0x80000000: where link.ld puts an image
  Region,         \* main's calls of map(): <<[base, size, port], ...>>
  MemPort,        \* the port of the memory
  Byte, Zero,
  Lengths,        \* of an access through b_transport or transport_dbg
  WordLen,        \* 4: of an access on the AT path
  Ext, RecordAddr, RecordLen,     \* what HEX files contain
  SegmentAddr, SegmentLen,        \* what ELF files contain
  Parts           \* bound: records or program headers of an image

Index == 0 .. SIZE - 1
InRegion(i, a) == Region[i].base <= a /\ a < Region[i].base + Region[i].size

ASSUME MapAssumption ==
  /\ Space \in Nat /\ SIZE \in Nat \ {0} /\ High \in Nat
  /\ SIZE <= High /\ High + SIZE <= Space
  /\ Region \in Seq([base : Nat, size : Nat \ {0}, port : Nat])
  /\ \A i \in DOMAIN Region : Region[i].base + Region[i].size <= Space
  /\ \A i, j \in DOMAIN Region :
       i # j => \A a \in 0 .. Space - 1 : ~(InRegion(i, a) /\ InRegion(j, a))
  /\ \A i \in DOMAIN Region : Region[i].port = MemPort =>
       Region[i].size = SIZE /\ Region[i].base \in {0, High}
\* The mappings are so far apart that no access to one reaches the other.
ASSUME InputAssumption ==
  /\ Zero \in Byte /\ Parts \in Nat
  /\ Lengths \subseteq Nat \ {0} /\ WordLen \in Nat \ {0}
  /\ SIZE + WordLen <= High
  /\ Ext \subseteq 0 .. Space - 1 /\ RecordAddr \subseteq 0 .. Space - 1
  /\ RecordLen \subseteq Nat /\ SegmentLen \subseteq Nat
  /\ SegmentAddr \subseteq 0 .. Space - 1

VARIABLES
  mem,            \* Memory::mem
  base_addr,
  loader,         \* "hex", "elf", or "done" when the simulation runs
  ext_addr, first_data,   \* loadHex
  header,         \* loadELF: index of the next program header; both: parts read
  want,           \* history: what a reader of the mapping should find
  linked          \* history: the image keeps to the rules of Linked below

vars == <<mem, base_addr, loader, ext_addr, first_data, header, want, linked>>

TypeOK ==
  /\ mem \in [Index -> Byte] /\ want \in [Index -> Byte]
  /\ base_addr \in 0 .. Space - 1
  /\ loader \in {"hex", "elf", "done"}
  /\ ext_addr \in 0 .. Space - 1 /\ first_data \in BOOLEAN
  /\ header \in 0 .. Parts /\ linked \in BOOLEAN

\* Memory::Memory, and main's choice of a loader by the file's name.
Init ==
  /\ mem = [i \in Index |-> Zero] /\ want = mem
  /\ base_addr = High
  /\ loader \in {"hex", "elf"}
  /\ ext_addr = 0 /\ first_data = TRUE /\ header = 0 /\ linked = TRUE

(***************************************************************************)
(* The translation of addresses                                            *)
(***************************************************************************)

\* Mutant: only absolute addresses are understood.
OffsetOfAbsolute(base, a) ==
  IF 0 <= a - base /\ a - base < SIZE THEN a - base ELSE SIZE

\* toOffset() when base_addr is base: an absolute address, or a relative one.
OffsetOf(base, a) ==
  IF 0 <= a - base /\ a - base < SIZE THEN a - base
  ELSE IF a < SIZE THEN a ELSE SIZE

ToOffset(a) == OffsetOf(base_addr, a)

\* The regions that hold an address, and the first of them in the list.
Holding(a) == {i \in DOMAIN Region : InRegion(i, a)}
FirstOf(S) == CHOOSE i \in S : \A j \in S : i <= j

BaseOf(a) == Region[FirstOf(Holding(a))].base

\* Addresses of the memory; the place of one in its mapping.
Mapped == {a \in 0 .. Space - 1 :
             Holding(a) # {} /\ Region[FirstOf(Holding(a))].port = MemPort}
Relative(a) == a - BaseOf(a)

(***************************************************************************)
(* The loaders                                                             *)
(***************************************************************************)

\* f with the bytes of data from index `at' on, those past the end dropped.
Overlay(f, at, data) ==
  [i \in Index |-> IF i - at \in 0 .. Len(data) - 1 THEN data[i - at + 1]
                   ELSE f[i]]

Data(n) == [1 .. n -> Byte]

\* An image is linked at a window of the memory if all of it lies there.
InWindow(w, a, n) == w <= a /\ a + n <= w + SIZE

\* The history after the loader has met data for address a.
Expect(keeps, a, data) ==
  /\ linked' = (linked /\ keeps)
  /\ want' = IF linked /\ keeps
             THEN Overlay(want, IF a < High THEN a ELSE a - High, data)
             ELSE [i \in Index |-> Zero]

\* Record type 04.  A record's own address has 16 bits, so the sum with it
\* stays below 2^32.
HexExtended(e) ==
  /\ loader = "hex" /\ header < Parts
  /\ header' = header + 1
  /\ ext_addr' = e
  /\ UNCHANGED <<mem, base_addr, loader, first_data, want, linked>>

\* Mutant: the base is kept relative to the high mapping.
HexDataRelative(a, data) ==
  /\ loader = "hex" /\ header < Parts
  /\ header' = header + 1
  /\ LET full == (a + ext_addr) % Space
         base == IF first_data THEN full - High ELSE base_addr
     IN  /\ base_addr' = base
         /\ mem' = Overlay(mem, (full - base) % Space, data)
         /\ Expect(TRUE, full, data)
  /\ first_data' = FALSE
  /\ UNCHANGED <<loader, ext_addr>>

\* Record type 00.  The first one gives the base; a record below it is lost.
\* Readable: the first record is at the start of a window, and all others
\* in the same one.
HexData(a, data) ==
  /\ loader = "hex" /\ header < Parts
  /\ header' = header + 1
  /\ LET full == (a + ext_addr) % Space
         base == IF first_data THEN full ELSE base_addr
     IN  /\ base_addr' = base
         /\ mem' = Overlay(mem, (full - base) % Space, data)
         /\ Expect(base \in {0, High} /\ InWindow(base, full, Len(data)),
                   full, data)
  /\ first_data' = FALSE
  /\ UNCHANGED <<loader, ext_addr>>

\* A program header that is not PT_LOAD.
ElfOther ==
  /\ loader = "elf" /\ header < Parts
  /\ header' = header + 1
  /\ UNCHANGED <<mem, base_addr, loader, ext_addr, first_data, want, linked>>

Refuses(a, n) == (ToOffset(a) + n) % Space > SIZE

\* A segment of n bytes, of which the file has the first; the rest is zero.
\* The header with index 0 leaves its address as the base.  Readable: every
\* segment in a window; if the first header is a segment, it is the only one
\* or starts a window, and if it starts the low one all others are there.
ElfSegment(a, data, n) ==
  /\ loader = "elf" /\ header < Parts
  /\ ~Refuses(a, n)
  /\ header' = header + 1
  /\ base_addr' = IF header = 0 THEN a ELSE base_addr
  /\ LET all == [i \in 1 .. n |-> IF i <= Len(data) THEN data[i] ELSE Zero]
     IN  /\ mem' = Overlay(mem, ToOffset(a), all)
         /\ Expect(/\ \E w \in {0, High} : InWindow(w, a, n)
                   /\ header = 0 => a = 0 \/ a >= High
                   /\ base_addr \in {0, High}
                   /\ base_addr = 0 => InWindow(0, a, n),
                   a, all)
  /\ UNCHANGED <<loader, ext_addr, first_data>>

\* loadELF gives up: what follows is not loaded, and the simulation starts.
ElfRefused(a, n) ==
  /\ loader = "elf" /\ header < Parts
  /\ Refuses(a, n)
  /\ loader' = "done"
  /\ Expect(FALSE, a, <<>>)
  /\ UNCHANGED <<mem, base_addr, ext_addr, first_data, header>>

\* The end of the file, and sc_start.
Start ==
  /\ loader # "done"
  /\ loader' = "done"
  /\ UNCHANGED <<mem, base_addr, ext_addr, first_data, header, want, linked>>

Loading ==
  \/ \E e \in Ext : HexExtended(e)
  \/ \E a \in RecordAddr, n \in RecordLen : \E d \in Data(n) : HexData(a, d)
  \/ ElfOther
  \/ \E a \in SegmentAddr, n \in SegmentLen :
       \/ \E k \in 0 .. n : \E d \in Data(k) : ElfSegment(a, d, n)
       \/ ElfRefused(a, n)
  \/ Start

(***************************************************************************)
(* The masters                                                             *)
(***************************************************************************)

\* accessMem for a write: each byte by its own address.
AccessMem(rel, data) ==
  [i \in Index |->
     LET hits == {k \in 1 .. Len(data) : ToOffset(rel + k - 1) = i}
     IN  IF hits = {} THEN mem[i]
         ELSE data[CHOOSE k \in hits : \A l \in hits : l <= k]]

\* Interconnect and Memory b_transport: past the end is an error.
LtStore(a, data) ==
  /\ loader = "done" /\ a \in Mapped
  /\ IF ToOffset(Relative(a)) + Len(data) > SIZE THEN mem' = mem
     ELSE mem' = AccessMem(Relative(a), data)
  /\ want' = IF linked /\ Relative(a) + Len(data) <= SIZE
             THEN Overlay(want, Relative(a), data) ELSE want
  /\ UNCHANGED <<base_addr, loader, ext_addr, first_data, header, linked>>

\* Mutant: a store past the end wraps round.
AtStoreWrapping(a, data) ==
  /\ loader = "done" /\ a \in Mapped
  /\ mem' = [i \in Index |->
               LET hits == {k \in 1 .. Len(data) :
                              (ToOffset(Relative(a)) + k - 1) % SIZE = i}
               IN  IF hits = {} THEN mem[i] ELSE data[CHOOSE k \in hits : TRUE]]
  /\ want' = IF linked THEN Overlay(want, Relative(a), data) ELSE want
  /\ UNCHANGED <<base_addr, loader, ext_addr, first_data, header, linked>>

\* The AT path checks nothing: bytes past the end are dropped.
AtStore(a, data) ==
  /\ loader = "done" /\ a \in Mapped
  /\ mem' = AccessMem(Relative(a), data)
  /\ want' = IF linked THEN Overlay(want, Relative(a), data) ELSE want
  /\ UNCHANGED <<base_addr, loader, ext_addr, first_data, header, linked>>

Running ==
  \E a \in Mapped :
    \/ \E n \in Lengths : \E d \in Data(n) : LtStore(a, d)
    \/ \E d \in Data(WordLen) : AtStore(a, d)

Next == Loading \/ Running

Spec == Init /\ [][Next]_vars

(***************************************************************************)
(* What the ways to read the memory answer for n bytes at address a        *)
(***************************************************************************)

Error == <<>>

LtRead(a, n) ==
  IF ToOffset(Relative(a)) + n > SIZE THEN Error
  ELSE [k \in 1 .. n |-> mem[ToOffset(Relative(a) + k - 1)]]

DebugRead(a, n) ==
  IF ToOffset(Relative(a)) + n > SIZE THEN Error
  ELSE [k \in 1 .. n |-> mem[ToOffset(Relative(a)) + k - 1]]

\* get_direct_mem_ptr: the region a pointer to mem is offered for.
DmiStart(a) == 0 + BaseOf(a)
DmiEnd(a) == SIZE - 1 + BaseOf(a)
DmiRead(a, n) == [k \in 1 .. n |-> mem[a - DmiStart(a) + k - 1]]

(***************************************************************************)
(* Properties                                                              *)
(***************************************************************************)

\* Every byte of an image that is linked at the start of a mapping, as
\* link.ld does, is found at its own address through either mapping, and so
\* is the last store to it of any master; nothing else has changed, whatever
\* order the records and segments came in, and stores across the end of the
\* memory disturb nothing at its beginning.
ImageAndStores ==
  linked /\ loader = "done" =>
    \A a \in Mapped : LtRead(a, 1) = <<want[Relative(a)]>>

\* Bus, debug and direct access agree on every address of the memory, as
\* long as no image has left a base inside the low mapping.
PathsAgree ==
  base_addr \notin 1 .. SIZE - 1 =>
    \A a \in Mapped, n \in Lengths :
      /\ LtRead(a, n) = DebugRead(a, n)
      /\ a + n - 1 <= DmiEnd(a) <=> LtRead(a, n) # Error
      /\ LtRead(a, n) # Error => LtRead(a, n) = DmiRead(a, n)
=============================================================================
