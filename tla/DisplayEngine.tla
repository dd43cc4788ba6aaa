--------------------------- MODULE DisplayEngine ---------------------------
(***************************************************************************)
(* The display controller as its driver sees it: the framebuffer registers *)
(* and the thread that polls CTRL and reads a frame pixel by pixel through *)
(* the AT path, which is taken as what it promises (MemPort).  The thread  *)
(* looks at the registers again for every pixel, so a driver that stores   *)
(* to them while a frame is read changes the rest of it.                   *)
(*                                                                         *)
(* Addresses are aligned byte addresses; the 64-bit m_fb_addr is a pair of *)
(* words of width Half, which stands for 2^32, and so are the dimensions.  *)
(***************************************************************************)
EXTENDS Naturals, Sequences

CONSTANTS
  Half,           \* 2^32
  Or(_, _),       \* C's | of two words
  Windows,        \* the addresses at which the memory is mapped
  MemBytes,       \* its size
  NoOffset,       \* no target decodes the address
  Val, Zero,      \* pixel values; the initial value of m_read_data
  Side,           \* m_width and m_height after reset: 16
  LoVals, HiVals, DimVals, CtrlVals    \* what drivers write

Wide == Half * Half

ASSUME WidthAssumption ==
  /\ Half \in Nat \ {0} /\ Half % 4 = 0
  /\ MemBytes \in Nat /\ MemBytes % 4 = 0
  /\ Windows \in SUBSET {b \in 0 .. Wide - 1 : b % 4 = 0}
  /\ \A b, c \in Windows : b < c => b + MemBytes <= c
ASSUME OrAssumption ==
  \A a, b \in 0 .. Half - 1 : Or(a, b) \in 0 .. Half - 1 /\ Or(0, b) = b
ASSUME DriverAssumption ==
  /\ Side \in 0 .. Half - 1
  /\ LoVals \in SUBSET {v \in 0 .. Half - 1 : v % 4 = 0}
  /\ HiVals \in SUBSET (0 .. Half - 1)
  /\ DimVals \in SUBSET (0 .. Half - 1)
  /\ CtrlVals \in SUBSET (0 .. Half - 1)
ASSUME ValueAssumption == Zero \in Val /\ NoOffset \notin Nat

VARIABLES
  m_fb_addr, m_width, m_height, m_ctrl,   \* the registers
  reading,        \* refresh_thread is in a frame, else in its wait
  x, y,           \* its loop variables
  mem, port, buf, \* the AT path and the memory behind it
  told,           \* history: the address the driver has stored
  frame,          \* history: the frame under way, or the last one
  shown,          \* history: its pixels, in the order of printing
  held            \* history: what each word held while it was read

regVars == <<m_fb_addr, m_width, m_height, m_ctrl>>
pathVars == <<mem, port, buf>>
history == <<told, frame, shown, held>>
vars == <<m_fb_addr, m_width, m_height, m_ctrl, reading, x, y,
          mem, port, buf, told, frame, shown, held>>

display == "display"
Offset == {o \in 0 .. MemBytes - 1 : o % 4 = 0}

Path == INSTANCE MemPort WITH Client <- {display}

\* Mutant: the region ends one address late.
HoldingInclusive(a) == {b \in Windows : b <= a /\ a <= b + MemBytes}

\* Interconnect: the offset of an absolute address in the memory.
Holding(a) == {b \in Windows : b <= a /\ a < b + MemBytes}
Decode(a) == IF Holding(a) = {} THEN NoOffset
             ELSE a - CHOOSE b \in Holding(a) : TRUE

(***************************************************************************)
(* History.  The driver is plain as long as it stores the high half of an  *)
(* address at most once, from reset on; it has been told the whole of the  *)
(* address unless it still owes the low half.  A frame is clean while the  *)
(* driver is plain, leaves the dimensions alone and moves the framebuffer  *)
(* at most once, from `from' to `to'.                                      *)
(***************************************************************************)

Told0 == [plain |-> TRUE, whole |-> TRUE, lo |-> 0, hi |-> 0, once |-> FALSE]

ToldLo(v) == IF told.plain THEN [told EXCEPT !.whole = TRUE, !.lo = v]
             ELSE told
ToldHi(v) == IF told.plain /\ ~told.once
             THEN [told EXCEPT !.whole = FALSE, !.hi = v, !.once = TRUE]
             ELSE [Told0 EXCEPT !.plain = FALSE, !.whole = FALSE]

Asked(t) == t.hi * Half + t.lo

NoFrame == [clean |-> FALSE, from |-> 0, to |-> 0, pixels |-> 0]

\* The frame that starts now.  Its size fits the 32 bits of the pixel index.
NewFrame ==
  IF told.whole /\ 4 * m_width * m_height <= Half
  THEN [clean |-> TRUE, from |-> Asked(told), to |-> Asked(told),
        pixels |-> m_width * m_height]
  ELSE NoFrame

\* The frame after a store that leaves the driver's address at t.
Moved(t) ==
  IF t.whole /\ Asked(t) = frame.to THEN frame
  ELSE IF frame.clean /\ t.whole /\ frame.from = frame.to
       THEN [frame EXCEPT !.to = Asked(t)]
       ELSE NoFrame

\* What is remembered of frame f and its pixels after a store.  A frame that
\* is not clean is forgotten, and so is one that has ended.
Remember(f, words) ==
  LET keep == reading /\ f.clean
  IN  /\ frame' = IF keep THEN f ELSE NoFrame
      /\ shown' = IF keep THEN shown ELSE <<>>
      /\ held' = IF keep THEN words ELSE [o \in Offset |-> {}]

TypeOK ==
  /\ m_fb_addr \in 0 .. Wide - 1
  /\ m_width \in 0 .. Half - 1 /\ m_height \in 0 .. Half - 1
  /\ m_ctrl \in 0 .. Half - 1
  /\ reading \in BOOLEAN /\ x \in 0 .. Half - 1 /\ y \in 0 .. Half - 1
  /\ mem \in [Offset -> Val] /\ buf \in [{display} -> Val]
  /\ port \in [{display} -> [st : {"idle", "busy", "refused", "done"},
                             cmd : {"none", "read"},
                             off : Offset \cup {NoOffset}]]
  /\ port[display].st = "busy" => port[display].off # NoOffset
  /\ ~reading => port[display] = Path!Idle
  /\ told \in [plain : BOOLEAN, whole : BOOLEAN, once : BOOLEAN,
               lo : 0 .. Half - 1, hi : 0 .. Half - 1]
  /\ frame \in [clean : BOOLEAN, from : 0 .. Wide - 1, to : 0 .. Wide - 1,
                pixels : Nat]
  /\ shown \in Seq(Val) /\ held \in [Offset -> SUBSET Val]

Init ==
  /\ m_fb_addr = 0 /\ m_width = Side /\ m_height = Side /\ m_ctrl = 0
  /\ reading = FALSE /\ x = 0 /\ y = 0
  /\ Path!Init
  /\ told = Told0 /\ frame = NoFrame
  /\ shown = <<>> /\ held = [o \in Offset |-> {}]

(***************************************************************************)
(* The driver: MMIO stores, at any time                                    *)
(***************************************************************************)

\* Mutant: a store to the low half clears the high half.
SetLoAlone(r, v) == v

\* Either store goes through the same mask, which keeps the high half: a
\* store to the low half replaces it, one to the high half is merged into
\* what is there and clears the low half.
SetLo(r, v) == (r \div Half) * Half + v
SetHi(r, v) == Or(r \div Half, v) * Half

AddressStore ==
  /\ \/ \E v \in LoVals :
          /\ m_fb_addr' = SetLo(m_fb_addr, v)
          /\ told' = ToldLo(v) /\ Remember(Moved(ToldLo(v)), held)
     \/ \E v \in HiVals :
          /\ m_fb_addr' = SetHi(m_fb_addr, v)
          /\ told' = ToldHi(v) /\ Remember(Moved(ToldHi(v)), held)
  /\ UNCHANGED <<m_width, m_height, m_ctrl>>

DimStore ==
  /\ \/ m_width' \in DimVals /\ m_height' = m_height
     \/ m_height' \in DimVals /\ m_width' = m_width
  /\ Remember(NoFrame, held)
  /\ UNCHANGED <<m_fb_addr, m_ctrl, told>>

CtrlStore ==
  /\ m_ctrl' \in CtrlVals
  /\ Remember(frame, held)
  /\ UNCHANGED <<m_fb_addr, m_width, m_height, told>>

RegisterStore ==
  /\ AddressStore \/ DimStore \/ CtrlStore
  /\ UNCHANGED <<reading, x, y, pathVars>>

\* Any store of the processor, or of another master, to the memory.
MemoryStore(o, v) ==
  /\ Path!Store(o, v)
  /\ Remember(frame, [held EXCEPT ![o] = @ \cup {v}])
  /\ UNCHANGED <<regVars, reading, x, y, told>>

(***************************************************************************)
(* refresh_thread                                                          *)
(***************************************************************************)

\* (y * m_width + x) * 4 in 32 bits, added to the address in 64.
PixelAddr(col, row) ==
  (m_fb_addr + ((4 * (row * m_width + col)) % Half)) % Wide

\* readPixelAT calls the AT path.
ReadPixel(col, row) ==
  LET o == Decode(PixelAddr(col, row))
  IN  /\ x' = col /\ y' = row /\ reading' = TRUE
      /\ port' = [port EXCEPT ![display] =
                    [st  |-> IF o = NoOffset THEN "refused" ELSE "busy",
                     cmd |-> "read", off |-> o]]
      /\ UNCHANGED <<mem, buf>>

EndFrame ==
  /\ x' = 0 /\ y' = 0 /\ reading' = FALSE
  /\ port' = [port EXCEPT ![display] = Path!Idle]
  /\ UNCHANGED <<mem, buf>>

\* The test of the inner loop, with the width of this moment.
More(col) == col < m_width

\* Mutant: the last row is left out.
RowButLast(row) ==
  \/ row + 1 < m_height /\ More(0) /\ ReadPixel(0, row)
  \/ (row + 1 >= m_height \/ ~More(0)) /\ EndFrame

\* The outer loop, entered with y = row before its test.  When there are no
\* columns the remaining rows are empty.
Row(row) ==
  \/ row < m_height /\ More(0) /\ ReadPixel(0, row)
  \/ (row >= m_height \/ ~More(0)) /\ EndFrame

\* The poll every 100 us.
Wake ==
  /\ ~reading /\ m_ctrl % 2 = 1
  /\ Row(0)
  /\ frame' = NewFrame /\ shown' = <<>>
  /\ held' = [o \in Offset |-> IF NewFrame.clean THEN {mem[o]} ELSE {}]
  /\ UNCHANGED <<regVars, told>>

\* Mutant: CTRL is looked at again for every pixel.
PixelReturnsEnabled ==
  /\ reading /\ port[display].st = "done" /\ m_ctrl % 2 = 1
  /\ LET col == (x + 1) % Half
     IN  \/ More(col) /\ ReadPixel(col, y)
         \/ ~More(col) /\ Row((y + 1) % Half)
  /\ shown' = IF frame.clean THEN Append(shown, buf[display]) ELSE shown
  /\ UNCHANGED <<regVars, told, frame, held>>

\* readPixelAT returns, the pixel is printed, and the inner loop goes on;
\* m_height is looked at again only for the next row.
PixelReturns ==
  /\ reading /\ port[display].st = "done"
  /\ LET col == (x + 1) % Half
     IN  \/ More(col) /\ ReadPixel(col, y)
         \/ ~More(col) /\ Row((y + 1) % Half)
  /\ shown' = IF frame.clean THEN Append(shown, buf[display]) ELSE shown
  /\ UNCHANGED <<regVars, told, frame, held>>

\* The memory serves the request that is out.
Serve == Path!Serve(display) /\ UNCHANGED <<regVars, reading, x, y, history>>

Thread == Wake \/ PixelReturns

Next ==
  \/ RegisterStore
  \/ \E o \in Offset, v \in Val : MemoryStore(o, v)
  \/ Thread
  \/ Serve

Spec == Init /\ [][Next]_vars

\* The thread's waits are timed, and the AT path serves what it accepts.
FairSpec == Spec /\ WF_vars(Thread) /\ WF_vars(Serve)

(***************************************************************************)
(* Properties                                                              *)
(***************************************************************************)

\* What a driver that announces its framebuffer the one way that works, the
\* high half once and first, sees on the screen while other masters draw:
\* pixel k is a value its own word held during the frame; and if the driver
\* moves the framebuffer in the middle, the frame is a beginning of the old
\* buffer and the rest of the new one, whole words each, and no third place.
FrameShows ==
  frame.clean =>
    \E cut \in 0 .. Len(shown) : \A k \in 1 .. Len(shown) :
      LET base == IF k <= cut THEN frame.from ELSE frame.to
      IN  shown[k] \in held[Decode((base + 4 * (k - 1)) % Wide)]

\* A frame whose dimensions are left alone has as many pixels as they say,
\* no earlier and no later than its end.
FrameFull ==
  frame.clean => Len(shown) <= frame.pixels /\
                 (~reading <=> Len(shown) = frame.pixels)

\* A frame ends, whatever is stored to the registers meanwhile.
FrameEnds == reading ~> ~reading
=============================================================================
