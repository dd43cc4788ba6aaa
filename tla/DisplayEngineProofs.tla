------------------------ MODULE DisplayEngineProofs ------------------------
(***************************************************************************)
(* Theorems about DisplayEngine, for every width of the registers, every   *)
(* memory map, every frame size and everything drivers write.  What is on  *)
(* the screen becomes inductive with what the thread is about to print:    *)
(* its loop variables count the pixels, the request under way names the    *)
(* place of the next one, and the word that comes back is one its own      *)
(* place has held.                                                         *)
(***************************************************************************)
EXTENDS DisplayEngine, TLAPS

Aligned == m_fb_addr % 4 = 0

PathInv ==
  /\ reading => port[display].st # "idle" /\ port[display].cmd = "read"
  /\ port[display].st \in {"busy", "done"} => port[display].off # NoOffset

\* What a plain driver has stored is what the register holds.
ToldInv ==
  /\ told.plain =>
       /\ m_fb_addr = told.hi * Half + (IF told.whole THEN told.lo ELSE 0)
       /\ ~told.once => told.hi = 0 /\ told.whole
  /\ ~told.plain => ~told.whole

\* A clean frame is read from the address the register still holds, and the
\* loop variables count its pixels.
FrameInv ==
  frame.clean =>
    /\ told.whole /\ frame.to = m_fb_addr
    /\ frame.pixels = m_width * m_height /\ 4 * frame.pixels <= Half
    /\ reading =>
         x < m_width /\ y < m_height /\ Len(shown) = y * m_width + x
    /\ ~reading => Len(shown) = frame.pixels
    /\ \A o \in Offset : mem[o] \in held[o]

\* Where pixel k of frame f belongs, if f moved after pixel cut.
Place(f, cut, k) ==
  Decode(((IF k <= cut THEN f.from ELSE f.to) + 4 * (k - 1)) % Wide)

\* The pixels px of frame f are each a value their place, which there is,
\* has held.
Shows(f, cut, px, words) ==
  \A k \in 1 .. Len(px) : /\ Place(f, cut, k) \in Offset
                          /\ px[k] \in words[Place(f, cut, k)]

\* So will be the pixel under way, once served.
Pending(f, cut, n, words) ==
  /\ port[display].off = Place(f, cut, n + 1)
  /\ port[display].st = "done" => buf[display] \in words[port[display].off]

ShowInv ==
  frame.clean =>
    \E cut \in 0 .. Len(shown) + 1 :
      /\ Shows(frame, cut, shown, held)
      /\ reading => Pending(frame, cut, Len(shown), held)

Inv == TypeOK /\ Aligned /\ PathInv /\ ToldInv /\ FrameInv /\ ShowInv

-----------------------------------------------------------------------------
(* Arithmetic                                                              *)

\* Remainders of numbers below the modulus, or below twice the modulus.
LEMMA ModSmall ==
  ASSUME NEW n \in Nat \ {0}, NEW i \in 0 .. n - 1
  PROVE  i % n = i
  OBVIOUS

LEMMA ModSum ==
  ASSUME NEW n \in Nat \ {0}, NEW i \in 0 .. 2 * n - 1
  PROVE  i % n = IF i < n THEN i ELSE i - n
  OBVIOUS

\* Division with remainder is unique.
LEMMA DivOf ==
  ASSUME NEW d \in Nat \ {0}, NEW q \in Nat, NEW r \in 0 .. d - 1
  PROVE  (q * d + r) \div d = q
  OBVIOUS

\* The loop variables count pixels: one inside the frame is before its end,
\* and after a row comes the beginning of the next.
LEMMA CountPixels ==
  ASSUME NEW w \in Nat, NEW h \in Nat, NEW col \in 0 .. w - 1,
         NEW row \in 0 .. h - 1
  PROVE  /\ row * w + col \in Nat /\ row * w + col < w * h
         /\ (row + 1) * w + 0 = row * w + (w - 1) + 1
         /\ (h - 1) * w + (w - 1) + 1 = w * h
  <1>1. row * w \in Nat /\ (row + 1) * w = row * w + w
    OBVIOUS
  <1>2. (row + 1) * w <= h * w
    OBVIOUS
  <1>3. h * w = w * h /\ (h - 1) * w + w = h * w /\ h * w \in Nat
        /\ (h - 1) * w \in Nat
    OBVIOUS
  <1> DEFINE p == row * w
             q == w * h
             next == (row + 1) * w
             last == (h - 1) * w
  <1>4. /\ p \in Nat /\ next = p + w /\ next <= q /\ q \in Nat
        /\ last + w = q /\ last \in Nat
    BY <1>1, <1>2, <1>3
  <1> HIDE DEF p, q, next, last
  <1>5. /\ p + col \in Nat /\ p + col < q
        /\ next + 0 = p + (w - 1) + 1 /\ last + (w - 1) + 1 = q
    BY <1>4
  <1>6. /\ p = row * w /\ q = w * h /\ next = (row + 1) * w
        /\ last = (h - 1) * w
    BY DEF p, q, next, last
  <1> QED
    BY ONLY <1>5, <1>6

\* A word is so many bytes.
LEMMA HalfBytes ==
  /\ Half \in Nat \ {0} /\ Half % 4 = 0
  /\ \E h \in Nat \ {0} : Half = 4 * h
  <1> DEFINE h == Half \div 4
  <1>1. Half \in Nat \ {0} /\ Half % 4 = 0
    BY WidthAssumption
  <1>2. h \in Nat \ {0} /\ Half = 4 * h
    BY <1>1
  <1> HIDE DEF h
  <1> QED
    BY <1>1, <1>2

\* Registers: the halves of an address and their alignment.
LEMMA WideFacts ==
  /\ Wide \in Nat \ {0} /\ Half <= Wide /\ Wide % 4 = 0
  /\ \A q \in Nat : q * Half \in Nat /\ (q * Half) % 4 = 0
  <1>1. Half \in Nat \ {0} /\ Half % 4 = 0
    BY WidthAssumption
  <1>2. PICK h \in Nat \ {0} : Half = 4 * h
    BY HalfBytes
  <1>3. ASSUME NEW q \in Nat PROVE q * Half \in Nat /\ (q * Half) % 4 = 0
    <2>1. q * Half = 4 * (q * h) /\ q * h \in Nat
      BY <1>2
    <2> QED
      BY <2>1
  <1>4. Half * Half >= Half
    BY <1>1
  <1> QED
    BY <1>1, <1>3, <1>4 DEF Wide

\* Two words make an address, aligned if the low one is.
LEMMA WordPair ==
  ASSUME NEW q \in 0 .. Half - 1, NEW v \in 0 .. Half - 1
  PROVE  /\ q * Half + v \in 0 .. Wide - 1
         /\ v % 4 = 0 => (q * Half + v) % 4 = 0
         /\ (q * Half + v) \div Half = q
  <1>1. Half \in Nat \ {0}
    BY WidthAssumption
  <1>2. (q + 1) * Half <= Half * Half /\ (q + 1) * Half = q * Half + Half
    BY <1>1
  <1>3. q * Half \in Nat /\ (q * Half) % 4 = 0
    BY <1>1, WideFacts
  <1>4. (q * Half + v) \div Half = q
    BY <1>1, DivOf
  <1> DEFINE p == q * Half
  <1>5. p \in Nat /\ p % 4 = 0 /\ p + Half <= Wide /\ Wide \in Nat
    BY <1>2, <1>3, WideFacts DEF Wide
  <1> HIDE DEF p
  <1>6. p + v \in 0 .. Wide - 1 /\ (v % 4 = 0 => (p + v) % 4 = 0)
    BY <1>1, <1>5
  <1> QED
    BY <1>4, <1>6 DEF p

\* The high word of an address.
LEMMA HighWord ==
  ASSUME NEW r \in 0 .. Wide - 1
  PROVE  r \div Half \in 0 .. Half - 1
  <1>1. Half \in Nat \ {0} /\ r \in Nat /\ r < Half * Half
    BY WidthAssumption, WideFacts DEF Wide
  <1> QED
    BY <1>1

-----------------------------------------------------------------------------
(* The map                                                                 *)

\* An aligned address means a word of the memory, or nothing.
LEMMA DecodeType ==
  ASSUME NEW a \in Nat, a % 4 = 0
  PROVE  Decode(a) \in Offset \cup {NoOffset}
  <1>1. CASE Holding(a) = {}
    BY <1>1 DEF Decode
  <1>2. CASE Holding(a) # {}
    <2> DEFINE b == CHOOSE b \in Holding(a) : TRUE
    <2>1. b \in Windows /\ b <= a /\ a < b + MemBytes
      BY <1>2 DEF Holding
    <2>2. Decode(a) = a - b
      BY <1>2 DEF Decode
    <2> HIDE DEF b
    <2>3. b \in Nat /\ b % 4 = 0
      BY <2>1, WidthAssumption, WideFacts
    <2>4. a - b \in Offset
      BY <2>1, <2>3, WidthAssumption DEF Offset
    <2> QED
      BY <2>2, <2>4
  <1> QED
    BY <1>1, <1>2

\* The target of any call is a word of the memory, or nothing.
LEMMA CallType ==
  ASSUME NEW a \in 0 .. Wide - 1, a % 4 = 0,
         NEW at \in 0 .. Half - 1, at % 4 = 0
  PROVE  Decode((a + at) % Wide) \in Offset \cup {NoOffset}
  <1>1. /\ Half \in Nat \ {0} /\ Wide \in Nat \ {0}
        /\ Half <= Wide /\ Wide % 4 = 0
    BY WidthAssumption, WideFacts
  <1> DEFINE i == a + at
  <1>2. i \in 0 .. 2 * Wide - 1 /\ i % 4 = 0
    BY <1>1
  <1> HIDE DEF i
  <1>3. i % Wide = IF i < Wide THEN i ELSE i - Wide
    BY <1>1, <1>2, ModSum
  <1>4. i % Wide \in Nat /\ (i % Wide) % 4 = 0
    <2>1. CASE i < Wide
      BY <1>1, <1>2, <1>3, <2>1
    <2>2. CASE i >= Wide
      BY <1>1, <1>2, <1>3, <2>2
    <2> QED
      BY <1>1, <1>2, <2>1, <2>2
  <1> QED
    BY <1>4, DecodeType DEF i

\* Where the thread asks for a pixel.
LEMMA PixelType ==
  ASSUME TypeOK, Aligned, NEW col \in 0 .. Half - 1, NEW row \in 0 .. Half - 1
  PROVE  Decode(PixelAddr(col, row)) \in Offset \cup {NoOffset}
  <1> DEFINE n == row * m_width + col
             at == (4 * n) % Half
  <1>1. Half \in Nat \ {0} /\ Half % 4 = 0 /\ m_width \in Nat
    BY WidthAssumption DEF TypeOK
  <1>2. n \in Nat
    BY <1>1
  <1> HIDE DEF n
  <1>3. at \in 0 .. Half - 1 /\ at % 4 = 0
    <2>1. PICK h \in Nat \ {0} : Half = 4 * h
      BY HalfBytes
    <2>2. at \in 0 .. Half - 1 /\ 4 * n = ((4 * n) \div Half) * Half + at
      <3> DEFINE i == 4 * n
      <3>1. i \in Nat
        BY <1>2
      <3> HIDE DEF i
      <3>2. i % Half \in 0 .. Half - 1 /\ i = (i \div Half) * Half + (i % Half)
        BY <1>1, <3>1
      <3> QED
        BY <3>2 DEF i
    <2> DEFINE q == (4 * n) \div Half
    <2>3. q \in Nat
      BY <1>1, <1>2
    <2> HIDE DEF q, at
    <2>4. q * Half = 4 * (q * h) /\ q * h \in Nat
      BY <2>1, <2>3
    <2>5. 4 * n = 4 * (q * h) + at
      BY <2>2, <2>4 DEF q
    <2> DEFINE m == q * h
    <2>6. m \in Nat /\ 4 * n = 4 * m + at
      BY <2>4, <2>5
    <2> HIDE DEF m
    <2> QED
      BY <1>1, <1>2, <2>2, <2>6
  <1>4. m_fb_addr \in 0 .. Wide - 1 /\ m_fb_addr % 4 = 0
    BY DEF TypeOK, Aligned
  <1>5. PixelAddr(col, row) = (m_fb_addr + at) % Wide
    BY DEF PixelAddr, n
  <1> HIDE DEF at
  <1> QED
    BY <1>3, <1>4, <1>5, CallType

\* The address of pixel n + 1 of a frame that fits the pixel index.
LEMMA PixelPlace ==
  ASSUME TypeOK, NEW col \in Nat, NEW row \in Nat, NEW n \in Nat,
         n = row * m_width + col, 4 * n < Half,
         NEW f, f.to = m_fb_addr, NEW cut, cut \in 0 .. n
  PROVE  Decode(PixelAddr(col, row)) = Place(f, cut, n + 1)
  <1>1. Half \in Nat \ {0}
    BY WidthAssumption
  <1> DEFINE at == 4 * n
  <1>2. at \in 0 .. Half - 1
    BY <1>1
  <1>3. PixelAddr(col, row) = (m_fb_addr + (at % Half)) % Wide
    BY DEF PixelAddr
  <1>4. 4 * ((n + 1) - 1) = at /\ ~(n + 1 <= cut)
    BY <1>2
  <1>5. Place(f, cut, n + 1) = Decode((m_fb_addr + at) % Wide)
    BY <1>4 DEF Place
  <1> HIDE DEF at
  <1>6. at % Half = at
    BY <1>1, <1>2, ModSmall
  <1> QED
    BY <1>3, <1>5, <1>6

-----------------------------------------------------------------------------
(* Types                                                                   *)

ToldType == [plain : BOOLEAN, whole : BOOLEAN, once : BOOLEAN,
             lo : 0 .. Half - 1, hi : 0 .. Half - 1]
FrameType == [clean : BOOLEAN, from : 0 .. Wide - 1, to : 0 .. Wide - 1,
              pixels : Nat]
PortType == [st : {"idle", "busy", "refused", "done"}, cmd : {"none", "read"},
             off : Offset \cup {NoOffset}]

RegType ==
  /\ m_fb_addr \in 0 .. Wide - 1 /\ m_fb_addr % 4 = 0
  /\ m_width \in 0 .. Half - 1 /\ m_height \in 0 .. Half - 1
  /\ m_ctrl \in 0 .. Half - 1
ThreadType ==
  /\ reading \in BOOLEAN /\ x \in 0 .. Half - 1 /\ y \in 0 .. Half - 1
  /\ mem \in [Offset -> Val] /\ buf \in [{display} -> Val]
  /\ port \in [{display} -> PortType]
  /\ port[display].st = "busy" => port[display].off # NoOffset
  /\ ~reading => port[display] = Path!Idle
HistoryType ==
  /\ told \in ToldType /\ frame \in FrameType
  /\ shown \in Seq(Val) /\ held \in [Offset -> SUBSET Val]

\* The type invariant falls apart into what the driver, the thread and the
\* history have written.
LEMMA TypeParts == TypeOK /\ Aligned <=> RegType /\ ThreadType /\ HistoryType
  BY DEF TypeOK, Aligned, RegType, ThreadType, HistoryType, ToldType,
         FrameType, PortType

\* The same after a step.
LEMMA TypePartsNext ==
  RegType' /\ ThreadType' /\ HistoryType' => TypeOK' /\ Aligned'
  BY DEF TypeOK, Aligned, RegType, ThreadType, HistoryType, ToldType,
         FrameType, PortType

LEMMA NoFrameType == NoFrame \in FrameType /\ ~NoFrame.clean
  <1>1. 0 \in 0 .. Wide - 1
    BY WideFacts
  <1> QED
    BY <1>1 DEF NoFrame, FrameType

\* The address of a plain driver is one.
LEMMA AskedType ==
  ASSUME NEW t \in ToldType
  PROVE  Asked(t) \in 0 .. Wide - 1
  <1>1. t.hi \in 0 .. Half - 1 /\ t.lo \in 0 .. Half - 1
    BY DEF ToldType
  <1> QED
    BY <1>1, WordPair DEF Asked

\* What a store leaves of the frame.
LEMMA RememberEffect ==
  ASSUME NEW f \in FrameType, NEW words \in [Offset -> SUBSET Val],
         shown \in Seq(Val), Remember(f, words)
  PROVE  /\ frame' \in FrameType /\ shown' \in Seq(Val)
         /\ held' \in [Offset -> SUBSET Val]
         /\ frame'.clean => /\ reading /\ f.clean /\ frame' = f
                            /\ shown' = shown /\ held' = words
  <1> DEFINE keep == reading /\ f.clean
  <1>1. /\ frame' = IF keep THEN f ELSE NoFrame
        /\ shown' = IF keep THEN shown ELSE <<>>
        /\ held' = IF keep THEN words ELSE [o \in Offset |-> {}]
    BY DEF Remember
  <1>2. <<>> \in Seq(Val) /\ [o \in Offset |-> {}] \in [Offset -> SUBSET Val]
    OBVIOUS
  <1>3. CASE keep
    BY <1>1, <1>3
  <1>4. CASE ~keep
    BY <1>1, <1>2, <1>4, NoFrameType
  <1> QED
    BY <1>3, <1>4

-----------------------------------------------------------------------------
(* The driver                                                              *)

\* A store to either half keeps an aligned address.
LEMMA SetType ==
  ASSUME NEW r \in 0 .. Wide - 1
  PROVE  /\ \A v \in LoVals :
              SetLo(r, v) \in 0 .. Wide - 1 /\ SetLo(r, v) % 4 = 0
         /\ \A v \in HiVals :
              SetHi(r, v) \in 0 .. Wide - 1 /\ SetHi(r, v) % 4 = 0
  <1>1. r \div Half \in 0 .. Half - 1
    BY HighWord
  <1>2. ASSUME NEW v \in LoVals
        PROVE  SetLo(r, v) \in 0 .. Wide - 1 /\ SetLo(r, v) % 4 = 0
    <2>1. v \in 0 .. Half - 1 /\ v % 4 = 0
      BY DriverAssumption
    <2> QED
      BY <1>1, <2>1, WordPair DEF SetLo
  <1>3. ASSUME NEW v \in HiVals
        PROVE  SetHi(r, v) \in 0 .. Wide - 1 /\ SetHi(r, v) % 4 = 0
    <2> DEFINE q == Or(r \div Half, v)
               zero == 0
    <2>1. v \in 0 .. Half - 1
      BY DriverAssumption
    <2>2. q \in 0 .. Half - 1
      BY <1>1, <2>1, OrAssumption
    <2>3. zero \in 0 .. Half - 1 /\ zero % 4 = 0
      BY HalfBytes
    <2>4. SetHi(r, v) = q * Half + zero
      <3>1. q * Half \in Nat
        BY <2>2, HalfBytes
      <3> QED
        BY <3>1 DEF SetHi
    <2> HIDE DEF q, zero
    <2> QED
      BY <2>2, <2>3, <2>4, WordPair
  <1> QED
    BY <1>2, <1>3

\* What the driver has been told is what the register holds, after a store
\* to the low half,
LEMMA LoTold ==
  ASSUME Inv, NEW v \in LoVals, m_fb_addr' = SetLo(m_fb_addr, v),
         told' = ToldLo(v)
  PROVE  told' \in ToldType /\ ToldInv'
  <1>1. told \in ToldType /\ v \in 0 .. Half - 1
    BY TypeParts, DriverAssumption DEF Inv, HistoryType
  <1>2. CASE ~told.plain
    <2>1. told' = told
      BY <1>2 DEF ToldLo
    <2> QED
      BY <1>1, <1>2, <2>1 DEF Inv, ToldInv
  <1>3. CASE told.plain
    <2>1. told' = [told EXCEPT !.whole = TRUE, !.lo = v]
      BY <1>3 DEF ToldLo
    <2>2. /\ told' \in ToldType /\ told'.plain /\ told'.whole
          /\ told'.lo = v /\ told'.hi = told.hi /\ told'.once = told.once
      BY <1>1, <1>3, <2>1 DEF ToldType
    <2> DEFINE rest == IF told.whole THEN told.lo ELSE 0
    <2>3. told.hi \in 0 .. Half - 1 /\ rest \in 0 .. Half - 1
      BY <1>1, HalfBytes DEF ToldType
    <2>4. m_fb_addr = told.hi * Half + rest
      BY <1>3 DEF Inv, ToldInv
    <2> HIDE DEF rest
    <2>5. m_fb_addr \div Half = told.hi
      BY <2>3, <2>4, WordPair
    <2>6. m_fb_addr' = told.hi * Half + v
      BY <2>5 DEF SetLo
    <2>7. ~told.once => told.hi = 0
      BY <1>3 DEF Inv, ToldInv
    <2> QED
      BY <2>2, <2>6, <2>7 DEF ToldInv
  <1> QED
    BY <1>2, <1>3

\* and to the high half, which is merged with what is there: the first time,
\* with nothing.
LEMMA HiTold ==
  ASSUME Inv, NEW v \in HiVals, m_fb_addr' = SetHi(m_fb_addr, v),
         told' = ToldHi(v)
  PROVE  told' \in ToldType /\ ToldInv'
  <1>1. told \in ToldType /\ v \in 0 .. Half - 1
    BY TypeParts, DriverAssumption DEF Inv, HistoryType
  <1>2. CASE ~(told.plain /\ ~told.once)
    <2>1. told' = [Told0 EXCEPT !.plain = FALSE, !.whole = FALSE]
      BY <1>2 DEF ToldHi
    <2>2. told' = [plain |-> FALSE, whole |-> FALSE, lo |-> 0, hi |-> 0,
                   once |-> FALSE]
      BY <2>1 DEF Told0
    <2>3. told' \in ToldType /\ ~told'.plain /\ ~told'.whole
      BY <2>2, HalfBytes DEF ToldType
    <2> QED
      BY <2>3 DEF ToldInv
  <1>3. CASE told.plain /\ ~told.once
    <2>1. told' = [told EXCEPT !.whole = FALSE, !.hi = v, !.once = TRUE]
      BY <1>3 DEF ToldHi
    <2>2. /\ told' \in ToldType /\ told'.plain /\ ~told'.whole
          /\ told'.hi = v /\ told'.once
      BY <1>1, <1>3, <2>1 DEF ToldType
    <2> DEFINE high == told.hi
    <2>3. /\ high = 0 /\ told.lo \in 0 .. Half - 1 /\ high \in 0 .. Half - 1
          /\ m_fb_addr = high * Half + told.lo
      BY <1>1, <1>3, HalfBytes DEF Inv, ToldInv, ToldType
    <2> HIDE DEF high
    <2>4. m_fb_addr \div Half = high
      BY <2>3, WordPair
    <2>5. Or(m_fb_addr \div Half, v) = v
      BY <1>1, <2>3, <2>4, OrAssumption, HalfBytes
    <2>6. m_fb_addr' = v * Half + 0
      <3>1. v * Half \in Nat
        BY <1>1, HalfBytes
      <3> QED
        BY <2>5, <3>1 DEF SetHi
    <2> QED
      BY <2>2, <2>6 DEF ToldInv
  <1> QED
    BY <1>2, <1>3

\* A frame that survives a move of the framebuffer: it is where it was, or
\* it has moved for the first time, and what it has shown is explained by a
\* cut at this place.
LEMMA MoveEffect ==
  ASSUME Inv, told' \in ToldType, ToldInv', m_fb_addr' \in 0 .. Wide - 1,
         Remember(Moved(told'), held),
         UNCHANGED <<m_width, m_height, reading, x, y, mem, port, buf>>
  PROVE  /\ frame' \in FrameType /\ shown' \in Seq(Val)
         /\ held' \in [Offset -> SUBSET Val]
         /\ FrameInv' /\ ShowInv'
  <1> DEFINE t == told'
             f == Moved(t)
             there == t.whole /\ Asked(t) = frame.to
             first == frame.clean /\ t.whole /\ frame.from = frame.to
  <1>1. frame \in FrameType /\ held \in [Offset -> SUBSET Val] /\ shown \in Seq(Val)
    BY TypeParts DEF Inv, HistoryType
  <1>2. Asked(t) \in 0 .. Wide - 1
    BY AskedType
  <1>3. /\ there => f = frame
        /\ ~there /\ first => f = [frame EXCEPT !.to = Asked(t)]
        /\ ~there /\ ~first => f = NoFrame
    BY DEF Moved
  <1>4. /\ f \in FrameType
        /\ f.clean => /\ frame.clean /\ t.whole /\ f.to = Asked(t)
                      /\ f.from = frame.from /\ f.pixels = frame.pixels
                      /\ f.to = frame.to \/ frame.from = frame.to
    <2>1. CASE there
      BY <1>1, <1>3, <2>1
    <2>2. CASE ~there /\ first
      <3>1. [frame EXCEPT !.to = Asked(t)] \in FrameType
        BY <1>1, <1>2 DEF FrameType
      <3> QED
        BY <1>1, <1>3, <2>2, <3>1 DEF FrameType
    <2>3. CASE ~there /\ ~first
      BY <1>3, <2>3, NoFrameType
    <2> QED
      BY <2>1, <2>2, <2>3
  <1>5. t.whole => m_fb_addr' = Asked(t)
    BY DEF ToldInv, Asked
  <1> HIDE DEF f, there, first
  <1>6. Remember(f, held)
    BY DEF f
  <1>7. /\ frame' \in FrameType /\ shown' \in Seq(Val)
        /\ held' \in [Offset -> SUBSET Val]
        /\ frame'.clean => /\ reading /\ f.clean /\ frame' = f
                           /\ shown' = shown /\ held' = held
    BY <1>1, <1>4, <1>6, RememberEffect
  <1>8. FrameInv'
    BY <1>4, <1>5, <1>7 DEF Inv, FrameInv
  <1>9. ShowInv'
    <2> SUFFICES ASSUME frame'.clean PROVE ShowInv'
      BY DEF ShowInv
    <2>1. /\ f.clean /\ frame' = f /\ reading /\ shown' = shown /\ held' = held
      BY <1>7
    <2>2. PICK cut \in 0 .. Len(shown) + 1 :
            /\ Shows(frame, cut, shown, held)
            /\ Pending(frame, cut, Len(shown), held)
      BY <1>4, <2>1 DEF Inv, ShowInv
    <2> DEFINE n == Len(shown)
    <2>3. n \in Nat
      BY <1>1
    <2>4. PICK d \in 0 .. n + 1 :
            \A k \in 1 .. n + 1 : Place(f, d, k) = Place(frame, cut, k)
      <3>1. CASE f.to = frame.to
        <4>1. \A k \in 1 .. n + 1 : Place(f, cut, k) = Place(frame, cut, k)
          BY <1>4, <2>1, <3>1 DEF Place
        <4> QED
          BY <4>1
      <3>2. CASE frame.from = frame.to
        <4>1. \A k \in 1 .. n + 1 : Place(f, n + 1, k) = Place(frame, cut, k)
          BY <1>4, <2>1, <2>3, <3>2 DEF Place
        <4> QED
          BY <2>3, <4>1
      <3> QED
        BY <1>4, <2>1, <3>1, <3>2
    <2>5. Shows(f, d, shown, held)
      BY <2>2, <2>3, <2>4 DEF Shows
    <2>6. /\ port'[display].off = Place(f, d, n + 1)
          /\ port'[display].st = "done" => buf'[display] \in held[port'[display].off]
      BY <2>1, <2>2, <2>3, <2>4 DEF Pending
    <2>7. d \in 0 .. Len(shown') + 1
      BY <2>1, <2>4
    <2>8. /\ Shows(frame', d, shown', held')
          /\ port'[display].off = Place(frame', d, Len(shown') + 1)
          /\ port'[display].st = "done" => buf'[display] \in held'[port'[display].off]
      BY <2>1, <2>5, <2>6
    <2> HIDE DEF n
    <2> QED
      BY <2>7, <2>8 DEF ShowInv, Pending, Shows
  <1> QED
    BY <1>7, <1>8, <1>9

\* A frame whose words may have held more, and that is otherwise left alone.
LEMMA KeepEffect ==
  ASSUME Inv, NEW words \in [Offset -> SUBSET Val], Remember(frame, words),
         \A o \in Offset : held[o] \subseteq words[o],
         frame.clean => \A o \in Offset : mem'[o] \in words[o],
         UNCHANGED <<m_fb_addr, m_width, m_height, told, reading, x, y, port, buf>>
  PROVE  /\ frame' \in FrameType /\ shown' \in Seq(Val)
         /\ held' \in [Offset -> SUBSET Val]
         /\ FrameInv' /\ ShowInv'
  <1>1. frame \in FrameType /\ shown \in Seq(Val) /\ port \in [{display} -> PortType]
    BY TypeParts DEF Inv, HistoryType, ThreadType
  <1>2. /\ frame' \in FrameType /\ shown' \in Seq(Val)
        /\ held' \in [Offset -> SUBSET Val]
        /\ frame'.clean => /\ reading /\ frame.clean /\ frame' = frame
                           /\ shown' = shown /\ held' = words
    BY <1>1, RememberEffect
  <1>3. FrameInv'
    BY <1>2 DEF Inv, FrameInv
  <1>4. ShowInv'
    <2> SUFFICES ASSUME frame'.clean PROVE ShowInv'
      BY DEF ShowInv
    <2>1. /\ reading /\ frame.clean /\ frame' = frame
          /\ shown' = shown /\ held' = words
      BY <1>2
    <2>2. PICK cut \in 0 .. Len(shown) + 1 :
            /\ Shows(frame, cut, shown, held)
            /\ Pending(frame, cut, Len(shown), held)
      BY <2>1 DEF Inv, ShowInv
    <2>3. Shows(frame, cut, shown, words)
      BY <2>2 DEF Shows
    <2>4. port[display].st = "done" => buf[display] \in words[port[display].off]
      <3> SUFFICES ASSUME port[display].st = "done"
                   PROVE  buf[display] \in words[port[display].off]
        OBVIOUS
      <3>1. port[display].off \in Offset
        BY <1>1 DEF Inv, PathInv, PortType
      <3> QED
        BY <2>2, <3>1 DEF Pending
    <2> QED
      BY <2>1, <2>2, <2>3, <2>4 DEF Pending, ShowInv, Shows
  <1> QED
    BY <1>2, <1>3, <1>4

\* A register is written.
LEMMA RegisterStoreInv ==
  ASSUME Inv, RegisterStore
  PROVE  Inv'
  <1>1. RegType /\ ThreadType /\ HistoryType
    BY TypeParts DEF Inv
  <1>2. UNCHANGED <<reading, x, y, mem, port, buf>>
    BY DEF RegisterStore, pathVars
  <1>3. ThreadType' /\ PathInv'
    BY <1>1, <1>2 DEF ThreadType, PathInv, Inv, Path!Idle
  <1>4. CASE AddressStore
    <2>1. /\ \/ \E v \in LoVals :
                  /\ m_fb_addr' = SetLo(m_fb_addr, v) /\ told' = ToldLo(v)
             \/ \E v \in HiVals :
                  /\ m_fb_addr' = SetHi(m_fb_addr, v) /\ told' = ToldHi(v)
          /\ Remember(Moved(told'), held)
          /\ UNCHANGED <<m_width, m_height, m_ctrl>>
      BY <1>4 DEF AddressStore
    <2>2. m_fb_addr' \in 0 .. Wide - 1 /\ m_fb_addr' % 4 = 0
      BY <1>1, <2>1, SetType DEF RegType
    <2>3. told' \in ToldType /\ ToldInv'
      BY <2>1, LoTold, HiTold
    <2>4. /\ frame' \in FrameType /\ shown' \in Seq(Val)
          /\ held' \in [Offset -> SUBSET Val] /\ FrameInv' /\ ShowInv'
      BY <1>2, <2>1, <2>2, <2>3, MoveEffect
    <2>5. RegType' /\ HistoryType'
      BY <1>1, <2>1, <2>2, <2>3, <2>4 DEF RegType, HistoryType
    <2> QED
      BY <1>3, <2>3, <2>4, <2>5, TypePartsNext DEF Inv
  <1>5. CASE DimStore
    <2>1. /\ m_width' \in 0 .. Half - 1 /\ m_height' \in 0 .. Half - 1
          /\ UNCHANGED <<m_fb_addr, m_ctrl, told>> /\ Remember(NoFrame, held)
      BY <1>1, <1>5, DriverAssumption DEF DimStore, RegType
    <2>2. /\ frame' \in FrameType /\ shown' \in Seq(Val)
          /\ held' \in [Offset -> SUBSET Val] /\ ~frame'.clean
      BY <1>1, <2>1, NoFrameType, RememberEffect DEF HistoryType
    <2>3. RegType' /\ HistoryType'
      BY <1>1, <2>1, <2>2 DEF RegType, HistoryType
    <2>4. ToldInv'
      BY <2>1 DEF Inv, ToldInv
    <2> QED
      BY <1>3, <2>2, <2>3, <2>4, TypePartsNext DEF Inv, FrameInv, ShowInv
  <1>6. CASE CtrlStore
    <2>1. /\ m_ctrl' \in 0 .. Half - 1 /\ Remember(frame, held)
          /\ UNCHANGED <<m_fb_addr, m_width, m_height, told>>
      BY <1>6, DriverAssumption DEF CtrlStore
    <2>2. frame.clean => \A o \in Offset : mem'[o] \in held[o]
      BY <1>2 DEF Inv, FrameInv
    <2>3. held \in [Offset -> SUBSET Val]
      BY <1>1 DEF HistoryType
    <2>4. /\ frame' \in FrameType /\ shown' \in Seq(Val)
          /\ held' \in [Offset -> SUBSET Val] /\ FrameInv' /\ ShowInv'
      BY <1>2, <2>1, <2>2, <2>3, KeepEffect
    <2>5. RegType' /\ HistoryType'
      BY <1>1, <2>1, <2>4 DEF RegType, HistoryType
    <2>6. ToldInv'
      BY <2>1 DEF Inv, ToldInv
    <2> QED
      BY <1>3, <2>4, <2>5, <2>6, TypePartsNext DEF Inv
  <1> QED
    BY <1>4, <1>5, <1>6 DEF RegisterStore

\* Another master stores a word, which its place now has held.
LEMMA MemoryStoreInv ==
  ASSUME Inv, NEW o \in Offset, NEW v \in Val, MemoryStore(o, v)
  PROVE  Inv'
  <1> DEFINE words == [held EXCEPT ![o] = @ \cup {v}]
  <1>1. RegType /\ ThreadType /\ HistoryType
    BY TypeParts DEF Inv
  <1>2. /\ mem' = [mem EXCEPT ![o] = v] /\ Remember(frame, words)
        /\ UNCHANGED <<m_fb_addr, m_width, m_height, m_ctrl, reading, x, y,
                       told, port, buf>>
    BY DEF MemoryStore, regVars, Path!Store
  <1>3. words \in [Offset -> SUBSET Val] /\ mem \in [Offset -> Val]
    BY <1>1 DEF HistoryType, ThreadType
  <1>4. /\ \A p \in Offset : held[p] \subseteq words[p]
        /\ frame.clean => \A p \in Offset : mem'[p] \in words[p]
    BY <1>1, <1>2, <1>3 DEF HistoryType, Inv, FrameInv
  <1> HIDE DEF words
  <1>5. /\ frame' \in FrameType /\ shown' \in Seq(Val)
        /\ held' \in [Offset -> SUBSET Val] /\ FrameInv' /\ ShowInv'
    BY <1>2, <1>3, <1>4, KeepEffect
  <1>6. RegType' /\ HistoryType'
    BY <1>1, <1>2, <1>5 DEF RegType, HistoryType
  <1>7. ThreadType' /\ PathInv'
    BY <1>1, <1>2, <1>3 DEF ThreadType, PathInv, Inv, Path!Idle
  <1>8. ToldInv'
    BY <1>2 DEF Inv, ToldInv
  <1> QED
    BY <1>5, <1>6, <1>7, <1>8, TypePartsNext DEF Inv

\* The memory serves the request: the word in the buffer is one its place
\* holds.
LEMMA ServeInv ==
  ASSUME Inv, Serve
  PROVE  Inv'
  <1>1. RegType /\ ThreadType /\ HistoryType
    BY TypeParts DEF Inv
  <1>2. /\ port[display].st = "busy"
        /\ port' = [port EXCEPT ![display].st = "done"]
        /\ UNCHANGED <<m_fb_addr, m_width, m_height, m_ctrl, reading, x, y,
                       told, frame, shown, held>>
    BY DEF Serve, Path!Serve, regVars, history
  <1>3. reading /\ port[display].cmd = "read" /\ port[display].off \in Offset
    BY <1>1, <1>2 DEF ThreadType, PathInv, Inv, PortType, Path!Idle
  <1>4. /\ mem' = mem
        /\ buf' = [buf EXCEPT ![display] = mem[port[display].off]]
    BY <1>3 DEF Serve, Path!Serve
  <1>5. /\ port' \in [{display} -> PortType] /\ port'[display].st = "done"
        /\ port'[display].cmd = "read" /\ port'[display].off = port[display].off
    BY <1>1, <1>2, <1>3 DEF ThreadType, PortType
  <1>6. /\ buf' \in [{display} -> Val] /\ buf'[display] = mem[port[display].off]
    BY <1>1, <1>3, <1>4 DEF ThreadType
  <1>7. port[display].off # NoOffset
    BY <1>1, <1>2 DEF ThreadType
  <1>8. RegType' /\ ThreadType' /\ HistoryType' /\ PathInv'
    BY <1>1, <1>2, <1>3, <1>4, <1>5, <1>6, <1>7
    DEF RegType, ThreadType, HistoryType, PathInv
  <1>9. ToldInv' /\ FrameInv'
    BY <1>2, <1>4 DEF Inv, ToldInv, FrameInv
  <1>10. ShowInv'
    <2> SUFFICES ASSUME frame.clean PROVE ShowInv'
      BY <1>2 DEF ShowInv
    <2>1. PICK cut \in 0 .. Len(shown) + 1 :
            /\ Shows(frame, cut, shown, held)
            /\ Pending(frame, cut, Len(shown), held)
      BY <1>3 DEF Inv, ShowInv
    <2>2. buf'[display] \in held[port[display].off]
      BY <1>3, <1>6 DEF Inv, FrameInv
    <2> QED
      BY <1>2, <1>5, <2>1, <2>2 DEF Shows, Pending, ShowInv
  <1> QED
    BY <1>8, <1>9, <1>10, TypePartsNext DEF Inv

-----------------------------------------------------------------------------
(* The thread                                                              *)

\* It asks for a pixel.
Asks(col, row) ==
  /\ reading' = TRUE /\ x' = col /\ y' = row
  /\ port'[display].off = Decode(PixelAddr(col, row))
  /\ port'[display].st # "done"

LEMMA ReadEffect ==
  ASSUME TypeOK, Aligned, NEW col \in 0 .. Half - 1, NEW row \in 0 .. Half - 1,
         ReadPixel(col, row)
  PROVE  Asks(col, row) /\ ThreadType' /\ PathInv' /\ mem' = mem
  <1> DEFINE o == Decode(PixelAddr(col, row))
             r == [st  |-> IF o = NoOffset THEN "refused" ELSE "busy",
                   cmd |-> "read", off |-> o]
  <1>1. ThreadType
    BY TypeParts
  <1>2. o \in Offset \cup {NoOffset}
    BY PixelType
  <1>3. /\ x' = col /\ y' = row /\ reading' = TRUE /\ mem' = mem /\ buf' = buf
        /\ port' = [port EXCEPT ![display] = r]
    BY DEF ReadPixel
  <1> HIDE DEF o
  <1>4. /\ r \in PortType /\ r.cmd = "read" /\ r.off = o
        /\ r.st = IF o = NoOffset THEN "refused" ELSE "busy"
    BY <1>2 DEF PortType
  <1> HIDE DEF r
  <1>5. port' \in [{display} -> PortType] /\ port'[display] = r
    BY <1>1, <1>3, <1>4 DEF ThreadType
  <1> QED
    BY <1>1, <1>3, <1>4, <1>5 DEF ThreadType, PathInv, Asks, o

\* It goes back to its wait.
LEMMA EndEffect ==
  ASSUME TypeOK, Aligned, EndFrame
  PROVE  reading' = FALSE /\ ThreadType' /\ PathInv' /\ mem' = mem
  <1>1. ThreadType /\ 0 \in 0 .. Half - 1
    BY TypeParts, HalfBytes
  <1>2. /\ x' = 0 /\ y' = 0 /\ reading' = FALSE /\ mem' = mem /\ buf' = buf
        /\ port' = [port EXCEPT ![display] = Path!Idle]
    BY DEF EndFrame
  <1>3. Path!Idle \in PortType /\ Path!Idle.st = "idle"
    BY DEF PortType, Path!Idle
  <1> DEFINE r == Path!Idle
  <1> HIDE DEF r
  <1>4. port' \in [{display} -> PortType] /\ port'[display] = r
    BY <1>1, <1>2, <1>3 DEF ThreadType, r
  <1> QED
    BY <1>1, <1>2, <1>3, <1>4 DEF ThreadType, PathInv, Path!Idle, r

\* It enters a row, or has none left.
LEMMA RowEffect ==
  ASSUME TypeOK, Aligned, NEW row \in 0 .. Half - 1, Row(row)
  PROVE  /\ ThreadType' /\ PathInv' /\ mem' = mem
         /\ row < m_height /\ 0 < m_width => Asks(0, row)
         /\ ~(row < m_height /\ 0 < m_width) => reading' = FALSE
  <1>1. /\ m_width \in Nat /\ m_height \in Nat /\ 0 \in 0 .. Half - 1
        /\ row \in Nat
    BY TypeParts, HalfBytes DEF RegType
  <1>2. CASE row < m_height /\ More(0) /\ ReadPixel(0, row)
    <2> DEFINE col == 0
    <2>1. col \in 0 .. Half - 1 /\ ReadPixel(col, row)
      BY <1>1, <1>2
    <2> HIDE DEF col
    <2>2. Asks(col, row) /\ ThreadType' /\ PathInv' /\ mem' = mem
      BY <2>1, ReadEffect
    <2> QED
      BY <1>2, <2>2 DEF More, col
  <1>3. CASE (row >= m_height \/ ~More(0)) /\ EndFrame
    <2>1. reading' = FALSE /\ ThreadType' /\ PathInv' /\ mem' = mem
      BY <1>3, EndEffect
    <2> QED
      BY <1>1, <1>3, <2>1 DEF More
  <1> QED
    BY <1>2, <1>3 DEF Row

\* A frame starts; one without pixels is over at once.
LEMMA WakeInv ==
  ASSUME Inv, Wake
  PROVE  Inv'
  <1>1. TypeOK /\ Aligned /\ RegType /\ ThreadType /\ HistoryType
    BY TypeParts DEF Inv
  <1>2. /\ Row(0) /\ frame' = NewFrame /\ shown' = <<>>
        /\ held' = [o \in Offset |-> IF NewFrame.clean THEN {mem[o]} ELSE {}]
        /\ UNCHANGED <<m_fb_addr, m_width, m_height, m_ctrl, told>>
    BY DEF Wake, regVars
  <1>3. /\ ThreadType' /\ PathInv' /\ mem' = mem
        /\ 0 < m_height /\ 0 < m_width => Asks(0, 0)
        /\ ~(0 < m_height /\ 0 < m_width) => reading' = FALSE
    <2> DEFINE row == 0
    <2>1. row \in 0 .. Half - 1 /\ Row(row)
      BY <1>2, HalfBytes
    <2> HIDE DEF row
    <2>2. /\ ThreadType' /\ PathInv' /\ mem' = mem
          /\ row < m_height /\ 0 < m_width => Asks(0, row)
          /\ ~(row < m_height /\ 0 < m_width) => reading' = FALSE
      BY <1>1, <2>1, RowEffect
    <2> QED
      BY <2>2 DEF row
  <1>4. m_width \in Nat /\ m_height \in Nat /\ mem \in [Offset -> Val]
    BY <1>1, HalfBytes DEF RegType, ThreadType
  <1> DEFINE new == NewFrame
             fits == told.whole /\ 4 * m_width * m_height <= Half
  <1>5. /\ new \in FrameType /\ new.clean = fits
        /\ fits => /\ new.from = Asked(told) /\ new.to = Asked(told)
                   /\ new.pixels = m_width * m_height
    <2>1. Asked(told) \in 0 .. Wide - 1 /\ m_width * m_height \in Nat
      BY <1>1, <1>4, AskedType DEF HistoryType
    <2>2. told.whole \in BOOLEAN
      BY <1>1 DEF HistoryType, ToldType
    <2>3. CASE fits
      BY <2>1, <2>3 DEF NewFrame, FrameType
    <2>4. CASE ~fits
      BY <2>2, <2>4, NoFrameType DEF NewFrame, NoFrame
    <2> QED
      BY <2>3, <2>4
  <1>6. fits => /\ told.whole /\ Asked(told) = m_fb_addr
                /\ 4 * (m_width * m_height) <= Half
    <2>1. fits => Asked(told) = m_fb_addr
      BY DEF Inv, ToldInv, Asked
    <2>2. 4 * m_width * m_height = 4 * (m_width * m_height)
      BY <1>4
    <2> QED
      BY <2>1, <2>2
  <1>7. frame' = new
    BY <1>2
  <1> HIDE DEF new, fits
  <1>8. held' \in [Offset -> SUBSET Val] /\ shown' \in Seq(Val)
    BY <1>2, <1>4
  <1>9. RegType' /\ HistoryType'
    BY <1>1, <1>2, <1>5, <1>7, <1>8 DEF RegType, HistoryType
  <1>10. ToldInv'
    BY <1>2 DEF Inv, ToldInv
  <1>11. FrameInv'
    <2> SUFFICES ASSUME fits PROVE FrameInv'
      BY <1>5, <1>7 DEF FrameInv
    <2>1. Len(shown') = 0
      BY <1>2
    <2>2. reading' =>
            /\ x' < m_width /\ y' < m_height /\ y' * m_width + x' = 0
      BY <1>3, <1>4 DEF Asks
    <2>3. ~reading' => m_width * m_height = 0
      <3>1. ~reading' => m_width = 0 \/ m_height = 0
        BY <1>3, <1>4 DEF Asks
      <3> QED
        BY <1>4, <3>1
    <2>4. \A o \in Offset : mem'[o] \in held'[o]
      BY <1>2, <1>3, <1>5 DEF new
    <2> QED
      BY <1>2, <1>5, <1>6, <1>7, <2>1, <2>2, <2>3, <2>4 DEF FrameInv
  <1>12. ShowInv'
    <2> SUFFICES ASSUME fits PROVE ShowInv'
      BY <1>5, <1>7 DEF ShowInv
    <2>1. Len(shown') = 0 /\ Shows(frame', 0, shown', held')
      BY <1>2 DEF Shows
    <2>2. ASSUME reading' PROVE /\ port'[display].off = Place(new, 0, 0 + 1)
                                /\ port'[display].st # "done"
      <3> DEFINE col == 0
                 row == 0
                 n == 0
                 cut == 0
      <3>1. Asks(col, row) /\ 0 < m_height /\ 0 < m_width
        BY <1>3, <2>2
      <3>2. /\ n = row * m_width + col /\ 4 * n < Half /\ new.to = m_fb_addr
            /\ col \in Nat /\ row \in Nat /\ n \in Nat /\ cut \in 0 .. n
        BY <1>4, <1>5, <1>6, HalfBytes
      <3> HIDE DEF col, row, n, cut
      <3>3. Decode(PixelAddr(col, row)) = Place(new, cut, n + 1)
        BY <1>1, <3>2, PixelPlace
      <3> QED
        BY <3>1, <3>3 DEF Asks, n, cut
    <2> QED
      BY <1>7, <2>1, <2>2 DEF ShowInv, Pending
  <1> QED
    BY <1>3, <1>9, <1>10, <1>11, <1>12, TypePartsNext DEF Inv

\* A pixel is printed, and the thread goes on to the next, to the next row,
\* or back to its wait.
LEMMA PixelReturnsInv ==
  ASSUME Inv, PixelReturns
  PROVE  Inv'
  <1> DEFINE col == (x + 1) % Half
             row == (y + 1) % Half
  <1>1. TypeOK /\ Aligned /\ RegType /\ ThreadType /\ HistoryType
    BY TypeParts DEF Inv
  <1>2. /\ reading /\ port[display].st = "done"
        /\ \/ More(col) /\ ReadPixel(col, y)
           \/ ~More(col) /\ Row(row)
        /\ shown' = IF frame.clean THEN Append(shown, buf[display]) ELSE shown
        /\ UNCHANGED <<m_fb_addr, m_width, m_height, m_ctrl, told, frame, held>>
    BY DEF PixelReturns, regVars
  <1>3. /\ x \in 0 .. Half - 1 /\ y \in 0 .. Half - 1 /\ buf[display] \in Val
        /\ m_width \in 0 .. Half - 1 /\ m_height \in 0 .. Half - 1
        /\ Half \in Nat \ {0} /\ shown \in Seq(Val)
    BY <1>1, HalfBytes DEF ThreadType, RegType, HistoryType
  <1>4. col \in 0 .. Half - 1 /\ row \in 0 .. Half - 1
    BY <1>3
  <1>5. /\ x + 1 < Half => col = x + 1
        /\ y + 1 < Half => row = y + 1
    BY <1>3, ModSmall
  <1> HIDE DEF col, row
  <1>6. /\ ThreadType' /\ PathInv' /\ mem' = mem
        /\ \/ col < m_width /\ Asks(col, y)
           \/ ~(col < m_width) /\ row < m_height /\ 0 < m_width /\ Asks(0, row)
           \/ /\ ~(col < m_width) /\ ~(row < m_height /\ 0 < m_width)
              /\ reading' = FALSE
    <2>1. CASE More(col) /\ ReadPixel(col, y)
      BY <1>1, <1>3, <1>4, <2>1, ReadEffect DEF More
    <2>2. CASE ~More(col) /\ Row(row)
      BY <1>1, <1>4, <2>2, RowEffect DEF More
    <2> QED
      BY <1>2, <2>1, <2>2
  <1>7. shown' \in Seq(Val)
    BY <1>2, <1>3
  <1>8. RegType' /\ HistoryType'
    BY <1>1, <1>2, <1>7 DEF RegType, HistoryType
  <1>9. ToldInv'
    BY <1>2 DEF Inv, ToldInv
  <1>10. CASE ~frame.clean
    BY <1>2, <1>6, <1>8, <1>9, <1>10, TypePartsNext
    DEF Inv, FrameInv, ShowInv
  <1>11. CASE frame.clean
    <2> DEFINE n == Len(shown)
    <2>1. /\ told.whole /\ frame.to = m_fb_addr
          /\ frame.pixels = m_width * m_height /\ 4 * frame.pixels <= Half
          /\ x < m_width /\ y < m_height /\ n = y * m_width + x
          /\ \A o \in Offset : mem[o] \in held[o]
      BY <1>2, <1>11 DEF Inv, FrameInv
    <2>2. n \in Nat /\ shown' = Append(shown, buf[display]) /\ Len(shown') = n + 1
      BY <1>2, <1>3, <1>11
    <2>3. col = x + 1 /\ row = y + 1
      BY <1>3, <1>5, <2>1
    <2>4. \/ reading' /\ x' < m_width /\ y' < m_height
             /\ n + 1 = y' * m_width + x' /\ Asks(x', y')
          \/ ~reading' /\ n + 1 = frame.pixels
      <3>1. CASE col < m_width /\ Asks(col, y)
        <4>1. y * m_width \in Nat
          BY <1>3
        <4>2. n + 1 = y * m_width + (x + 1)
          <5> DEFINE p == y * m_width
          <5>1. n = p + x /\ p \in Nat /\ x \in Nat
            BY <1>3, <2>1, <4>1
          <5> HIDE DEF p, n
          <5>2. n + 1 = p + (x + 1)
            BY <5>1
          <5> QED
            BY <5>2 DEF p
        <4>3. x' = col /\ y' = y /\ reading'
          BY <3>1 DEF Asks
        <4> QED
          BY <2>1, <2>3, <3>1, <4>2, <4>3
      <3>2. CASE ~(col < m_width)
        <4>1. x = m_width - 1 /\ m_width \in Nat \ {0} /\ m_height \in Nat \ {0}
          BY <1>3, <2>1, <2>3, <3>2
        <4>2. /\ (y + 1) * m_width + 0 = n + 1
              /\ (m_height - 1) * m_width + (m_width - 1) + 1 = m_width * m_height
          BY <1>3, <2>1, <4>1, CountPixels
        <4>3. CASE row < m_height /\ Asks(0, row)
          <5>1. x' = 0 /\ y' = row /\ reading'
            BY <4>3 DEF Asks
          <5> QED
            BY <2>3, <4>1, <4>2, <4>3, <5>1
        <4>4. CASE ~(row < m_height /\ 0 < m_width) /\ reading' = FALSE
          <5>1. y = m_height - 1
            BY <1>3, <2>1, <2>3, <4>1, <4>4
          <5>2. n + 1 = m_width * m_height
            BY <2>1, <4>1, <4>2, <5>1
          <5> QED
            BY <2>1, <4>4, <5>2
        <4> QED
          BY <1>6, <3>2, <4>3, <4>4
      <3> QED
        BY <1>6, <3>1, <3>2
    <2>5. FrameInv'
      BY <1>2, <1>6, <2>1, <2>2, <2>4 DEF FrameInv
    <2>6. PICK cut \in 0 .. n + 1 :
            Shows(frame, cut, shown, held) /\ Pending(frame, cut, n, held)
      BY <1>2, <1>11 DEF Inv, ShowInv
    <2>7. Shows(frame, cut, shown', held)
      <3>1. port[display].off \in Offset
        BY <1>1, <1>2 DEF Inv, PathInv, ThreadType, PortType
      <3>2. /\ Place(frame, cut, n + 1) \in Offset
            /\ buf[display] \in held[Place(frame, cut, n + 1)]
        BY <1>2, <2>6, <3>1 DEF Pending
      <3>3. \A k \in 1 .. n : shown'[k] = shown[k]
        BY <1>3, <2>2
      <3>4. shown'[n + 1] = buf[display]
        BY <1>3, <2>2
      <3>5. \A k \in 1 .. n + 1 : k \in 1 .. n \/ k = n + 1
        BY <2>2
      <3> QED
        BY <2>2, <2>6, <3>2, <3>3, <3>4, <3>5 DEF Shows
    <2>8. reading' => /\ port'[display].off = Place(frame, cut, (n + 1) + 1)
                      /\ port'[display].st # "done"
      <3> SUFFICES ASSUME reading'
                   PROVE  /\ port'[display].off = Place(frame, cut, (n + 1) + 1)
                          /\ port'[display].st # "done"
        OBVIOUS
      <3> DEFINE m == n + 1
                 c == x'
                 r == y'
      <3>1. /\ c < m_width /\ r < m_height /\ m = r * m_width + c /\ Asks(c, r)
        BY <2>4
      <3>2. /\ c \in 0 .. m_width - 1 /\ r \in 0 .. m_height - 1
            /\ m_width \in Nat /\ m_height \in Nat
        BY <1>3, <1>6, <3>1 DEF ThreadType
      <3>3. m \in Nat /\ m < m_width * m_height /\ cut \in 0 .. m
        <4>1. m \in Nat /\ cut \in 0 .. m
          BY <2>2, <2>6
        <4> HIDE DEF m, c, r
        <4>2. r * m_width + c < m_width * m_height
          BY ONLY <3>2, CountPixels
        <4> QED
          BY ONLY <3>1, <4>1, <4>2
      <3>4. 4 * m < Half
        <4> DEFINE q == m_width * m_height
        <4>1. q \in Nat /\ 4 * q <= Half /\ m < q
          BY <2>1, <3>2, <3>3
        <4> HIDE DEF q, m
        <4> QED
          BY <1>3, <3>3, <4>1
      <3> HIDE DEF m, c, r
      <3>5. c \in Nat /\ r \in Nat
        BY <3>2
      <3>6. Decode(PixelAddr(c, r)) = Place(frame, cut, m + 1)
        BY <1>1, <2>1, <3>1, <3>3, <3>4, <3>5, PixelPlace
      <3> QED
        BY <3>1, <3>6 DEF Asks, m
    <2>9. ShowInv'
      <3>1. cut \in 0 .. Len(shown') + 1
        BY <2>2, <2>6
      <3> QED
        BY <1>2, <2>2, <2>7, <2>8, <3>1 DEF ShowInv, Pending, Shows
    <2> QED
      BY <1>6, <1>8, <1>9, <2>5, <2>9, TypePartsNext DEF Inv
  <1> QED
    BY <1>10, <1>11

-----------------------------------------------------------------------------
(* The theorems                                                            *)

\* The invariant holds of a display after reset.
LEMMA InitInv == Init => Inv
  <1> SUFFICES ASSUME Init PROVE Inv
    OBVIOUS
  <1>1. /\ m_fb_addr = 0 /\ m_width = Side /\ m_height = Side /\ m_ctrl = 0
        /\ reading = FALSE /\ x = 0 /\ y = 0
        /\ mem \in [Offset -> Val] /\ port = [c \in {display} |-> Path!Idle]
        /\ buf = [c \in {display} |-> Zero]
        /\ told = Told0 /\ frame = NoFrame
        /\ shown = <<>> /\ held = [o \in Offset |-> {}]
    BY DEF Init, Path!Init
  <1>2. /\ 0 \in 0 .. Half - 1 /\ 0 \in 0 .. Wide - 1 /\ 0 % 4 = 0
        /\ Side \in 0 .. Half - 1
    BY HalfBytes, WideFacts, DriverAssumption
  <1>3. RegType
    BY <1>1, <1>2 DEF RegType
  <1>4. Path!Idle \in PortType /\ Path!Idle.st = "idle"
    BY DEF PortType, Path!Idle
  <1>5. ThreadType /\ PathInv
    BY <1>1, <1>2, <1>4, ValueAssumption DEF ThreadType, PathInv
  <1>6. HistoryType
    <2>1. told \in ToldType
      BY <1>1, <1>2 DEF Told0, ToldType
    <2> QED
      BY <1>1, <2>1, NoFrameType DEF HistoryType
  <1>7. ToldInv
    <2>1. 0 * Half + 0 = 0
      BY HalfBytes
    <2> QED
      BY <1>1, <2>1 DEF Told0, ToldInv
  <1>8. ~frame.clean
    BY <1>1, NoFrameType
  <1> QED
    BY <1>3, <1>5, <1>6, <1>7, <1>8, TypeParts DEF Inv, FrameInv, ShowInv

\* Every step keeps it.
LEMMA StepInv == Inv /\ [Next]_vars => Inv'
  <1> SUFFICES ASSUME Inv, [Next]_vars PROVE Inv'
    OBVIOUS
  <1>1. CASE RegisterStore
    BY <1>1, RegisterStoreInv
  <1>2. CASE \E o \in Offset, v \in Val : MemoryStore(o, v)
    BY <1>2, MemoryStoreInv
  <1>3. CASE Wake
    BY <1>3, WakeInv
  <1>4. CASE PixelReturns
    BY <1>4, PixelReturnsInv
  <1>5. CASE Serve
    BY <1>5, ServeInv
  <1>6. CASE UNCHANGED vars
    <2>1. RegType' /\ ThreadType' /\ HistoryType'
      BY <1>6, TypeParts DEF vars, Inv, RegType, ThreadType, HistoryType, Path!Idle
    <2>2. PathInv' /\ ToldInv' /\ FrameInv'
      BY <1>6 DEF vars, Inv, PathInv, ToldInv, FrameInv
    <2>3. ShowInv'
      BY <1>6 DEF vars, Inv, ShowInv, Shows, Pending
    <2> QED
      BY <2>1, <2>2, <2>3, TypePartsNext DEF Inv
  <1> QED
    BY <1>1, <1>2, <1>3, <1>4, <1>5, <1>6 DEF Next, Thread

\* The invariant holds throughout, whatever drivers and other masters do.
THEOREM Invariance == Spec => []Inv
  BY InitInv, StepInv, PTL DEF Spec

\* The variables keep their types; no call returns that was never made.
THEOREM TypeCorrect == Spec => []TypeOK
  <1>1. Inv => TypeOK
    BY DEF Inv
  <1> QED
    BY <1>1, Invariance, PTL

\* Every pixel of a clean frame is a word its own place held while the frame
\* was read, with at most one change from the old framebuffer to the new.
THEOREM FrameShowsHolds == Spec => []FrameShows
  <1>1. Inv => FrameShows
    <2> SUFFICES ASSUME Inv, frame.clean PROVE FrameShows
      BY DEF FrameShows
    <2>1. PICK cut \in 0 .. Len(shown) + 1 : Shows(frame, cut, shown, held)
      BY DEF Inv, ShowInv
    <2>2. shown \in Seq(Val)
      BY TypeParts DEF Inv, HistoryType
    <2> DEFINE n == Len(shown)
    <2>3. n \in Nat
      BY <2>2
    <2>4. PICK d \in 0 .. n : \A k \in 1 .. n : k <= cut <=> k <= d
      <3> HIDE DEF n
      <3>1. CASE cut <= n
        BY <2>1, <2>3, <3>1 DEF n
      <3>2. CASE ~(cut <= n)
        BY <2>1, <2>3, <3>2 DEF n
      <3> QED
        BY <3>1, <3>2
    <2>5. \A k \in 1 .. n :
            shown[k] \in held[Decode(((IF k <= d THEN frame.from ELSE frame.to)
                                       + 4 * (k - 1)) % Wide)]
      BY <2>1, <2>4 DEF Shows, Place
    <2> QED
      BY <2>4, <2>5 DEF FrameShows
  <1> QED
    BY <1>1, Invariance, PTL

\* A clean frame has as many pixels as its dimensions say, when it has ended
\* and not before.
THEOREM FrameFullHolds == Spec => []FrameFull
  <1>1. Inv => FrameFull
    <2> SUFFICES ASSUME Inv, frame.clean PROVE FrameFull
      BY DEF FrameFull
    <2>1. /\ m_width \in Nat /\ m_height \in Nat /\ x \in Nat /\ y \in Nat
          /\ reading \in BOOLEAN
      BY TypeParts, HalfBytes DEF Inv, RegType, ThreadType
    <2>2. frame.pixels = m_width * m_height /\ frame.pixels \in Nat
      BY <2>1 DEF Inv, FrameInv
    <2>3. ~reading => Len(shown) = frame.pixels
      BY DEF Inv, FrameInv
    <2>4. reading => Len(shown) \in Nat /\ Len(shown) < frame.pixels
      <3> SUFFICES ASSUME reading
                   PROVE  Len(shown) \in Nat /\ Len(shown) < frame.pixels
        OBVIOUS
      <3>1. x \in 0 .. m_width - 1 /\ y \in 0 .. m_height - 1
        BY <2>1 DEF Inv, FrameInv
      <3>2. Len(shown) = y * m_width + x
        BY DEF Inv, FrameInv
      <3>3. y * m_width + x \in Nat /\ y * m_width + x < m_width * m_height
        BY ONLY <2>1, <3>1, CountPixels
      <3> QED
        BY ONLY <2>2, <3>2, <3>3
    <2> QED
      BY <2>2, <2>3, <2>4 DEF FrameFull
  <1> QED
    BY <1>1, Invariance, PTL

-----------------------------------------------------------------------------
(* The AT path                                                             *)

\* The end of one call and the beginning of the next, without a pause.
Turn ==
  /\ port[display].st = "done"
  /\ \E o \in Offset \cup {NoOffset} :
       port' = [port EXCEPT ![display] =
                 [st  |-> IF o = NoOffset THEN "refused" ELSE "busy",
                  cmd |-> "read", off |-> o]]
  /\ UNCHANGED <<mem, buf>>

\* A call is one the path expects: the first, or the next after a return.
LEMMA ReadIsPathStep ==
  ASSUME TypeOK, Aligned, NEW col \in 0 .. Half - 1, NEW row \in 0 .. Half - 1,
         ReadPixel(col, row),
         port[display] = Path!Idle \/ port[display].st = "done"
  PROVE  Path!Next \/ Turn
  <1> DEFINE o == Decode(PixelAddr(col, row))
  <1>1. o \in Offset \cup {NoOffset}
    BY PixelType
  <1>2. /\ port' = [port EXCEPT ![display] =
                      [st  |-> IF o = NoOffset THEN "refused" ELSE "busy",
                       cmd |-> "read", off |-> o]]
        /\ mem' = mem /\ buf' = buf
    BY DEF ReadPixel
  <1> HIDE DEF o
  <1>3. Zero \in Val /\ Path!Load(display, "read", Zero)
    BY <1>2, ValueAssumption DEF Path!Load
  <1>4. CASE port[display].st = "done"
    BY <1>1, <1>2, <1>4 DEF Turn
  <1>5. CASE port[display] = Path!Idle /\ o = NoOffset
    <2>1. Path!Refuse(display, "read", Zero)
      BY <1>2, <1>3, <1>5 DEF Path!Refuse
    <2> QED
      BY <1>3, <2>1 DEF Path!Next
  <1>6. CASE port[display] = Path!Idle /\ o # NoOffset
    <2>1. Path!Request(display, "read", o, Zero)
      BY <1>2, <1>3, <1>6 DEF Path!Request
    <2>2. o \in Offset
      BY <1>1, <1>6
    <2> QED
      BY <1>3, <2>1, <2>2 DEF Path!Next
  <1> QED
    BY <1>4, <1>5, <1>6

\* The head of the outer loop makes such a call, or returns from the last.
LEMMA RowIsPathStep ==
  ASSUME TypeOK, Aligned, NEW row \in 0 .. Half - 1, Row(row),
         port[display] = Path!Idle \/ port[display].st = "done"
  PROVE  Path!Next \/ Turn \/ UNCHANGED Path!vars
  <1>1. CASE ReadPixel(0, row)
    <2> DEFINE col == 0
    <2>1. col \in 0 .. Half - 1 /\ ReadPixel(col, row)
      BY <1>1, HalfBytes
    <2> HIDE DEF col
    <2> QED
      BY <2>1, ReadIsPathStep
  <1>2. CASE EndFrame
    <2>1. port' = [port EXCEPT ![display] = Path!Idle] /\ UNCHANGED <<mem, buf>>
      BY <1>2 DEF EndFrame
    <2>2. CASE port[display].st = "done"
      BY <2>1, <2>2 DEF Path!Next, Path!Return
    <2>3. CASE port[display] = Path!Idle
      <3> DEFINE r == Path!Idle
      <3>1. port \in [{display} -> PortType] /\ port[display] = r
        BY <2>3, TypeParts DEF ThreadType
      <3>2. port' = [port EXCEPT ![display] = r]
        BY <2>1
      <3> HIDE DEF r
      <3>3. port' = port
        BY <3>1, <3>2
      <3> QED
        BY <2>1, <3>3 DEF Path!vars
    <2> QED
      BY <2>2, <2>3
  <1> QED
    BY <1>1, <1>2 DEF Row

\* The thread, and whoever stores to the registers and the memory, use the
\* path as it promises: a read is asked for when none is out, of a word of
\* the memory or of nothing, and returned from when it has been served.  What
\* ATTransport implements is therefore all that this module relies on.
THEOREM PathUsed == Spec => [][Path!Next \/ Turn]_(Path!vars)
  <1>1. Inv /\ [Next]_vars => [Path!Next \/ Turn]_(Path!vars)
    <2> SUFFICES ASSUME Inv, [Next]_vars
                 PROVE  Path!Next \/ Turn \/ UNCHANGED Path!vars
      OBVIOUS
    <2>1. CASE RegisterStore
      BY <2>1 DEF RegisterStore, pathVars, Path!vars
    <2>2. CASE \E o \in Offset, v \in Val : MemoryStore(o, v)
      BY <2>2 DEF MemoryStore, Path!Next
    <2>3. CASE Wake
      <3> DEFINE row == 0
      <3>1. Row(row) /\ port[display] = Path!Idle /\ row \in 0 .. Half - 1
        BY <2>3, TypeParts, HalfBytes DEF Wake, Inv, ThreadType
      <3> HIDE DEF row
      <3> QED
        BY <3>1, RowIsPathStep DEF Inv
    <2>4. CASE PixelReturns
      <3> DEFINE col == (x + 1) % Half
                 row == (y + 1) % Half
      <3>1. /\ port[display].st = "done"
            /\ ReadPixel(col, y) \/ Row(row)
        BY <2>4 DEF PixelReturns
      <3>2. x \in Nat /\ y \in 0 .. Half - 1 /\ y \in Nat /\ Half \in Nat \ {0}
        BY TypeParts, HalfBytes DEF Inv, ThreadType
      <3>3. col \in 0 .. Half - 1 /\ row \in 0 .. Half - 1
        BY <3>2
      <3> HIDE DEF col, row
      <3> QED
        BY <3>1, <3>2, <3>3, ReadIsPathStep, RowIsPathStep DEF Inv
    <2>5. CASE Serve
      BY <2>5 DEF Serve, Path!Next
    <2>6. CASE UNCHANGED vars
      BY <2>6 DEF vars, Path!vars
    <2> QED
      BY <2>1, <2>2, <2>3, <2>4, <2>5, <2>6 DEF Next, Thread
  <1> QED
    BY <1>1, Invariance, PTL DEF Spec

-----------------------------------------------------------------------------
(* Progress                                                                *)

\* The loop variables of a frame stay below the largest word.
LoopInv == reading => x + 1 < Half /\ y + 1 < Half

\* The thread comes to no pixel twice.
Onward ==
  reading /\ reading' =>
    \/ x' = x /\ y' = y
    \/ y' = y /\ x' > x
    \/ y' > y

\* What a step of the thread does to its loop variables, with any dimensions.
LEMMA OnwardStep ==
  ASSUME TypeOK, Aligned, LoopInv, [Next]_vars
  PROVE  LoopInv' /\ Onward
  <1>1. /\ m_width \in 0 .. Half - 1 /\ m_height \in 0 .. Half - 1
        /\ Half \in Nat \ {0} /\ x \in Nat /\ y \in Nat
    BY TypeParts, HalfBytes DEF RegType, ThreadType
  <1>2. ASSUME NEW col \in Nat, NEW row \in Nat, ReadPixel(col, row)
        PROVE  reading' /\ x' = col /\ y' = row
    BY <1>2 DEF ReadPixel
  <1>3. ASSUME NEW row \in Nat, Row(row)
        PROVE  \/ reading' /\ x' = 0 /\ y' = row /\ 0 < m_width /\ row < m_height
               \/ ~reading'
    BY <1>2, <1>3 DEF Row, More, EndFrame
  <1>4. CASE UNCHANGED <<reading, x, y>>
    <2>1. reading' = reading /\ x' = x /\ y' = y
      BY <1>4
    <2>2. LoopInv'
      BY <2>1 DEF LoopInv
    <2>3. Onward
      BY <2>1 DEF Onward
    <2> QED
      BY <2>2, <2>3
  <1>5. CASE \/ RegisterStore \/ Serve \/ UNCHANGED vars
             \/ \E o \in Offset, v \in Val : MemoryStore(o, v)
    <2>1. UNCHANGED <<reading, x, y>>
      BY <1>5 DEF RegisterStore, MemoryStore, Serve, vars
    <2> QED
      BY <1>4, <2>1
  <1>6. CASE Wake
    <2>1. /\ ~reading
          /\ reading' => x' = 0 /\ y' = 0 /\ 0 < m_width /\ 0 < m_height
      BY <1>3, <1>6 DEF Wake
    <2> QED
      BY <1>1, <2>1 DEF LoopInv, Onward
  <1>7. CASE PixelReturns
    <2> DEFINE col == (x + 1) % Half
               row == (y + 1) % Half
    <2>1. /\ reading
          /\ \/ col < m_width /\ ReadPixel(col, y)
             \/ Row(row)
      BY <1>7 DEF PixelReturns, More
    <2>2. x + 1 \in 0 .. Half - 1 /\ y + 1 \in 0 .. Half - 1
      BY <1>1, <2>1 DEF LoopInv
    <2>3. col = x + 1 /\ row = y + 1
      BY <1>1, <2>2, ModSmall
    <2> HIDE DEF col, row
    <2>4. CASE col < m_width /\ ReadPixel(col, y)
      BY <1>1, <1>2, <2>2, <2>3, <2>4 DEF LoopInv, Onward
    <2>5. CASE Row(row)
      <3>1. \/ reading' /\ x' = 0 /\ y' = row /\ 0 < m_width /\ row < m_height
            \/ ~reading'
        BY <1>1, <1>3, <2>3, <2>5
      <3> QED
        BY <1>1, <2>3, <3>1 DEF LoopInv, Onward
    <2> QED
      BY <2>1, <2>4, <2>5
  <1> QED
    BY <1>5, <1>6, <1>7 DEF Next, Thread

\* Whatever drivers store to the dimensions while a frame is read, each pixel
\* lies behind the last one in reading order and no loop variable wraps
\* round, so a frame of any width has an end (the loops of refresh_thread).
\* This is why FrameEnds holds; that every call returns is the fairness of
\* the path.
THEOREM FrameAdvances == Spec => [][Onward]_vars
  <1>1. Init => LoopInv
    BY DEF Init, LoopInv
  <1>2. TypeOK /\ Aligned /\ LoopInv /\ [Next]_vars => LoopInv' /\ Onward
    BY OnwardStep
  <1>3. Inv => TypeOK /\ Aligned
    BY DEF Inv
  <1>4. Spec => [](TypeOK /\ Aligned)
    BY <1>3, Invariance, PTL
  <1> QED
    BY <1>1, <1>2, <1>4, PTL DEF Spec
=============================================================================
