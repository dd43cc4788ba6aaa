-------------------------------- MODULE Isa --------------------------------
(***************************************************************************)
(* The instruction set simulator: the fields and immediates that           *)
(* Instruction cuts out of a word, the decoder and the instructions of     *)
(* Executor, the register file and the CSRs they work on, on bits as the   *)
(* code does: a word is the set of the positions of its bits that are set. *)
(* Memory is a plain array here (Cache and AddressMap model the path to    *)
(* it), interrupts are in Interrupts, and registers are four bytes wide,   *)
(* of ByteBits bits each; instruction words have 32 bits.                  *)
(***************************************************************************)
EXTENDS Integers, FiniteSetsExt, RiscVEncoding

CONSTANTS
  ByteBits,           \* 8 in the code
  Reg, Cells,         \* the registers and the byte addresses in use
  Csrs,               \* the CSR addresses that hold a value
  Masked,             \* [a CSR |-> the bits of it that can be written]
  Start, StackTop,    \* the pc and sp of the constructor, as sets of bits
  Steps, Program      \* bound: Program[n] are the choices for step n

Width == 4 * ByteBits
Bits == 0 .. Width - 1

VARIABLES
  pc, regs, mem, csr,   \* regs[r], mem[a], csr[c]: sets of bits
  stopped,              \* Executor::m_stopped
  step, ir              \* instructions so far; history: the last one, decoded

vars == <<pc, regs, mem, csr, stopped, step, ir>>

\* C's operators on w bits.
Num(v) == MapThenSumSet(LAMBDA b : 2 ^ b, v)
FromNum(n) == {b \in Bits : (n \div 2 ^ b) % 2 = 1}
Mask(v, n) == v \cap 0 .. n - 1
Shl(v, n, w) == {b + n : b \in v} \cap 0 .. w - 1
Shr(v, n) == {b - n : b \in {c \in v : c >= n}}
Sar(v, n, w) ==
  Shr(v, n) \cup IF w - 1 \in v /\ n > 0 THEN (IF n < w THEN w - n ELSE 0) .. w - 1
                 ELSE {}
Plus(a, b)  == FromNum(Num(a) + Num(b))
Minus(a, b) == FromNum(Num(a) - Num(b))
Xor(a, b)   == (a \cup b) \ (a \cap b)
SignedNum(v) == Num(v) - IF Width - 1 \in v THEN 2 ^ Width ELSE 0
Bool(p) == IF p THEN {0} ELSE {}

\* class Instruction.  A field of n bits from lo on, shifted to a position.
Field(m, lo, n, at) == Shl(Mask(Shr(m, lo), n), at, 32)
Op(m)     == Num(Mask(m, 7))
rd(m)     == Num(Field(m, 7, 5, 0))
funct3(m) == Num(Field(m, 12, 3, 0))
rs1(m)    == Num(Field(m, 15, 5, 0))
rs2(m)    == Num(Field(m, 20, 5, 0))
funct7(m) == Num(Field(m, 25, 7, 0))
op12(m)   == Num(Field(m, 20, 12, 0))

\* (v << n) >> n, and the immediates; int32_t operands are cut to a register.
SignExtend(v, n) == Sar(Shl(v, n, 32), n, 32)
imm_I(m) == Mask(Sar(m, 20, 32), Width)
imm_S(m) ==
  Mask(SignExtend(Field(m, 25, 7, 0) \cup Field(m, 7, 5, 0), 20), Width)
imm_B(m) ==
  Mask(SignExtend(Field(m, 8, 4, 1) \cup Field(m, 25, 6, 5) \cup Field(m, 7, 1, 11)
                  \cup Field(m, 31, 1, 12), 19), Width)
imm_U(m) == Mask(m \ 0 .. 11, Width)
imm_J(m) ==
  Mask(SignExtend(Field(m, 21, 10, 1) \cup Field(m, 20, 1, 11)
                  \cup Field(m, 12, 8, 12) \cup Field(m, 31, 1, 20), 11), Width)

\* Registers::setValue, and the pc of an instruction that does not set it.
setValue(r, v) ==
  regs' = IF r # 0 /\ r < 32 THEN [regs EXCEPT ![r] = v] ELSE regs
incPC == pc' = Plus(pc, {2})

\* The operation of OP and OP-IMM; funct7 is looked at only where it must be.
AluOp(m) ==
  LET f3 == funct3(m)
      Either(std, alt) == CASE funct7(m) = 0  -> std
                            [] funct7(m) = 32 -> alt
                            [] OTHER          -> "illegal"
  IN  CASE f3 = 0 -> (IF Op(m) = 19 THEN "ADD" ELSE Either("ADD", "SUB"))
        [] f3 = 1 -> "SLL"  [] f3 = 2 -> "SLT" [] f3 = 3 -> "SLTU"
        [] f3 = 4 -> "XOR"  [] f3 = 5 -> Either("SRL", "SRA")
        [] f3 = 6 -> "OR"   [] f3 = 7 -> "AND"

AluValue(op, a, b) ==
  LET shamt == Num(Mask(b, 5))
  IN  CASE op = "ADD"  -> Plus(a, b)
        [] op = "SUB"  -> Minus(a, b)
        [] op = "SLL"  -> Shl(a, shamt, Width)
        [] op = "SLT"  -> Bool(SignedNum(a) < SignedNum(b))
        [] op = "SLTU" -> Bool(Num(a) < Num(b))
        [] op = "XOR"  -> Xor(a, b)
        [] op = "SRL"  -> Shr(a, shamt)
        [] op = "SRA"  -> Sar(a, shamt, Width)
        [] op = "OR"   -> a \cup b
        [] op = "AND"  -> a \cap b

OpImm(m) ==
  LET op == AluOp(m)
  IN  /\ Op(m) = 19 /\ op # "illegal"
      /\ setValue(rd(m), AluValue(op, regs[rs1(m)], imm_I(m)))
      /\ incPC /\ UNCHANGED <<mem, csr, stopped>>

OpReg(m) ==
  LET op == AluOp(m)
  IN  /\ Op(m) = 51 /\ op # "illegal"
      /\ setValue(rd(m), AluValue(op, regs[rs1(m)], regs[rs2(m)]))
      /\ incPC /\ UNCHANGED <<mem, csr, stopped>>

LUI(m) ==
  /\ Op(m) = 55 /\ setValue(rd(m), imm_U(m))
  /\ incPC /\ UNCHANGED <<mem, csr, stopped>>

AUIPC(m) ==
  /\ Op(m) = 23 /\ setValue(rd(m), Plus(pc, imm_U(m)))
  /\ incPC /\ UNCHANGED <<mem, csr, stopped>>

JAL(m) ==
  /\ Op(m) = 111 /\ setValue(rd(m), Plus(pc, {2}))
  /\ pc' = Plus(pc, imm_J(m)) /\ UNCHANGED <<mem, csr, stopped>>

\* Mutant of JALR: the link is written before rs1 is read.
JALRLinkFirst(m) ==
  /\ Op(m) = 103 /\ setValue(rd(m), Plus(pc, {2}))
  /\ pc' = Plus(regs'[rs1(m)], imm_I(m)) \ {0} /\ UNCHANGED <<mem, csr, stopped>>

\* The target is computed before the link is written.
JALR(m) ==
  /\ Op(m) = 103 /\ setValue(rd(m), Plus(pc, {2}))
  /\ pc' = Plus(regs[rs1(m)], imm_I(m)) \ {0} /\ UNCHANGED <<mem, csr, stopped>>

Holds(f3, a, b) ==
  CASE f3 = 0 -> a = b
    [] f3 = 1 -> a # b
    [] f3 = 4 -> SignedNum(a) < SignedNum(b)
    [] f3 = 5 -> SignedNum(a) >= SignedNum(b)
    [] f3 = 6 -> Num(a) < Num(b)
    [] f3 = 7 -> Num(a) >= Num(b)

Branch(m) ==
  /\ Op(m) = 99 /\ funct3(m) \notin {2, 3}
  /\ IF Holds(funct3(m), regs[rs1(m)], regs[rs2(m)])
     THEN pc' = Plus(pc, imm_B(m))
     ELSE incPC
  /\ UNCHANGED <<regs, mem, csr, stopped>>

\* CPU::memRead and memWrite of 2^(funct3 % 4) bytes in memory that exists;
\* little-endian, as the host.
Size(m) == 2 ^ (funct3(m) % 4)
memRead(a, n) ==
  UNION {Shl(mem[a + k], k * ByteBits, Width) : k \in 0 .. n - 1}
memWrite(a, v, n) ==
  mem' = [c \in Cells |-> IF c \in a .. a + n - 1
                          THEN Mask(Shr(v, (c - a) * ByteBits), ByteBits)
                          ELSE mem[c]]

\* (int8_t) and (int16_t), unlike (uint8_t) and (uint16_t), copy the top bit.
Loaded(m, v) ==
  LET top == ByteBits * Size(m) - 1
  IN  IF funct3(m) < 4 /\ top \in v THEN v \cup top .. Width - 1 ELSE v

Load(m) ==
  LET a == Num(Plus(regs[rs1(m)], imm_I(m)))
  IN  /\ Op(m) = 3 /\ funct3(m) \notin {3, 6, 7}
      /\ a .. a + Size(m) - 1 \subseteq Cells
      /\ setValue(rd(m), Loaded(m, memRead(a, Size(m))))
      /\ incPC /\ UNCHANGED <<mem, csr, stopped>>

Store(m) ==
  LET a == Num(Plus(regs[rs1(m)], imm_S(m)))
  IN  /\ Op(m) = 35 /\ funct3(m) < 3
      /\ a .. a + Size(m) - 1 \subseteq Cells
      /\ memWrite(a, regs[rs2(m)], Size(m))
      /\ incPC /\ UNCHANGED <<regs, csr, stopped>>

\* CSR::read and CSR::write.
csrRead(c) == IF c \in Csrs THEN csr[c] ELSE {}
csrWrite(c, v) ==
  csr' = [d \in Csrs |->
            IF d # c THEN csr[d]
            ELSE IF d \in DOMAIN Masked
                 THEN (csr[d] \ Masked[d]) \cup (v \cap Masked[d])
                 ELSE v]

\* CSRRW, CSRRS, CSRRC and, with funct3 bit 2, the forms whose rs1 is the value.
CsrOp(m) ==
  LET old  == csrRead(op12(m))
      zimm == funct3(m) >= 4
      v    == IF zimm THEN FromNum(rs1(m)) ELSE regs[rs1(m)]
  IN  /\ Op(m) = 115 /\ funct3(m) \notin {0, 4}
      /\ CASE funct3(m) % 4 = 1 -> csrWrite(op12(m), v)
           [] rs1(m) = 0        -> UNCHANGED csr
           [] funct3(m) % 4 = 2 -> csrWrite(op12(m), old \cup v)
           [] OTHER             -> csrWrite(op12(m), old \ v)
      /\ setValue(rd(m), old)
      /\ incPC /\ UNCHANGED <<mem, stopped>>

MRET(m) ==
  LET ms == csrRead(768)
  IN  /\ Op(m) = 115 /\ funct3(m) = 0 /\ op12(m) = 770
      /\ csrWrite(768, (ms \ {3, 7}) \cup (IF 7 \in ms THEN {3} ELSE {}) \cup {7})
      /\ pc' = csrRead(833) /\ UNCHANGED <<regs, mem, stopped>>

\* The thread leaves its loop before it moves the pc.
ECALL(m) ==
  /\ Op(m) = 115 /\ funct3(m) = 0 /\ op12(m) = 0
  /\ stopped' = TRUE /\ UNCHANGED <<pc, regs, mem, csr>>

FENCE(m) == Op(m) = 15 /\ incPC /\ UNCHANGED <<regs, mem, csr, stopped>>

\* What no case of the decoder takes is reported, and passed.
Illegal(m) ==
  /\ \/ Op(m) \notin {3, 15, 19, 23, 35, 51, 55, 99, 103, 111, 115}
     \/ Op(m) \in {19, 51} /\ AluOp(m) = "illegal"
     \/ Op(m) = 99  /\ funct3(m) \in {2, 3}
     \/ Op(m) = 3   /\ funct3(m) \in {3, 6, 7}
     \/ Op(m) = 35  /\ funct3(m) >= 3
     \/ Op(m) = 115 /\ (funct3(m) = 4 \/ (funct3(m) = 0 /\ op12(m) \notin {0, 770}))
  /\ incPC /\ UNCHANGED <<regs, mem, csr, stopped>>

execute(m) ==
  \/ LUI(m) \/ AUIPC(m) \/ JAL(m) \/ JALR(m) \/ Branch(m) \/ Load(m) \/ Store(m)
  \/ OpImm(m) \/ OpReg(m) \/ FENCE(m) \/ ECALL(m) \/ MRET(m) \/ CsrOp(m) \/ Illegal(m)

Init ==
  /\ pc = Start /\ regs = [r \in Reg |-> IF r = 2 THEN StackTop ELSE {}]
  /\ mem = [a \in Cells |-> {}] /\ csr = [c \in Csrs |-> {}]
  /\ stopped = FALSE /\ step = 0 /\ ir = [kind |-> "none"]

\* CPU_thread with the word that the assembler has made of an instruction.
Next ==
  /\ ~stopped /\ step < Steps
  /\ step' = step + 1
  /\ \E i \in Program[step + 1] : ir' = i /\ execute(Encode(i))

Spec == Init /\ [][Next]_vars

\* Every instruction of an arbitrary program does to the registers, the pc,
\* memory and CSRs what RV32I and Zicsr promise of it: the encodings, the
\* immediates and their signs, the order of reads and writes when registers
\* coincide, x0, wrap-around.
R == INSTANCE RiscV
       WITH pc <- Num(pc), x <- [r \in Reg |-> Num(regs[r])],
            mem <- [a \in Cells |-> Num(mem[a])],
            csr <- [c \in Csrs |-> Num(csr[c])],
            Masked <- [c \in DOMAIN Masked |-> Num(Masked[c])],
            Start <- Num(Start), StackTop <- Num(StackTop), halted <- stopped
RvSpec == R!Spec
=============================================================================
