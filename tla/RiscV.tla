------------------------------- MODULE RiscV -------------------------------
(***************************************************************************)
(* What an assembler programmer is promised by RV32I and Zicsr:            *)
(* instructions on integers, without encodings.  Isa is shown to implement *)
(* this.  A word has four bytes, whose width is a parameter, as that of    *)
(* the immediates is not.  The program is arbitrary; the promise of this   *)
(* machine for an instruction that does not exist is to step over it.      *)
(***************************************************************************)
EXTENDS Integers, FiniteSetsExt

CONSTANTS
  ByteBits,           \* 8
  Reg,                \* the registers in use, 0 among them
  Cells,              \* the byte addresses in use
  Csrs, Masked,       \* CSRs in use; those of which only some bits are written
  Start, StackTop,    \* the first pc, and sp at reset
  Steps, Program      \* bound: Program[n] are the choices for step n

VARIABLES
  pc, x, mem,         \* [Reg -> word], [Cells -> byte]
  csr,                \* [Csrs -> word]
  step, ir, halted    \* instructions executed, the last one, ECALL met

vars == <<pc, x, mem, csr, step, ir, halted>>

Width == 4 * ByteBits
Modulus == 2 ^ Width
Wrap(n) == n % Modulus
Signed(v) == IF v >= 2 ^ (Width - 1) THEN v - Modulus ELSE v
Truth(p) == IF p THEN 1 ELSE 0

Bit(n, i) == (n \div 2 ^ i) % 2
FromBits(P(_)) == MapThenSumSet(LAMBDA i : 2 ^ i, {i \in 0 .. Width - 1 : P(i)})

\* Values of n bits, taken as signed or not.
Extended(v, n) == IF n < Width /\ Bit(v, n - 1) = 1 THEN Wrap(v - 2 ^ n) ELSE v

ShiftLeft(a, n) ==
  IF n >= Width THEN 0 ELSE (a % 2 ^ (Width - n)) * 2 ^ n
ShiftRight(a, n) ==
  IF n >= Width THEN (IF a < 0 THEN -1 ELSE 0) ELSE a \div 2 ^ n

Alu(op, a, b) ==
  CASE op = "add"  -> Wrap(a + b)
    [] op = "sub"  -> Wrap(a - b)
    [] op = "slt"  -> Truth(Signed(a) < Signed(b))
    [] op = "sltu" -> Truth(a < b)
    [] op = "xor"  -> FromBits(LAMBDA i : Bit(a, i) # Bit(b, i))
    [] op = "or"   -> FromBits(LAMBDA i : Bit(a, i) + Bit(b, i) > 0)
    [] op = "and"  -> FromBits(LAMBDA i : Bit(a, i) * Bit(b, i) = 1)
    [] op = "sll"  -> ShiftLeft(a, b % 32)
    [] op = "srl"  -> ShiftRight(a, b % 32)
    [] op = "sra"  -> Wrap(ShiftRight(Signed(a), b % 32))

Compare(op, a, b) ==
  CASE op = "eq"  -> a = b
    [] op = "ne"  -> a # b
    [] op = "lt"  -> Signed(a) < Signed(b)
    [] op = "ge"  -> Signed(a) >= Signed(b)
    [] op = "ltu" -> a < b
    [] op = "geu" -> a >= b

\* Little-endian access to n bytes.
InUse(a, n) == a .. a + n - 1 \subseteq Cells
Fetched(a, n) ==
  MapThenSumSet(LAMBDA k : mem[a + k] * 2 ^ (ByteBits * k), 0 .. n - 1)
Stored(a, n, v) ==
  [c \in Cells |-> IF c \in a .. a + n - 1
                   THEN (v \div 2 ^ (ByteBits * (c - a))) % 2 ^ ByteBits
                   ELSE mem[c]]

\* The bits that exist in a CSR: MIE, MPIE and MPP of mstatus, MSIE, MTIE and
\* MEIE of mie, and none in a read-only one.
Existing(c) == IF c \in DOMAIN Masked THEN Masked[c] ELSE Modulus - 1

\* The new value of a CSR; the operand is a small immediate or a register.
Updated(i, old) ==
  LET v == IF i.zimm >= 0 THEN i.zimm ELSE x[i.rs1]
  IN  CASE i.op = "rw" -> v
        [] i.op = "rs" -> Alu("or", old, v)
        [] i.op = "rc" -> Alu("and", old, Modulus - 1 - v)

Write(r, v) == x' = IF r = 0 THEN x ELSE [x EXCEPT ![r] = v]

Init ==
  /\ pc = Start /\ x = [r \in Reg |-> IF r = 2 THEN StackTop ELSE 0]
  /\ mem = [c \in Cells |-> 0] /\ csr = [c \in Csrs |-> 0]
  /\ step = 0 /\ ir = [kind |-> "none"] /\ halted = FALSE

Go == pc' = Wrap(pc + 4)

Execute(i) ==
  \/ /\ i.kind = "alu" /\ Write(i.rd, Alu(i.op, x[i.rs1], x[i.rs2]))
     /\ Go /\ UNCHANGED <<mem, csr, halted>>
  \/ /\ i.kind = "alui" /\ Write(i.rd, Alu(i.op, x[i.rs1], Wrap(i.imm)))
     /\ Go /\ UNCHANGED <<mem, csr, halted>>
  \/ /\ i.kind = "lui" /\ Write(i.rd, Wrap(i.imm * 4096))
     /\ Go /\ UNCHANGED <<mem, csr, halted>>
  \/ /\ i.kind = "auipc" /\ Write(i.rd, Wrap(pc + i.imm * 4096))
     /\ Go /\ UNCHANGED <<mem, csr, halted>>
  \/ /\ i.kind = "jal" /\ Write(i.rd, Wrap(pc + 4))
     /\ pc' = Wrap(pc + i.imm) /\ UNCHANGED <<mem, csr, halted>>
  \/ /\ i.kind = "jalr" /\ Write(i.rd, Wrap(pc + 4))
     /\ pc' = 2 * (Wrap(x[i.rs1] + i.imm) \div 2)
     /\ UNCHANGED <<mem, csr, halted>>
  \/ /\ i.kind = "branch"
     /\ IF Compare(i.op, x[i.rs1], x[i.rs2]) THEN pc' = Wrap(pc + i.imm) ELSE Go
     /\ UNCHANGED <<x, mem, csr, halted>>
  \/ /\ i.kind = "load"
     /\ LET a == Wrap(x[i.rs1] + i.imm)
            v == Fetched(a, i.bytes)
        IN  InUse(a, i.bytes) /\
            Write(i.rd, IF i.signed THEN Extended(v, ByteBits * i.bytes) ELSE v)
     /\ Go /\ UNCHANGED <<mem, csr, halted>>
  \/ /\ i.kind = "store"
     /\ LET a == Wrap(x[i.rs1] + i.imm)
        IN  InUse(a, i.bytes) /\ mem' = Stored(a, i.bytes, x[i.rs2])
     /\ Go /\ UNCHANGED <<x, csr, halted>>
  \/ /\ i.kind = "csr" /\ Write(i.rd, IF i.csr \in Csrs THEN csr[i.csr] ELSE 0)
     /\ csr' = [c \in Csrs |-> IF c = i.csr
                               THEN Alu("and", Existing(c), Updated(i, csr[c]))
                               ELSE csr[c]]
     /\ Go /\ UNCHANGED <<mem, halted>>
  \/ /\ i.kind = "mret" /\ pc' = csr[833]
     /\ LET others == {n \in 0 .. Width - 1 \ {3, 7} : Bit(csr[768], n) = 1}
        IN  csr' = [csr EXCEPT ![768] = MapThenSumSet(LAMBDA n : 2 ^ n, others)
                                        + 2 ^ 7 + 2 ^ 3 * Bit(csr[768], 7)]
     /\ UNCHANGED <<x, mem, halted>>
  \/ i.kind \in {"fence", "illegal"} /\ Go /\ UNCHANGED <<x, mem, csr, halted>>
  \/ i.kind = "ecall" /\ halted' = TRUE /\ UNCHANGED <<pc, x, mem, csr>>

Next ==
  /\ ~halted /\ step < Steps
  /\ step' = step + 1
  /\ \E i \in Program[step + 1] : ir' = i /\ Execute(i)

Spec == Init /\ [][Next]_vars
=============================================================================
