--------------------------- MODULE RiscVEncoding ---------------------------
(***************************************************************************)
(* The assembler: the words that the RISC-V manual gives to the            *)
(* instructions of RiscV, as sets of the positions of bits that are set.   *)
(***************************************************************************)
EXTENDS Integers

\* Bits hi down to lo of a number, in two's complement, put at a position.
Put(n, hi, lo, at) ==
  {k - lo + at : k \in {k \in lo .. hi : (n \div 2 ^ k) % 2 = 1}}

Funct3 == [add |-> 0, sub |-> 0, sll |-> 1, slt |-> 2, sltu |-> 3, xor |-> 4,
           srl |-> 5, sra |-> 5, or |-> 6, and |-> 7,
           eq |-> 0, ne |-> 1, lt |-> 4, ge |-> 5, ltu |-> 6, geu |-> 7,
           rw |-> 1, rs |-> 2, rc |-> 3]
SizeCode(bytes) == CASE bytes = 1 -> 0 [] bytes = 2 -> 1 [] bytes = 4 -> 2

Opcode(n)  == Put(n, 6, 0, 0)
Rd(i)      == Put(i.rd, 4, 0, 7)
F3(n)      == Put(n, 2, 0, 12)
Rs1(i)     == Put(i.rs1, 4, 0, 15)
Rs2(i)     == Put(i.rs2, 4, 0, 20)
ITypeImm(n) == Put(n, 11, 0, 20)
Alternate(i) == IF i.op \in {"sub", "sra"} THEN {30} ELSE {}

Encode(i) ==
  CASE i.kind = "alu"    -> Opcode(51) \cup Rd(i) \cup F3(Funct3[i.op]) \cup Rs1(i)
                            \cup Rs2(i) \cup Alternate(i)
    [] i.kind = "alui"   -> Opcode(19) \cup Rd(i) \cup F3(Funct3[i.op]) \cup Rs1(i)
                            \cup ITypeImm(i.imm) \cup Alternate(i)
    [] i.kind = "lui"    -> Opcode(55) \cup Rd(i) \cup Put(i.imm, 19, 0, 12)
    [] i.kind = "auipc"  -> Opcode(23) \cup Rd(i) \cup Put(i.imm, 19, 0, 12)
    [] i.kind = "jal"    -> Opcode(111) \cup Rd(i)
                            \cup Put(i.imm, 20, 20, 31) \cup Put(i.imm, 10, 1, 21)
                            \cup Put(i.imm, 11, 11, 20) \cup Put(i.imm, 19, 12, 12)
    [] i.kind = "jalr"   -> Opcode(103) \cup Rd(i) \cup Rs1(i) \cup ITypeImm(i.imm)
    [] i.kind = "branch" -> Opcode(99) \cup F3(Funct3[i.op]) \cup Rs1(i) \cup Rs2(i)
                            \cup Put(i.imm, 12, 12, 31) \cup Put(i.imm, 10, 5, 25)
                            \cup Put(i.imm, 4, 1, 8) \cup Put(i.imm, 11, 11, 7)
    [] i.kind = "load"   -> Opcode(3) \cup Rd(i) \cup Rs1(i) \cup ITypeImm(i.imm)
                            \cup F3(SizeCode(i.bytes) + IF i.signed THEN 0 ELSE 4)
    [] i.kind = "store"  -> Opcode(35) \cup F3(SizeCode(i.bytes)) \cup Rs1(i)
                            \cup Rs2(i) \cup Put(i.imm, 11, 5, 25)
                            \cup Put(i.imm, 4, 0, 7)
    [] i.kind = "csr"    -> Opcode(115) \cup Rd(i) \cup ITypeImm(i.csr)
                            \cup IF i.zimm >= 0
                                 THEN F3(Funct3[i.op] + 4) \cup Put(i.zimm, 4, 0, 15)
                                 ELSE F3(Funct3[i.op]) \cup Rs1(i)
    [] i.kind = "fence"  -> Opcode(15)
    [] i.kind = "ecall"  -> Opcode(115)
    [] i.kind = "mret"   -> Opcode(115) \cup ITypeImm(770)
    [] i.kind = "illegal" -> i.word
=============================================================================
