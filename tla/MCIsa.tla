------------------------------- MODULE MCIsa -------------------------------
(***************************************************************************)
(* Isa on small instances: bytes of seven bits, so that sums of words fit  *)
(* TLC's integers; two free registers beside x0 and sp; four instructions. *)
(* Two set registers to values at the ends of the ranges, the third is any *)
(* instruction, and the last one looks at what it left.                    *)
(***************************************************************************)
EXTENDS Isa, TLC

MCSp == 8388608
MCStart == {27}
MCStackTop == {23}
MCCells == MCSp - 4 .. MCSp + 3
MCCsrs == {768, 772, 773, 832, 833, 834}
MCMasked == (768 :> {3, 7, 11, 12}) @@ (772 :> {3, 7, 11}) @@ (834 :> {})

AluOps == {"add", "sub", "sll", "slt", "sltu", "xor", "srl", "sra", "or", "and"}
Li(d, n) == [kind |-> "alui", op |-> "add", rd |-> d, rs1 |-> 0, imm |-> n]
Lui(d, n) == [kind |-> "lui", rd |-> d, imm |-> n]

Values(d) == {Li(d, n) : n \in {-2048, -1, 3, 2047}} \cup {Lui(d, 32768)}

\* Registers that coincide with each other or with x0, and those that do not.
Dsts == {0, 1, 3}
Immediates == {[kind |-> "alui", op |-> o, rd |-> d, rs1 |-> 1, imm |-> n] :
                 o \in AluOps \ {"sub", "sll", "srl", "sra"}, d \in {0, 1},
                 n \in {-2048, 5}}
              \cup {[kind |-> "alui", op |-> o, rd |-> 1, rs1 |-> 1, imm |-> n] :
                      o \in {"sll", "srl", "sra"}, n \in {0, 1, 27, 31}}
RegisterOps == {[kind |-> "alu", op |-> o, rd |-> d, rs1 |-> 1, rs2 |-> 3] :
                  o \in AluOps, d \in Dsts}
Uppers == {Lui(d, n) : d \in {0, 1}, n \in {1, 65535}}
          \cup {[kind |-> "auipc", rd |-> 1, imm |-> n] : n \in {1, 65535}}
Jumps == {[kind |-> "jal", rd |-> d, imm |-> n] :
            d \in {0, 1}, n \in {-1048576, -2, 2048, 1046526}}
         \cup {[kind |-> "jalr", rd |-> d, rs1 |-> 1, imm |-> n] :
                 d \in Dsts, n \in {-1, 4}}
Branches == {[kind |-> "branch", op |-> o, rs1 |-> 1, rs2 |-> 3, imm |-> n] :
               o \in {"eq", "ne", "lt", "ge", "ltu", "geu"},
               n \in {-4096, 2046, 2048}}
Loads == {[kind |-> "load", rd |-> d, rs1 |-> 2, imm |-> n, bytes |-> b,
           signed |-> s] : d \in {0, 1}, n \in {-4, 0}, b \in {1, 2, 4}, s \in {TRUE}}
         \cup {[kind |-> "load", rd |-> 2, rs1 |-> 2, imm |-> 1, bytes |-> b,
                signed |-> FALSE] : b \in {1, 2}}
Stores(offsets) == {[kind |-> "store", rs1 |-> 2, rs2 |-> r, imm |-> n, bytes |-> b] :
                      r \in {1, 2}, n \in offsets, b \in {1, 2, 4}}
CsrOps == {[kind |-> "csr", op |-> o, rd |-> d, rs1 |-> r, csr |-> c, zimm |-> -1] :
             o \in {"rw", "rs", "rc"}, d \in {0, 1}, r \in {0, 1}, c \in {768, 833, 834}}
          \cup {[kind |-> "csr", op |-> o, rd |-> 1, rs1 |-> 0, csr |-> c, zimm |-> n] :
                  o \in {"rw", "rs", "rc"}, c \in {772, 3860}, n \in {0, 8, 31}}
Others == {[kind |-> "fence"], [kind |-> "ecall"], [kind |-> "mret"]}
          \cup {[kind |-> "illegal", word |-> w] :
                  w \in {{}, {0, 1, 4, 5, 6, 20}, {0, 1, 4, 5, 12, 14, 25}}}

Third == Immediates \cup RegisterOps \cup Uppers \cup Jumps \cup Branches \cup Loads
       \cup Stores({0}) \cup CsrOps \cup Others
Looks == Loads \cup Stores({1}) \cup {[kind |-> "mret"]}
         \cup {[kind |-> "csr", op |-> "rs", rd |-> 3, rs1 |-> 1, csr |-> c,
                zimm |-> -1] : c \in MCCsrs}
         \cup {[kind |-> "jalr", rd |-> d, rs1 |-> d, imm |-> 3] : d \in {1, 3}}
         \cup {[kind |-> "alu", op |-> o, rd |-> 3, rs1 |-> 3, rs2 |-> 1] :
                 o \in {"sub", "slt", "sltu", "sra"}}

MCProgram == <<Values(1), Values(3), Third, Looks>>

\* Two words 32 bytes apart, and stores to the second of them.
MCStoreCells == MCSp .. MCSp + 3 \cup MCSp + 32 .. MCSp + 35
MCStoreProgram == <<Values(1), Stores({0, 32})>>
=============================================================================
