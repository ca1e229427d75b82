------------------------------ MODULE RV32Alu -------------------------------
(***************************************************************************)
(* The value computations of the interpreter's handlers in riscv.c, each  *)
(* translated from its switch: the result a handler assigns to X[rd] (or  *)
(* the branch condition, or the value an AMO writes back), as a function  *)
(* of the decoded fields and the operand words.  C's integer semantics    *)
(* are kept: (int32_t) casts, truncating / and %, arithmetic >> on a      *)
(* signed operand, and the wrap of every assignment to a uint32_t.        *)
(* Signed overflow in ADD/ADDI/SUB/MUL is undefined in C; the build        *)
(* compiles it to a wrapping machine add/sub/imul, which is what U(...)    *)
(* gives.                                                                  *)
(***************************************************************************)
EXTENDS RV32Word

\* Seeded variant of CDiv: rounds the quotient toward minus infinity.
CDivFloor(a, b) == a \div b

\* C's / on int32_t operands truncates toward zero.
CDiv(a, b) == IF (a < 0) = (b < 0) THEN (IF a < 0 THEN -a ELSE a) \div (IF b < 0 THEN -b ELSE b)
                                    ELSE -((IF a < 0 THEN -a ELSE a) \div (IF b < 0 THEN -b ELSE b))

\* C's % takes the sign of the dividend: a == (a / b) * b + a % b.
CRem(a, b) == a - CDiv(a, b) * b

\* op_op_imm, case 5: any immediate bit outside the low five selects SRAI.
SraiSelected(imm) == WAnd(imm, Complement(XLEN - 1)) # 0

\* op_op_imm: result written to X[rd] for funct3 and the I-immediate.
OpImmResult(funct3, a, imm) ==
  CASE funct3 = 0 -> U(S(a) + imm)                                   \* ADDI
    [] funct3 = 1 -> U(a * 2^ShAmt(imm))                             \* SLLI
    [] funct3 = 2 -> IF S(a) < imm THEN 1 ELSE 0                     \* SLTI
    [] funct3 = 3 -> IF a < U(imm) THEN 1 ELSE 0                     \* SLTIU
    [] funct3 = 4 -> WXor(a, imm)                                    \* XORI
    [] funct3 = 5 -> IF SraiSelected(imm)
                       THEN U(S(a) \div 2^ShAmt(imm))                \* SRAI
                       ELSE a \div 2^ShAmt(imm)                      \* SRLI
    [] funct3 = 6 -> WOr(a, imm)                                     \* ORI
    [] funct3 = 7 -> WAnd(a, imm)                                    \* ANDI

\* RV32M: DIV and REM guard the zero divisor and INT32_MIN / -1 first.
DivResult(a, b) ==
  IF S(b) = 0 THEN AllOnes
  ELSE IF S(b) = -1 /\ a = SignBit THEN a
  ELSE U(CDiv(S(a), S(b)))

RemResult(a, b) ==
  IF S(b) = 0 THEN a
  ELSE IF S(b) = -1 /\ a = SignBit THEN 0
  ELSE U(CRem(S(a), S(b)))

\* op_op: result written to X[rd] for funct7, funct3 and both operands.
OpResult(funct7, funct3, a, b) ==
  CASE funct7 = 0 /\ funct3 = 0 -> U(S(a) + S(b))                     \* ADD
    [] funct7 = 0 /\ funct3 = 1 -> U(a * 2^ShAmt(b))                  \* SLL
    [] funct7 = 0 /\ funct3 = 2 -> IF S(a) < S(b) THEN 1 ELSE 0       \* SLT
    [] funct7 = 0 /\ funct3 = 3 -> IF a < b THEN 1 ELSE 0             \* SLTU
    [] funct7 = 0 /\ funct3 = 4 -> WXor(a, b)                         \* XOR
    [] funct7 = 0 /\ funct3 = 5 -> a \div 2^ShAmt(b)                  \* SRL
    [] funct7 = 0 /\ funct3 = 6 -> WOr(a, b)                          \* OR
    [] funct7 = 0 /\ funct3 = 7 -> WAnd(a, b)                         \* AND
    [] funct7 = 1 /\ funct3 = 0 -> U(S(a) * S(b))                     \* MUL
    [] funct7 = 1 /\ funct3 = 1 -> ((S(a) * S(b)) % (Mod * Mod)) \div Mod \* MULH
    [] funct7 = 1 /\ funct3 = 2 -> ((S(a) * b) % (Mod * Mod)) \div Mod    \* MULHSU
    [] funct7 = 1 /\ funct3 = 3 -> (a * b) \div Mod                   \* MULHU
    [] funct7 = 1 /\ funct3 = 4 -> DivResult(a, b)                    \* DIV
    [] funct7 = 1 /\ funct3 = 5 -> IF b = 0 THEN AllOnes ELSE a \div b \* DIVU
    [] funct7 = 1 /\ funct3 = 6 -> RemResult(a, b)                    \* REM
    [] funct7 = 1 /\ funct3 = 7 -> IF b = 0 THEN a ELSE a % b         \* REMU
    [] funct7 = 32 /\ funct3 = 0 -> U(S(a) - S(b))                    \* SUB
    [] funct7 = 32 /\ funct3 = 5 -> U(S(a) \div 2^ShAmt(b))           \* SRA

\* op_branch: the taken flag for funct3.
BranchTaken(funct3, a, b) ==
  CASE funct3 = 0 -> a = b                                           \* BEQ
    [] funct3 = 1 -> a # b                                           \* BNE
    [] funct3 = 4 -> S(a) < S(b)                                     \* BLT
    [] funct3 = 5 -> S(a) >= S(b)                                    \* BGE
    [] funct3 = 6 -> a < b                                           \* BLTU
    [] funct3 = 7 -> a >= b                                          \* BGEU

\* op_amo: the value an AMO hands to the write callback, from the old
\* value (already in X[rd]) and X[rs2].
AmoResult(funct5, old, b) ==
  CASE funct5 = 1  -> b                                              \* AMOSWAP.W
    [] funct5 = 0  -> U(S(old) + S(b))                               \* AMOADD.W
    [] funct5 = 4  -> WXor(old, b)                                   \* AMOXOR.W
    [] funct5 = 12 -> WAnd(old, b)                                   \* AMOAND.W
    [] funct5 = 8  -> WOr(old, b)                                    \* AMOOR.W
    [] funct5 = 16 -> IF S(old) < S(b) THEN old ELSE b               \* AMOMIN.W
    [] funct5 = 20 -> IF S(old) > S(b) THEN old ELSE b               \* AMOMAX.W
    [] funct5 = 24 -> IF old < b THEN old ELSE b                     \* AMOMINU.W
    [] funct5 = 28 -> IF old > b THEN old ELSE b                     \* AMOMAXU.W

=============================================================================
