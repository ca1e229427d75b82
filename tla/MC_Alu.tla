------------------------------- MODULE MC_Alu -------------------------------
(***************************************************************************)
(* Exhaustive check of the interpreter's value computations (RV32Alu)     *)
(* against the reference semantics (RV32Isa) for every operation of       *)
(* OP-IMM, OP (RV32I and RV32M), BRANCH and the AMO combine step, over     *)
(* every pair of operand words at the configured width, and of op_fp's    *)
(* host arithmetic (RV32Float) against the IEEE-754 reference (FloatRef)  *)
(* over a sample of float operands.  Each step picks an operation and     *)
(* operands and records a value the code may compute; the invariant       *)
(* checks that the reference allows it.                                    *)
(***************************************************************************)
EXTENDS RV32Alu, FloatRef

Isa == INSTANCE RV32Isa

\* Operations: <<group, funct7 or funct5, funct3>> of every encoded case.
OpImmOps  == {<<"opimm", 0, f3>> : f3 \in 0 .. 7}
OpOps     == {<<"op", f7, f3>> : f7 \in {0, 1}, f3 \in 0 .. 7}
             \cup {<<"op", 32, 0>>, <<"op", 32, 5>>}
BranchOps == {<<"branch", 0, f3>> : f3 \in {0, 1, 4, 5, 6, 7}}
AmoOps    == {<<"amo", f5, 2>> : f5 \in {0, 1, 4, 8, 12, 16, 20, 24, 28}}
Ops == OpImmOps \cup OpOps \cup BranchOps \cup AmoOps
\* FADD.S, FSUB.S, FMUL.S, FDIV.S, FSQRT.S by funct7.
FpOps     == {<<"fp", f7, 0>> : f7 \in {0, 4, 8, 12, 44}}
\* FLE.S, FLT.S, FEQ.S by funct3; FCVT.S.W and FCVT.S.WU by rs2.
FCmpOps   == {<<"fcmp", 80, f3>> : f3 \in 0 .. 2}
FCvtOps   == {<<"fcvt", 104, rs2>> : rs2 \in 0 .. 1}

\* For OP-IMM the second operand is the sign-extended immediate.
CodeValue(op, a, b) ==
  CASE op[1] = "opimm"  -> OpImmResult(op[3], a, S(b))
    [] op[1] = "op"     -> OpResult(op[2], op[3], a, b)
    [] op[1] = "branch" -> IF BranchTaken(op[3], a, b) THEN 1 ELSE 0
    [] op[1] = "amo"    -> AmoResult(op[2], a, b)
    [] op[1] = "fcmp"   -> IF CASE op[3] = 2 -> FEq(a, b)
                                [] op[3] = 1 -> FLt(a, b)
                                [] op[3] = 0 -> FLe(a, b) THEN 1 ELSE 0
    [] op[1] = "fcvt"   -> RoundToFloat(IF op[3] = 0 THEN S(a) ELSE a)

\* The values the handler may produce: the host arithmetic may return
\* either operand's NaN, so a float operation gives a set.
CodeValues(op, a, b) ==
  CASE op[1] # "fp" -> {CodeValue(op, a, b)}
    [] op[2] = 0    -> FAddSub(FALSE, a, b)
    [] op[2] = 4    -> FAddSub(TRUE, a, b)
    [] op[2] = 8    -> FMul(a, b)
    [] op[2] = 12   -> FDiv(a, b)
    [] op[2] = 44   -> FSqrt(a)

RefValue(op, a, b) ==
  CASE op[1] = "opimm"  -> Isa!IsaOpImm(op[3], a, S(b))
    [] op[1] = "op"     -> Isa!IsaOp(op[2], op[3], a, b)
    [] op[1] = "branch" -> IF Isa!IsaBranch(op[3], a, b) THEN 1 ELSE 0
    [] op[1] = "amo"    -> Isa!IsaAmo(op[2], a, b)
    [] op[1] = "fcmp"   -> IF /\ ~IsNaN(a) /\ ~IsNaN(b)
                             /\ RefCmp(a, b) \in CASE op[3] = 2 -> {0}
                                                 [] op[3] = 1 -> {-1}
                                                 [] op[3] = 0 -> {-1, 0}
                          THEN 1 ELSE 0
    [] op[1] = "fcvt"   -> RefFromInt(IF op[3] = 0 THEN S(a) ELSE a)

RefValues(op, a, b) ==
  CASE op[1] # "fp" -> {RefValue(op, a, b)}
    [] op[2] = 0    -> RefAdd(a, b)
    [] op[2] = 4    -> RefSub(a, b)
    [] op[2] = 8    -> RefMul(a, b)
    [] op[2] = 12   -> RefDiv(a, b)
    [] op[2] = 44   -> RefSqrt(a)

\* The operand words tried (all of Word, or its boundary values), and the
\* float operands.
CONSTANT Operands, FpOperands

ASSUME Operands \subseteq Word /\ FpOperands \subseteq Word

AllWords == Word

\* Both signs of the subnormals and zeros, the smallest normals, the
\* binades around 1.0, the largest finite binades, the infinities and
\* every NaN, each with all four fractions.
FpSample == {f \in Word : FExpn(f) \in {0, 1, 2, 14, 15, 16, 17, 28, 29, 30, 31}}

\* The reference aligns the two addends exactly; the sum stays within TLC's
\* integers unless a subnormal or zero meets the top binade (29 binades
\* apart).
RefAddInRange(a, b) ==
  \/ IsNaN(a) \/ IsInf(a) \/ IsNaN(b) \/ IsInf(b)
  \/ ExpOf(a) - ExpOf(b) \in -28 .. 28

VARIABLES op, a, b, res

vars == <<op, a, b, res>>

NotComputed == -1

Init == /\ \/ op \in Ops \cup FCmpOps /\ a \in Operands /\ b \in Operands
           \/ op \in FCvtOps /\ a \in Operands /\ b = 0
           \/ /\ op \in FpOps
              /\ a \in FpOperands
              /\ b \in IF op[2] = 44 THEN {0} ELSE FpOperands
              /\ op[2] \in {0, 4} => RefAddInRange(a, b)
        /\ res = NotComputed

\* One handler evaluation; the harness stops once the value is recorded.
Execute == /\ res = NotComputed
           /\ \E v \in CodeValues(op, a, b) : res' = v
           /\ UNCHANGED <<op, a, b>>

Next == Execute

Spec == Init /\ [][Next]_vars

(***************************************************************************)
(* Every value the interpreter's handlers compute (ADDI..ANDI, ADD..AND,  *)
(* MUL..REMU, SUB, SRA, the six branch conditions and the nine AMO        *)
(* combine steps of op_op_imm, op_op, op_branch and op_amo) equals the    *)
(* RISC-V reference value, including the divide-by-zero and INT32_MIN/-1 *)
(* cases, signed/unsigned compares and shift-amount masking; and every   *)
(* value op_fp's FADD.S..FSQRT.S may leave in F[rd] is the correctly      *)
(* rounded IEEE result (nearest, ties to even, through subnormals and     *)
(* overflow), with the IEEE signed zeros, infinities and a quiet NaN;    *)
(* FEQ/FLT/FLE.S order the floats by value (both zeros equal, false on a  *)
(* NaN), and FCVT.S.W[U] round every integer to the nearest float, ties  *)
(* to even.                                                                *)
(***************************************************************************)
AluMatchesIsa == res # NotComputed => res \in RefValues(op, a, b)

=============================================================================
