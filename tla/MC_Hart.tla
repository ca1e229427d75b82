------------------------------ MODULE MC_Hart -------------------------------
(***************************************************************************)
(* Model-checking harness for Hart: instruction constructors in the       *)
(* decoded form of RV32Host, the programs the host serves, and the       *)
(* refinement of RV32Arch.  Registers are x0..x3 with x2 the stack        *)
(* pointer; the host backs the eight bytes 0..7 with storage.             *)
(***************************************************************************)
EXTENDS Hart, Sequences

Ins(opc, f3, f7, rd, rs1, rs2, imm, csr) ==
  [opcode |-> opc, funct3 |-> f3, funct7 |-> f7, rd |-> rd, rs1 |-> rs1,
   rs2 |-> rs2, imm |-> imm, csr |-> csr]

LOAD(f3, rd, rs1, imm)  == Ins(0, f3, 0, rd, rs1, 0, imm, 0)
STORE(f3, rs1, rs2, imm) == Ins(8, f3, 0, 0, rs1, rs2, imm, 0)
OPIMM(f3, rd, rs1, imm) == Ins(4, f3, 0, rd, rs1, 0, imm, 0)
OP(f7, f3, rd, rs1, rs2) == Ins(12, f3, f7, rd, rs1, rs2, 0, 0)
LUI(rd, imm)            == Ins(13, 0, 0, rd, 0, 0, imm, 0)
AUIPC(rd, imm)          == Ins(5, 0, 0, rd, 0, 0, imm, 0)
BRANCH(f3, rs1, rs2, imm) == Ins(24, f3, 0, 0, rs1, rs2, imm, 0)
JAL(rd, imm)            == Ins(27, 0, 0, rd, 0, 0, imm, 0)
JALR(rd, rs1, imm)      == Ins(25, 0, 0, rd, rs1, 0, imm, 0)
FENCE                   == Ins(3, 0, 0, 0, 0, 0, 0, 0)
ECALL                   == Ins(28, 0, 0, 0, 0, 0, 0, 0)
CSR(f3, rd, csr, rs1)   == Ins(28, f3, 0, rd, rs1, 0, csr, csr)
AMO(f5, rd, rs1, rs2)   == Ins(11, 2, f5 * 4, rd, rs1, rs2, 0, 0)
FSGNJ(f3, rd, rs1, rs2) == Ins(20, f3, 16, rd, rs1, rs2, 0, 0)
FP(f7, f3, rd, rs1, rs2) == Ins(20, f3, f7, rd, rs1, rs2, 0, 0)
FLW(rd, rs1, imm)       == Ins(1, 2, 0, rd, rs1, 0, imm, 0)
FSW(rs1, rs2, imm)      == Ins(9, 2, 0, 0, rs1, rs2, imm, 0)
FMA(opc, rd, rs1, rs2, rs3) == Ins(opc, 0, rs3 * 4, rd, rs1, rs2, 0, 0)

\* A program placed from address 0, one instruction every 4 bytes.
Prog(s) == [a \in {4 * (k - 1) : k \in 1 .. Len(s)} |-> s[a \div 4 + 1]]

(***************************************************************************)
(* The main program reaches every handler: loads and stores through x3,   *)
(* the INT_MIN / -1 division, a write to x0, LR/SC, CSR reads and writes, *)
(* sign injection and a +0/-0 FMIN tie, a counted-down BNE loop, a call through JAL *)
(* and a return through JALR (rd = rs1), an ECALL the host may halt on,   *)
(* and a taken branch to a misaligned target.  The AMOADD runs with       *)
(* X[x3] = 3, where the address the code uses (the rs1 index) and the one *)
(* the ISA uses (X[rs1]) coincide and the result's upper half is what     *)
(* memory already holds.                                                   *)
(***************************************************************************)
MainProg == Prog(<<
  OPIMM(0, 3, 0, 4),            \*  0 ADDI   x3, x0, 4
  LUI(1, 128),                  \*  4 LUI    x1, 0x80
  OPIMM(0, 2, 0, -1),           \*  8 ADDI   x2, x0, -1
  OP(1, 4, 1, 1, 2),            \* 12 DIV    x1, x1, x2
  OPIMM(0, 0, 1, 1),            \* 16 ADDI   x0, x1, 1
  STORE(2, 3, 1, 0),            \* 20 SW     x1, 0(x3)
  LOAD(0, 2, 3, 3),             \* 24 LB     x2, 3(x3)
  AMO(2, 1, 3, 0),              \* 28 LR.W   x1, (x3)
  AMO(3, 0, 3, 2),              \* 32 SC.W   x0, x2, (x3)
  CSR(2, 1, 3072, 0),           \* 36 CSRRS  x1, cycle, x0
  CSR(1, 0, 768, 0),            \* 40 CSRRW  x0, mstatus, x0
  FSGNJ(1, 1, 0, 0),            \* 44 FSGNJN f1, f0, f0
  FP(20, 0, 2, 0, 1),           \* 48 FMIN.S f2, f0, f1
  FENCE,                        \* 52 FENCE
  OPIMM(0, 3, 0, 3),            \* 56 ADDI   x3, x0, 3
  OPIMM(0, 2, 0, 1),            \* 60 ADDI   x2, x0, 1
  AMO(0, 1, 3, 2),              \* 64 AMOADD x1, x2, (x3)
  CSR(6, 0, 768, 1),            \* 68 CSRRSI x0, mstatus, 1
  OPIMM(0, 2, 0, 2),            \* 72 ADDI   x2, x0, 2
  OPIMM(0, 2, 2, -1),           \* 76 ADDI   x2, x2, -1
  BRANCH(1, 2, 0, -4),          \* 80 BNE    x2, x0, -4
  AUIPC(1, 0),                  \* 84 AUIPC  x1, 0
  JAL(1, 12),                   \* 88 JAL    x1, +12
  ECALL,                        \* 92 ECALL
  BRANCH(0, 0, 0, 6),           \* 96 BEQ    x0, x0, +6
  JALR(1, 1, 0)                 \*100 JALR   x1, 0(x1)
>>)

\* A jump to itself: rv_step's loop only ends by the handler's break.
SpinProg == Prog(<< JAL(0, 0) >>)

\* FLE.S with rd = x0: +0 <= +0 writes 1.
FpX0Prog == Prog(<< FP(80, 0, 0, 0, 0) >>)

(***************************************************************************)
(* The RV32F handlers on the values where host floats are delicate, in    *)
(* the E5M2 format of the 8-bit model: x1 = 0xFD is a signaling NaN moved *)
(* into f1, FMIN of it and -3.0 may give -3.0 or a quiet NaN, which then   *)
(* goes through FSW/FLW, a comparison and FCVT.W.S; -3.0 converted to     *)
(* unsigned and 192.0 to signed are out of range; -56 and 200 convert     *)
(* exactly.                                                                *)
(***************************************************************************)
FpProg == Prog(<<
  OPIMM(0, 1, 0, -3),           \*  0 ADDI      x1, x0, -3
  FP(120, 0, 1, 1, 0),          \*  4 FMV.W.X   f1, x1
  FP(104, 0, 2, 1, 0),          \*  8 FCVT.S.W  f2, x1
  FP(20, 0, 3, 1, 2),           \* 12 FMIN.S    f3, f1, f2
  FP(80, 1, 2, 2, 3),           \* 16 FLT.S     x2, f2, f3
  FSW(0, 3, 0),                 \* 20 FSW       f3, 0(x0)
  FLW(0, 0, 0),                 \* 24 FLW       f0, 0(x0)
  FP(80, 2, 3, 0, 3),           \* 28 FEQ.S     x3, f0, f3
  FP(96, 0, 2, 3, 0),           \* 32 FCVT.W.S  x2, f3
  FP(96, 0, 3, 2, 1),           \* 36 FCVT.WU.S x3, f2
  OPIMM(0, 1, 0, -56),          \* 40 ADDI      x1, x0, -56
  FP(104, 0, 1, 1, 1),          \* 44 FCVT.S.WU f1, x1
  FP(104, 0, 0, 1, 0),          \* 48 FCVT.S.W  f0, x1
  FP(96, 0, 2, 1, 0),           \* 52 FCVT.W.S  x2, f1
  FP(20, 1, 3, 1, 2),           \* 56 FMAX.S    f3, f1, f2
  FP(80, 0, 3, 3, 1),           \* 60 FLE.S     x3, f3, f1
  FP(16, 2, 3, 3, 2),           \* 64 FSGNJX.S  f3, f3, f2
  FP(112, 0, 1, 3, 0),          \* 68 FMV.X.W   x1, f3
  JAL(0, -72)                   \* 72 JAL       x0, -72
>>)

(***************************************************************************)
(* The host arithmetic of op_fp and the fused handlers in E5M2: 3 * -24    *)
(* is a tie that rounds to even (-64), sqrt(3) and 3 + 1.75 round, x - x  *)
(* gives +0, the square root of a negative number gives the default NaN,  *)
(* which FMADD propagates; the other three fused forms run on finite      *)
(* values.                                                                 *)
(***************************************************************************)
FpArithProg == Prog(<<
  OPIMM(0, 1, 0, 3),            \*  0 ADDI      x1, x0, 3
  FP(104, 0, 1, 1, 0),          \*  4 FCVT.S.W  f1, x1
  OPIMM(0, 1, 0, -24),          \*  8 ADDI      x1, x0, -24
  FP(104, 0, 2, 1, 0),          \* 12 FCVT.S.W  f2, x1
  FP(8, 0, 3, 1, 2),            \* 16 FMUL.S    f3, f1, f2
  FP(12, 0, 0, 1, 3),           \* 20 FDIV.S    f0, f1, f3
  FP(44, 0, 2, 1, 0),           \* 24 FSQRT.S   f2, f1
  FP(0, 0, 1, 1, 2),            \* 28 FADD.S    f1, f1, f2
  FP(4, 0, 3, 3, 3),            \* 32 FSUB.S    f3, f3, f3
  FP(44, 0, 0, 0, 0),           \* 36 FSQRT.S   f0, f0
  FMA(16, 1, 1, 2, 0),          \* 40 FMADD.S   f1, f1, f2, f0
  FMA(17, 3, 2, 2, 3),          \* 44 FMSUB.S   f3, f2, f2, f3
  FMA(18, 2, 3, 2, 3),          \* 48 FNMSUB.S  f2, f3, f2, f3
  FMA(19, 0, 2, 2, 2),          \* 52 FNMADD.S  f0, f2, f2, f2
  JAL(0, -56)                   \* 56 JAL       x0, -56
>>)

\* AMOADD.W through a register holding an address of the window.
AmoProg == Prog(<< OPIMM(0, 3, 0, 4), OPIMM(0, 1, 0, 5), AMO(0, 2, 3, 1) >>)

\* CSRRW mstatus from x1 = 5.
CsrProg == Prog(<< OPIMM(0, 1, 0, 5), CSR(1, 0, 768, 1) >>)

(***************************************************************************)
(* A host whose on_ecall may call rv_reset(12): the hart resumes at 16,   *)
(* the JAL that ends the rv_step.  x1 counts the passes, the ADDI writes  *)
(* x0, and the store puts x1 in memory, which the reset leaves alone.     *)
(***************************************************************************)
CallbackProg == Prog(<<
  OPIMM(0, 1, 1, 1),            \*  0 ADDI   x1, x1, 1
  OPIMM(0, 0, 1, 1),            \*  4 ADDI   x0, x1, 1
  STORE(2, 0, 1, 4),            \*  8 SW     x1, 4(x0)
  ECALL,                        \* 12 ECALL
  JAL(0, -16)                   \* 16 JAL    x0, -16
>>)

MainPrograms == {MainProg, SpinProg, FpProg, FpArithProg}
SpinPrograms == {SpinProg}
CallbackPrograms == {CallbackProg}
AmoPrograms  == {AmoProg}
CsrPrograms  == {CsrProg}
FpX0Programs == {FpX0Prog}

\* rv_reset addresses including one that is not 4-byte aligned.
MisalignedResetPCs == {0, 2}

\* rv_step arguments including a negative budget.
NegStepArgs == {-1, 1}

ZeroMem == {[a \in MemAddrs |-> 0]}
Window  == 0 .. 7

Arch == INSTANCE RV32Arch

(***************************************************************************)
(* Every behaviour of the interpreter, seen through the hart state the    *)
(* host can observe (registers, PC, memory, mstatus, the exception latch), *)
(* is a behaviour of the RISC-V machine of RV32Arch: each handler does    *)
(* what its instruction means, rv_reset resets, and rv_step's bookkeeping *)
(* changes nothing the ISA defines.                                        *)
(***************************************************************************)
ImplementsArch == Arch!ArchSpec

=============================================================================
