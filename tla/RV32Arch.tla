------------------------------ MODULE RV32Arch ------------------------------
(***************************************************************************)
(* What the hart promises its host (spec sections 3, 4.3 to 4.7, 6): a    *)
(* machine that executes the instruction at PC atomically, per the RISC-V  *)
(* semantics, until the exception latch is set, and that rv_reset puts    *)
(* back in its reset state.  It says nothing of rv_step's cycle budget or  *)
(* of the cycle counter (a read of cycle/cycleh may return any word):      *)
(* those are stated as properties of the Hart module.  The interpreter is  *)
(* shown to implement this specification under the identity mapping on    *)
(* the shared variables, the rv_step bookkeeping being stuttering.         *)
(***************************************************************************)
EXTENDS RV32Isa, RV32Host, FloatRef

CONSTANTS Programs, InitMems, ResetPCs, CallbackResetPCs

VARIABLES prog, mem, X, F, PC, csr_mstatus, exception

archVars == <<prog, mem, X, F, PC, csr_mstatus, exception>>

ArchInit ==
  /\ prog \in Programs /\ mem \in InitMems
  /\ X = ResetX /\ F = [r \in Regs |-> 0] /\ PC = 0
  /\ csr_mstatus = 0 /\ exception = ExcNone

\* Writes to x0 are discarded.
SetReg(rd, v) == IF rd = 0 THEN X ELSE [X EXCEPT ![rd] = v]

\* Control transfer to t; a target that is not 4-byte aligned raises.
JumpTo(t) == /\ PC' = t
             /\ exception' = IF t % 4 = 0 THEN exception ELSE ExcMisaligned

Seq4 == PC' = (PC + 4) % Mod

IsaLoad(funct3, a) ==
  CASE funct3 = 0 -> IsaSext(ReadB(mem, a), ByteMod)
    [] funct3 = 1 -> IsaSext(ReadS(mem, a), HalfMod)
    [] funct3 = 2 -> ReadW(mem, a)
    [] funct3 = 4 -> ReadB(mem, a)
    [] funct3 = 5 -> ReadS(mem, a)

\* The value a CSR read returns: any word for the cycle counter, the live
\* mstatus, zero for fcsr and for unknown indices.
CsrReadable(csr) ==
  IF csr \in {3072, 3200} THEN Word
  ELSE {IF csr = 768 THEN csr_mstatus ELSE 0}

\* CSRRW/CSRRS/CSRRC with source X[rs1]; only mstatus is writable.
CsrWrite(funct3, csr, v) ==
  IF csr # 768 THEN csr_mstatus
  ELSE CASE funct3 = 1 -> v
         [] funct3 = 2 -> csr_mstatus | v
         [] funct3 = 3 -> csr_mstatus & (AllOnes - v)

(***************************************************************************)
(* RV32F per spec 4.7, on the IEEE fields of the float word.              *)
(***************************************************************************)
\* IEEE comparison: "un" when either is a NaN, zeros equal, otherwise by
\* sign, then by (exponent, fraction), reversed for negatives.
IsaFCmp(a, b) ==
  LET zero(f) == FExpn(f) = 0 /\ FFrac(f) = 0
      magLt(x, y) == \/ FExpn(x) < FExpn(y)
                     \/ FExpn(x) = FExpn(y) /\ FFrac(x) < FFrac(y) IN
  CASE IsNaN(a) \/ IsNaN(b)          -> "un"
    [] (zero(a) /\ zero(b)) \/ a = b -> "eq"
    [] FSign(a) # FSign(b)           -> IF FSign(a) = 1 THEN "lt" ELSE "gt"
    [] FSign(a) = 0                  -> IF magLt(a, b) THEN "lt" ELSE "gt"
    [] OTHER                         -> IF magLt(b, a) THEN "lt" ELSE "gt"

\* The host's fmin/fmax (IEEE 754-2008 minNum/maxNum): a NaN operand is
\* ignored unless signaling, two NaNs give a NaN, +0 and -0 tie.
IsaMinMax(isMax, a, b) ==
  LET nans == {f \in Word : IsNaN(f)}
      quietNaN(f) == IsNaN(f) /\ FFrac(f) >= QuietBit IN
  CASE IsNaN(a) /\ IsNaN(b) -> nans
    [] IsNaN(a) -> IF quietNaN(a) THEN {b} ELSE {b} \cup nans
    [] IsNaN(b) -> IF quietNaN(b) THEN {a} ELSE {a} \cup nans
    [] IsaFCmp(a, b) = "eq" -> {a, b}
    [] OTHER -> {IF (IsaFCmp(a, b) = "lt") = isMax THEN b ELSE a}

\* FCVT.W.S / FCVT.WU.S truncate toward zero; the specification does not
\* say what an out-of-range value, an infinity or a NaN converts to.
IsaCvtToInt(signed, f) ==
  LET e   == IF FExpn(f) = 0 THEN 1 ELSE FExpn(f)
      sig == (IF FExpn(f) = 0 THEN 0 ELSE FracMod) + FFrac(f)
      sh  == e - Bias - FracW
      mag == IF sh >= 0 THEN sig * 2^sh ELSE sig \div 2^(-sh)
      n   == IF FSign(f) = 1 THEN -mag ELSE mag
      ok  == IF signed THEN -SignBit <= n /\ n < SignBit ELSE 0 <= n /\ n < Mod IN
  IF FExpn(f) # ExpMax /\ ok THEN {n % Mod} ELSE Word

\* FCVT.S.W / FCVT.S.WU truncate toward zero: the largest float not above
\* |n| in magnitude, with the sign of n.
IsaCvtToFloat(n) ==
  LET a == IF n < 0 THEN -n ELSE n
      k == CHOOSE j \in 0 .. XLEN : 2^j <= a /\ a < 2^(j + 1) IN
  IF a = 0 THEN 0
  ELSE (IF n < 0 THEN SignBit ELSE 0)
       + (k + Bias) * FracMod + ((a - 2^k) * FracMod) \div 2^k

ArchExec ==
  LET i   == Fetch(prog, PC)
      rs1 == X[i.rs1]
      rs2 == X[i.rs2]
      ea  == (rs1 + i.imm) % Mod IN
  /\ exception = ExcNone
  /\ CASE i.opcode = 0 ->                                        \* LOAD
            X' = SetReg(i.rd, IsaLoad(i.funct3, ea)) /\ Seq4
            /\ UNCHANGED <<mem, F, csr_mstatus, exception>>
       [] i.opcode = 8 ->                                        \* STORE
            mem' = WriteBytes(mem, ea, rs2, CASE i.funct3 = 0 -> 1
                                              [] i.funct3 = 1 -> 2
                                              [] i.funct3 = 2 -> 4)
            /\ Seq4 /\ UNCHANGED <<X, F, csr_mstatus, exception>>
       [] i.opcode = 4 ->                                        \* OP-IMM
            X' = SetReg(i.rd, IsaOpImm(i.funct3, rs1, i.imm)) /\ Seq4
            /\ UNCHANGED <<mem, F, csr_mstatus, exception>>
       [] i.opcode = 12 ->                                       \* OP
            X' = SetReg(i.rd, IsaOp(i.funct7, i.funct3, rs1, rs2)) /\ Seq4
            /\ UNCHANGED <<mem, F, csr_mstatus, exception>>
       [] i.opcode = 13 ->                                       \* LUI
            X' = SetReg(i.rd, i.imm % Mod) /\ Seq4
            /\ UNCHANGED <<mem, F, csr_mstatus, exception>>
       [] i.opcode = 5 ->                                        \* AUIPC
            X' = SetReg(i.rd, (PC + i.imm) % Mod) /\ Seq4
            /\ UNCHANGED <<mem, F, csr_mstatus, exception>>
       [] i.opcode = 24 ->                                       \* BRANCH
            IF IsaBranch(i.funct3, rs1, rs2) THEN JumpTo((PC + i.imm) % Mod)
                                             ELSE Seq4 /\ UNCHANGED exception
            /\ UNCHANGED <<mem, X, F, csr_mstatus>>
       [] i.opcode = 27 ->                                       \* JAL
            X' = SetReg(i.rd, (PC + 4) % Mod) /\ JumpTo((PC + i.imm) % Mod)
            /\ UNCHANGED <<mem, F, csr_mstatus>>
       [] i.opcode = 25 ->                                       \* JALR
            X' = SetReg(i.rd, (PC + 4) % Mod)
            /\ JumpTo(ea - (ea % 2))
            /\ UNCHANGED <<mem, F, csr_mstatus>>
       [] i.opcode = 3 ->                                        \* MISC-MEM
            Seq4 /\ UNCHANGED <<mem, X, F, csr_mstatus, exception>>
       [] i.opcode = 28 /\ i.funct3 = 0 ->                       \* ECALL/EBREAK
            \* the host's callback may stop the hart, or reset it; PC then
            \* advances by 4 (spec 4.3 and 5).
            \/ exception' \in {exception, ExcHalt} /\ Seq4
               /\ UNCHANGED <<mem, X, F, csr_mstatus>>
            \/ \E p \in CallbackResetPCs :
                 /\ X' = ResetX /\ F' = [r \in Regs |-> 0]
                 /\ PC' = (p + 4) % Mod
                 /\ csr_mstatus' = 0 /\ exception' = ExcNone
                 /\ UNCHANGED mem
       [] i.opcode = 28 /\ i.funct3 \in 1 .. 3 ->                \* CSRRW/S/C
            \E v \in CsrReadable(i.csr) :
              /\ X' = SetReg(i.rd, v)
              /\ csr_mstatus' = CsrWrite(i.funct3, i.csr, rs1)
              /\ Seq4 /\ UNCHANGED <<mem, F, exception>>
       [] i.opcode = 28 ->                                       \* CSRR*I: no effect
            Seq4 /\ UNCHANGED <<mem, X, F, csr_mstatus, exception>>
       [] i.opcode = 11 ->                                       \* AMO
            LET f5  == i.funct7 \div 4
                old == ReadW(mem, rs1) IN
            /\ CASE f5 = 2 -> X' = SetReg(i.rd, old) /\ UNCHANGED mem
                 [] f5 = 3 -> X' = SetReg(i.rd, 0) /\ mem' = WriteW(mem, rs1, rs2)
                 [] OTHER  -> X' = SetReg(i.rd, old)
                              /\ mem' = WriteW(mem, rs1, IsaAmo(f5, old, rs2))
            /\ Seq4 /\ UNCHANGED <<F, csr_mstatus, exception>>
       [] i.opcode = 1 ->                                        \* FLW
            F' = [F EXCEPT ![i.rd] = ReadW(mem, ea)] /\ Seq4
            /\ UNCHANGED <<mem, X, csr_mstatus, exception>>
       [] i.opcode = 9 ->                                        \* FSW
            mem' = WriteW(mem, ea, F[i.rs2]) /\ Seq4
            /\ UNCHANGED <<X, F, csr_mstatus, exception>>
       [] i.opcode \in 16 .. 19 ->                               \* FMADD..FNMADD
            \* spec 4.7: rs1*rs2 + rs3, rs1*rs2 - rs3, -(rs1*rs2) + rs3,
            \* -(rs1*rs2) - rs3, each operation in host single precision.
            LET c == F[i.funct7 \div 4] IN
            /\ \E t \in RefMul(F[i.rs1], F[i.rs2]) :
                 \E v \in CASE i.opcode = 16 -> RefAdd(t, c)
                          [] i.opcode = 17 -> RefSub(t, c)
                          [] i.opcode = 18 -> RefAdd(Neg(t), c)
                          [] i.opcode = 19 -> RefSub(Neg(t), c) :
                   F' = [F EXCEPT ![i.rd] = v]
            /\ Seq4 /\ UNCHANGED <<mem, X, csr_mstatus, exception>>
       [] i.opcode = 20 ->                                       \* OP-FP
            LET a == F[i.rs1]
                b == F[i.rs2]
                SetF(v) == F' = [F EXCEPT ![i.rd] = v] /\ UNCHANGED X
                SetX(v) == X' = SetReg(i.rd, v) /\ UNCHANGED F IN
            /\ CASE i.funct7 \in {0, 4, 8, 12, 44} ->             \* FADD..FSQRT.S
                      \E v \in CASE i.funct7 = 0  -> RefAdd(a, b)
                                [] i.funct7 = 4  -> RefSub(a, b)
                                [] i.funct7 = 8  -> RefMul(a, b)
                                [] i.funct7 = 12 -> RefDiv(a, b)
                                [] i.funct7 = 44 -> RefSqrt(a) : SetF(v)
                 [] i.funct7 = 16 ->                             \* FSGNJ*.S
                      SetF((a % SignBit) + SignBit * CASE i.funct3 = 0 -> FSign(b)
                                                     [] i.funct3 = 1 -> 1 - FSign(b)
                                                     [] i.funct3 = 2 -> (FSign(a) + FSign(b)) % 2)
                 [] i.funct7 = 20 ->                             \* FMIN/FMAX.S
                      \E v \in IsaMinMax(i.funct3 = 1, a, b) : SetF(v)
                 [] i.funct7 = 96 ->                             \* FCVT.W[U].S
                      \E v \in IsaCvtToInt(i.rs2 = 0, a) : SetX(v)
                 [] i.funct7 = 112 -> SetX(a)                    \* FMV.X.W
                 [] i.funct7 = 80 ->                             \* FLE/FLT/FEQ.S
                      SetX(IF CASE i.funct3 = 2 -> IsaFCmp(a, b) = "eq"
                                [] i.funct3 = 1 -> IsaFCmp(a, b) = "lt"
                                [] i.funct3 = 0 -> IsaFCmp(a, b) \in {"lt", "eq"}
                           THEN 1 ELSE 0)
                 [] i.funct7 = 104 ->                            \* FCVT.S.W[U]
                      SetF(IsaCvtToFloat(IF i.rs2 = 0 THEN Signed(rs1) ELSE rs1))
                 [] i.funct7 = 120 -> SetF(rs1)                  \* FMV.W.X
            /\ Seq4 /\ UNCHANGED <<mem, csr_mstatus, exception>>
  /\ UNCHANGED prog

ArchReset(pc) ==
  /\ X' = ResetX /\ F' = [r \in Regs |-> 0] /\ PC' = pc
  /\ csr_mstatus' = 0 /\ exception' = ExcNone
  /\ UNCHANGED <<prog, mem>>

ArchNext == ArchExec \/ \E pc \in ResetPCs : ArchReset(pc)

ArchSpec == ArchInit /\ [][ArchNext]_archVars

=============================================================================
