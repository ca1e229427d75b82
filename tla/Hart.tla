-------------------------------- MODULE Hart --------------------------------
(***************************************************************************)
(* The interpreter of riscv.c: the hart state of struct riscv_t, the      *)
(* host operations rv_create, rv_reset and rv_step, and one action per    *)
(* opcode handler reached through the dispatch table.  rv_step is a loop  *)
(* the host thread runs to completion: Step enters it, every handler      *)
(* action is one iteration (fetch, dispatch, handler, then csr_cycle++ or *)
(* break), StepReturn leaves it.  The handlers call back into the host    *)
(* (memory, ECALL, EBREAK) synchronously within their action.             *)
(***************************************************************************)
EXTENDS RV32Alu, RV32Host, RV32Float

CONSTANTS
  Programs,   \* programs the host may serve through mem_ifetch
  InitMems,   \* initial contents of the host's data memory
  ResetPCs,   \* pc arguments the host passes to rv_reset
  CallbackResetPCs, \* pc arguments of rv_reset calls made from on_ecall/on_ebreak
  StepArgs,   \* cycles arguments the host passes to rv_step (int32_t)
  MaxCycle,   \* bound: no rv_step is started whose target exceeds it
  CycleMod,   \* 2^64, the modulus of the uint64_t cycles_target
  JitBuild    \* RISCV_VM_X64_JIT: rv_step is the two-level loop of the JIT build

ASSUME /\ InitMems \subseteq Memory /\ ResetPCs \cup CallbackResetPCs \subseteq Word
       /\ StepArgs \subseteq Int /\ MaxCycle \in Nat
       /\ CycleMod > MaxCycle + 2 * Mod /\ JitBuild \in BOOLEAN

VARIABLES
  prog, mem,                    \* the host: program and data memory
  X, F, PC,                     \* rv->X, rv->F, rv->PC
  csr_cycle, csr_mstatus,       \* rv->csr_cycle (uint64_t), rv->csr_mstatus
  exception,                    \* rv->exception
  running, target,              \* rv_step in progress, its cycles_target
  retired, stepRetired, stepArg \* history: instructions run since reset and
                                \* in this rv_step, and its cycles argument

host    == <<prog, mem>>
loop    == <<running, target, stepArg>>
history == <<retired, stepRetired>>
vars == <<prog, mem, X, F, PC, csr_cycle, csr_mstatus, exception,
          running, target, retired, stepRetired, stepArg>>

(***************************************************************************)
(* Dispatch: opcodes[] indexed by bits [6:2]; "null" slots assert.       *)
(***************************************************************************)
Dispatch ==
  << "load",   "load_fp",  "null",  "misc_mem", "op_imm", "auipc", "null", "null",
     "store",  "store_fp", "null",  "amo",      "op",     "lui",   "null", "null",
     "madd",   "msub",     "nmsub", "nmadd",    "fp",     "null",  "null", "null",
     "branch", "jalr",     "null",  "jal",      "system", "null",  "null", "null" >>

Cur == Fetch(prog, PC)

\* The loop condition of rv_step, and the model's bound on the counter.
LoopGuard == running /\ csr_cycle < target /\ exception = ExcNone /\ csr_cycle < MaxCycle

\* One iteration of rv_step reaching the handler named h.
Dispatched(h) == LoopGuard /\ Dispatch[Cur.opcode + 1] = h

\* The history counters saturate at HistoryCap, which bounds the state
\* space of a loop of taken branches (such a loop never counts a cycle).
HistoryCap == MaxCycle + 2

Bump(n) == IF n < HistoryCap THEN n + 1 ELSE n

Retire(cont) ==
  /\ retired' = Bump(retired) /\ stepRetired' = Bump(stepRetired)
  /\ IF cont THEN csr_cycle' = csr_cycle + 1 /\ UNCHANGED running
     ELSE IF JitBuild THEN UNCHANGED <<running, csr_cycle>>
     ELSE running' = FALSE /\ UNCHANGED csr_cycle

NextPC == U(PC + 4)

\* Seeded variant of EnforceZero: the handler forgets the zero register.
EnforceZeroDropped(x, rd) == x

\* "enforce zero register": a handler that wrote X[rd] with rd == 0
\* clears X[0] again before returning.
EnforceZero(x, rd) == IF rd = 0 THEN [x EXCEPT ![0] = 0] ELSE x

WriteRd(rd, v) == EnforceZero([X EXCEPT ![rd] = v], rd)

\* Seeded variant of MisalignedTarget: the alignment check is missing.
NeverMisaligned(pc) == FALSE

\* "if (rv->PC & 0x3) raise_exception(rv, rv_except_inst_misaligned)"
MisalignedTarget(pc) == WAnd(pc, 3) # 0

RaiseIfMisaligned(pc) ==
  exception' = IF MisalignedTarget(pc) THEN ExcMisaligned ELSE exception

(***************************************************************************)
(* Handlers.  Each is the whole iteration: the handler's effect, its PC   *)
(* update and zero-register rule, and the loop's cycle count or break.    *)
(***************************************************************************)

\* op_load: X[rd] = the byte, half or word at X[rs1] + imm(I), extended.
LoadValue(funct3, addr) ==
  CASE funct3 = 0 -> SignExtend(ReadB(mem, addr), ByteMod)       \* LB
    [] funct3 = 1 -> SignExtend(ReadS(mem, addr), HalfMod)       \* LH
    [] funct3 = 2 -> ReadW(mem, addr)                            \* LW
    [] funct3 = 4 -> ReadB(mem, addr)                            \* LBU
    [] funct3 = 5 -> ReadS(mem, addr)                            \* LHU

OpLoad ==
  /\ Dispatched("load")
  /\ X' = WriteRd(Cur.rd, LoadValue(Cur.funct3, U(X[Cur.rs1] + Cur.imm)))
  /\ PC' = NextPC
  /\ Retire(TRUE)
  /\ UNCHANGED <<host, F, csr_mstatus, exception, target, stepArg>>

\* op_misc_mem (FENCE, FENCE.I): only steps over the instruction.
OpMiscMem ==
  /\ Dispatched("misc_mem")
  /\ PC' = NextPC
  /\ Retire(TRUE)
  /\ UNCHANGED <<host, X, F, csr_mstatus, exception, target, stepArg>>

OpOpImm ==
  /\ Dispatched("op_imm")
  /\ X' = WriteRd(Cur.rd, OpImmResult(Cur.funct3, X[Cur.rs1], Cur.imm))
  /\ PC' = NextPC
  /\ Retire(TRUE)
  /\ UNCHANGED <<host, F, csr_mstatus, exception, target, stepArg>>

\* op_auipc / op_lui: the U-immediate (a word, low bits zero) plus PC / alone.
OpAuipc ==
  /\ Dispatched("auipc")
  /\ X' = WriteRd(Cur.rd, U(Cur.imm + PC))
  /\ PC' = NextPC
  /\ Retire(TRUE)
  /\ UNCHANGED <<host, F, csr_mstatus, exception, target, stepArg>>

OpLui ==
  /\ Dispatched("lui")
  /\ X' = WriteRd(Cur.rd, U(Cur.imm))
  /\ PC' = NextPC
  /\ Retire(TRUE)
  /\ UNCHANGED <<host, F, csr_mstatus, exception, target, stepArg>>

\* op_store: the low byte, half or word of X[rs2] to X[rs1] + imm(S).
OpStore ==
  LET addr == U(X[Cur.rs1] + Cur.imm)
      data == X[Cur.rs2] IN
  /\ Dispatched("store")
  /\ mem' = CASE Cur.funct3 = 0 -> WriteB(mem, addr, data)       \* SB
              [] Cur.funct3 = 1 -> WriteS(mem, addr, data)       \* SH
              [] Cur.funct3 = 2 -> WriteW(mem, addr, data)       \* SW
  /\ PC' = NextPC
  /\ Retire(TRUE)
  /\ UNCHANGED <<prog, X, F, csr_mstatus, exception, target, stepArg>>

OpOp ==
  /\ Dispatched("op")
  /\ X' = WriteRd(Cur.rd, OpResult(Cur.funct7, Cur.funct3, X[Cur.rs1], X[Cur.rs2]))
  /\ PC' = NextPC
  /\ Retire(TRUE)
  /\ UNCHANGED <<host, F, csr_mstatus, exception, target, stepArg>>

\* op_branch: a taken branch adds imm(B) and may raise; returns false.
OpBranch ==
  LET taken == BranchTaken(Cur.funct3, X[Cur.rs1], X[Cur.rs2])
      dest  == U(PC + Cur.imm) IN
  /\ Dispatched("branch")
  /\ PC' = IF taken THEN dest ELSE NextPC
  /\ IF taken THEN RaiseIfMisaligned(dest) ELSE UNCHANGED exception
  /\ Retire(FALSE)
  /\ UNCHANGED <<host, X, F, csr_mstatus, target, stepArg>>

\* Seeded variant of OpJalr: links X[rd] before it reads X[rs1].
OpJalrLinkFirst ==
  LET ra   == NextPC
      X1   == IF Cur.rd # 0 THEN [X EXCEPT ![Cur.rd] = ra] ELSE X
      dest == WAnd(U(X1[Cur.rs1] + Cur.imm), Complement(1)) IN
  /\ Dispatched("jalr")
  /\ PC' = dest
  /\ X' = X1
  /\ RaiseIfMisaligned(dest)
  /\ Retire(FALSE)
  /\ UNCHANGED <<host, F, csr_mstatus, target, stepArg>>

\* op_jalr: the return address and the target (low bit cleared) are both
\* computed before X[rd] is linked; returns false.
OpJalr ==
  LET ra   == NextPC
      dest == WAnd(U(X[Cur.rs1] + Cur.imm), Complement(1)) IN
  /\ Dispatched("jalr")
  /\ PC' = dest
  /\ X' = IF Cur.rd # 0 THEN [X EXCEPT ![Cur.rd] = ra] ELSE X
  /\ RaiseIfMisaligned(dest)
  /\ Retire(FALSE)
  /\ UNCHANGED <<host, F, csr_mstatus, target, stepArg>>

OpJal ==
  LET dest == U(PC + Cur.imm) IN
  /\ Dispatched("jal")
  /\ PC' = dest
  /\ X' = IF Cur.rd # 0 THEN [X EXCEPT ![Cur.rd] = NextPC] ELSE X
  /\ RaiseIfMisaligned(dest)
  /\ Retire(FALSE)
  /\ UNCHANGED <<host, F, csr_mstatus, target, stepArg>>

(***************************************************************************)
(* SYSTEM: ECALL / EBREAK call the host; Zicsr reads and writes CSRs.     *)
(***************************************************************************)
CSR_CYCLE   == 3072   \* 0xC00
CSR_CYCLEH  == 3200   \* 0xC80
CSR_MSTATUS == 768    \* 0x300
CSR_FCSR    == 3      \* 0x003 (present with RV32F)

\* csr_get_ptr: the CSR a known index points at (cycle and cycleh are the
\* low and high words of the uint64_t counter, little endian), NULL for an
\* unknown index; csr_fcsr is never written and stays 0.
CsrKnown(csr) == csr \in {CSR_CYCLE, CSR_CYCLEH, CSR_MSTATUS, CSR_FCSR}
CsrValue(csr) ==
  CASE csr = CSR_CYCLE   -> csr_cycle % Mod
    [] csr = CSR_CYCLEH  -> (csr_cycle \div Mod) % Mod
    [] csr = CSR_MSTATUS -> csr_mstatus
    [] csr = CSR_FCSR    -> 0

\* csr_is_writable: only mstatus.
CsrWritable(csr) == csr = CSR_MSTATUS

\* csr_csrrw / csr_csrrs / csr_csrrc on the live value.
CsrUpdate(funct3, old, val) ==
  CASE funct3 = 1 -> U(val)
    [] funct3 = 2 -> WOr(old, val)
    [] funct3 = 3 -> WAnd(old, Complement(U(val)))

\* op_system.  The value handed to csr_csrrw/s/c is the rs1 field itself.
OpSystem ==
  LET i   == Cur
      csr == i.csr
      isCsr == i.funct3 \in 1 .. 3 IN
  /\ Dispatched("system")
  /\ i.funct3 = 0 => i.imm \in {0, 1}
  /\ i.funct3 \in {0, 1, 2, 3, 5, 6, 7}
  \* on_ecall / on_ebreak: the host may latch an exception to stop the loop.
  /\ IF i.funct3 = 0 THEN exception' \in {exception, ExcHalt}
                     ELSE UNCHANGED exception
  /\ X' = IF isCsr THEN WriteRd(i.rd, IF CsrKnown(csr) THEN CsrValue(csr) ELSE 0)
                   ELSE EnforceZero(X, i.rd)
  /\ csr_mstatus' = IF isCsr /\ CsrKnown(csr) /\ CsrWritable(csr)
                    THEN CsrUpdate(i.funct3, csr_mstatus, i.rs1)
                    ELSE csr_mstatus
  /\ PC' = NextPC
  /\ Retire(TRUE)
  /\ UNCHANGED <<host, F, target, stepArg>>

(***************************************************************************)
(* op_system when on_ecall / on_ebreak call rv_reset(rv, p), which spec 5 *)
(* allows ("the host may do anything synchronously"): the hart is reset,  *)
(* then op_system steps over the instruction from the reset PC and rv_step *)
(* counts the cycle, against the cycles_target computed before the reset. *)
(***************************************************************************)
\* Seeded variant: the hart resumes at the reset PC itself.
OpSystemResetNoStep(p) ==
  LET i == Cur IN
  /\ Dispatched("system")
  /\ i.funct3 = 0 /\ i.imm \in {0, 1}
  /\ X' = EnforceZero(ResetX, i.rd)
  /\ F' = [r \in Regs |-> 0]
  /\ exception' = ExcNone
  /\ csr_mstatus' = 0
  /\ PC' = p
  /\ csr_cycle' = 0 + 1
  /\ retired' = 1 /\ stepRetired' = Bump(stepRetired)
  /\ UNCHANGED <<host, running, target, stepArg>>

OpSystemReset(p) ==
  LET i == Cur IN
  /\ Dispatched("system")
  /\ i.funct3 = 0 /\ i.imm \in {0, 1}
  /\ X' = EnforceZero(ResetX, i.rd)
  /\ F' = [r \in Regs |-> 0]
  /\ exception' = ExcNone
  /\ csr_mstatus' = 0
  /\ PC' = U(p + 4)
  /\ csr_cycle' = 0 + 1
  /\ retired' = 1 /\ stepRetired' = Bump(stepRetired)
  /\ UNCHANGED <<host, running, target, stepArg>>

(***************************************************************************)
(* op_amo.  LR.W / SC.W use X[rs1]; the AMOs read the word at the rs1     *)
(* index, combine it with X[rs2] read after X[rd] was overwritten, and     *)
(* hand the result to mem_write_s.                                         *)
(***************************************************************************)
OpAmo ==
  LET i  == Cur
      f5 == i.funct7 \div 4
      old == ReadW(mem, i.rs1)
      X1 == [X EXCEPT ![i.rd] = old] IN
  /\ Dispatched("amo")
  /\ CASE f5 = 2 -> /\ X' = EnforceZero([X EXCEPT ![i.rd] = ReadW(mem, X[i.rs1])], i.rd)
                    /\ UNCHANGED mem
       [] f5 = 3 -> /\ mem' = WriteW(mem, X[i.rs1], X[i.rs2])
                    /\ X' = EnforceZero([X EXCEPT ![i.rd] = 0], i.rd)
       [] OTHER  -> /\ mem' = WriteS(mem, i.rs1, AmoResult(f5, X1[i.rd], X1[i.rs2]))
                    /\ X' = EnforceZero(X1, i.rd)
  /\ PC' = NextPC
  /\ Retire(TRUE)
  /\ UNCHANGED <<prog, F, csr_mstatus, exception, target, stepArg>>

(***************************************************************************)
(* RV32F.  op_load_fp / op_store_fp copy the 32 bits between memory and  *)
(* F with memcpy, at X[rs1] + imm.                                         *)
(***************************************************************************)
OpLoadFp ==
  /\ Dispatched("load_fp")
  /\ F' = [F EXCEPT ![Cur.rd] = ReadW(mem, U(X[Cur.rs1] + Cur.imm))]
  /\ PC' = NextPC
  /\ Retire(TRUE)
  /\ UNCHANGED <<host, X, csr_mstatus, exception, target, stepArg>>

OpStoreFp ==
  /\ Dispatched("store_fp")
  /\ mem' = WriteW(mem, U(X[Cur.rs1] + Cur.imm), F[Cur.rs2])
  /\ PC' = NextPC
  /\ Retire(TRUE)
  /\ UNCHANGED <<prog, X, F, csr_mstatus, exception, target, stepArg>>

\* 0/1 result of a host float comparison.
Flag(b) == IF b THEN 1 ELSE 0

\* op_fp, switching on funct7, then on rm (funct3) or rs2.  Every case but
\* FCLASS.S: the host arithmetic, sign injection on the raw bits,
\* fminf/fmaxf, the C conversions between float and int32_t/uint32_t, the
\* FMV copies, and the C comparisons.  The cases that write X[rd] have no
\* zero-register rule.
OpFp ==
  LET i  == Cur
      f1 == F[i.rs1]
      f2 == F[i.rs2]
      x1 == X[i.rs1]
      SetF(v) == F' = [F EXCEPT ![i.rd] = v] /\ UNCHANGED X
      SetX(v) == X' = [X EXCEPT ![i.rd] = v] /\ UNCHANGED F IN
  /\ Dispatched("fp")
  /\ \/ \E v \in CASE i.funct7 = 0  -> FAddSub(FALSE, f1, f2)   \* FADD.S
                   [] i.funct7 = 4  -> FAddSub(TRUE, f1, f2)    \* FSUB.S
                   [] i.funct7 = 8  -> FMul(f1, f2)             \* FMUL.S
                   [] i.funct7 = 12 -> FDiv(f1, f2)             \* FDIV.S
                   [] i.funct7 = 44 -> FSqrt(f1)                \* FSQRT.S
                   [] OTHER         -> {} :
          SetF(v)
     \/ i.funct7 = 16 /\ i.funct3 \in 0 .. 2                  \* FSGNJ[N|X].S
        /\ SetF(SignInject(i.funct3, f1, f2))
     \/ i.funct7 = 20 /\ i.funct3 \in 0 .. 1                  \* FMIN.S / FMAX.S
        /\ \E v \in FMinMax(i.funct3 = 1, f1, f2) : SetF(v)
     \/ i.funct7 = 96 /\ i.rs2 = 0 /\ SetX(CvtWS(f1))         \* FCVT.W.S
     \/ i.funct7 = 96 /\ i.rs2 = 1 /\ SetX(CvtWUS(f1))        \* FCVT.WU.S
     \/ i.funct7 = 112 /\ i.funct3 = 0 /\ SetX(f1)            \* FMV.X.W
     \/ i.funct7 = 80 /\ i.funct3 \in 0 .. 2                  \* FLE/FLT/FEQ.S
        /\ SetX(Flag(CASE i.funct3 = 2 -> FEq(f1, f2)
                       [] i.funct3 = 1 -> FLt(f1, f2)
                       [] i.funct3 = 0 -> FLe(f1, f2)))
     \/ i.funct7 = 104 /\ i.rs2 = 0 /\ SetF(RoundToFloat(S(x1)))  \* FCVT.S.W
     \/ i.funct7 = 104 /\ i.rs2 = 1 /\ SetF(RoundToFloat(x1))     \* FCVT.S.WU
     \/ i.funct7 = 120 /\ SetF(x1)                              \* FMV.W.X
  /\ PC' = NextPC
  /\ Retire(TRUE)
  /\ UNCHANGED <<host, csr_mstatus, exception, target, stepArg>>

(***************************************************************************)
(* op_madd, op_msub, op_nmsub, op_nmadd: the C expressions                *)
(* F[rs1] * F[rs2] + F[rs3] and its variants, evaluated as written: a     *)
(* rounded product, negated by a sign flip, then a rounded sum.  rs3 is   *)
(* bits 31:27, the top five bits of the funct7 field.                     *)
(***************************************************************************)
FusedOps == {"madd", "msub", "nmsub", "nmadd"}

FusedResult(h, a, b, c) ==
  UNION {CASE h = "madd"  -> FAddSub(FALSE, t, c)
           [] h = "msub"  -> FAddSub(TRUE, t, c)
           [] h = "nmsub" -> FAddSub(FALSE, WXor(t, SignBit), c)
           [] h = "nmadd" -> FAddSub(TRUE, WXor(t, SignBit), c) : t \in FMul(a, b)}

OpFused(h) ==
  LET i == Cur IN
  /\ Dispatched(h)
  /\ \E v \in FusedResult(h, F[i.rs1], F[i.rs2], F[i.funct7 \div 4]) :
       F' = [F EXCEPT ![i.rd] = v]
  /\ PC' = NextPC
  /\ Retire(TRUE)
  /\ UNCHANGED <<host, X, csr_mstatus, exception, target, stepArg>>

(***************************************************************************)
(* The host's calls: rv_create (Init), rv_reset, rv_step.                 *)
(***************************************************************************)
ResetState(pc) ==
  /\ X' = ResetX
  /\ F' = [r \in Regs |-> 0]
  /\ PC' = pc
  /\ exception' = ExcNone
  /\ csr_cycle' = 0
  /\ csr_mstatus' = 0

\* rv_reset(rv, pc), called by the host between rv_step calls.
Reset(pc) ==
  /\ ~running
  /\ ResetState(pc)
  /\ retired' = 0 /\ stepRetired' = 0
  /\ UNCHANGED <<host, loop>>

CycleTargetInclusive(cyc, c) == (cyc + c + 1) % CycleMod

\* cycles_target = rv->csr_cycle + cycles: the int32_t argument is
\* converted to uint64_t, so the sum wraps modulo 2^64.
CycleTarget(cyc, c) == (cyc + c) % CycleMod

\* rv_step(rv, cycles) is entered; the model starts no call whose target
\* would exceed MaxCycle.
Step(c) ==
  /\ ~running
  /\ c < 0 \/ csr_cycle + c <= MaxCycle
  /\ running' = TRUE
  /\ target' = CycleTarget(csr_cycle, c)
  /\ stepArg' = c
  /\ stepRetired' = 0
  /\ UNCHANGED <<host, X, F, PC, csr_cycle, csr_mstatus, exception, retired>>

\* The while condition fails: rv_step returns to the host.
StepReturn ==
  /\ running
  /\ ~(csr_cycle < target /\ exception = ExcNone)
  /\ running' = FALSE
  /\ UNCHANGED <<host, X, F, PC, csr_cycle, csr_mstatus, exception, target,
                 stepArg, history>>

Init ==
  /\ prog \in Programs
  /\ mem \in InitMems
  /\ X = ResetX
  /\ F = [r \in Regs |-> 0]
  /\ PC = 0
  /\ exception = ExcNone
  /\ csr_cycle = 0
  /\ csr_mstatus = 0
  /\ running = FALSE /\ target = 0 /\ stepArg = 0
  /\ retired = 0 /\ stepRetired = 0

\* One iteration of the rv_step loop (any handler).
Execute ==
  \/ OpLoad \/ OpMiscMem \/ OpOpImm \/ OpAuipc \/ OpLui \/ OpStore \/ OpOp
  \/ OpBranch \/ OpJalr \/ OpJal \/ OpSystem \/ OpAmo
  \/ OpLoadFp \/ OpStoreFp \/ OpFp \/ \E h \in FusedOps : OpFused(h)
  \/ \E p \in CallbackResetPCs : OpSystemReset(p)

Next ==
  \/ \E c \in StepArgs : Step(c)
  \/ Execute
  \/ StepReturn
  \/ \E pc \in ResetPCs : Reset(pc)

\* rv_step runs on the host thread until its loop ends: the loop is weakly
\* fair; the host is free never to call again.
Fairness == WF_vars(Execute \/ StepReturn)

Spec == Init /\ [][Next]_vars /\ Fairness

(***************************************************************************)
(* Properties.                                                             *)
(***************************************************************************)
TypeOK ==
  /\ prog \in [DOMAIN prog -> Inst] /\ mem \in Memory
  /\ X \in [Regs -> Word] /\ F \in [Regs -> Word] /\ PC \in Word
  /\ csr_cycle \in 0 .. MaxCycle /\ csr_mstatus \in Word
  /\ exception \in Exceptions
  /\ running \in BOOLEAN /\ target \in 0 .. CycleMod - 1 /\ stepArg \in StepArgs \cup {0}
  /\ retired \in 0 .. HistoryCap /\ stepRetired \in 0 .. HistoryCap

\* The zero register reads 0 after every handler (spec 3 and 8): each
\* handler that writes X[rd] must clear X[0] again or skip rd == 0.
X0Zero == X[0] = 0

\* csr_cycle counts every retired instruction, whatever its control flow
\* (spec 4.8): it equals the number of handlers run since the reset.
CycleCountsRetired == csr_cycle = retired

\* rv_step(cycles) runs at most cycles instructions, and none for a
\* non-positive budget: the uint64_t cycles_target computed from the int32_t
\* argument must not let the loop run past it.
StepBounded == stepRetired <= IF stepArg < 0 THEN 0 ELSE stepArg

\* The run loop only fetches from a 4-byte aligned PC (spec 3): a branch,
\* JAL or JALR to a misaligned target must latch the exception that stops
\* the loop before the next fetch.
FetchAligned == [][Execute => WAnd(PC, 3) = 0]_vars

\* Every rv_step call returns to the host: a loop of taken branches or
\* jumps, which never counts a cycle, still leaves rv_step by its break.
StepTerminates == running ~> ~running

=============================================================================
