------------------------------ MODULE RV32Host ------------------------------
(***************************************************************************)
(* What the hart shares with its host: the decoded view of an instruction *)
(* word, the host's memory behind the mem_read_* / mem_write_* callbacks,  *)
(* the instruction fetch behind mem_ifetch, and the register and           *)
(* exception constants of riscv.h / riscv_private.h.  The host memory is   *)
(* the environment (spec section 6), not code of the repository: it is a  *)
(* little-endian byte store over the window MemAddrs that reads 0 and      *)
(* drops writes elsewhere, one legal host among many.                      *)
(***************************************************************************)
EXTENDS RV32Word

CONSTANTS
  Regs,          \* register indices modelled (a subset of 0..31)
  SP,            \* rv_reg_sp
  StackTop,      \* DEFAULT_STACK_ADDR
  MemAddrs,      \* byte addresses the host backs with storage
  ExcNone,       \* rv_except_none (0: the loop tests !rv->exception)
  ExcMisaligned, \* rv_except_inst_misaligned
  ExcHalt        \* a code the host's ECALL/EBREAK callback may latch

ASSUME /\ {0, SP} \subseteq Regs /\ Regs \subseteq 0 .. 31
       /\ StackTop \in Word /\ MemAddrs \subseteq Word
       /\ ExcNone = 0 /\ ExcMisaligned # ExcNone /\ ExcHalt \notin {ExcNone, ExcMisaligned}

Exceptions == {ExcNone, ExcMisaligned, ExcHalt}

(***************************************************************************)
(* An instruction is given by the field views the handlers decode         *)
(* (dec_rd, dec_rs1, dec_rs2, dec_funct3, dec_funct7, the immediate of its *)
(* format as a signed integer, dec_csr) and its dispatch index, bits       *)
(* [6:2] of the word.                                                      *)
(***************************************************************************)
Inst == [opcode: 0 .. 31, funct3: 0 .. 7, funct7: 0 .. 127,
         rd: Regs, rs1: Regs, rs2: Regs, imm: Int, csr: 0 .. 4095]

\* The decoded view of the all-zero word, which a zero-filled host memory
\* returns outside the program: LB x0, 0(x0).
ZeroInst == [opcode |-> 0, funct3 |-> 0, funct7 |-> 0, rd |-> 0, rs1 |-> 0,
             rs2 |-> 0, imm |-> 0, csr |-> 0]

\* io.mem_ifetch(pc): the host returns the word of the program at pc.
Fetch(prog, pc) == IF pc \in DOMAIN prog THEN prog[pc] ELSE ZeroInst

\* The host memory callbacks.  Multi-byte accesses are little endian and
\* their byte addresses wrap like the uint32_t address does.
ReadB(m, addr) == IF addr \in MemAddrs THEN m[addr] ELSE 0
ReadS(m, addr) == ReadB(m, addr) + ReadB(m, U(addr + 1)) * ByteMod
ReadW(m, addr) == ReadS(m, addr) + ReadS(m, U(addr + 2)) * HalfMod

\* Store the n low bytes of v at addr.
WriteBytes(m, addr, v, n) ==
  [a \in MemAddrs |->
     IF \E k \in 0 .. n - 1 : a = U(addr + k)
     THEN LET k == CHOOSE k \in 0 .. n - 1 : a = U(addr + k)
          IN (v \div ByteMod^k) % ByteMod
     ELSE m[a]]

WriteB(m, addr, v) == WriteBytes(m, addr, v, 1)
WriteS(m, addr, v) == WriteBytes(m, addr, v, 2)
WriteW(m, addr, v) == WriteBytes(m, addr, v, 4)

Memory == [MemAddrs -> 0 .. ByteMod - 1]

\* The register file rv_reset leaves: all zero but the stack pointer.
ResetX == [r \in Regs |-> IF r = SP THEN StackTop ELSE 0]

=============================================================================
