------------------------------ MODULE JitSig --------------------------------
(***************************************************************************)
(* The interface of the JIT emitters of riscv_jit.h: each gen_* function  *)
(* is named by a string and takes no operand, a uint32_t immediate, a     *)
(* uint64_t immediate, a uint8_t immediate or an RV32 register index.     *)
(* A uint32_t is carried as the int32 with the same bit pattern, a        *)
(* uint64_t as a pair <<hi, lo>> of int32 halves.  PtrPC and PtrX[r] are  *)
(* the host addresses &rv->PC and &rv->X[r] the emitters embed.           *)
(***************************************************************************)
EXTENDS Integers, Sequences

CONSTANTS Emitters, Imm32s, Imm64s, Imm8s, RvRegs, PtrPC, PtrX

NoArg  == {"cmp_rax_rcx", "xor_rax_rax", "call_r9", "xor_ecx_ecx",
           "mov_eax_rv32pc", "mov_rv32pc_eax", "add_eax_ecx", "xor_eax_eax",
           "xor_eax_ecx", "and_eax_ecx", "or_eax_ecx", "sub_eax_ecx",
           "cmp_eax_ecx", "mov_rv32pc_r8", "xor_rdx_rdx", "shl_eax_cl",
           "sar_eax_cl", "setb_dl", "setl_dl", "movsx_eax_al", "movsx_eax_ax",
           "cmove_eax_edx", "cmovne_eax_edx", "cmovl_eax_edx",
           "cmovge_eax_edx", "cmovb_eax_edx", "cmovnb_eax_edx", "ret",
           "xor_edx_edx", "mov_eax_edx", "shr_eax_cl", "movzx_eax_dl",
           "imul_ecx", "mul_ecx"}
Imm32Arg == {"mov_rax_imm32", "mov_rcx_imm32", "cmp_rax_imm32", "mov_r8_imm32",
             "add_rdx_imm32", "mov_ecx_imm32", "add_eax_imm32",
             "xor_eax_imm32", "or_eax_imm32", "and_eax_imm32",
             "cmp_eax_imm32", "mov_eax_imm32", "add_edx_imm32", "mov_edx_imm32"}
Imm64Arg == {"mov_rcx_imm64", "mov_r8_imm64", "mov_r9_imm64"}
Imm8Arg  == {"and_cl_imm8", "shr_eax_imm8", "sar_eax_imm8", "shl_eax_imm8"}
RegArg   == {"mov_eax_rv32reg", "mov_ecx_rv32reg", "mov_rv32reg_eax",
             "mov_r8_rv32reg", "mov_edx_rv32reg"}

AllEmitters == NoArg \cup Imm32Arg \cup Imm64Arg \cup Imm8Arg \cup RegArg

ASSUME Emitters \subseteq AllEmitters
ASSUME Imm32s \subseteq (-2147483647 - 1) .. 2147483647
ASSUME Imm8s \subseteq 0 .. 255
ASSUME RvRegs \subseteq 0 .. 31 /\ DOMAIN PtrX = RvRegs

\* The arguments a call of emitter e may pass.
ArgsOf(e) ==
  CASE e \in NoArg    -> {0}
    [] e \in Imm32Arg -> Imm32s
    [] e \in Imm64Arg -> Imm64s
    [] e \in Imm8Arg  -> Imm8s
    [] e \in RegArg   -> RvRegs

=============================================================================
