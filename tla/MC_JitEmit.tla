----------------------------- MODULE MC_JitEmit -----------------------------
(***************************************************************************)
(* Model-checking harness for the JIT emitters: the arguments the calls   *)
(* may pass, the addresses of the rv fields, and the refinement of JitAsm *)
(* under the mapping that reads the code buffer back as x86 instructions. *)
(***************************************************************************)
EXTENDS JitEmit, X64Decode

\* Immediates at the edges of the uint32_t range: 0, 1, 0x7FFFFFFF and
\* the values with bit 31 set, 0x80000000 and 0xFFFFFFFF.
EdgeImm32s == {0, 1, 2147483647, -2147483647 - 1, -1}
\* 64-bit immediates: a host address above 4 GiB and all ones.
EdgeImm64s == {<<32767, 4096>>, <<-1, -1>>}
\* A shift count of 0, the largest RV32 count and a byte with bit 7 set.
EdgeImm8s  == {0, 31, 128}
\* &rv->PC and &rv->X[r]: X is an array of uint32_t in struct riscv_t.
RvBase   == <<32767, -4096>>
MCPtrPC  == <<32767, -4096 + 128>>
MCPtrX   == [r \in RvRegs |-> <<RvBase[1], RvBase[2] + 4 * r>>]

\* Every emitter but the 64-bit immediate loads and compare.
SafeEmitters == AllEmitters \ {"mov_rax_imm32", "mov_rcx_imm32", "mov_r8_imm32",
                                "cmp_rax_imm32"}
\* The 64-bit compare with an immediate, in every context.
CmpRaxEmitters == {"cmp_rax_imm32", "ret", "xor_eax_eax"}

Asm == INSTANCE JitAsm WITH listing <- Listing(code)

(***************************************************************************)
(* Whatever calls the translator makes, the code buffer, read back by an  *)
(* x86 decoder, is the concatenation of the instructions each emitter's   *)
(* name and trace announce: every gen_* emits a whole, correctly encoded  *)
(* instruction with the right operands, and no emitter's bytes run into   *)
(* the next one's.                                                        *)
(***************************************************************************)
ImplementsAsm == Asm!AsmSpec

=============================================================================
