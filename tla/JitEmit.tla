------------------------------ MODULE JitEmit -------------------------------
(***************************************************************************)
(* The x86-64 emitters of riscv_jit.h.  A block's code buffer is the      *)
(* byte sequence code = block->code[0 .. head-1]; every gen_* appends the *)
(* bytes it passes to gen_emit_data, which copies them at head and moves  *)
(* head past them.  The translator that calls the emitters is not in the  *)
(* repository, so any sequence of calls, with any arguments of the small  *)
(* sets of JitSig, is allowed, up to MaxCalls calls per block.            *)
(* lastCall records the call just made, for the refinement of JitAsm.     *)
(***************************************************************************)
EXTENDS JitSig

CONSTANT MaxCalls

VARIABLES code, lastCall, calls

vars == <<code, lastCall, calls>>

\* The n bytes of v in memory, least significant first ((uint8_t*)&v).
RECURSIVE LEBytes(_, _)
LEBytes(v, n) == IF n = 0 THEN <<>> ELSE <<v % 256>> \o LEBytes(v \div 256, n - 1)

Imm32Bytes(a) == LEBytes(a, 4)
Imm64Bytes(p) == LEBytes(p[2], 4) \o LEBytes(p[1], 4)

\* The address cut to its low 32 bits.
MovR11Short(ptr) == <<\h49, \hbb>> \o Imm32Bytes(ptr[2])

\* mov r11, imm64 with the address of an rv field (49 BB + 8 bytes).
MovR11(ptr) == <<\h49, \hbb>> \o Imm64Bytes(ptr)

\* The immediate loads and 64-bit compares, riscv_jit.h lines 25-89.
EncodeImm(e, a) ==
  CASE e = "mov_rax_imm32" -> <<\h48, \hc7, \hc0>> \o Imm32Bytes(a)
    [] e = "mov_rcx_imm32" -> <<\h48, \hc7, \hc1>> \o Imm32Bytes(a)
    [] e = "mov_rcx_imm64" -> <<\h48, \hb9>> \o Imm64Bytes(a)
    [] e = "cmp_rax_rcx"   -> <<\h48, \h39, \hc8>>
    [] e = "xor_rax_rax"   -> <<\h48, \h31, \hc0>>
    [] e = "cmp_rax_imm32" -> <<\h48, \h3d>> \o SubSeq(Imm32Bytes(a), 1, 2)
    [] e = "mov_r8_imm64"  -> <<\h49, \hb8>> \o Imm64Bytes(a)
    [] e = "mov_r8_imm32"  -> <<\h49, \hc7, \hc0>> \o Imm32Bytes(a)
    [] e = "mov_r9_imm64"  -> <<\h49, \hb9>> \o Imm64Bytes(a)

\* gen_call_r9: frame, shadow space, call, release, unframe.
CallR9 == <<\h55, \h48, \h89, \he5>> \o <<\h48, \h83, \hec, \h20>>
          \o <<\h41, \hff, \hd1>> \o <<\h48, \h83, \hc4, \h20>> \o <<\h5d>>

\* The transfers between eax/ecx and the RV32 state, lines 117-218.
EncodeTransfer(e, a) ==
  CASE e = "add_rdx_imm32" ->
         IF a # 0 THEN <<\h48, \h81, \hc2>> \o Imm32Bytes(a) ELSE <<>>
    [] e = "xor_ecx_ecx" -> <<\h31, \hc9>>
    [] e = "mov_ecx_imm32" ->
         IF a = 0 THEN <<\h31, \hc9>> ELSE <<\hb9>> \o Imm32Bytes(a)
    [] e = "mov_eax_rv32pc" -> MovR11(PtrPC) \o <<\h41, \h8b, \h03>>
    [] e = "mov_rv32pc_eax" -> MovR11(PtrPC) \o <<\h41, \h89, \h03>>
    [] e = "mov_eax_rv32reg" ->
         IF a = 0 THEN <<\h31, \hc0>> ELSE MovR11(PtrX[a]) \o <<\h41, \h8b, \h03>>
    [] e = "mov_ecx_rv32reg" ->
         IF a = 0 THEN <<\h31, \hc9>> ELSE MovR11(PtrX[a]) \o <<\h41, \h8b, \h0b>>
    [] e = "mov_rv32reg_eax" ->
         IF a # 0 THEN MovR11(PtrX[a]) \o <<\h41, \h89, \h03>> ELSE <<>>

\* The 32-bit ALU operations on eax, lines 220-315.
EncodeAlu(e, a) ==
  CASE e = "add_eax_ecx" -> <<\h01, \hc8>>
    [] e = "add_eax_imm32" -> IF a # 0 THEN <<\h05>> \o Imm32Bytes(a) ELSE <<>>
    [] e = "xor_eax_eax" -> <<\h31, \hc0>>
    [] e = "xor_eax_ecx" -> <<\h31, \hc8>>
    [] e = "and_eax_ecx" -> <<\h21, \hc8>>
    [] e = "or_eax_ecx"  -> <<\h09, \hc8>>
    [] e = "sub_eax_ecx" -> <<\h29, \hc8>>
    [] e = "xor_eax_imm32" -> IF a # 0 THEN <<\h35>> \o Imm32Bytes(a) ELSE <<>>
    [] e = "or_eax_imm32"  -> <<\h0d>> \o Imm32Bytes(a)
    [] e = "and_eax_imm32" -> IF a = 0 THEN <<\h31, \hc0>> ELSE <<\h25>> \o Imm32Bytes(a)
    [] e = "cmp_eax_imm32" -> <<\h3d>> \o Imm32Bytes(a)
    [] e = "mov_eax_imm32" -> IF a = 0 THEN <<\h31, \hc0>> ELSE <<\hb8>> \o Imm32Bytes(a)
    [] e = "cmp_eax_ecx" -> <<\h39, \hc8>>

\* The r8/edx/rdx transfers, lines 317-373.
EncodeWide(e, a) ==
  CASE e = "mov_rv32pc_r8" -> MovR11(PtrPC) \o <<\h4d, \h89, \h03>>
    [] e = "mov_r8_rv32reg" ->
         IF a = 0 THEN <<\h4d, \h31, \hc0>> ELSE MovR11(PtrX[a]) \o <<\h4d, \h8b, \h03>>
    [] e = "mov_edx_rv32reg" ->
         IF a = 0 THEN <<\h31, \hd2>> ELSE MovR11(PtrX[a]) \o <<\h41, \h8b, \h13>>
    [] e = "xor_rdx_rdx" -> <<\h48, \h31, \hd2>>
    [] e = "add_edx_imm32" -> IF a # 0 THEN <<\h81, \hc2>> \o Imm32Bytes(a) ELSE <<>>

\* Shifts, flag tests, extensions, moves and multiplies, lines 375-519.
EncodeShiftFlag(e, a) ==
  CASE e = "and_cl_imm8" -> <<\h80, \he1, a>>
    [] e = "shl_eax_cl" -> <<\hd3, \he0>>
    [] e = "sar_eax_cl" -> <<\hd3, \hf8>>
    [] e = "setb_dl" -> <<\h0f, \h92, \hc2>>
    [] e = "setl_dl" -> <<\h0f, \h9c, \hc2>>
    [] e = "shr_eax_imm8" -> IF a # 0 THEN <<\hc1, \he8, a>> ELSE <<>>
    [] e = "sar_eax_imm8" -> IF a # 0 THEN <<\hc1, \hf8, a>> ELSE <<>>
    [] e = "shl_eax_imm8" -> IF a # 0 THEN <<\hc1, \he0, a>> ELSE <<>>
    [] e = "movsx_eax_al" -> <<\h0f, \hbe, \hc0>>
    [] e = "movsx_eax_ax" -> <<\h0f, \hbf, \hc0>>
    [] e = "mov_edx_imm32" -> IF a = 0 THEN <<\h31, \hd2>> ELSE <<\hba>> \o Imm32Bytes(a)
    [] e = "cmove_eax_edx"  -> <<\h0f, \h44, \hc2>>
    [] e = "cmovne_eax_edx" -> <<\h0f, \h45, \hc2>>
    [] e = "cmovl_eax_edx"  -> <<\h0f, \h4c, \hc2>>
    [] e = "cmovge_eax_edx" -> <<\h0f, \h4d, \hc2>>
    [] e = "cmovb_eax_edx"  -> <<\h0f, \h42, \hc2>>
    [] e = "cmovnb_eax_edx" -> <<\h0f, \h43, \hc2>>
    [] e = "ret" -> <<\hc3>>
    [] e = "xor_edx_edx" -> <<\h31, \hd2>>
    [] e = "mov_eax_edx" -> <<\h89, \hd0>>
    [] e = "shr_eax_cl" -> <<\hd3, \he8>>
    [] e = "movzx_eax_dl" -> <<\h0f, \hb6, \hc2>>
    [] e = "imul_ecx" -> <<\hf7, \he9>>
    [] e = "mul_ecx" -> <<\hf7, \he1>>

\* The bytes gen_<e>(block, rv, a) passes to gen_emit_data, in order.
Encode(e, a) ==
  CASE e \in {"mov_rax_imm32", "mov_rcx_imm32", "mov_rcx_imm64", "cmp_rax_rcx",
              "xor_rax_rax", "cmp_rax_imm32", "mov_r8_imm64", "mov_r8_imm32",
              "mov_r9_imm64"} -> EncodeImm(e, a)
    [] e = "call_r9" -> CallR9
    [] e \in {"add_rdx_imm32", "xor_ecx_ecx", "mov_ecx_imm32", "mov_eax_rv32pc",
              "mov_rv32pc_eax", "mov_eax_rv32reg", "mov_ecx_rv32reg",
              "mov_rv32reg_eax"} -> EncodeTransfer(e, a)
    [] e \in {"add_eax_ecx", "add_eax_imm32", "xor_eax_eax", "xor_eax_ecx",
              "and_eax_ecx", "or_eax_ecx", "sub_eax_ecx", "xor_eax_imm32",
              "or_eax_imm32", "and_eax_imm32", "cmp_eax_imm32", "mov_eax_imm32",
              "cmp_eax_ecx"} -> EncodeAlu(e, a)
    [] e \in {"mov_rv32pc_r8", "mov_r8_rv32reg", "mov_edx_rv32reg", "xor_rdx_rdx",
              "add_edx_imm32"} -> EncodeWide(e, a)
    [] OTHER -> EncodeShiftFlag(e, a)

\* gen_emit_data: memcpy(block->code + block->head, ptr, size); head += size.
EmitData(data) == code' = code \o data

Init == code = <<>> /\ lastCall = <<"none", 0>> /\ calls = 0

\* The translator calls gen_<e>(block, rv, a).
Emit(e, a) ==
  /\ calls < MaxCalls
  /\ EmitData(Encode(e, a))
  /\ lastCall' = <<e, a>>
  /\ calls' = calls + 1

Next == \E e \in Emitters : \E a \in ArgsOf(e) : Emit(e, a)

Spec == Init /\ [][Next]_vars

=============================================================================
