------------------------------ MODULE JitAsm --------------------------------
(***************************************************************************)
(* What the JIT emitters promise: each call of gen_<name>(args) appends   *)
(* to the block the x86 instructions its name and its JITPRINTF trace      *)
(* announce, in the listing form of X64Decode.  The promise is read from  *)
(* the name where the trace text is a copy of another emitter's (gen_mov_ *)
(* ecx_rv32reg traces "mov r11, &rv->PC", gen_mov_rcx_imm64 "mov r8",     *)
(* gen_sar_eax_imm8 "shr").  A uint32_t traced with %u is a value, zero-  *)
(* extended into a 64-bit register; one cast to int32_t is sign-extended. *)
(* Reading RV32 register x0 gives 0 and writing it does nothing (spec 3). *)
(* The listing is compared in canonical form, so the zero-operand         *)
(* shortcuts of the emitters are judged by their effect.                  *)
(***************************************************************************)
EXTENDS JitSig, X64Decode

VARIABLES listing, lastCall

asmVars == <<listing, lastCall>>

R11 == Mem("r11")

\* A host address as a 64-bit immediate.
Ptr(p) == Imm64(p[1], p[2])

\* mov r11, ptr: the scratch register takes the address of an rv field.
LoadR11(p) == <<"mov", Reg("r11"), Ptr(p)>>

\* dst := X[r] through the scratch register r11.
LoadX(dst, r) ==
  IF r = 0 THEN << <<"mov", dst, ZeroFor(dst)>> >>
  ELSE << LoadR11(PtrX[r]), <<"mov", dst, R11>> >>

\* X[r] := eax through r11.
StoreX(r) ==
  IF r = 0 THEN <<>> ELSE << LoadR11(PtrX[r]), <<"mov", R11, Reg("eax")>> >>

\* gen_<op>_<dst>_<src>: operation, destination and source read off the
\* name; an immediate source is the call's argument.
Named ==
  [add_eax_ecx |-> <<"add", "eax", "ecx">>, sub_eax_ecx |-> <<"sub", "eax", "ecx">>,
   and_eax_ecx |-> <<"and", "eax", "ecx">>, or_eax_ecx |-> <<"or", "eax", "ecx">>,
   xor_eax_ecx |-> <<"xor", "eax", "ecx">>, cmp_eax_ecx |-> <<"cmp", "eax", "ecx">>,
   xor_eax_eax |-> <<"xor", "eax", "eax">>, xor_ecx_ecx |-> <<"xor", "ecx", "ecx">>,
   xor_edx_edx |-> <<"xor", "edx", "edx">>, xor_rdx_rdx |-> <<"xor", "rdx", "rdx">>,
   mov_eax_edx |-> <<"mov", "eax", "edx">>, shl_eax_cl |-> <<"shl", "eax", "cl">>,
   shr_eax_cl |-> <<"shr", "eax", "cl">>, sar_eax_cl |-> <<"sar", "eax", "cl">>,
   movsx_eax_al |-> <<"movsx", "eax", "al">>, movzx_eax_dl |-> <<"movzx", "eax", "dl">>,
   cmove_eax_edx |-> <<"cmove", "eax", "edx">>, cmovne_eax_edx |-> <<"cmovne", "eax", "edx">>,
   cmovl_eax_edx |-> <<"cmovl", "eax", "edx">>, cmovge_eax_edx |-> <<"cmovge", "eax", "edx">>,
   cmovb_eax_edx |-> <<"cmovb", "eax", "edx">>, cmovnb_eax_edx |-> <<"cmovnb", "eax", "edx">>,
   add_eax_imm32 |-> <<"add", "eax">>, xor_eax_imm32 |-> <<"xor", "eax">>,
   or_eax_imm32 |-> <<"or", "eax">>, and_eax_imm32 |-> <<"and", "eax">>,
   cmp_eax_imm32 |-> <<"cmp", "eax">>, mov_eax_imm32 |-> <<"mov", "eax">>,
   mov_ecx_imm32 |-> <<"mov", "ecx">>, mov_edx_imm32 |-> <<"mov", "edx">>,
   add_edx_imm32 |-> <<"add", "edx">>, shr_eax_imm8 |-> <<"shr", "eax">>,
   sar_eax_imm8 |-> <<"sar", "eax">>, shl_eax_imm8 |-> <<"shl", "eax">>]

Intent(e, a) ==
  CASE e = "mov_rax_imm32"  -> << <<"mov", Reg("rax"), Imm64(0, a)>> >>
    [] e = "mov_rcx_imm32"  -> << <<"mov", Reg("rcx"), Imm64(0, a)>> >>
    [] e = "mov_r8_imm32"   -> << <<"mov", Reg("r8"), Imm64(0, a)>> >>
    [] e = "mov_rcx_imm64"  -> << <<"mov", Reg("rcx"), Ptr(a)>> >>
    [] e = "mov_r8_imm64"   -> << <<"mov", Reg("r8"), Ptr(a)>> >>
    [] e = "mov_r9_imm64"   -> << <<"mov", Reg("r9"), Ptr(a)>> >>
    [] e = "cmp_rax_rcx"    -> << <<"cmp", Reg("rax"), Reg("rcx")>> >>
    [] e = "xor_rax_rax"    -> << <<"xor", Reg("rax"), Reg("rax")>> >>
    [] e = "cmp_rax_imm32"  -> << <<"cmp", Reg("rax"), SExt64(a)>> >>
    [] e = "add_rdx_imm32"  -> << <<"add", Reg("rdx"), SExt64(a)>> >>
    [] e = "call_r9" ->
         << <<"push", Reg("rbp")>>, <<"mov", Reg("rbp"), Reg("rsp")>>,
            <<"sub", Reg("rsp"), Imm64(0, 32)>>, <<"call", Reg("r9")>>,
            <<"add", Reg("rsp"), Imm64(0, 32)>>, <<"pop", Reg("rbp")>> >>
    [] e = "mov_eax_rv32pc" -> << LoadR11(PtrPC), <<"mov", Reg("eax"), R11>> >>
    [] e = "mov_rv32pc_eax" -> << LoadR11(PtrPC), <<"mov", R11, Reg("eax")>> >>
    [] e = "mov_rv32pc_r8"  -> << LoadR11(PtrPC), <<"mov", R11, Reg("r8")>> >>
    [] e = "mov_eax_rv32reg" -> LoadX(Reg("eax"), a)
    [] e = "mov_ecx_rv32reg" -> LoadX(Reg("ecx"), a)
    [] e = "mov_edx_rv32reg" -> LoadX(Reg("edx"), a)
    [] e = "mov_r8_rv32reg"  -> LoadX(Reg("r8"), a)
    [] e = "mov_rv32reg_eax" -> StoreX(a)
    [] e = "setb_dl"        -> << <<"setb", Reg("dl")>> >>
    [] e = "setl_dl"        -> << <<"setl", Reg("dl")>> >>
    [] e = "imul_ecx"       -> << <<"imul", Reg("ecx")>> >>
    [] e = "mul_ecx"        -> << <<"mul", Reg("ecx")>> >>
    [] e = "ret"            -> << <<"ret">> >>
    [] e = "movsx_eax_ax"   -> << <<"movsx", Reg("eax"), Reg("ax")>> >>
    [] e = "and_cl_imm8"    -> << <<"and", Reg("cl"), Imm(a)>> >>
    [] OTHER ->
         LET x == Named[e] IN
         << <<x[1], Reg(x[2]), IF e \in Imm32Arg \cup Imm8Arg THEN Imm(a) ELSE Reg(x[3])>> >>

AsmInit == listing = <<>> /\ lastCall = <<"none", 0>>

\* A call of an emitter appends what it promises.
AsmEmit(e, a) ==
  /\ lastCall' = <<e, a>>
  /\ listing' = listing \o Canon(Intent(e, a))

AsmNext == \E e \in Emitters : \E a \in ArgsOf(e) : AsmEmit(e, a)

AsmSpec == AsmInit /\ [][AsmNext]_asmVars

=============================================================================
