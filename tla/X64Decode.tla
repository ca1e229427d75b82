----------------------------- MODULE X64Decode ------------------------------
(***************************************************************************)
(* A reference x86-64 decoder for the instructions the JIT emitters of    *)
(* riscv_jit.h use, written from the x86 encoding rules (REX prefix,      *)
(* one- and two-byte opcodes, the ModRM byte, little-endian immediates),  *)
(* not from the emitters.  An instruction is decoded to a listing entry   *)
(* <<mnemonic, operand, ...>>: a register, a memory operand through a    *)
(* register, an immediate of a 32-bit or narrower operation (int32 for    *)
(* 32-bit immediates) or a 64-bit immediate as two int32 halves, since    *)
(* TLC's integers are 32-bit.  Bytes that are not a whole instruction of  *)
(* the subset decode to <<"bad">>, which ends the listing.                *)
(***************************************************************************)
EXTENDS Integers, Sequences, SequencesExt

Reg64 == <<"rax", "rcx", "rdx", "rbx", "rsp", "rbp", "rsi", "rdi",
           "r8", "r9", "r10", "r11", "r12", "r13", "r14", "r15">>
Reg32 == <<"eax", "ecx", "edx", "ebx", "esp", "ebp", "esi", "edi",
           "r8d", "r9d", "r10d", "r11d", "r12d", "r13d", "r14d", "r15d">>
Reg16 == <<"ax", "cx", "dx", "bx">>
Reg8  == <<"al", "cl", "dl", "bl">>

\* Operands are tagged tuples, so that any two compare.
Reg(r)        == <<"reg", r>>
Mem(r)        == <<"mem", r>>
Imm(v)        == <<"imm", v>>
Imm64(hi, lo) == <<"imm64", hi, lo>>
BadOp         == <<"bad">>

RegName(width, n) ==
  Reg(CASE width = 64 -> Reg64[n + 1]
        [] width = 32 -> Reg32[n + 1]
        [] width = 16 -> Reg16[n + 1]
        [] width = 8  -> Reg8[n + 1])

\* The immediate zero as a source for register operand r.
ZeroFor(r) == IF r[2] \in Range(Reg64) THEN Imm64(0, 0) ELSE Imm(0)

\* An int32 sign-extended to 64 bits.
SExt64(v) == Imm64(IF v < 0 THEN -1 ELSE 0, v)

\* The int32 stored little-endian in c[i .. i+3].
Int32At(c, i) ==
  c[i] + 256 * c[i + 1] + 65536 * c[i + 2]
       + 16777216 * (IF c[i + 3] >= 128 THEN c[i + 3] - 256 ELSE c[i + 3])

\* The int8 at c[i].
Int8At(c, i) == IF c[i] >= 128 THEN c[i] - 256 ELSE c[i]

Bad == [ins |-> <<"bad">>, len |-> 0]

(***************************************************************************)
(* The instruction starting at c[i], with its length.  p is 1 when a REX  *)
(* prefix (0x40-0x4F) is present; W selects 64-bit operands, R extends    *)
(* the ModRM reg field and B the rm field or the register of B8+r.        *)
(***************************************************************************)
DecodeAt(c, i) ==
  LET n    == Len(c) - i + 1                       \* bytes left
      rex  == IF c[i] \in 64 .. 79 THEN c[i] ELSE 0
      p    == IF rex = 0 THEN 0 ELSE 1
      W    == (rex \div 8) % 2 = 1
      R    == ((rex \div 4) % 2) * 8
      B    == (rex % 2) * 8
      w    == IF W THEN 64 ELSE 32
      has(k) == n >= p + k                          \* k bytes after the prefix
      op   == c[i + p]
      m    == c[i + p + 1]                          \* ModRM after a 1-byte op
      mod  == m \div 64
      reg  == (m \div 8) % 8
      rm   == m % 8
      \* The r/m operand of width wd: a register, or [base] without displacement.
      RM(wd) == IF mod = 3 THEN RegName(wd, rm + B)
                ELSE IF mod = 0 /\ rm \notin {4, 5} THEN Mem(RegName(64, rm + B)[2])
                ELSE BadOp
      imm32(k) == IF W THEN SExt64(Int32At(c, i + p + k)) ELSE Imm(Int32At(c, i + p + k))
      imm8s(k) == IF W THEN SExt64(Int8At(c, i + p + k)) ELSE Imm(Int8At(c, i + p + k))
      Alu  == [x \in {1, 9, 33, 41, 49, 57} |->
                 CASE x = 1 -> "add" [] x = 9 -> "or" [] x = 33 -> "and"
                   [] x = 41 -> "sub" [] x = 49 -> "xor" [] x = 57 -> "cmp"]
      AccI == [x \in {5, 13, 37, 53, 61} |->
                 CASE x = 5 -> "add" [] x = 13 -> "or" [] x = 37 -> "and"
                   [] x = 53 -> "xor" [] x = 61 -> "cmp"]
      Shf  == [x \in {4, 5, 7} |-> CASE x = 4 -> "shl" [] x = 5 -> "shr" [] x = 7 -> "sar"]
      Cmov == [x \in {66, 67, 68, 69, 76, 77} |->
                 CASE x = 66 -> "cmovb" [] x = 67 -> "cmovnb" [] x = 68 -> "cmove"
                   [] x = 69 -> "cmovne" [] x = 76 -> "cmovl" [] x = 77 -> "cmovge"]
      E(ins, k) == IF has(k) /\ \A j \in 2 .. Len(ins) : ins[j] # BadOp
                   THEN [ins |-> ins, len |-> p + k] ELSE Bad
  IN
  IF ~has(1) THEN Bad
  ELSE IF rex = 0 /\ op \in {195, 85, 93} THEN
    E(CASE op = 195 -> <<"ret">> [] op = 85 -> <<"push", Reg("rbp")>>
                                 [] op = 93 -> <<"pop", Reg("rbp")>>, 1)
  ELSE IF op \in 184 .. 191 THEN                    \* B8+r: mov r, imm32/imm64
    IF W THEN IF has(9) THEN E(<<"mov", RegName(64, op - 184 + B),
                                  Imm64(Int32At(c, i + p + 5), Int32At(c, i + p + 1))>>, 9)
                        ELSE Bad
         ELSE IF has(5) THEN E(<<"mov", RegName(32, op - 184 + B), Imm(Int32At(c, i + p + 1))>>, 5)
                        ELSE Bad
  ELSE IF op \in DOMAIN AccI THEN                   \* op eAX/rAX, imm32
    IF has(5) THEN E(<<AccI[op], RegName(w, 0), imm32(1)>>, 5) ELSE Bad
  ELSE IF ~has(2) THEN Bad
  ELSE IF op \in DOMAIN Alu THEN E(<<Alu[op], RM(w), RegName(w, reg + R)>>, 2)
  ELSE IF op = 137 THEN E(<<"mov", RM(w), RegName(w, reg + R)>>, 2)      \* 89
  ELSE IF op = 139 THEN E(<<"mov", RegName(w, reg + R), RM(w)>>, 2)      \* 8B
  ELSE IF op = 199 /\ reg = 0 THEN                                       \* C7 /0
    IF has(6) THEN E(<<"mov", RM(w), imm32(2)>>, 6) ELSE Bad
  ELSE IF op = 129 /\ reg = 0 THEN                                       \* 81 /0
    IF has(6) THEN E(<<"add", RM(w), imm32(2)>>, 6) ELSE Bad
  ELSE IF op = 131 /\ reg \in {0, 5} THEN                                \* 83 /0 /5
    IF has(3) THEN E(<<IF reg = 0 THEN "add" ELSE "sub", RM(w), imm8s(2)>>, 3) ELSE Bad
  ELSE IF op = 128 /\ reg = 4 THEN                                       \* 80 /4
    IF has(3) THEN E(<<"and", RM(8), Imm(c[i + p + 2])>>, 3) ELSE Bad
  ELSE IF op = 193 /\ reg \in DOMAIN Shf THEN                            \* C1 /r ib
    IF has(3) THEN E(<<Shf[reg], RM(w), Imm(c[i + p + 2])>>, 3) ELSE Bad
  ELSE IF op = 211 /\ reg \in DOMAIN Shf THEN E(<<Shf[reg], RM(w), Reg("cl")>>, 2)  \* D3
  ELSE IF op = 247 /\ reg \in {4, 5} THEN                                \* F7 /4 /5
    E(<<IF reg = 4 THEN "mul" ELSE "imul", RM(w)>>, 2)
  ELSE IF op = 255 /\ reg = 2 THEN E(<<"call", RM(64)>>, 2)             \* FF /2
  ELSE IF op = 15 /\ has(3) THEN                                        \* 0F xx
    LET op2 == c[i + p + 1]
        m2  == c[i + p + 2]
        rg2 == ((m2 \div 8) % 8) + R
        rm2 == IF m2 \div 64 = 3 THEN (m2 % 8) + B ELSE -1 IN
    IF rm2 < 0 THEN Bad
    ELSE CASE op2 = 146 -> E(<<"setb", RegName(8, rm2)>>, 3)
           [] op2 = 156 -> E(<<"setl", RegName(8, rm2)>>, 3)
           [] op2 = 190 -> E(<<"movsx", RegName(w, rg2), RegName(8, rm2)>>, 3)
           [] op2 = 191 -> E(<<"movsx", RegName(w, rg2), RegName(16, rm2)>>, 3)
           [] op2 = 182 -> E(<<"movzx", RegName(w, rg2), RegName(8, rm2)>>, 3)
           [] op2 \in DOMAIN Cmov -> E(<<Cmov[op2], RegName(w, rg2), RegName(w, rm2)>>, 3)
           [] OTHER -> Bad
  ELSE Bad

(***************************************************************************)
(* Canonical form of a listing, identifying instructions with the same    *)
(* effect on the registers they name: zeroing by xor (or by and with 0)   *)
(* is a move of 0, and an add, sub, or, xor or shift by 0 does nothing.   *)
(***************************************************************************)
CanonIns(x) ==
  IF Len(x) = 3 /\ x[1] = "xor" /\ x[2] = x[3] THEN <<<<"mov", x[2], ZeroFor(x[2])>>>>
  ELSE IF Len(x) = 3 /\ x[1] = "and" /\ x[3] = ZeroFor(x[2])
    THEN <<<<"mov", x[2], ZeroFor(x[2])>>>>
  ELSE IF Len(x) = 3 /\ x[1] \in {"add", "sub", "or", "xor", "shl", "shr", "sar"}
          /\ x[3] = ZeroFor(x[2]) THEN <<>>
  ELSE <<x>>

Canon(s) == FlattenSeq([k \in DOMAIN s |-> CanonIns(s[k])])

(***************************************************************************)
(* The canonical listing of a code buffer: decode from the first byte,    *)
(* each instruction starting where the previous one ends; a bad entry     *)
(* ends the listing.  Written as a recursive function over positions, so  *)
(* that each position is decoded once however the buffer is given.        *)
(***************************************************************************)
Listing(c) ==
  LET from[i \in 1 .. Len(c) + 1] ==
        IF i > Len(c) THEN <<>>
        ELSE LET d == DecodeAt(c, i) IN
             IF d.len = 0 THEN CanonIns(d.ins)
             ELSE CanonIns(d.ins) \o from[i + d.len]
  IN from[1]

=============================================================================
