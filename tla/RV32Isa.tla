------------------------------ MODULE RV32Isa -------------------------------
(***************************************************************************)
(* Reference semantics of the RV32IMA value computations, written from    *)
(* the specification (section 4.3 to 4.6) and the RISC-V definitions it   *)
(* cites, independently of the C code: two's complement read off the sign *)
(* bit, arithmetic shift as complement-shift-complement, division as the  *)
(* floor quotient corrected toward zero.  The interpreter's operators in  *)
(* RV32Alu are checked against these.                                     *)
(***************************************************************************)
EXTENDS RV32Word

\* The signed value of a word: subtract 2^XLEN when the sign bit is set.
Signed(w) == w - (w \div SignBit) * Mod

\* Logical and arithmetic right shift of a word by s bits.
Srl(w, s) == w \div 2^s
Sra(w, s) == IF w >= SignBit THEN AllOnes - Srl(AllOnes - w, s) ELSE Srl(w, s)

\* Quotient rounded toward zero (RISC-V DIV), from the floor quotient.
TruncDiv(x, y) == LET q == x \div y IN IF q < 0 /\ q * y # x THEN q + 1 ELSE q

\* The funct3 = 5 shift-immediate form is arithmetic when the immediate
\* has a bit set outside its low five (spec 4.3).
IsaShiftIsArith(imm) == imm < 0 \/ imm >= XLEN

IsaOpImm(funct3, a, imm) ==
  LET i == imm % Mod  \* the sign-extended immediate as a word
      s == imm % XLEN IN
  CASE funct3 = 0 -> (a + i) % Mod
    [] funct3 = 1 -> (a * 2^s) % Mod
    [] funct3 = 2 -> IF Signed(a) < imm THEN 1 ELSE 0
    [] funct3 = 3 -> IF a < i THEN 1 ELSE 0
    [] funct3 = 4 -> a ^^ i
    [] funct3 = 5 -> IF IsaShiftIsArith(imm) THEN Sra(a, s) ELSE Srl(a, s)
    [] funct3 = 6 -> a | i
    [] funct3 = 7 -> a & i

IsaOp(funct7, funct3, a, b) ==
  LET s  == b % XLEN
      sa == Signed(a)
      sb == Signed(b) IN
  CASE funct7 = 0 /\ funct3 = 0 -> (a + b) % Mod
    [] funct7 = 0 /\ funct3 = 1 -> (a * 2^s) % Mod
    [] funct7 = 0 /\ funct3 = 2 -> IF sa < sb THEN 1 ELSE 0
    [] funct7 = 0 /\ funct3 = 3 -> IF a < b THEN 1 ELSE 0
    [] funct7 = 0 /\ funct3 = 4 -> a ^^ b
    [] funct7 = 0 /\ funct3 = 5 -> Srl(a, s)
    [] funct7 = 0 /\ funct3 = 6 -> a | b
    [] funct7 = 0 /\ funct3 = 7 -> a & b
    [] funct7 = 1 /\ funct3 = 0 -> (a * b) % Mod
    [] funct7 = 1 /\ funct3 = 1 -> ((sa * sb) \div Mod) % Mod
    [] funct7 = 1 /\ funct3 = 2 -> ((sa * b) \div Mod) % Mod
    [] funct7 = 1 /\ funct3 = 3 -> (a * b) \div Mod
    [] funct7 = 1 /\ funct3 = 4 -> CASE b = 0 -> AllOnes
                                      [] a = SignBit /\ b = AllOnes -> SignBit
                                      [] OTHER -> TruncDiv(sa, sb) % Mod
    [] funct7 = 1 /\ funct3 = 5 -> IF b = 0 THEN AllOnes ELSE a \div b
    [] funct7 = 1 /\ funct3 = 6 -> CASE b = 0 -> a
                                      [] a = SignBit /\ b = AllOnes -> 0
                                      [] OTHER -> (sa - sb * TruncDiv(sa, sb)) % Mod
    [] funct7 = 1 /\ funct3 = 7 -> IF b = 0 THEN a ELSE a % b
    [] funct7 = 32 /\ funct3 = 0 -> (a - b) % Mod
    [] funct7 = 32 /\ funct3 = 5 -> Sra(a, s)

IsaBranch(funct3, a, b) ==
  CASE funct3 = 0 -> a = b
    [] funct3 = 1 -> a # b
    [] funct3 = 4 -> Signed(a) < Signed(b)
    [] funct3 = 5 -> ~(Signed(a) < Signed(b))
    [] funct3 = 6 -> a < b
    [] funct3 = 7 -> ~(a < b)

\* The new memory word of an AMO from the old word and X[rs2] (spec 4.6).
IsaAmo(funct5, old, b) ==
  CASE funct5 = 1  -> b
    [] funct5 = 0  -> (old + b) % Mod
    [] funct5 = 4  -> old ^^ b
    [] funct5 = 12 -> old & b
    [] funct5 = 8  -> old | b
    [] funct5 = 16 -> IF Signed(old) <= Signed(b) THEN old ELSE b
    [] funct5 = 20 -> IF Signed(old) >= Signed(b) THEN old ELSE b
    [] funct5 = 24 -> IF old <= b THEN old ELSE b
    [] funct5 = 28 -> IF old >= b THEN old ELSE b

\* A byte or half loaded with sign extension (LB, LH).
IsaSext(v, m) == IF v < m \div 2 THEN v ELSE v + (Mod - m)

=============================================================================
