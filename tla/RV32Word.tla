------------------------------ MODULE RV32Word ------------------------------
(***************************************************************************)
(* Machine words of the hart.  The code stores every register in a         *)
(* uint32_t and reinterprets it with (int32_t) casts; C converts any       *)
(* integer to uint32_t modulo 2^32.  The width is the constant XLEN: the   *)
(* code has XLEN = 32, the models are checked at a smaller power of two   *)
(* because TLC's integers are 32-bit signed.  A word is split into four    *)
(* bytes and two halves exactly as a uint32_t is, so sub-word loads and    *)
(* stores, sign extension, shift masking (0x1f = XLEN - 1) and every wrap *)
(* and sign boundary keep their shape at the reduced width.                *)
(***************************************************************************)
EXTENDS Integers, Bitwise

CONSTANT XLEN

ASSUME XLEN \in {8, 16, 32}

Mod      == 2^XLEN                 \* 2^32: uint32_t wraps modulo Mod
Word     == 0 .. Mod - 1           \* values of a uint32_t
SignBit  == 2^(XLEN - 1)           \* 0x80000000u
AllOnes  == Mod - 1                \* ~0u
ByteMod  == 2^(XLEN \div 4)        \* values of a uint8_t
HalfMod  == 2^(XLEN \div 2)        \* values of a uint16_t

\* C conversion of an integer to uint32_t.
U(v) == v % Mod

\* (int32_t) cast of a uint32_t: two's complement reinterpretation.
S(w) == IF w >= SignBit THEN w - Mod ELSE w

\* Shift amounts are masked with & 0x1f, i.e. reduced modulo XLEN.
ShAmt(v) == v % XLEN

\* Seeded variant of SignExtend: the negative value is not taken back to
\* the uint32_t register.
SignExtendNoWrap(v, m) == IF v >= m \div 2 THEN v - m ELSE v

\* sign_extend_b / sign_extend_h: a byte or half read from the host,
\* sign-extended to a full word.
SignExtend(v, m) == IF v >= m \div 2 THEN U(v - m) ELSE v

\* Bitwise complement of a word (~x on a uint32_t).
Complement(w) == AllOnes - w

\* Bitwise operations on words (operands reduced to words first).
WAnd(x, y) == U(x) & U(y)
WOr(x, y)  == U(x) | U(y)
WXor(x, y) == U(x) ^^ U(y)

=============================================================================
