------------------------------ MODULE RV32Float ------------------------------
(***************************************************************************)
(* Float registers as the code sees them.  rv->F[] holds host floats; the  *)
(* handlers either copy their 32 bits (memcpy in op_load_fp, op_store_fp,   *)
(* FSGNJ, FMV) or let the host compare and convert them.  A float register *)
(* is kept as an XLEN-bit word read as an IEEE-754 binary format of the    *)
(* same shape as binary32 (sign, biased exponent, fraction, the FMASK_*    *)
(* layout), scaled with the word: E5M2 at XLEN = 8, E6M9 at 16, binary32  *)
(* at 32, so that, as in binary32, every XLEN-bit integer is a finite      *)
(* float.  Zeros, subnormals, infinities, signaling and quiet NaNs, the    *)
(* ordering of values and rounding to nearest keep their shape.           *)
(***************************************************************************)
EXTENDS RV32Word

ExpW  == CASE XLEN = 8 -> 5 [] XLEN = 16 -> 6 [] XLEN = 32 -> 8
FracW == XLEN - 1 - ExpW
FracMod == 2^FracW                 \* FMASK_FRAC + 1
ExpMax  == 2^ExpW - 1              \* all-ones exponent: infinities and NaNs
Bias    == 2^(ExpW - 1) - 1
QuietBit == 2^(FracW - 1)          \* top fraction bit

\* f & FMASK_SIGN, f & FMASK_EXPN, f & FMASK_FRAC, as field values.
FSign(f) == f \div SignBit
FExpn(f) == (f \div FracMod) % (ExpMax + 1)
FFrac(f) == f % FracMod

IsNaN(f)  == FExpn(f) = ExpMax /\ FFrac(f) # 0
IsInf(f)  == FExpn(f) = ExpMax /\ FFrac(f) = 0
QNaNs     == {f \in Word : IsNaN(f) /\ FFrac(f) >= QuietBit}

\* Host float comparison: sign-magnitude order of the bit patterns, both
\* zeros equal, every comparison with a NaN false (C ==, <, <= on floats).
OrderKey(f) == IF FSign(f) = 1 THEN -(f % SignBit) ELSE f % SignBit
FEq(a, b) == ~IsNaN(a) /\ ~IsNaN(b) /\ OrderKey(a) = OrderKey(b)
FLt(a, b) == ~IsNaN(a) /\ ~IsNaN(b) /\ OrderKey(a) < OrderKey(b)
FLe(a, b) == ~IsNaN(a) /\ ~IsNaN(b) /\ OrderKey(a) <= OrderKey(b)

\* FSGNJ.S, FSGNJN.S, FSGNJX.S on the raw bits (rm = 0, 1, 2).
SignInject(rm, f1, f2) ==
  CASE rm = 0 -> WOr(WAnd(f1, Complement(SignBit)), WAnd(f2, SignBit))
    [] rm = 1 -> WOr(WAnd(f1, Complement(SignBit)), WAnd(Complement(f2), SignBit))
    [] rm = 2 -> WXor(f1, WAnd(f2, SignBit))

\* What fminf/fmaxf of the host libm may return (C99 F.9.9.2/3): the
\* other operand when one is a NaN (a quiet NaN instead when that one is
\* signaling), a quiet NaN when both are, either zero on a +0/-0 tie.
FMinMax(isMax, a, b) ==
  LET better(x, y) == IF isMax THEN OrderKey(x) > OrderKey(y)
                               ELSE OrderKey(x) < OrderKey(y)
      sig(x)       == IsNaN(x) /\ FFrac(x) < QuietBit IN
  CASE IsNaN(a) /\ IsNaN(b) -> QNaNs
    [] IsNaN(a) -> {b} \cup (IF sig(a) THEN QNaNs ELSE {})
    [] IsNaN(b) -> {a} \cup (IF sig(b) THEN QNaNs ELSE {})
    [] OrderKey(a) = OrderKey(b) -> {a, b}
    [] OTHER -> {IF better(a, b) THEN a ELSE b}

\* The value of a finite float truncated toward zero, as an integer.
Trunc(f) ==
  LET e   == FExpn(f) - Bias
      m   == FracMod + FFrac(f)
      mag == IF e < 0 THEN 0
             ELSE IF e >= FracW THEN m * 2^(e - FracW)
             ELSE m \div 2^(FracW - e) IN
  IF FSign(f) = 1 THEN -mag ELSE mag

\* (int32_t)F[rs1] and (uint32_t)F[rs1]: C leaves a value whose truncation
\* is out of range (or a NaN, an infinity) undefined; the x86-64 build
\* converts with cvttss2si, which gives the integer indefinite 0x80000000
\* for (int32_t), and for (uint32_t) converts to 64 bits and keeps the low
\* word (0 for the 64-bit indefinite).
CvtWS(f) ==
  IF ~IsNaN(f) /\ ~IsInf(f) /\ -SignBit <= Trunc(f) /\ Trunc(f) < SignBit
  THEN U(Trunc(f)) ELSE SignBit
CvtWUS(f) ==
  IF ~IsNaN(f) /\ ~IsInf(f) /\ -(Mod * SignBit) <= Trunc(f)
                             /\ Trunc(f) < Mod * SignBit
  THEN U(Trunc(f)) ELSE 0

Log2Floor(n) == CHOOSE k \in 0 .. 2 * XLEN : 2^k <= n /\ n < 2^(k + 1)

(***************************************************************************)
(* The host's IEEE arithmetic (SSE, round to nearest-even, no flush to   *)
(* zero).  A finite float is SigOf(f) * 2^ExpOf(f).                       *)
(***************************************************************************)
EMin == 1 - Bias - FracW           \* exponent of the smallest subnormal
SigOf(f) == IF FExpn(f) = 0 THEN FFrac(f) ELSE FracMod + FFrac(f)
ExpOf(f) == (IF FExpn(f) = 0 THEN 1 ELSE FExpn(f)) - Bias - FracW
IsZero(f) == FExpn(f) = 0 /\ FFrac(f) = 0

\* The float nearest to (-1)^s * m * 2^e (ties to even), infinity above
\* the largest finite value; m = 0 gives the zero of sign s.
RoundExact(s, m, e) ==
  LET k   == Log2Floor(m)
      te  == IF k + e - FracW > EMin THEN k + e - FracW ELSE EMin
      sh  == te - e
      q   == IF sh <= 0 THEN m * 2^(-sh) ELSE m \div 2^sh
      r   == IF sh <= 0 THEN 0 ELSE m % 2^sh
      up  == sh > 0 /\ (r > 2^(sh - 1) \/ (r = 2^(sh - 1) /\ q % 2 = 1))
      q2  == q + (IF up THEN 1 ELSE 0)
      q3  == IF q2 = 2 * FracMod THEN FracMod ELSE q2
      be  == (IF q2 = 2 * FracMod THEN te + 1 ELSE te) - EMin + 1
      mag == IF m = 0 THEN 0
             ELSE IF q3 < FracMod THEN q3
             ELSE IF be >= ExpMax THEN ExpMax * FracMod
             ELSE be * FracMod + (q3 - FracMod) IN
  s * SignBit + mag

\* (float)n for an integer n: the host rounds to nearest, ties to even.
RoundToFloat(n) == RoundExact(IF n < 0 THEN 1 ELSE 0, IF n < 0 THEN -n ELSE n, 0)

\* NaN results: an operand NaN is quieted, the first source operand's
\* taken first; the compiler may swap the operands of + and *; an invalid
\* operation gives the x86 default NaN (sign set, quiet bit only).
Quiet(f) == WOr(f, QuietBit)
DefaultNaN == SignBit + ExpMax * FracMod + QuietBit
FirstNaN(a, b) == Quiet(IF IsNaN(a) THEN a ELSE b)
NaNsOf(commutes, a, b) ==
  IF commutes THEN {FirstNaN(a, b), FirstNaN(b, a)} ELSE {FirstNaN(a, b)}
Inf(s) == s * SignBit + ExpMax * FracMod

\* {a + b} of finite floats.  The operands are aligned FracW + 4 bits
\* below the larger exponent; a nonzero operand entirely below that is kept
\* as a sticky unit, which cannot change the rounded result.  Exact values
\* are bound once (n \in {...}) before they are rounded.
AddFinite(a, b) ==
  LET eh == IF ExpOf(a) > ExpOf(b) THEN ExpOf(a) ELSE ExpOf(b)
      e0 == eh - FracW - 4
      part(f) == (IF FSign(f) = 1 THEN -1 ELSE 1) *
                 (IF SigOf(f) = 0 THEN 0
                  ELSE IF ExpOf(f) > e0 THEN SigOf(f) * 2^(ExpOf(f) - e0)
                  ELSE 1)
      sum == part(a) + part(b) IN
  {IF n = 0 THEN (IF FSign(a) = 1 /\ FSign(b) = 1 THEN SignBit ELSE 0)
   ELSE RoundExact(IF n < 0 THEN 1 ELSE 0, IF n < 0 THEN -n ELSE n, e0) : n \in {sum}}

\* F[rs1] + F[rs2], and F[rs1] - F[rs2] when isSub.
FAddSub(isSub, a, b) ==
  LET b2 == IF isSub THEN WXor(b, SignBit) ELSE b IN
  CASE IsNaN(a) \/ IsNaN(b) -> NaNsOf(~isSub, a, b)
    [] IsInf(a) /\ IsInf(b2) /\ FSign(a) # FSign(b2) -> {DefaultNaN}
    [] IsInf(a) -> {a}
    [] IsInf(b2) -> {b2}
    [] OTHER -> AddFinite(a, b2)

\* F[rs1] * F[rs2].
FMul(a, b) ==
  LET s == (FSign(a) + FSign(b)) % 2 IN
  CASE IsNaN(a) \/ IsNaN(b) -> NaNsOf(TRUE, a, b)
    [] (IsInf(a) /\ IsZero(b)) \/ (IsZero(a) /\ IsInf(b)) -> {DefaultNaN}
    [] IsInf(a) \/ IsInf(b) -> {Inf(s)}
    [] OTHER -> {RoundExact(s, n, ExpOf(a) + ExpOf(b)) : n \in {SigOf(a) * SigOf(b)}}

\* F[rs1] / F[rs2]: the quotient to 2 * FracW + 3 bits and a sticky bit.
FDiv(a, b) ==
  LET s  == (FSign(a) + FSign(b)) % 2
      K  == 2 * FracW + 3
      q  == (SigOf(a) * 2^K) \div SigOf(b)
      st == IF (SigOf(a) * 2^K) % SigOf(b) = 0 THEN 0 ELSE 1 IN
  CASE IsNaN(a) \/ IsNaN(b) -> NaNsOf(FALSE, a, b)
    [] (IsInf(a) /\ IsInf(b)) \/ (IsZero(a) /\ IsZero(b)) -> {DefaultNaN}
    [] IsInf(a) \/ IsZero(b) -> {Inf(s)}
    [] IsInf(b) \/ IsZero(a) -> {s * SignBit}
    [] OTHER -> {RoundExact(s, n, ExpOf(a) - ExpOf(b) - K - 1) : n \in {2 * q + st}}

\* sqrtf(F[rs1]): the root to FracW + 4 bits and a sticky bit.
FSqrt(a) ==
  LET K  == FracW + 3
      m  == SigOf(a) * (IF ExpOf(a) % 2 = 1 THEN 2 ELSE 1) * 2^(2 * K)
      e  == ExpOf(a) - (ExpOf(a) % 2)
      rt == CHOOSE x \in 0 .. 2^(K + 2) : x * x <= m /\ m < (x + 1) * (x + 1)
      st == IF rt * rt = m THEN 0 ELSE 1 IN
  CASE IsNaN(a) -> {Quiet(a)}
    [] IsZero(a) -> {a}
    [] FSign(a) = 1 -> {DefaultNaN}
    [] IsInf(a) -> {a}
    [] OTHER -> {RoundExact(0, n, e \div 2 - K - 1) : n \in {2 * rt + st}}

=============================================================================
