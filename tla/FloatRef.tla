------------------------------ MODULE FloatRef ------------------------------
(***************************************************************************)
(* Reference IEEE-754 semantics of the float operations spec 4.7 leaves  *)
(* to host single-precision math, written from the standard's definitions *)
(* and independently of the code's algorithms: a result is the float      *)
(* nearest to the exact value, found by search over the finite floats,    *)
(* with ties to the even significand; exact values are compared as        *)
(* dyadic numbers m * 2^e, never as a scaled integer; NaN inputs and       *)
(* invalid operations give some quiet NaN, as the standard allows.        *)
(* The exact sum of two floats is formed by aligning their exponents,     *)
(* which stays within TLC's integers when the exponents are at most about *)
(* 24 apart; the checks keep their operands in that range.                *)
(***************************************************************************)
EXTENDS RV32Float

\* Finite non-negative floats, in increasing order of value and bits.
PosFinite == 0 .. ExpMax * FracMod - 1

\* The position of the leading bit of m > 0.
Lead(m) == CHOOSE k \in 0 .. 30 : m \div 2^k = 1

\* -1, 0, 1 for m1 * 2^e1 compared with m2 * 2^e2 (m1, m2 >= 0): by the
\* position of the leading bit first, then aligned.
CmpDyadic(m1, e1, m2, e2) ==
  LET sgn(x) == IF x < 0 THEN -1 ELSE IF x > 0 THEN 1 ELSE 0
      lead1 == Lead(m1) + e1
      lead2 == Lead(m2) + e2
      lo == IF e1 < e2 THEN e1 ELSE e2 IN
  IF m1 = 0 \/ m2 = 0 THEN sgn(m1 - m2)
  ELSE IF lead1 # lead2 THEN sgn(lead1 - lead2)
  ELSE sgn(m1 * 2^(e1 - lo) - m2 * 2^(e2 - lo))

\* The sum of two adjacent non-negative floats, as a dyadic <<m, e>>; the
\* pattern after the largest finite float stands for 2^(emax+1).
DySum(f, g) ==
  LET lo == IF ExpOf(f) < ExpOf(g) THEN ExpOf(f) ELSE ExpOf(g) IN
  <<SigOf(f) * 2^(ExpOf(f) - lo) + SigOf(g) * 2^(ExpOf(g) - lo), lo>>

\* Round to nearest, ties to even, of an exact magnitude v > 0 known
\* through two tests: Below(x) is "x <= v" for a float x, and VsMid(d) is
\* the comparison of v with d / 2 for a dyadic d (twice a midpoint).  The
\* magnitude rounds up to the infinity pattern past the largest float;
\* below the smallest subnormal, lo is zero.
RefRound(s, Below(_), VsMid(_)) ==
  LET lo  == CHOOSE x \in PosFinite : Below(x) /\ (x + 1 \notin PosFinite \/ ~Below(x + 1))
      hi  == lo + 1
      c   == VsMid(DySum(lo, hi))
      pick == IF c < 0 \/ (c = 0 /\ lo % 2 = 0) THEN lo ELSE hi IN
  s * SignBit + pick

AnyQNaN == {f \in Word : IsNaN(f) /\ FFrac(f) >= QuietBit}
Neg(f) == (f + SignBit) % Mod

\* Correctly rounded value of (-1)^s * m * 2^e, m > 0.
RefDyadic(s, m, e) ==
  LET Below(x) == CmpDyadic(SigOf(x), ExpOf(x), m, e) <= 0
      VsMid(d) == CmpDyadic(m, e + 1, d[1], d[2]) IN
  RefRound(s, Below, VsMid)

\* Correctly rounded value of an integer n (nearest, ties to even: the
\* RISC-V result under rm = RNE, or DYN with frm = 0).
RefFromInt(n) == IF n = 0 THEN 0 ELSE RefDyadic(IF n < 0 THEN 1 ELSE 0, IF n < 0 THEN -n ELSE n, 0)

\* -1, 0, 1 as the value of a non-NaN float a is below, equal to or above
\* that of b: the infinities beyond every finite value, both zeros equal.
RefCmp(a, b) ==
  LET sgn(x)  == IF x < 0 THEN -1 ELSE IF x > 0 THEN 1 ELSE 0
      tier(f) == IF IsInf(f) THEN (IF FSign(f) = 1 THEN -1 ELSE 1) ELSE 0
      sv(f)   == IF IsZero(f) THEN 0 ELSE IF FSign(f) = 1 THEN -1 ELSE 1 IN
  CASE tier(a) # tier(b) -> sgn(tier(a) - tier(b))
    [] tier(a) # 0       -> 0
    [] sv(a) # sv(b)     -> sgn(sv(a) - sv(b))
    [] OTHER             -> sv(a) * CmpDyadic(SigOf(a), ExpOf(a), SigOf(b), ExpOf(b))

RefAdd(a, b) ==
  LET sv(f) == IF FSign(f) = 1 THEN -SigOf(f) ELSE SigOf(f)
      lo    == IF ExpOf(a) < ExpOf(b) THEN ExpOf(a) ELSE ExpOf(b)
      sum   == sv(a) * 2^(ExpOf(a) - lo) + sv(b) * 2^(ExpOf(b) - lo) IN
  CASE IsNaN(a) \/ IsNaN(b) -> AnyQNaN
    [] IsInf(a) /\ IsInf(b) -> IF FSign(a) = FSign(b) THEN {a} ELSE AnyQNaN
    [] IsInf(a) -> {a}
    [] IsInf(b) -> {b}
    [] sum = 0  -> {IF IsZero(a) /\ IsZero(b) /\ FSign(a) = 1 /\ FSign(b) = 1
                    THEN SignBit ELSE 0}
    [] OTHER    -> {RefDyadic(IF sum < 0 THEN 1 ELSE 0,
                              IF sum < 0 THEN -sum ELSE sum, lo)}

RefSub(a, b) == IF IsNaN(b) THEN AnyQNaN ELSE RefAdd(a, Neg(b))

RefMul(a, b) ==
  LET s == IF FSign(a) = FSign(b) THEN 0 ELSE 1 IN
  CASE IsNaN(a) \/ IsNaN(b) -> AnyQNaN
    [] IsInf(a) \/ IsInf(b) -> IF IsZero(a) \/ IsZero(b) THEN AnyQNaN
                               ELSE {s * SignBit + ExpMax * FracMod}
    [] IsZero(a) \/ IsZero(b) -> {s * SignBit}
    [] OTHER -> {RefDyadic(s, SigOf(a) * SigOf(b), ExpOf(a) + ExpOf(b))}

RefDiv(a, b) ==
  LET s == IF FSign(a) = FSign(b) THEN 0 ELSE 1
      \* x <= |a| / |b|  iff  x * |b| <= |a|
      Below(x) == CmpDyadic(SigOf(x) * SigOf(b), ExpOf(x) + ExpOf(b),
                            SigOf(a), ExpOf(a)) <= 0
      VsMid(d) == CmpDyadic(SigOf(a), ExpOf(a) + 1,
                            d[1] * SigOf(b), d[2] + ExpOf(b)) IN
  CASE IsNaN(a) \/ IsNaN(b) -> AnyQNaN
    [] IsInf(a) /\ IsInf(b) -> AnyQNaN
    [] IsZero(a) /\ IsZero(b) -> AnyQNaN
    [] IsInf(a) \/ IsZero(b) -> {s * SignBit + ExpMax * FracMod}
    [] IsInf(b) \/ IsZero(a) -> {s * SignBit}
    [] OTHER -> {RefRound(s, Below, VsMid)}

RefSqrt(a) ==
  LET \* x <= sqrt(a)  iff  x * x <= a
      Below(x) == CmpDyadic(SigOf(x) * SigOf(x), 2 * ExpOf(x),
                            SigOf(a), ExpOf(a)) <= 0
      VsMid(d) == CmpDyadic(4 * SigOf(a), ExpOf(a),
                            d[1] * d[1], 2 * d[2]) IN
  CASE IsNaN(a) -> AnyQNaN
    [] IsZero(a) -> {a}
    [] FSign(a) = 1 -> AnyQNaN
    [] IsInf(a) -> {a}
    [] OTHER -> {RefRound(0, Below, VsMid)}

=============================================================================
