------------------------------- MODULE FClass -------------------------------
(***************************************************************************)
(* Single-precision values and FCLASS.S.  A float register holds the 32   *)
(* bits of an IEEE-754 binary32; it is kept here as the three fields the  *)
(* code masks out (FMASK_SIGN, FMASK_EXPN, FMASK_FRAC), each at its true   *)
(* width, so calc_fclass is translated with its exact constants.          *)
(***************************************************************************)
EXTENDS Integers

FracMod == 2^23
FloatVal == [sign: 0 .. 1, expn: 0 .. 255, frac: 0 .. FracMod - 1]

PosZero == [sign |-> 0, expn |-> 0, frac |-> 0]

\* Comparisons of calc_fclass on the masked fields: f & FMASK_EXPN equals
\* expn * 2^23, so "expn < 0x78000000" is expn < 0xF0, and f == 0xff800000
\* is sign 1, expn 0xFF, frac 0.
CalcFClass(f) ==
  LET bit(c, m) == IF c THEN m ELSE 0
      sgn == f.sign = 1
      e   == f.expn
      fr  == f.frac IN
    bit(sgn /\ e = 255 /\ fr = 0, 1)                         \* -INF
  + bit(e # 0 /\ e < 240 /\ sgn, 2)                          \* negative normal
  + bit(e = 0 /\ fr # 0 /\ sgn, 4)                           \* negative subnormal
  + bit(sgn /\ e = 0 /\ fr = 0, 8)                           \* -0
  + bit(~sgn /\ e = 0 /\ fr = 0, 16)                         \* +0
  + bit(e = 0 /\ fr # 0 /\ ~sgn, 32)                         \* positive subnormal
  + bit(e # 0 /\ e < 240 /\ ~sgn, 64)                        \* positive normal
  + bit(~sgn /\ e = 255 /\ fr = 0, 128)                      \* +INF
  + bit(e = 255 /\ fr <= 2047 /\ fr # 0, 256)                \* signaling NaN
  + bit(e = 255 /\ fr >= 2048, 512)                          \* quiet NaN

\* The classification the specification (4.7) and the RISC-V manual give:
\* exactly one class per value; a NaN is quiet when the top fraction bit
\* (bit 22) is set.
FClassRef(f) ==
  LET quiet == f.frac \div 2^22 = 1 IN
  CASE f.expn = 255 /\ f.frac = 0 -> IF f.sign = 1 THEN 1 ELSE 128
    [] f.expn = 255 /\ ~quiet     -> 256
    [] f.expn = 255               -> 512
    [] f.expn = 0 /\ f.frac = 0   -> IF f.sign = 1 THEN 8 ELSE 16
    [] f.expn = 0                 -> IF f.sign = 1 THEN 4 ELSE 32
    [] OTHER                      -> IF f.sign = 1 THEN 2 ELSE 64

=============================================================================
