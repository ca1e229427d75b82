------------------------------ MODULE MC_FClass ------------------------------
(***************************************************************************)
(* calc_fclass against the RISC-V classification over the boundary values *)
(* of each field: both signs, the exponents 0, 1, the bias, the last ones *)
(* below and at 0x78000000 >> 23, the largest finite and all-ones, and    *)
(* fractions at zero, one, the 0x7ff / 0x800 split the code uses, around  *)
(* the quiet bit (bit 22) and all-ones.                                    *)
(***************************************************************************)
EXTENDS FClass

Expns == {0, 1, 127, 239, 240, 254, 255}
Fracs == {0, 1, 2047, 2048, 2^22 - 1, 2^22, FracMod - 1}
Floats == [sign: 0 .. 1, expn: Expns, frac: Fracs]

NotComputed == -1

VARIABLES f, cls

Init == f \in Floats /\ cls = NotComputed

\* FCLASS.S of op_fp: calc_fclass on the register's bits.
Classify == cls = NotComputed /\ cls' = CalcFClass(f) /\ UNCHANGED f

Spec == Init /\ [][Classify]_<<f, cls>>

(***************************************************************************)
(* FCLASS.S sets exactly the one bit the specification (4.7) gives the    *)
(* value's class: every normal number is classified, and a NaN is quiet  *)
(* exactly when fraction bit 22 is set.                                   *)
(***************************************************************************)
FClassMatchesRef == cls # NotComputed => cls = FClassRef(f)

=============================================================================
