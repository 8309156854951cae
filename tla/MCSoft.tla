------------------------------- MODULE MCSoft -------------------------------
(***************************************************************************)
(* Halves of 7 bits.  Integers have 14 bits, all combinations of halves at  *)
(* and next to their limits.  Doubles come in two formats: 5 bits of        *)
(* exponent and 8 of mantissa, where exponents are further apart than two    *)
(* words and every integer can be converted, and 3 bits of exponent and 10  *)
(* of mantissa, where the product of two significands reaches into the       *)
(* fourth word as it does for 52 bits.                                      *)
(***************************************************************************)
EXTENDS CvmSoft

MCFormats == {3, 5}

MCHalves == {0, 1, 37, 63, 64, 127}
MCIntegers64 == {I64(lo, hi) : lo, hi \in MCHalves}

(* Mantissas: none, the last bit, the first bit, all bits, all but one.     *)
Mantissas(e) ==
  LET top == 2 ^ F(e)!TopBits
  IN  {I64(0, 0), I64(1, 0), I64(0, top \div 2), I64(127, top - 1), I64(126, top - 1),
       I64(85, top \div 2), I64(64, 0), I64(63, top - 1)}

Exponents(e) == IF e = 3 THEN 1 .. 6 ELSE {1, 2, 8, 14, 15, 16, 17, 21, 22, 23, 29, 30}

(* No subnormal numbers; zeros, infinities and two NaNs.                    *)
MCFloats(e) ==
  {F(e)!cvm_d_pack(s, x, m.hi, m.lo) : s \in {0, 1}, x \in Exponents(e), m \in Mantissas(e)}
    \cup {F(e)!SignedZero(0), F(e)!SignedZero(1), F(e)!SignedInf(0), F(e)!SignedInf(1)}
    \cup {F(e)!CVM_D_NAN, F(e)!cvm_d_pack(1, F(e)!ExpMax, 0, 1)}
=============================================================================
