----------------------------- MODULE CvmFloat64 -----------------------------
(***************************************************************************)
(* Doubles made of two words (src/runtime/lib/cvm_float64.h and            *)
(* cvm_float64_rt.c): sign, exponent and the top of the mantissa in the     *)
(* high word, the rest of the mantissa in the low one.                     *)
(*                                                                         *)
(* The widths are parameters: Bits for the 32 of a word and ExpBits for the *)
(* 11 of the exponent; the 20 and 52 of the code follow.  Conversions of    *)
(* integers rely on Bias >= Bits, or Bias >= 2 * Bits for 64-bit ones, as    *)
(* the format of the code has it.                                           *)
(***************************************************************************)
EXTENDS CvmInt64

CONSTANT ExpBits    \* 11 in the code

TopBits == Bits - 1 - ExpBits
MantBits == TopBits + Bits
Bias == 2 ^ (ExpBits - 1) - 1
ExpMax == 2 ^ ExpBits - 1

CVM_D_SIGN(x) == Shr(x.hi, Bits - 1)
CVM_D_EXP(x) == Shr(x.hi, TopBits) % 2 ^ ExpBits
CVM_D_MHI(x) == x.hi % 2 ^ TopBits

cvm_d_pack(sign, exp, mhi, mlo) ==
  I64(mlo, sign * 2 ^ (Bits - 1) + (exp % 2 ^ ExpBits) * 2 ^ TopBits + (mhi % 2 ^ TopBits))

SignedZero(sign) == cvm_d_pack(sign, 0, 0, 0)
SignedInf(sign) == cvm_d_pack(sign, ExpMax, 0, 0)
CVM_D_NAN == cvm_d_pack(0, ExpMax, 2 ^ (TopBits - 1), 0)

NoMantissa(x) == CVM_D_MHI(x) = 0 /\ x.lo = 0
cvm_d_iszero(x) == CVM_D_EXP(x) = 0 /\ NoMantissa(x)
cvm_d_isinf(x) == CVM_D_EXP(x) = ExpMax /\ NoMantissa(x)
cvm_d_isnan(x) == CVM_D_EXP(x) = ExpMax /\ ~NoMantissa(x)

Magnitude(x) == I64(x.lo, x.hi % 2 ^ (Bits - 1))
cvm_d_neg(x) == I64(x.lo, (x.hi + 2 ^ (Bits - 1)) % WordMod)

-----------------------------------------------------------------------------
cvm_d_eq(a, b) ==
  /\ ~cvm_d_isnan(a) /\ ~cvm_d_isnan(b)
  /\ (cvm_d_iszero(a) /\ cvm_d_iszero(b)) \/ a = b

cvm_d_ne(a, b) ==
  \/ cvm_d_isnan(a) \/ cvm_d_isnan(b)
  \/ ~(cvm_d_iszero(a) /\ cvm_d_iszero(b)) /\ a # b

(* Faulty, for comparison: negative numbers are ordered as positive ones.  *)
LtOneOrder(a, b) ==
  /\ ~cvm_d_isnan(a) /\ ~cvm_d_isnan(b)
  /\ ~(cvm_d_iszero(a) /\ cvm_d_iszero(b))
  /\ IF CVM_D_SIGN(a) # CVM_D_SIGN(b) THEN CVM_D_SIGN(a) > CVM_D_SIGN(b)
     ELSE cvm_u64_lt(a, b)

cvm_d_lt(a, b) ==
  /\ ~cvm_d_isnan(a) /\ ~cvm_d_isnan(b)
  /\ ~(cvm_d_iszero(a) /\ cvm_d_iszero(b))
  /\ IF CVM_D_SIGN(a) # CVM_D_SIGN(b) THEN CVM_D_SIGN(a) > CVM_D_SIGN(b)
     ELSE IF CVM_D_SIGN(a) = 0 THEN cvm_u64_lt(a, b) ELSE cvm_u64_lt(b, a)

cvm_d_le(a, b) == cvm_d_lt(a, b) \/ cvm_d_eq(a, b)
__cvm_ford(a, b) == ~cvm_d_isnan(a) /\ ~cvm_d_isnan(b)
__cvm_fone(a, b) == cvm_d_lt(a, b) \/ cvm_d_lt(b, a)

-----------------------------------------------------------------------------
(* Conversions.  A float has 3 bits of exponent less than a double, so its  *)
(* mantissa has 3 bits more than the top part of that of a double.          *)
F32ExpBits == ExpBits - 3
F32MantBits == TopBits + 3
F32Bias == 2 ^ (F32ExpBits - 1) - 1
F32ExpMax == 2 ^ F32ExpBits - 1
F32(sign, exp, mant) == sign * 2 ^ (Bits - 1) + exp * 2 ^ F32MantBits + mant

cvm_d_from_f32(f) ==
  LET sign == Shr(f, Bits - 1)
      exp32 == Shr(f, F32MantBits) % 2 ^ F32ExpBits
      m32 == f % 2 ^ F32MantBits
  IN  CASE exp32 = 0 -> SignedZero(sign)
        [] exp32 = F32ExpMax -> IF m32 = 0 THEN SignedInf(sign) ELSE CVM_D_NAN
        [] OTHER -> cvm_d_pack(sign, exp32 - F32Bias + Bias, Shr(m32, 3), Shl(m32 % 8, Bits - 3))

cvm_d_to_f32(x) ==
  LET sign == CVM_D_SIGN(x)
      e32 == CVM_D_EXP(x) - Bias + F32Bias
  IN  CASE CVM_D_EXP(x) = 0 -> F32(sign, 0, 0)
        [] cvm_d_isinf(x) -> F32(sign, F32ExpMax, 0)
        [] cvm_d_isnan(x) -> F32(0, F32ExpMax, 2 ^ (F32MantBits - 1))
        [] OTHER ->
             IF e32 >= F32ExpMax THEN F32(sign, F32ExpMax, 0)
             ELSE IF e32 <= 0 THEN F32(sign, 0, 0)
             ELSE F32(sign, e32, (CVM_D_MHI(x) * 8 + Shr(x.lo, Bits - 3)) % 2 ^ F32MantBits)

cvm__top_bit_u32(x) == CHOOSE n \in 0 .. Bits - 1 : 2 ^ n <= x /\ x < 2 ^ (n + 1)

cvm_d_from_u32(v) ==
  IF v = 0 THEN SignedZero(0)
  ELSE LET top == cvm__top_bit_u32(v)
           m == cvm_u64_shl(I64(v - 2 ^ top, 0), MantBits - top)
       IN  cvm_d_pack(0, Bias + top, m.hi, m.lo)

cvm_d_from_i32(v) ==
  IF SignedHalf(v) < 0 THEN cvm_d_neg(cvm_d_from_u32((WordMod - v) % WordMod))
  ELSE cvm_d_from_u32(v)

(* The integer part of 1.mantissa * 2^e, for 0 <= e < Bits.                  *)
IntegerPart(x, e) ==
  LET mhi_full == CVM_D_MHI(x) + 2 ^ TopBits
      sh == MantBits - e
  IN  IF sh >= Bits THEN Shr(mhi_full, sh - Bits)
      ELSE Shl(mhi_full, Bits - sh) + Shr(x.lo, sh)

(* Faulty, for comparison: saturates one power of two too late.             *)
ToI32LateLimit(x) ==
  LET e == CVM_D_EXP(x) - Bias
      part == IF e >= 0 /\ e < Bits THEN IntegerPart(x, e) ELSE 0
  IN  IF cvm_d_isnan(x) \/ CVM_D_EXP(x) = 0 \/ e < 0 THEN 0
      ELSE IF e >= Bits
      THEN IF CVM_D_SIGN(x) = 1 THEN 2 ^ (Bits - 1) ELSE 2 ^ (Bits - 1) - 1
      ELSE IF CVM_D_SIGN(x) = 1 THEN (WordMod - part) % WordMod ELSE part

cvm_d_to_i32(x) ==
  LET e == CVM_D_EXP(x) - Bias
      negative == CVM_D_SIGN(x) = 1
  IN  IF cvm_d_isnan(x) \/ CVM_D_EXP(x) = 0 \/ e < 0 THEN 0
      ELSE IF e >= Bits - 1
      THEN IF negative THEN 2 ^ (Bits - 1) ELSE 2 ^ (Bits - 1) - 1
      ELSE IF negative THEN (WordMod - IntegerPart(x, e)) % WordMod
      ELSE IntegerPart(x, e)

cvm_d_to_u32(x) ==
  LET e == CVM_D_EXP(x) - Bias
  IN  IF cvm_d_isnan(x) \/ CVM_D_SIGN(x) = 1 \/ CVM_D_EXP(x) = 0 \/ e < 0 THEN 0
      ELSE IF e >= Bits THEN WordMod - 1
      ELSE IntegerPart(x, e)

-----------------------------------------------------------------------------
(* The mantissa with its implicit 1, in two words.                          *)
Significand(x) == I64(x.lo, CVM_D_MHI(x) + 2 ^ TopBits)

(* Faulty, for comparison: bits that leave the high word are dropped.       *)
AlignedHalves(m, d) ==
  IF d >= Bits THEN I64(Shr(m.hi, d - Bits), 0) ELSE I64(Shr(m.lo, d), Shr(m.hi, d))

(* The significand of the smaller operand, aligned with the larger one.     *)
AlignedBy(m, d) ==
  CASE d >= Bits -> I64(Shr(m.hi, d - Bits), 0)
    [] d > 0 /\ d < Bits -> I64(Shr(m.lo, d) + Shl(m.hi, Bits - d), Shr(m.hi, d))
    [] d = 0 -> m

LeadingBit(m) ==
  IF m.hi # 0 THEN Bits + cvm__top_bit_u32(m.hi) ELSE cvm__top_bit_u32(m.lo)

(* The difference, shifted until its leading 1 is where it belongs.         *)
Subtracted(sign, exp, m, n) ==
  LET r == cvm_i64_sub(m, n)
      shl == MantBits - LeadingBit(r)
      s == cvm_u64_shl(r, shl)
  IN  IF r = CVM_I64_ZERO THEN SignedZero(0)
      ELSE IF shl > 0 /\ exp - shl <= 0 THEN SignedZero(sign)
      ELSE cvm_d_pack(sign, exp - shl, s.hi, s.lo)

Added(sign, exp, m, n) ==
  LET r == cvm_i64_add(m, n)
  IN  IF Shr(r.hi, TopBits + 1) % 2 = 0 THEN cvm_d_pack(sign, exp, r.hi, r.lo)
      ELSE IF exp + 1 >= ExpMax THEN SignedInf(sign)
      ELSE cvm_d_pack(sign, exp + 1, Shr(r.hi, 1), Shr(r.lo, 1) + Shl(r.hi, Bits - 1))

(* The sum of finite a and b, |a| >= |b|.                                    *)
SumOrdered(a, b) ==
  LET d == CVM_D_EXP(a) - CVM_D_EXP(b)
      n == AlignedBy(Significand(b), d)
  IN  IF d >= 2 * Bits THEN a
      ELSE IF CVM_D_SIGN(a) # CVM_D_SIGN(b)
      THEN Subtracted(CVM_D_SIGN(a), CVM_D_EXP(a), Significand(a), n)
      ELSE Added(CVM_D_SIGN(a), CVM_D_EXP(a), Significand(a), n)

cvm_d_add(a, b) ==
  IF cvm_d_isnan(a) \/ cvm_d_isnan(b) THEN CVM_D_NAN
  ELSE IF cvm_d_isinf(a)
  THEN IF cvm_d_isinf(b) /\ CVM_D_SIGN(a) # CVM_D_SIGN(b) THEN CVM_D_NAN ELSE a
  ELSE IF cvm_d_isinf(b) \/ cvm_d_iszero(a) THEN b
  ELSE IF cvm_d_iszero(b) THEN a
  ELSE IF cvm_u64_lt(Magnitude(a), Magnitude(b)) THEN SumOrdered(b, a)
  ELSE SumOrdered(a, b)

cvm_d_sub(a, b) == cvm_d_add(a, cvm_d_neg(b))

-----------------------------------------------------------------------------
(* Faulty, for comparison: one carry into the third word is forgotten.      *)
ProductOneCarry(m, n) ==
  LET p0_hi == cvm_mulhu(m.lo, n.lo)
      s1a == (p0_hi + m.lo * n.hi) % WordMod
      w1  == (s1a + m.hi * n.lo) % WordMod
      to2 == Carry(w1 < s1a)
      p1_hi == cvm_mulhu(m.lo, n.hi)
      s2a == (p1_hi + cvm_mulhu(m.hi, n.lo)) % WordMod
      s2b == (s2a + m.hi * n.hi) % WordMod
      w2  == (s2b + to2) % WordMod
      to3 == Carry(s2a < p1_hi) + Carry(s2b < s2a) + Carry(w2 < s2b)
  IN  [w1 |-> w1, w2 |-> w2, w3 |-> (cvm_mulhu(m.hi, n.hi) + to3) % WordMod]

(* The product of two significands in four words, w3 the highest, from the  *)
(* products of their halves; a sum that wraps is smaller than its summand.  *)
Product(m, n) ==
  LET p0_hi == cvm_mulhu(m.lo, n.lo)
      s1a == (p0_hi + m.lo * n.hi) % WordMod
      w1  == (s1a + m.hi * n.lo) % WordMod
      to2 == Carry(s1a < p0_hi) + Carry(w1 < s1a)
      p1_hi == cvm_mulhu(m.lo, n.hi)
      s2a == (p1_hi + cvm_mulhu(m.hi, n.lo)) % WordMod
      s2b == (s2a + m.hi * n.hi) % WordMod
      w2  == (s2b + to2) % WordMod
      to3 == Carry(s2a < p1_hi) + Carry(s2b < s2a) + Carry(w2 < s2b)
  IN  [w1 |-> w1, w2 |-> w2, w3 |-> (cvm_mulhu(m.hi, n.hi) + to3) % WordMod]

(* Overflow is infinite, underflow 0.                                       *)
Packed(sign, exp, hi, lo) ==
  IF exp >= ExpMax THEN SignedInf(sign)
  ELSE IF exp <= 0 THEN SignedZero(sign)
  ELSE cvm_d_pack(sign, exp, hi, lo)

ProductSign(a, b) == (CVM_D_SIGN(a) + CVM_D_SIGN(b)) % 2

(* The top bit of a product is bit TopBits - ExpBits of w3, 9 in the code,   *)
(* and in w2 if that is negative.                                           *)
MulFinite(a, b) ==
  LET w == Product(Significand(a), Significand(b))
      extra == Shr(w.w3 * WordMod + w.w2, Bits + TopBits - ExpBits) % 2
      s == TopBits + extra
  IN  Packed(ProductSign(a, b), CVM_D_EXP(a) + CVM_D_EXP(b) - Bias + extra,
             Shl(w.w3, Bits - s) + Shr(w.w2, s), Shl(w.w2, Bits - s) + Shr(w.w1, s))

cvm_d_mul(a, b) ==
  IF cvm_d_isnan(a) \/ cvm_d_isnan(b) THEN CVM_D_NAN
  ELSE IF cvm_d_isinf(a)
  THEN IF cvm_d_iszero(b) THEN CVM_D_NAN ELSE SignedInf(ProductSign(a, b))
  ELSE IF cvm_d_isinf(b)
  THEN IF cvm_d_iszero(a) THEN CVM_D_NAN ELSE SignedInf(ProductSign(a, b))
  ELSE IF cvm_d_iszero(a) \/ cvm_d_iszero(b) THEN SignedZero(ProductSign(a, b))
  ELSE MulFinite(a, b)

(* A 64-bit integer is hi * 2^Bits + lo.  The power is a product of two      *)
(* (2^16 and 2^16): it is too large for cvm_d_from_u32.                      *)
__cvm_f_from_u64(v) ==
  LET power(n) == cvm_d_from_u32(2 ^ n)
      thi == cvm_d_mul(cvm_d_mul(cvm_d_from_u32(v.hi), power(Bits \div 2)),
                       power(Bits - Bits \div 2))
  IN  IF v.hi = 0 THEN cvm_d_from_u32(v.lo) ELSE cvm_d_add(thi, cvm_d_from_u32(v.lo))

__cvm_f_from_i64(v) ==
  IF Negative(v) THEN cvm_d_neg(__cvm_f_from_u64(cvm_i64_neg(v))) ELSE __cvm_f_from_u64(v)

-----------------------------------------------------------------------------
(* Division: what needs no loop, and the loop on the significands: q is the *)
(* quotient so far, its leading 1 from the start, r the remainder.          *)
DivNeedsLoop(a, b) ==
  /\ \A x \in {a, b} : ~cvm_d_isnan(x) /\ ~cvm_d_isinf(x) /\ ~cvm_d_iszero(x)

DivSpecial(a, b) ==
  IF cvm_d_isnan(a) \/ cvm_d_isnan(b) THEN CVM_D_NAN
  ELSE IF cvm_d_isinf(a)
  THEN IF cvm_d_isinf(b) THEN CVM_D_NAN ELSE SignedInf(ProductSign(a, b))
  ELSE IF cvm_d_isinf(b) THEN SignedZero(ProductSign(a, b))
  ELSE IF cvm_d_iszero(b)
  THEN IF cvm_d_iszero(a) THEN CVM_D_NAN ELSE SignedInf(ProductSign(a, b))
  ELSE SignedZero(ProductSign(a, b))

FDivStart(a, b) ==
  LET less == cvm_u64_lt(Significand(a), Significand(b))
      m == cvm_u64_shl(Significand(a), Carry(less))
  IN  [i |-> 0, q |-> I64(1, 0), r |-> cvm_i64_sub(m, Significand(b)), adjust |-> -Carry(less)]

FDivLast == MantBits + 1

FDivBit(b, l) ==
  LET r == cvm_u64_shl(l.r, 1)
      q == cvm_u64_shl(l.q, 1)
      n == Significand(b)
  IN  IF cvm_u64_le(n, r)
      THEN [l EXCEPT !.i = @ + 1, !.q = [q EXCEPT !.lo = @ + 1], !.r = cvm_i64_sub(r, n)]
      ELSE [l EXCEPT !.i = @ + 1, !.q = q, !.r = r]

(* Faulty, for comparison: the guard bit is dropped without rounding.      *)
DivTruncated(q, exp, r) == [q |-> cvm_u64_shr(q, 1), exp |-> exp]

(* Round to nearest, ties to even: the last bit of q is the guard, what is  *)
(* left of the remainder the sticky bit.                                    *)
cvm_d_div_round_rne(q, exp, r) ==
  LET s == cvm_u64_shr(q, 1)
      up == q.lo % 2 = 1 /\ (r # CVM_I64_ZERO \/ s.lo % 2 = 1)
      t == IF up THEN cvm_i64_add(s, I64(1, 0)) ELSE s
      over == up /\ Shr(t.hi, TopBits + 1) % 2 = 1
  IN  [q |-> IF over THEN cvm_u64_shr(t, 1) ELSE t, exp |-> exp + Carry(over)]

FDivResult(a, b, l) ==
  LET rounded == cvm_d_div_round_rne(l.q, CVM_D_EXP(a) - CVM_D_EXP(b) + Bias + l.adjust, l.r)
  IN  Packed(ProductSign(a, b), rounded.exp, rounded.q.hi, rounded.q.lo)

cvm_d_div(a, b) ==
  LET loop[i \in 0 .. FDivLast] == IF i = 0 THEN FDivStart(a, b) ELSE FDivBit(b, loop[i - 1])
  IN  IF DivNeedsLoop(a, b) THEN FDivResult(a, b, loop[FDivLast]) ELSE DivSpecial(a, b)

-----------------------------------------------------------------------------
(* Square root: six Newton steps y' = (y + x/y) / 2 from half the exponent.  *)
SqrtSpecial(x) ==
  IF cvm_d_isnan(x) THEN CVM_D_NAN
  ELSE IF cvm_d_iszero(x) THEN x
  ELSE IF CVM_D_SIGN(x) = 1 THEN CVM_D_NAN
  ELSE x
SqrtNeedsLoop(x) ==
  ~cvm_d_isnan(x) /\ ~cvm_d_iszero(x) /\ CVM_D_SIGN(x) = 0 /\ ~cvm_d_isinf(x)

SqrtStart(x) ==
  [i |-> 0, y |-> cvm_d_pack(0, ((CVM_D_EXP(x) - Bias) \div 2) + Bias, 0, 0)]

SqrtLast == 6

(* Faulty, for comparison: `half' has the exponent of 1.                   *)
SqrtStepUnhalved(x, l) ==
  [i |-> l.i + 1,
   y |-> cvm_d_mul(cvm_d_add(l.y, cvm_d_div(x, l.y)), cvm_d_pack(0, Bias, 0, 0))]

SqrtStep(x, l) ==
  [i |-> l.i + 1,
   y |-> cvm_d_mul(cvm_d_add(l.y, cvm_d_div(x, l.y)), cvm_d_pack(0, Bias - 1, 0, 0))]
=============================================================================
