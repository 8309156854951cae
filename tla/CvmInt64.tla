------------------------------ MODULE CvmInt64 ------------------------------
(***************************************************************************)
(* 64-bit integers made of two words (src/runtime/lib/cvm_int64.h and      *)
(* cvm_int64_rt.c).                                                        *)
(*                                                                         *)
(* The VM has 32-bit registers only: a 64-bit value is a pair of halves and *)
(* every carry, borrow and bit that crosses the middle is written out.     *)
(* Bits stands for the 32 of a half, so that a small Bits gives the same   *)
(* arithmetic on small numbers.  Halves are unsigned; an OR of words that   *)
(* have no bit in common is a sum.                                         *)
(***************************************************************************)
EXTENDS Integers

CONSTANT Bits       \* 32 in the code

ASSUME BitsAssumption == Bits \in Nat /\ Bits >= 2

WordMod == 2 ^ Bits
Half == 0 .. WordMod - 1

I64(lo, hi) == [lo |-> lo, hi |-> hi]
Pairs == [lo : Half, hi : Half]
CVM_I64_ZERO == I64(0, 0)

(* The shifts of the VM on one half, by less than Bits.                     *)
Shl(h, n) == (h * 2 ^ n) % WordMod
Shr(h, n) == h \div 2 ^ n
SignedHalf(h) == IF h < WordMod \div 2 THEN h ELSE h - WordMod
Sar(h, n) == (SignedHalf(h) \div 2 ^ n) % WordMod

cvm_mulhu(x, y) == (x * y) \div WordMod
cvm_mulh(x, y) == ((SignedHalf(x) * SignedHalf(y)) \div WordMod) % WordMod
Carry(b) == IF b THEN 1 ELSE 0

-----------------------------------------------------------------------------
cvm_i64_from_i32(x) == I64(x, Sar(x, Bits - 1))

cvm_i64_neg(x) ==
  LET lo == (WordMod - x.lo) % WordMod
  IN  I64(lo, (WordMod - 1 - x.hi + Carry(lo = 0)) % WordMod)

cvm_i64_add(a, b) ==
  LET lo == (a.lo + b.lo) % WordMod
  IN  I64(lo, (a.hi + b.hi + Carry(lo < a.lo)) % WordMod)

cvm_i64_sub(a, b) ==
  I64((a.lo - b.lo) % WordMod, (a.hi - b.hi - Carry(a.lo < b.lo)) % WordMod)

(* Faulty, for comparison: the product of the low halves does not carry.    *)
MulNoCarry(a, b) ==
  I64((a.lo * b.lo) % WordMod, (a.lo * b.hi + a.hi * b.lo) % WordMod)

cvm_u64_mul(a, b) ==
  I64((a.lo * b.lo) % WordMod,
      (cvm_mulhu(a.lo, b.lo) + a.lo * b.hi + a.hi * b.lo) % WordMod)

(* Fixed-point numbers with half the bits behind the point (16 in the code). *)
cvm_qmul_16_16(x, y) ==
  LET q == Bits \div 2
  IN  Shr((x * y) % WordMod, q) + Shl(cvm_mulh(x, y), Bits - q)

-----------------------------------------------------------------------------
(* Shifts take their amount modulo the 64 bits of a value.                  *)
cvm_u64_shl(x, n_in) ==
  LET n == n_in % (2 * Bits) IN
  CASE n = 0    -> x
    [] n >= Bits -> I64(0, Shl(x.lo, n - Bits))
    [] OTHER    -> I64(Shl(x.lo, n), Shl(x.hi, n) + Shr(x.lo, Bits - n))

cvm_u64_shr(x, n_in) ==
  LET n == n_in % (2 * Bits) IN
  CASE n = 0    -> x
    [] n >= Bits -> I64(Shr(x.hi, n - Bits), 0)
    [] OTHER    -> I64(Shr(x.lo, n) + Shl(x.hi, Bits - n), Shr(x.hi, n))

cvm_i64_sar(x, n_in) ==
  LET n == n_in % (2 * Bits) IN
  CASE n = 0    -> x
    [] n >= Bits -> I64(Sar(x.hi, n - Bits), Sar(x.hi, Bits - 1))
    [] OTHER    -> I64(Shr(x.lo, n) + Shl(x.hi, Bits - n), Sar(x.hi, n))

(* The funnel shifts: the 64 bits at one end of a:b after a shift by c.     *)
Joined(x, y) == I64(x.lo + y.lo, x.hi + y.hi)
__cvm_fshl64(a, b, c) ==
  LET s == c.lo % (2 * Bits)
  IN  IF s = 0 THEN a ELSE Joined(cvm_u64_shl(a, s), cvm_u64_shr(b, 2 * Bits - s))
__cvm_fshr64(a, b, c) ==
  LET s == c.lo % (2 * Bits)
  IN  IF s = 0 THEN b ELSE Joined(cvm_u64_shl(a, 2 * Bits - s), cvm_u64_shr(b, s))

-----------------------------------------------------------------------------
cvm_u64_lt(a, b) == IF a.hi # b.hi THEN a.hi < b.hi ELSE a.lo < b.lo
cvm_u64_le(a, b) == IF a.hi # b.hi THEN a.hi < b.hi ELSE a.lo <= b.lo
cvm_i64_lt(a, b) ==
  IF a.hi # b.hi THEN SignedHalf(a.hi) < SignedHalf(b.hi) ELSE a.lo < b.lo
cvm_i64_le(a, b) ==
  IF a.hi # b.hi THEN SignedHalf(a.hi) < SignedHalf(b.hi) ELSE a.lo <= b.lo

-----------------------------------------------------------------------------
(* cvm__udivmod64 goes through the bits of the dividend from the top; i is  *)
(* the bit the next iteration takes, q and r are what it has so far.        *)
DivStart == [i |-> 2 * Bits - 1, q |-> CVM_I64_ZERO, r |-> CVM_I64_ZERO]

BitOf(a, i) == (IF i >= Bits THEN Shr(a.hi, i - Bits) ELSE Shr(a.lo, i)) % 2

WithBit(q, i) ==
  IF i >= Bits THEN [q EXCEPT !.hi = @ + 2 ^ (i - Bits)] ELSE [q EXCEPT !.lo = @ + 2 ^ i]

(* Faulty, for comparison: a remainder equal to the divisor is kept.        *)
DivBitStrict(a, b, l) ==
  LET shifted == cvm_u64_shl(l.r, 1)
      r == [shifted EXCEPT !.lo = @ + BitOf(a, l.i)]
  IN  IF cvm_u64_lt(b, r)
      THEN [i |-> l.i - 1, q |-> WithBit(l.q, l.i), r |-> cvm_i64_sub(r, b)]
      ELSE [i |-> l.i - 1, q |-> l.q, r |-> r]

DivBit(a, b, l) ==
  LET shifted == cvm_u64_shl(l.r, 1)
      r == [shifted EXCEPT !.lo = @ + BitOf(a, l.i)]
  IN  IF cvm_u64_le(b, r)
      THEN [i |-> l.i - 1, q |-> WithBit(l.q, l.i), r |-> cvm_i64_sub(r, b)]
      ELSE [i |-> l.i - 1, q |-> l.q, r |-> r]

Negative(x) == Shr(x.hi, Bits - 1) = 1
cvm__i64_abs(x) == IF Negative(x) THEN cvm_i64_neg(x) ELSE x

(* What the four functions make of the quotient and the remainder; the      *)
(* signed ones divide magnitudes.                                           *)
Magnitudes(fn, a, b) ==
  IF fn \in {"sdiv", "smod"} THEN <<cvm__i64_abs(a), cvm__i64_abs(b)>> ELSE <<a, b>>
DivResult(fn, a, b, l) ==
  CASE fn = "udiv" -> l.q
    [] fn = "umod" -> l.r
    [] fn = "sdiv" -> IF Negative(a) # Negative(b) THEN cvm_i64_neg(l.q) ELSE l.q
    [] fn = "smod" -> IF Negative(a) THEN cvm_i64_neg(l.r) ELSE l.r
=============================================================================
