------------------------------- MODULE CvmSoft -------------------------------
(***************************************************************************)
(* A program that calls the software arithmetic (cvm_int64_rt.c and        *)
(* cvm_float64_rt.c), one call at a time.                                  *)
(*                                                                         *)
(* A call of a function without a loop is one step.  The three loops, the  *)
(* division of integers, that of doubles and the square root, take one      *)
(* step for each iteration.                                                *)
(*                                                                         *)
(* `fmt' is the width of the exponent of a double: the formats TLC can      *)
(* count in are either wide in the exponent or in the mantissa.            *)
(***************************************************************************)
EXTENDS CvmInt64

CONSTANTS
  Formats,          \* widths of the exponent
  Integers64,       \* operands of integer functions
  Floats(_)         \* operands of double functions, for a format

VARIABLES fmt, at, fn, a, b, c, loop, ret

vars == <<fmt, at, fn, a, b, c, loop, ret>>
call == <<fmt, fn, a, b, c>>

F(ExpBits) == INSTANCE CvmFloat64

ASSUME OperandsAssumption ==
  /\ Integers64 \subseteq Pairs
  /\ \A e \in Formats : e \in 1 .. Bits - 2 /\ Floats(e) \subseteq Pairs

IntFns == {"from_i32", "neg", "add", "sub", "mul", "shl64", "shr64", "sar64",
           "ult", "ule", "lt", "le"}
FunnelFns == {"fshl64", "fshr64"}
DivFns == {"udiv", "umod", "sdiv", "smod"}
FloatFns == {"fadd", "fsub", "fmul", "feq", "fne", "flt", "fle", "fgt", "fge", "ford", "fone"}
From64 == {"f_from_u64", "f_from_i64"}
FromWord == {"f_from_i32", "f_from_u32", "f_from_f32"}
ToWord == {"f_to_i32", "f_to_u32", "f_to_f32"}

(* The formats a function works for; the format of the code is one of them. *)
Supports(e, f) ==
  CASE f \in {"f_from_i32", "f_from_u32", "f_to_i32", "f_to_u32"} -> F(e)!Bias >= Bits
    [] f \in From64 -> F(e)!Bias >= 2 * Bits
    [] f \in {"f_from_f32", "f_to_f32"} -> F(e)!F32ExpBits >= 2
    [] OTHER -> TRUE

NoLoop == [i |-> 0]

(* A result of one word.                                                    *)
Flag(p) == I64(Carry(p), 0)

IntResult(f, x, y, z) ==
  CASE f = "from_i32" -> cvm_i64_from_i32(x.lo)
    [] f = "neg"   -> cvm_i64_neg(x)
    [] f = "add"   -> cvm_i64_add(x, y)
    [] f = "sub"   -> cvm_i64_sub(x, y)
    [] f = "mul"   -> cvm_u64_mul(x, y)
    [] f = "shl64" -> cvm_u64_shl(x, y.lo)
    [] f = "shr64" -> cvm_u64_shr(x, y.lo)
    [] f = "sar64" -> cvm_i64_sar(x, y.lo)
    [] f = "ult"   -> Flag(cvm_u64_lt(x, y))
    [] f = "ule"   -> Flag(cvm_u64_le(x, y))
    [] f = "lt"    -> Flag(cvm_i64_lt(x, y))
    [] f = "le"    -> Flag(cvm_i64_le(x, y))
    [] f = "fshl64" -> __cvm_fshl64(x, y, z)
    [] f = "fshr64" -> __cvm_fshr64(x, y, z)

FloatResult(f, x, y) ==
  CASE f = "fadd" -> F(fmt)!cvm_d_add(x, y)
    [] f = "fsub" -> F(fmt)!cvm_d_sub(x, y)
    [] f = "fmul" -> F(fmt)!cvm_d_mul(x, y)
    [] f = "feq"  -> Flag(F(fmt)!cvm_d_eq(x, y))
    [] f = "fne"  -> Flag(F(fmt)!cvm_d_ne(x, y))
    [] f = "flt"  -> Flag(F(fmt)!cvm_d_lt(x, y))
    [] f = "fle"  -> Flag(F(fmt)!cvm_d_le(x, y))
    [] f = "fgt"  -> Flag(F(fmt)!cvm_d_lt(y, x))
    [] f = "fge"  -> Flag(F(fmt)!cvm_d_le(y, x))
    [] f = "ford" -> Flag(F(fmt)!__cvm_ford(x, y))
    [] f = "fone" -> Flag(F(fmt)!__cvm_fone(x, y))

Converted(f, x) ==
  CASE f = "f_from_i32" -> F(fmt)!cvm_d_from_i32(x)
    [] f = "f_from_u32" -> F(fmt)!cvm_d_from_u32(x)
    [] f = "f_from_f32" -> F(fmt)!cvm_d_from_f32(x)
    [] f = "f_to_i32"   -> I64(F(fmt)!cvm_d_to_i32(x), 0)
    [] f = "f_to_u32"   -> I64(F(fmt)!cvm_d_to_u32(x), 0)
    [] f = "f_to_f32"   -> I64(F(fmt)!cvm_d_to_f32(x), 0)

-----------------------------------------------------------------------------
Idle == at = "idle"

Called(f, x, y, z) ==
  /\ fn' = f
  /\ a' = x
  /\ b' = y
  /\ c' = z
  /\ UNCHANGED fmt

Returns(value) ==
  /\ at' = "returned"
  /\ ret' = value
  /\ loop' = NoLoop

Enters(label, start) ==
  /\ at' = label
  /\ loop' = start
  /\ UNCHANGED ret

Init ==
  /\ fmt \in Formats
  /\ at = "idle"
  /\ fn = "none"
  /\ a = CVM_I64_ZERO /\ b = CVM_I64_ZERO /\ c = CVM_I64_ZERO
  /\ loop = NoLoop
  /\ ret = CVM_I64_ZERO

CallInt ==
  /\ Idle
  /\ \E f \in IntFns, x, y \in Integers64 :
     /\ Called(f, x, y, CVM_I64_ZERO)
     /\ Returns(IntResult(f, x, y, CVM_I64_ZERO))

CallFunnel ==
  /\ Idle
  /\ \E f \in FunnelFns, x, y \in Integers64, n \in 0 .. 2 * Bits :
     /\ Called(f, x, y, I64(n, 0))
     /\ Returns(IntResult(f, x, y, I64(n, 0)))

CallDiv ==
  /\ Idle
  /\ \E f \in DivFns, x, y \in Integers64 :
     /\ Called(f, x, y, CVM_I64_ZERO)
     /\ Enters("udivmod64", DivStart)

CallFixed ==
  /\ Idle
  /\ \E x, y \in Half :
     /\ Called("qmul", I64(x, 0), I64(y, 0), CVM_I64_ZERO)
     /\ Returns(I64(cvm_qmul_16_16(x, y), 0))

Ua == Magnitudes(fn, a, b)[1]
Ub == Magnitudes(fn, a, b)[2]

DivIteration ==
  /\ at = "udivmod64"
  /\ loop.i >= 0
  /\ loop' = DivBit(Ua, Ub, loop)
  /\ UNCHANGED <<call, at, ret>>

DivReturn ==
  /\ at = "udivmod64"
  /\ loop.i < 0
  /\ Returns(DivResult(fn, a, b, loop))
  /\ UNCHANGED call

-----------------------------------------------------------------------------
CallFloat ==
  /\ Idle
  /\ \E f \in FloatFns, x, y \in Floats(fmt) :
     /\ Supports(fmt, f)
     /\ Called(f, x, y, CVM_I64_ZERO)
     /\ Returns(FloatResult(f, x, y))

CallFromWord ==
  /\ Idle
  /\ \E f \in FromWord, x \in Half :
     /\ Supports(fmt, f)
     /\ Called(f, I64(x, 0), CVM_I64_ZERO, CVM_I64_ZERO)
     /\ Returns(Converted(f, x))

CallFrom64 ==
  /\ Idle
  /\ \E f \in From64, lo, hi \in Half :
     /\ Supports(fmt, f)
     /\ Called(f, I64(lo, hi), CVM_I64_ZERO, CVM_I64_ZERO)
     /\ Returns(IF f = "f_from_u64" THEN F(fmt)!__cvm_f_from_u64(I64(lo, hi))
                ELSE F(fmt)!__cvm_f_from_i64(I64(lo, hi)))

CallToWord ==
  /\ Idle
  /\ \E f \in ToWord, x \in Floats(fmt) :
     /\ Supports(fmt, f)
     /\ Called(f, x, CVM_I64_ZERO, CVM_I64_ZERO)
     /\ Returns(Converted(f, x))

CallFDiv ==
  /\ Idle
  /\ \E x, y \in Floats(fmt) :
     /\ Called("fdiv", x, y, CVM_I64_ZERO)
     /\ IF F(fmt)!DivNeedsLoop(x, y)
        THEN Enters("d_div", F(fmt)!FDivStart(x, y))
        ELSE Returns(F(fmt)!DivSpecial(x, y))

FDivIteration ==
  /\ at = "d_div"
  /\ loop.i < F(fmt)!FDivLast
  /\ loop' = F(fmt)!FDivBit(b, loop)
  /\ UNCHANGED <<call, at, ret>>

FDivReturn ==
  /\ at = "d_div"
  /\ loop.i = F(fmt)!FDivLast
  /\ Returns(F(fmt)!FDivResult(a, b, loop))
  /\ UNCHANGED call

CallSqrt ==
  /\ Idle
  /\ \E x \in Floats(fmt) :
     /\ Called("fsqrt", x, CVM_I64_ZERO, CVM_I64_ZERO)
     /\ IF F(fmt)!SqrtNeedsLoop(x)
        THEN Enters("fsqrt", F(fmt)!SqrtStart(x))
        ELSE Returns(F(fmt)!SqrtSpecial(x))

SqrtIteration ==
  /\ at = "fsqrt"
  /\ loop.i < F(fmt)!SqrtLast
  /\ loop' = F(fmt)!SqrtStep(a, loop)
  /\ UNCHANGED <<call, at, ret>>

SqrtReturn ==
  /\ at = "fsqrt"
  /\ loop.i = F(fmt)!SqrtLast
  /\ Returns(loop.y)
  /\ UNCHANGED call

(* The program takes the result and goes on.                                *)
Resume ==
  /\ at = "returned"
  /\ at' = "idle"
  /\ fn' = "none"
  /\ a' = CVM_I64_ZERO /\ b' = CVM_I64_ZERO /\ c' = CVM_I64_ZERO
  /\ ret' = CVM_I64_ZERO
  /\ UNCHANGED <<fmt, loop>>

Next ==
  \/ Resume
  \/ CallInt \/ CallFunnel \/ CallFixed \/ CallDiv \/ DivIteration \/ DivReturn
  \/ CallFloat \/ CallFromWord \/ CallFrom64 \/ CallToWord
  \/ CallFDiv \/ FDivIteration \/ FDivReturn
  \/ CallSqrt \/ SqrtIteration \/ SqrtReturn

Spec == Init /\ [][Next]_vars
-----------------------------------------------------------------------------
(* Numbers: what the pairs of words stand for.                              *)
Value(x) == x.lo + WordMod * x.hi
Mod == WordMod * WordMod
SignedValue(x) == IF Value(x) < Mod \div 2 THEN Value(x) ELSE Value(x) - Mod

Quotient(x, y) ==
  LET q == (IF x < 0 THEN -x ELSE x) \div (IF y < 0 THEN -y ELSE y)
  IN  IF (x < 0) = (y < 0) THEN q ELSE -q

Returned(f) == at = "returned" /\ fn = f
ReturnedOneOf(fs) == at = "returned" /\ fn \in fs

(***************************************************************************)
(* Every integer function is exact modulo 2^64: carries, borrows, bits that *)
(* cross the middle of the pair and signs are right for all operands, and  *)
(* division truncates.  For a divisor of 0 it is what cvm_int64_rt.c:16-20 *)
(* defines (of sdiv64 with a negative dividend it says something else).    *)
(***************************************************************************)
IntegersExact ==
  LET x == Value(a)
      y == Value(b)
      sx == SignedValue(a)
      sy == SignedValue(b)
      n == b.lo % (2 * Bits)
      s == c.lo % (2 * Bits)
      Is(v) == Value(ret) = v % Mod
  IN
  /\ Returned("from_i32") => SignedValue(ret) = SignedHalf(a.lo)
  /\ Returned("neg") => Is(-x)
  /\ Returned("add") => Is(x + y)
  /\ Returned("sub") => Is(x - y)
  /\ Returned("mul") => Is(x * y)
  /\ Returned("shl64") => Is(x * 2 ^ n)
  /\ Returned("shr64") => Is(x \div 2 ^ n)
  /\ Returned("sar64") => Is(sx \div 2 ^ n)
  /\ Returned("fshl64") => Is(x * 2 ^ s + y \div 2 ^ (2 * Bits - s))
  /\ Returned("fshr64") => Is(x * 2 ^ (2 * Bits - s) + y \div 2 ^ s)
  /\ Returned("qmul") =>
       ret.lo = ((SignedHalf(a.lo) * SignedHalf(b.lo)) \div 2 ^ (Bits \div 2)) % WordMod
  /\ Returned("ult") => ret = Flag(x < y)
  /\ Returned("ule") => ret = Flag(x <= y)
  /\ Returned("lt") => ret = Flag(sx < sy)
  /\ Returned("le") => ret = Flag(sx <= sy)
  /\ y # 0 =>
       /\ Returned("udiv") => Is(x \div y)
       /\ Returned("umod") => Is(x % y)
       /\ Returned("sdiv") => Is(Quotient(sx, sy))
       /\ Returned("smod") => Is(sx - sy * Quotient(sx, sy))
  /\ y = 0 =>
       /\ Returned("udiv") => Is(Mod - 1)
       /\ ReturnedOneOf({"umod", "smod"}) => Is(x)

(***************************************************************************)
(* The two division loops keep the dividend taken so far equal to divisor  *)
(* times quotient plus remainder, the remainder below the divisor: no bit  *)
(* of the remainder is lost when it is shifted, not even for divisors with  *)
(* the top bit set.                                                        *)
(***************************************************************************)
DivisionInvariant ==
  /\ at = "udivmod64" /\ Value(Ub) # 0 =>
       LET taken == 2 ^ (loop.i + 1) IN
       /\ Value(Ua) \div taken = Value(Ub) * (Value(loop.q) \div taken) + Value(loop.r)
       /\ Value(loop.q) % taken = 0
       /\ Value(loop.r) < Value(Ub)
  /\ at = "d_div" =>
       LET m == Value(F(fmt)!Significand(a))
           n == Value(F(fmt)!Significand(b)) IN
       /\ m * 2 ^ (loop.i - loop.adjust) = n * Value(loop.q) + Value(loop.r)
       /\ Value(loop.r) < n

-----------------------------------------------------------------------------
(* Doubles.  Sig and Exp are the significand and the biased exponent of a   *)
(* normal number x, which is Sig(x) * 2^(Exp(x) - Bias - P).                *)
P == F(fmt)!MantBits
Sig(x) == Value(F(fmt)!Significand(x))
Exp(x) == F(fmt)!CVM_D_EXP(x)
Sign(x) == F(fmt)!CVM_D_SIGN(x)
NaN(x) == F(fmt)!cvm_d_isnan(x)
Inf(x) == F(fmt)!cvm_d_isinf(x)
Zero(x) == F(fmt)!cvm_d_iszero(x)
Normal(x) == Exp(x) \in 1 .. F(fmt)!ExpMax - 1

(* x is the number with this significand and exponent, or the infinity or   *)
(* the zero of an exponent out of range.                                    *)
IsNumber(x, sign, exp, sig) ==
  /\ Sign(x) = sign
  /\ IF exp >= F(fmt)!ExpMax THEN Inf(x)
     ELSE IF exp <= 0 THEN Zero(x)
     ELSE Exp(x) = exp /\ Sig(x) = sig

(***************************************************************************)
(* cvm_d_mul truncates: the result is the largest double not above the      *)
(* product, with the carries of the four partial products all counted.     *)
(***************************************************************************)
ProductsTruncated ==
  Returned("fmul") =>
    LET sign == IF Sign(a) = Sign(b) THEN 0 ELSE 1
        p == Sig(a) * Sig(b)
        extra == Carry(p >= 2 ^ (2 * P + 1))
    IN  /\ NaN(ret) <=> NaN(a) \/ NaN(b) \/ (Inf(a) /\ Zero(b)) \/ (Zero(a) /\ Inf(b))
        /\ ~NaN(ret) /\ (Inf(a) \/ Inf(b)) => Inf(ret) /\ Sign(ret) = sign
        /\ ~NaN(ret) /\ (Zero(a) \/ Zero(b)) => Zero(ret) /\ Sign(ret) = sign
        /\ Normal(a) /\ Normal(b) =>
             IsNumber(ret, sign, Exp(a) + Exp(b) - F(fmt)!Bias + extra,
                      p \div 2 ^ (P + extra))

(***************************************************************************)
(* cvm_d_div rounds to the nearest double, ties to even                     *)
(* (cvm_float64.h:24-26).                                                  *)
(***************************************************************************)
QuotientsNearest ==
  Returned("fdiv") =>
    LET sign == IF Sign(a) = Sign(b) THEN 0 ELSE 1
        less == Carry(Sig(a) < Sig(b))
        m == Sig(a) * 2 ^ (P + less)
        q == m \div Sig(b)
        r == m % Sig(b)
        up == 2 * r > Sig(b) \/ (2 * r = Sig(b) /\ q % 2 = 1)
        sig == q + Carry(up)
        over == Carry(sig = 2 ^ (P + 1))
    IN  /\ NaN(ret) <=> NaN(a) \/ NaN(b) \/ (Inf(a) /\ Inf(b)) \/ (Zero(a) /\ Zero(b))
        /\ ~NaN(ret) /\ (Inf(a) \/ Zero(b)) => Inf(ret) /\ Sign(ret) = sign
        /\ ~NaN(ret) /\ (Zero(a) \/ Inf(b)) => Zero(ret) /\ Sign(ret) = sign
        /\ Normal(a) /\ Normal(b) =>
             IsNumber(ret, sign, Exp(a) - Exp(b) + F(fmt)!Bias - less + over,
                      sig \div 2 ^ over)

-----------------------------------------------------------------------------
(* Sums.  The operand added, the larger and the smaller operand, the        *)
(* distance of their exponents, and numbers in units of the last place of   *)
(* the smaller operand.                                                     *)
Added == IF fn = "fsub" THEN F(fmt)!cvm_d_neg(b) ELSE b
Abs(x) == Value(F(fmt)!Magnitude(x))
Larger == IF Abs(a) >= Abs(Added) THEN a ELSE Added
Smaller == IF Abs(a) >= Abs(Added) THEN Added ELSE a
Distance == Exp(Larger) - Exp(Smaller)
OneSign == Sign(a) = Sign(Added)
InUnits(x) ==
  LET d == Exp(x) - Exp(Smaller)
  IN  IF d >= 0 THEN Sig(x) * 2 ^ d ELSE Sig(x) \div 2 ^ (-d)
ExactSum ==
  IF OneSign THEN Sig(Larger) * 2 ^ Distance + Sig(Smaller)
  ELSE Sig(Larger) * 2 ^ Distance - Sig(Smaller)

ReturnedSum == ReturnedOneOf({"fadd", "fsub"}) /\ Normal(a) /\ Normal(b)

(***************************************************************************)
(* cvm_d_add truncates a sum of numbers of one sign.  A difference keeps    *)
(* the sign of the larger operand, is never below the exact one in          *)
(* magnitude and less than a unit in the last place of the larger operand   *)
(* above it, so that it is exact when the exponents agree; it is zero only  *)
(* if it is too small to be normal.                                        *)
(***************************************************************************)
SumsBounded ==
  /\ ReturnedOneOf({"fadd", "fsub"}) =>
       (NaN(ret) <=> NaN(a) \/ NaN(b) \/ (Inf(a) /\ Inf(b) /\ ~OneSign))
  /\ ReturnedSum =>
       IF Distance > P + 1 THEN ret = Larger
       ELSE LET over == Carry(ExactSum >= 2 ^ (P + 1 + Distance)) IN
         CASE OneSign ->
                IsNumber(ret, Sign(a), Exp(Larger) + over, ExactSum \div 2 ^ (Distance + over))
           [] ~OneSign /\ Zero(ret) ->
                ExactSum = 0 \/ ExactSum * 2 ^ (Exp(Smaller) - 1) < 2 ^ P
           [] ~OneSign /\ ~Zero(ret) ->
                /\ Normal(ret)
                /\ Sign(ret) = Sign(Larger)
                /\ InUnits(ret) - ExactSum \in 0 .. 2 ^ Distance - 1

-----------------------------------------------------------------------------
(* The place of a number in the order of all numbers.                       *)
Rank(x) == IF Sign(x) = 1 THEN -Abs(x) ELSE Abs(x)

(***************************************************************************)
(* The comparisons are those of the numbers: 0 equals -0, negative numbers  *)
(* order the other way round, and a NaN is unordered.                       *)
(***************************************************************************)
OrderNumeric ==
  at = "returned" /\ fn \in FloatFns =>
    LET nan == NaN(a) \/ NaN(b)
        x == Rank(a)
        y == Rank(b)
    IN
    /\ Returned("feq") => ret = Flag(~nan /\ x = y)
    /\ Returned("fne") => ret = Flag(nan \/ x # y)
    /\ Returned("flt") => ret = Flag(~nan /\ x < y)
    /\ Returned("fle") => ret = Flag(~nan /\ x <= y)
    /\ Returned("fgt") => ret = Flag(~nan /\ x > y)
    /\ Returned("fge") => ret = Flag(~nan /\ x >= y)
    /\ Returned("ford") => ret = Flag(~nan)
    /\ Returned("fone") => ret = Flag(~nan /\ x # y)

(* The integer part of a number, or a number beyond every integer.          *)
Truncated(x) ==
  LET e == Exp(x) - F(fmt)!Bias
  IN  IF Zero(x) \/ e < 0 THEN 0 ELSE IF e > Bits THEN Mod ELSE (Sig(x) * 2 ^ e) \div 2 ^ P
Clamped(v, low, high) == IF v < low THEN low ELSE IF v > high THEN high ELSE v

(* A float: its exponent and significand.                                   *)
F32Exp(f) == Shr(f, F(fmt)!F32MantBits) % 2 ^ F(fmt)!F32ExpBits
F32Sig(f) == 2 ^ F(fmt)!F32MantBits + (f % 2 ^ F(fmt)!F32MantBits)
F32Normal(f) == F32Exp(f) \in 1 .. F(fmt)!F32ExpMax - 1

(* f is the float with this significand and exponent, or the infinity or    *)
(* the zero of an exponent out of range.                                    *)
IsFloat(f, sign, exp, sig) ==
  /\ Shr(f, Bits - 1) = sign
  /\ IF exp >= F(fmt)!F32ExpMax
     THEN F32Exp(f) = F(fmt)!F32ExpMax /\ F32Sig(f) = 2 ^ F(fmt)!F32MantBits
     ELSE IF exp <= 0 THEN F32Exp(f) = 0 /\ F32Sig(f) = 2 ^ F(fmt)!F32MantBits
     ELSE F32Exp(f) = exp /\ F32Sig(f) = sig

(***************************************************************************)
(* Conversions to an integer truncate and saturate, at the limits of both   *)
(* signs, and a NaN is 0; a word or a float is converted to a double         *)
(* exactly; a 64-bit integer to a double, and a double to a float, by       *)
(* truncation, the latter to an infinity or a zero beyond the exponents of  *)
(* a float.                                                                 *)
(***************************************************************************)
ConversionsExact ==
  LET x == IF Sign(a) = 1 THEN -Truncated(a) ELSE Truncated(a)
      top == 2 ^ (Bits - 1)
      v == a.lo
      sign == Carry(fn = "f_from_i64" /\ SignedValue(a) < 0)
      wide == IF sign = 1 THEN -SignedValue(a) ELSE Value(a)
      e == Exp(ret) - F(fmt)!Bias
  IN
  /\ ReturnedOneOf(From64) =>
       IF wide = 0 THEN ret = F(fmt)!SignedZero(0)
       ELSE /\ Normal(ret) /\ Sign(ret) = sign /\ e \in 0 .. 2 * Bits - 1
            /\ Sig(ret) = IF e > P THEN wide \div 2 ^ (e - P) ELSE wide * 2 ^ (P - e)
  /\ Returned("f_to_i32") =>
       ret.lo = IF NaN(a) THEN 0 ELSE Clamped(x, -top, top - 1) % WordMod
  /\ Returned("f_to_u32") =>
       ret.lo = IF NaN(a) THEN 0 ELSE Clamped(x, 0, WordMod - 1)
  /\ Returned("f_from_u32") => Truncated(ret) = v /\ Sign(ret) = 0
  /\ Returned("f_from_i32") =>
       Truncated(ret) = (IF v >= top THEN WordMod - v ELSE v) /\ Sign(ret) = Carry(v >= top)
  /\ Returned("f_from_f32") /\ F32Normal(v) =>
       IsNumber(ret, Shr(v, Bits - 1), F32Exp(v) - F(fmt)!F32Bias + F(fmt)!Bias,
                F32Sig(v) * 2 ^ (P - F(fmt)!F32MantBits))
  /\ Returned("f_to_f32") /\ Normal(a) =>
       IsFloat(ret.lo, Sign(a), Exp(a) - F(fmt)!Bias + F(fmt)!F32Bias,
               Sig(a) \div 2 ^ (P - F(fmt)!F32MantBits))

(* The square of the root of a, in units of the last place of y.            *)
SquareIn(y) == Sig(a) * 2 ^ (Exp(a) + F(fmt)!Bias - 2 * Exp(y) + P)

(* By how much, as a fraction, the square of an iterate may exceed a after   *)
(* i > 0 steps: from d before a step it is d * d / (4 * (1 + d)) after it.   *)
Excess(i) == IF i > 3 THEN <<0, 1>> ELSE (<< <<9, 16>>, <<81, 1600>>, <<1, 1640>> >>)[i]

(***************************************************************************)
(* The square root converges as Newton's method does: the seed is not      *)
(* above the root and above half of it, and each step leaves no more excess *)
(* than it should of the step before, up to a unit in the last place: what  *)
(* the loop truncates in one step is not carried to the next.  In the end   *)
(* the root is less than a unit in the last place off (__cvm_fsqrt).        *)
(***************************************************************************)
SqrtConverges ==
  LET y == IF at = "fsqrt" THEN loop.y ELSE ret
      i == IF at = "fsqrt" THEN loop.i ELSE 6
      x == SquareIn(y)
  IN
  (at = "fsqrt" \/ Returned("fsqrt")) /\ Normal(a) /\ Sign(a) = 0 =>
    /\ Normal(y) /\ Sign(y) = 0
    /\ i = 0 => Sig(y) * Sig(y) <= x /\ x < 4 * Sig(y) * Sig(y)
    /\ i > 0 =>
         /\ x < (Sig(y) + 1) * (Sig(y) + 1)
         /\ (Sig(y) - 1) * (Sig(y) - 1) - x < Excess(i)[1] * (x \div Excess(i)[2] + 1)
=============================================================================
