--------------------------- MODULE CvmSoftProofs ---------------------------
(***************************************************************************)
(* Proofs about the software arithmetic, for every width of a word, every  *)
(* format of doubles and all operands: the 64-bit integers are exact, the   *)
(* loops of the two divisions keep their invariants, doubles compare as    *)
(* the numbers they are, products and sums of one sign are truncated,       *)
(* differences bounded, quotients rounded to the nearest, and conversions   *)
(* exact or truncated.                                                     *)
(*                                                                         *)
(* A pair of words is its value; what crosses the middle is a carry, a     *)
(* borrow or the digits of a shift, and each is a division by a word or by *)
(* a power of two (Division).  A product of two variables in a context      *)
(* stalls the SMT solver, so that products are given names and the rules    *)
(* of multiplication they need are steps of their own.                     *)
(***************************************************************************)
EXTENDS CvmSoft, NatLemmas

LEMMA WordFacts ==
  /\ Bits \in Nat /\ Bits >= 2
  /\ WordMod \in Nat /\ WordMod > 1
  /\ Mod \in Nat /\ Mod > 0 /\ Mod = WordMod * WordMod
<1>1. Bits \in Nat /\ Bits >= 2 BY BitsAssumption
<1>2. PICK w \in Nat : w = WordMod /\ w > 0 BY <1>1, Powers DEF WordMod
<1>3. w > 1
  <2>1. Bits - 1 \in Nat /\ (Bits - 1) + 1 = Bits BY <1>1
  <2>2. PICK k \in Nat : k = 2 ^ (Bits - 1) /\ k > 0 BY <2>1, Powers
  <2>3. WordMod = 2 * k BY <2>1, <2>2, Powers DEF WordMod
  <2> QED BY <1>2, <2>2, <2>3
<1>4. w * w \in Nat /\ w * w > 0 BY <1>3
<1> QED BY <1>1, <1>2, <1>3, <1>4 DEF Mod

(* The word, as a number of its own: products with WordMod are then those  *)
(* of two variables.                                                       *)
LEMMA WordIs == \E w \in Nat : w = WordMod /\ w > 1
BY WordFacts

(* The word is two powers of two, at any place.                            *)
LEMMA WordSplits ==
  ASSUME NEW n \in 0 .. Bits
  PROVE  /\ 2 ^ n \in Nat /\ 2 ^ n > 0 /\ 2 ^ (Bits - n) \in Nat /\ 2 ^ (Bits - n) > 0
         /\ Bits - n \in Nat /\ WordMod = 2 ^ n * 2 ^ (Bits - n)
<1>1. Bits \in Nat /\ n \in Nat /\ Bits - n \in Nat /\ n + (Bits - n) = Bits BY WordFacts
<1>2. 2 ^ (n + (Bits - n)) = 2 ^ n * 2 ^ (Bits - n) BY <1>1, PowerSum
<1> QED BY <1>1, <1>2, Powers DEF WordMod

LEMMA IsPair ==
  ASSUME NEW l \in Nat, NEW h \in Nat, l < WordMod, h < WordMod
  PROVE  I64(l, h) \in Pairs /\ Value(I64(l, h)) = l + WordMod * h
BY WordFacts DEF I64, Pairs, Half, Value

(* A pair is its value divided by the word.                                *)
LEMMA PairIs ==
  ASSUME NEW x \in Pairs
  PROVE  \E l \in Nat, h \in Nat :
           /\ l = x.lo /\ h = x.hi /\ l < WordMod /\ h < WordMod
           /\ Value(x) = l + WordMod * h
BY WordFacts DEF Pairs, Half, Value

LEMMA ValueBound ==
  ASSUME NEW x \in Pairs
  PROVE  Value(x) \in Nat /\ Value(x) < Mod /\ Value(x) % Mod = Value(x)
<1>1. PICK w \in Nat : w = WordMod /\ w > 1 BY WordIs
<1>2. Mod = w * w BY <1>1, WordFacts
<1>3. PICK l \in Nat, h \in Nat : l < w /\ h < w /\ Value(x) = l + w * h BY <1>1, PairIs
<1>4. w * h <= w * (w - 1)
  <2>1. h <= w - 1 BY <1>3
  <2> QED BY <1>1, <2>1
<1>5. w * (w - 1) = w * w - w OBVIOUS
<1>6. l + w * h \in Nat /\ l + w * h < w * w BY <1>3, <1>4, <1>5
<1>7. Value(x) \in Nat /\ Value(x) < Mod BY <1>2, <1>3, <1>6
<1>8. Division(Value(x), Mod, 0, Value(x)) BY <1>7, WordFacts DEF Division
<1> QED BY <1>7, <1>8, DivisionIs

(* A number in two words: the carry out of the lower is added to the upper. *)
LEMMA Assembled ==
  ASSUME NEW l, NEW q, NEW r, Division(l, WordMod, q, r), NEW h \in Int
  PROVE  LET x == I64(r, (h + q) % WordMod)
         IN  x \in Pairs /\ Value(x) = (l + WordMod * h) % Mod
<1>1. PICK w \in Nat : w = WordMod /\ w > 1 BY WordIs
<1>2. Division(l, w, q, r) BY <1>1
<1>3. q \in Int /\ r \in Nat /\ r < w BY <1>2 DEF Division
<1>4. Division(l + w * h, w, q + h, r) BY <1>2, DivisionAdds
<1>5. PICK k \in Int : k = h + q /\ k = q + h BY <1>3
<1>6. PICK g \in Int, s \in Nat : Division(k, w, g, s) BY <1>1, <1>5, Divided
<1>7. k % w = s /\ s < w
  <2>1. s < w BY <1>6 DEF Division
  <2> QED BY <1>6, <2>1, DivisionIs
<1>8. Division(l + w * h, w * w, g, w * s + r) BY <1>4, <1>5, <1>6, DivisionTwice
<1>9. (l + w * h) % (w * w) = w * s + r BY <1>8, DivisionIs
<1>10. I64(r, s) \in Pairs /\ Value(I64(r, s)) = r + w * s BY <1>1, <1>3, <1>7, IsPair
<1>11. Mod = w * w BY <1>1, WordFacts
<1>12. r + w * s = w * s + r BY <1>3
<1> QED BY <1>1, <1>5, <1>7, <1>9, <1>10, <1>11, <1>12

(* ---------------------------------------------------------------------- *)
(* Sums and products                                                       *)

LEMMA AddExact ==
  ASSUME NEW x \in Pairs, NEW y \in Pairs
  PROVE  cvm_i64_add(x, y) \in Pairs /\ Value(cvm_i64_add(x, y)) = (Value(x) + Value(y)) % Mod
<1>1. PICK w \in Nat : w = WordMod /\ w > 1 BY WordIs
<1>2. PICK xl \in Nat, xh \in Nat :
        xl = x.lo /\ xh = x.hi /\ xl < w /\ xh < w /\ Value(x) = xl + w * xh
  BY <1>1, PairIs
<1>3. PICK yl \in Nat, yh \in Nat :
        yl = y.lo /\ yh = y.hi /\ yl < w /\ yh < w /\ Value(y) = yl + w * yh
  BY <1>1, PairIs
<1>4. PICK l \in Nat, h \in Nat : l = xl + yl /\ h = xh + yh OBVIOUS
<1>5. PICK q \in Int, r \in Nat : Division(l, w, q, r) /\ q = Carry(r < xl)
  <2>1. CASE l < w
    <3>1. Division(l, w, 0, l) BY <1>1, <2>1 DEF Division
    <3> QED BY <1>4, <3>1 DEF Carry
  <2>2. CASE l >= w
    <3>1. PICK r \in Nat : r = l - w /\ r < xl BY <1>2, <1>3, <1>4, <2>2
    <3>2. Division(l, w, 1, r) BY <1>1, <1>2, <3>1 DEF Division
    <3> QED BY <3>1, <3>2 DEF Carry
  <2> QED BY <2>1, <2>2
<1>6. l % w = r BY <1>5, DivisionIs
<1>7. cvm_i64_add(x, y) = I64(r, (h + q) % w)
  BY <1>1, <1>2, <1>3, <1>4, <1>5, <1>6 DEF cvm_i64_add
<1>8. Value(x) + Value(y) = l + w * h BY <1>2, <1>3, <1>4
<1> QED BY <1>1, <1>5, <1>7, <1>8, Assembled

LEMMA SubExact ==
  ASSUME NEW x \in Pairs, NEW y \in Pairs
  PROVE  cvm_i64_sub(x, y) \in Pairs /\ Value(cvm_i64_sub(x, y)) = (Value(x) - Value(y)) % Mod
<1>1. PICK w \in Nat : w = WordMod /\ w > 1 BY WordIs
<1>2. PICK xl \in Nat, xh \in Nat :
        xl = x.lo /\ xh = x.hi /\ xl < w /\ xh < w /\ Value(x) = xl + w * xh
  BY <1>1, PairIs
<1>3. PICK yl \in Nat, yh \in Nat :
        yl = y.lo /\ yh = y.hi /\ yl < w /\ yh < w /\ Value(y) = yl + w * yh
  BY <1>1, PairIs
<1>4. PICK l \in Int, h \in Int : l = xl - yl /\ h = xh - yh OBVIOUS
<1>5. PICK q \in Int, r \in Nat : Division(l, w, q, r) /\ q = -Carry(xl < yl)
  <2>1. CASE l >= 0
    <3>1. Division(l, w, 0, l) BY <1>1, <1>2, <1>4, <2>1 DEF Division
    <3> QED BY <1>4, <2>1, <3>1 DEF Carry
  <2>2. CASE l < 0
    <3>1. PICK r \in Nat : r = l + w /\ r < w BY <1>2, <1>3, <1>4, <2>2
    <3>2. Division(l, w, -1, r) BY <1>1, <3>1 DEF Division
    <3> QED BY <1>4, <2>2, <3>2 DEF Carry
  <2> QED BY <2>1, <2>2
<1>6. l % w = r BY <1>5, DivisionIs
<1>7. xh - yh - Carry(xl < yl) = h + q
  <2>1. Carry(xl < yl) \in Int BY DEF Carry
  <2> QED BY <1>4, <1>5, <2>1
<1>8. cvm_i64_sub(x, y) = I64(r, (h + q) % w)
  BY <1>1, <1>2, <1>3, <1>4, <1>6, <1>7 DEF cvm_i64_sub
<1>9. Value(x) - Value(y) = l + w * h
  <2>1. w * (xh - yh) = w * xh - w * yh OBVIOUS
  <2>2. PICK m \in Nat, n \in Nat : m = w * xh /\ n = w * yh OBVIOUS
  <2>3. PICK p \in Int : p = w * h /\ p = m - n BY <1>4, <2>1, <2>2
  <2>4. Value(x) = xl + m /\ Value(y) = yl + n BY <1>2, <1>3, <2>2
  <2>5. (xl + m) - (yl + n) = (xl - yl) + (m - n) OBVIOUS
  <2> QED BY <1>4, <2>3, <2>4, <2>5
<1> QED BY <1>1, <1>5, <1>8, <1>9, Assembled

LEMMA NegExact ==
  ASSUME NEW x \in Pairs
  PROVE  cvm_i64_neg(x) \in Pairs /\ Value(cvm_i64_neg(x)) = (-Value(x)) % Mod
<1>1. PICK w \in Nat : w = WordMod /\ w > 1 BY WordIs
<1>2. PICK l \in Nat, h \in Nat :
        l = x.lo /\ h = x.hi /\ l < w /\ h < w /\ Value(x) = l + w * h
  BY <1>1, PairIs
<1>3. PICK n \in Int, m \in Int : n = -l /\ m = -h OBVIOUS
<1>4. PICK q \in Int, r \in Nat :
        Division(n, w, q, r) /\ (w - l) % w = r /\ q = -1 + Carry(r = 0)
  <2>1. CASE l = 0
    <3>1. Division(n, w, 0, 0) BY <1>1, <1>3, <2>1 DEF Division
    <3>2. Division(w - l, w, 1, 0) BY <1>1, <2>1 DEF Division
    <3>3. (w - l) % w = 0 BY <3>2, DivisionIs
    <3> QED BY <3>1, <3>3 DEF Carry
  <2>2. CASE l # 0
    <3>1. PICK r \in Nat : r = w - l /\ r < w /\ r # 0 BY <1>2, <2>2
    <3>2. Division(n, w, -1, r) BY <1>1, <1>3, <3>1 DEF Division
    <3>3. Division(w - l, w, 0, r) BY <1>1, <3>1 DEF Division
    <3>4. (w - l) % w = r BY <3>3, DivisionIs
    <3> QED BY <3>1, <3>2, <3>4 DEF Carry
  <2> QED BY <2>1, <2>2
<1>5. (w - 1 - h + Carry(r = 0)) % w = (m + q) % w
  <2>1. Carry(r = 0) \in Int BY DEF Carry
  <2>2. w - 1 - h + Carry(r = 0) = (m + q) + w * 1 BY <1>3, <1>4, <2>1
  <2>3. m + q \in Int /\ 1 \in Int /\ w > 0 BY <1>1
  <2>4. ((m + q) + w * 1) % w = (m + q) % w BY <2>3, ModAdds
  <2> QED BY <2>2, <2>4
<1>6. cvm_i64_neg(x) = I64(r, (m + q) % w)
  BY <1>1, <1>2, <1>4, <1>5 DEF cvm_i64_neg
<1>7. -Value(x) = n + w * m
  <2>1. PICK k \in Nat : k = w * h OBVIOUS
  <2>2. w * (-h) = -k BY <2>1
  <2> QED BY <1>2, <1>3, <2>1, <2>2
<1> QED BY <1>1, <1>4, <1>6, <1>7, Assembled

LEMMA MulExact ==
  ASSUME NEW x \in Pairs, NEW y \in Pairs
  PROVE  cvm_u64_mul(x, y) \in Pairs /\ Value(cvm_u64_mul(x, y)) = (Value(x) * Value(y)) % Mod
<1>1. PICK w \in Nat : w = WordMod /\ w > 1 BY WordIs
<1>2. PICK xl \in Nat, xh \in Nat : xl = x.lo /\ xh = x.hi /\ Value(x) = xl + w * xh
  BY <1>1, PairIs
<1>3. PICK yl \in Nat, yh \in Nat : yl = y.lo /\ yh = y.hi /\ Value(y) = yl + w * yh
  BY <1>1, PairIs
<1>4. PICK l \in Nat, m \in Nat, n \in Nat, t \in Nat :
        l = xl * yl /\ m = xl * yh /\ n = xh * yl /\ t = xh * yh
  OBVIOUS
<1>5. PICK q \in Int, r \in Nat : Division(l, w, q, r)
  <2>1. l \in Int /\ w > 0 BY <1>1
  <2> QED BY <2>1, Divided
<1>6. l \div w = q /\ l % w = r BY <1>5, DivisionIs
<1>7. q + m + n = (m + n) + q OBVIOUS
<1>8. cvm_u64_mul(x, y) = I64(r, ((m + n) + q) % w)
  BY <1>1, <1>2, <1>3, <1>4, <1>6, <1>7 DEF cvm_u64_mul, cvm_mulhu
<1>9. Value(x) * Value(y) = (l + w * (m + n)) + (w * w) * t
  <2>1. (xl + w * xh) * (yl + w * yh) = xl * yl + w * (xl * yh) + w * (xh * yl) + (w * w) * (xh * yh)
    OBVIOUS
  <2>2. w * (m + n) = w * m + w * n OBVIOUS
  <2> QED BY <1>2, <1>3, <1>4, <2>1, <2>2
<1>10. (Value(x) * Value(y)) % Mod = (l + w * (m + n)) % Mod
  <2>1. Mod \in Nat /\ Mod > 0 /\ Mod = w * w BY <1>1, WordFacts
  <2>2. l + w * (m + n) \in Int /\ t \in Int OBVIOUS
  <2>3. ((l + w * (m + n)) + Mod * t) % Mod = (l + w * (m + n)) % Mod BY <2>1, <2>2, ModAdds
  <2> QED BY <1>9, <2>1, <2>3
<1>11. m + n \in Int OBVIOUS
<1> QED BY <1>1, <1>5, <1>8, <1>10, <1>11, Assembled

-----------------------------------------------------------------------------
(* Shifts of one half.                                                     *)

(* The word is p * m, and h = m * q + r, of which q leaves to the left.    *)
Split(n, h, p, m, q, r) ==
  /\ p = 2 ^ n /\ m = 2 ^ (Bits - n) /\ p > 0 /\ m > 0 /\ WordMod = p * m
  /\ h = m * q + r /\ r < m /\ q < p
  /\ Shl(h, n) = p * r /\ Shr(h, Bits - n) = q

LEMMA ShlIs ==
  ASSUME NEW n \in 0 .. Bits, NEW h \in Nat, h < WordMod
  PROVE  \E p, m, q, r \in Nat : Split(n, h, p, m, q, r)
<1>1. PICK p \in Nat, m \in Nat :
        p = 2 ^ n /\ m = 2 ^ (Bits - n) /\ p > 0 /\ m > 0 /\ WordMod = p * m
  BY WordSplits
<1>2. PICK q \in Int, r \in Nat : Division(h, m, q, r) BY <1>1, Divided
<1>3. h = m * q + r /\ r < m BY <1>2 DEF Division
<1>4. q >= 0
  <2> SUFFICES ASSUME q <= -1 PROVE FALSE OBVIOUS
  <2>1. m * q <= -m BY <1>1
  <2> QED BY <1>3, <2>1
<1>5. q < p
  <2> SUFFICES ASSUME q >= p PROVE FALSE BY <1>4
  <2>1. m * q >= m * p BY <1>1, <1>4
  <2>2. m * p = p * m OBVIOUS
  <2> QED BY <1>1, <1>3, <2>1, <2>2
<1>6. Division(h * p, p * m, q, p * r)
  <2>1. Division(p * h, p * m, q, p * r) BY <1>1, <1>2, DivisionScales
  <2>2. p * h = h * p OBVIOUS
  <2> QED BY <2>1, <2>2
<1>7. (h * p) % (p * m) = p * r BY <1>6, DivisionIs
<1>8. h \div m = q BY <1>2, DivisionIs
<1>9. Shl(h, n) = p * r /\ Shr(h, Bits - n) = q BY <1>1, <1>7, <1>8 DEF Shl, Shr
<1>10. Split(n, h, p, m, q, r) /\ q \in Nat
  BY <1>1, <1>3, <1>4, <1>5, <1>9 DEF Split
<1> QED BY <1>10

(* What is shifted out below stays above.                                  *)
LEMMA Fits ==
  ASSUME NEW p \in Nat, NEW m \in Nat, NEW r \in Nat, r < m, NEW q \in Nat, q < p
  PROVE  q + p * r \in Nat /\ q + p * r < p * m
<1>1. p * r <= p * (m - 1)
  <2>1. r <= m - 1 OBVIOUS
  <2> QED BY <2>1
<1>2. p * (m - 1) = p * m - p OBVIOUS
<1>3. PICK s \in Nat, t \in Nat : s = p * r /\ t = p * m OBVIOUS
<1> QED BY <1>1, <1>2, <1>3

LEMMA IsMod ==
  ASSUME NEW x \in Pairs, NEW v \in Int, NEW k \in Int, v = Value(x) + Mod * k
  PROVE  Value(x) = v % Mod
<1>1. Division(v, Mod, k, Value(x))
  <2>1. Value(x) \in Nat /\ Value(x) < Mod BY ValueBound
  <2>2. PICK m \in Nat : m = Mod /\ m > 0 BY WordFacts
  <2>3. PICK u \in Nat : u = Value(x) BY <2>1
  <2> QED BY <2>1, <2>2, <2>3 DEF Division
<1> QED BY <1>1, DivisionIs

LEMMA ShiftAmount ==
  ASSUME NEW n_in \in Nat
  PROVE  n_in % (2 * Bits) \in 0 .. 2 * Bits - 1 /\ 2 ^ (n_in % (2 * Bits)) \in Nat
<1>1. Bits \in Nat /\ 2 * Bits > 0 BY WordFacts
<1>2. n_in % (2 * Bits) \in 0 .. 2 * Bits - 1 BY <1>1
<1> QED BY <1>2, Powers

LEMMA ShlBy ==
  ASSUME NEW x \in Pairs, NEW n \in 1 .. Bits - 1
  PROVE  LET s == I64(Shl(x.lo, n), Shl(x.hi, n) + Shr(x.lo, Bits - n))
         IN  s \in Pairs /\ Value(s) = (Value(x) * 2 ^ n) % Mod
<1>0. Bits \in Nat /\ n \in 0 .. Bits BY WordFacts
<1>1. PICK l \in Nat, h \in Nat :
        l = x.lo /\ h = x.hi /\ l < WordMod /\ h < WordMod /\ Value(x) = l + WordMod * h
  BY PairIs
<1>20. PICK p, m, lq, lr \in Nat : Split(n, l, p, m, lq, lr)
  BY <1>0, <1>1, ShlIs
<1>2. /\ p = 2 ^ n /\ m = 2 ^ (Bits - n) /\ p > 0 /\ m > 0 /\ WordMod = p * m
      /\ l = m * lq + lr /\ lr < m /\ lq < p
      /\ Shl(l, n) = p * lr /\ Shr(l, Bits - n) = lq
  BY <1>20 DEF Split
<1>30. PICK p1, m1, hq, hr \in Nat : Split(n, h, p1, m1, hq, hr)
  BY <1>0, <1>1, ShlIs
<1>3. h = m * hq + hr /\ hr < m /\ hq < p /\ Shl(h, n) = p * hr
  BY <1>2, <1>30 DEF Split
<1>4. PICK lo \in Nat, hi \in Nat : lo = p * lr /\ hi = lq + p * hr OBVIOUS
<1>5. lo < p * m
  <2>1. 0 + p * lr < p * m BY <1>2, Fits
  <2> QED BY <1>4, <2>1
<1>6. hi < p * m BY <1>2, <1>3, <1>4, Fits
<1>7. I64(lo, hi) \in Pairs /\ Value(I64(lo, hi)) = lo + (p * m) * hi
  BY <1>2, <1>5, <1>6, IsPair
<1>8. Value(x) * p = (lo + (p * m) * hi) + ((p * m) * (p * m)) * hq
  <2>1. (m * lq + lr + (p * m) * (m * hq + hr)) * p
          = (p * lr + (p * m) * (lq + p * hr)) + ((p * m) * (p * m)) * hq
    OBVIOUS
  <2> QED BY <1>1, <1>2, <1>3, <1>4, <2>1
<1>9. Mod = (p * m) * (p * m) BY <1>2, WordFacts
<1>10. Value(I64(lo, hi)) = (Value(x) * p) % Mod
  <2>1. Value(x) * p \in Int /\ hq \in Int
    <3>1. Value(x) \in Nat BY ValueBound
    <3> QED BY <3>1
  <2> QED BY <1>7, <1>8, <1>9, <2>1, IsMod
<1>11. Shl(h, n) + Shr(l, Bits - n) = hi BY <1>2, <1>3, <1>4
<1> QED BY <1>1, <1>2, <1>4, <1>7, <1>10, <1>11

LEMMA ShlOver ==
  ASSUME NEW x \in Pairs, NEW k \in 0 .. Bits - 1
  PROVE  LET s == I64(0, Shl(x.lo, k))
         IN  s \in Pairs /\ Value(s) = (Value(x) * 2 ^ (Bits + k)) % Mod
<1>0. Bits \in Nat /\ k \in 0 .. Bits /\ k \in Nat BY WordFacts
<1>1. PICK l \in Nat, h \in Nat :
        l = x.lo /\ h = x.hi /\ l < WordMod /\ h < WordMod /\ Value(x) = l + WordMod * h
  BY PairIs
<1>20. PICK p, m, lq, lr \in Nat : Split(k, l, p, m, lq, lr)
  BY <1>0, <1>1, ShlIs
<1>2. /\ p = 2 ^ k /\ m = 2 ^ (Bits - k) /\ p > 0 /\ m > 0 /\ WordMod = p * m
      /\ l = m * lq + lr /\ lr < m /\ lq < p
      /\ Shl(l, k) = p * lr /\ Shr(l, Bits - k) = lq
  BY <1>20 DEF Split
<1>3. PICK hi \in Nat : hi = p * lr /\ hi < p * m
  <2>1. 0 + p * lr < p * m BY <1>2, Fits
  <2> QED BY <2>1
<1>4. I64(0, hi) \in Pairs /\ Value(I64(0, hi)) = (p * m) * hi
  <2>1. 0 < WordMod BY WordFacts
  <2> QED BY <1>2, <1>3, <2>1, IsPair
<1>5. 2 ^ (Bits + k) = (p * m) * p
  <2>1. 2 ^ (Bits + k) = 2 ^ Bits * 2 ^ k BY <1>0, PowerSum
  <2> QED BY <1>2, <2>1 DEF WordMod
<1>6. Value(x) * ((p * m) * p) = (p * m) * hi + ((p * m) * (p * m)) * (lq + h * p)
  <2>1. ((m * lq + lr) + (p * m) * h) * ((p * m) * p)
          = (p * m) * (p * lr) + ((p * m) * (p * m)) * (lq + h * p)
    OBVIOUS
  <2> QED BY <1>1, <1>2, <1>3, <2>1
<1>7. Mod = (p * m) * (p * m) BY <1>2, WordFacts
<1>8. Value(I64(0, hi)) = (Value(x) * ((p * m) * p)) % Mod
  <2>1. Value(x) * ((p * m) * p) \in Int /\ lq + h * p \in Int
    <3>1. Value(x) \in Nat BY ValueBound
    <3> QED BY <3>1
  <2> QED BY <1>4, <1>6, <1>7, <2>1, IsMod
<1> QED BY <1>1, <1>2, <1>3, <1>4, <1>5, <1>8

LEMMA ShlExact ==
  ASSUME NEW x \in Pairs, NEW n_in \in Nat
  PROVE  /\ cvm_u64_shl(x, n_in) \in Pairs
         /\ Value(cvm_u64_shl(x, n_in)) = (Value(x) * 2 ^ (n_in % (2 * Bits))) % Mod
<1>0. PICK n \in Nat : n = n_in % (2 * Bits) /\ n \in 0 .. 2 * Bits - 1 BY ShiftAmount
<1>1. CASE n = 0
  <2>1. Value(x) * 2 ^ n = Value(x)
    <3>1. 2 ^ n = 1 /\ Value(x) \in Nat BY <1>1, Powers, ValueBound
    <3> QED BY <3>1
  <2>2. cvm_u64_shl(x, n_in) = x BY <1>0, <1>1, WordFacts DEF cvm_u64_shl
  <2>3. Value(x) % Mod = Value(x) BY ValueBound
  <2> QED BY <1>0, <2>1, <2>2, <2>3
<1>2. CASE n >= Bits
  <2>1. PICK k \in 0 .. Bits - 1 : k = n - Bits /\ Bits + k = n
    BY <1>0, <1>2, WordFacts
  <2>2. n # 0 BY <1>2, WordFacts
  <2>3. cvm_u64_shl(x, n_in) = I64(0, Shl(x.lo, k))
    BY <1>0, <1>2, <2>1, <2>2 DEF cvm_u64_shl
  <2> QED BY <1>0, <2>1, <2>3, ShlOver
<1>3. CASE n # 0 /\ ~(n >= Bits)
  <2>1. n \in 1 .. Bits - 1 BY <1>0, <1>3, WordFacts
  <2>2. cvm_u64_shl(x, n_in) = I64(Shl(x.lo, n), Shl(x.hi, n) + Shr(x.lo, Bits - n))
    BY <1>0, <1>3 DEF cvm_u64_shl
  <2> QED BY <1>0, <2>1, <2>2, ShlBy
<1> QED BY <1>1, <1>2, <1>3

LEMMA ShrIs ==
  ASSUME NEW n \in 0 .. Bits, NEW h \in Nat, h < WordMod
  PROVE  \E p, m, q, r \in Nat : Split(Bits - n, h, m, p, q, r)
<1>1. Bits - n \in 0 .. Bits BY WordFacts
<1> QED BY <1>1, ShlIs

(* A right shift moves bits of the upper half into the lower one.          *)
LEMMA ShrBy ==
  ASSUME NEW n \in 1 .. Bits - 1, NEW l \in Nat, l < WordMod, NEW h \in Nat, h < WordMod,
         NEW s \in Int, NEW g \in Int, s = h + WordMod * g
  PROVE  LET lo == Shr(l, n) + Shl(h, Bits - n)
         IN  /\ lo \in Nat /\ lo < WordMod
             /\ (l + WordMod * s) \div 2 ^ n = lo + WordMod * (s \div 2 ^ n)
<1>0. Bits \in Nat /\ n \in 0 .. Bits /\ Bits - n \in 0 .. Bits /\ Bits - (Bits - n) = n
  BY WordFacts
<1>20. PICK m, p, lq, lr \in Nat : Split(Bits - n, l, m, p, lq, lr)
  BY <1>0, ShlIs
<1>2. /\ m = 2 ^ (Bits - n) /\ p = 2 ^ n /\ p > 0 /\ m > 0 /\ WordMod = m * p
      /\ l = p * lq + lr /\ lr < p /\ lq < m /\ Shr(l, n) = lq
  BY <1>0, <1>20 DEF Split
<1>30. PICK m1, p1, hq, hr \in Nat : Split(Bits - n, h, m1, p1, hq, hr)
  BY <1>0, ShlIs
<1>3. h = p * hq + hr /\ hr < p /\ hq < m /\ Shl(h, Bits - n) = m * hr
  BY <1>0, <1>2, <1>30 DEF Split
<1>4. PICK lo \in Nat : lo = lq + m * hr /\ lo < m * p BY <1>2, <1>3, Fits
<1>5. Division(s, p, hq + m * g, hr)
  <2>1. s = p * (hq + m * g) + hr
    <3>1. p * hq + hr + (m * p) * g = p * (hq + m * g) + hr OBVIOUS
    <3> QED BY <1>2, <1>3, <3>1
  <2> QED BY <1>2, <1>3, <2>1 DEF Division
<1>6. PICK t \in Int : t = hq + m * g /\ s = p * t + hr /\ s \div p = t
  BY <1>5, DivisionIs DEF Division
<1>7. Division(l + (m * p) * s, p, lo + (m * p) * t, lr)
  <2>1. p * lq + lr + (m * p) * (p * t + hr) = p * (lq + m * hr + (m * p) * t) + lr
    OBVIOUS
  <2>2. l + (m * p) * s = p * (lo + (m * p) * t) + lr BY <1>2, <1>4, <1>6, <2>1
  <2>3. l + (m * p) * s \in Int /\ lo + (m * p) * t \in Int OBVIOUS
  <2> QED BY <1>2, <2>2, <2>3 DEF Division
<1>8. (l + (m * p) * s) \div p = lo + (m * p) * t BY <1>7, DivisionIs
<1> QED BY <1>2, <1>3, <1>4, <1>6, <1>8

LEMMA ShrExact ==
  ASSUME NEW x \in Pairs, NEW n_in \in Nat
  PROVE  /\ cvm_u64_shr(x, n_in) \in Pairs
         /\ Value(cvm_u64_shr(x, n_in)) = Value(x) \div 2 ^ (n_in % (2 * Bits))
<1>0. PICK n \in Nat : n = n_in % (2 * Bits) /\ n \in 0 .. 2 * Bits - 1 BY ShiftAmount
<1>1. PICK l \in Nat, h \in Nat :
        l = x.lo /\ h = x.hi /\ l < WordMod /\ h < WordMod /\ Value(x) = l + WordMod * h
  BY PairIs
<1>2. PICK w \in Nat : w = WordMod /\ w > 1 BY WordIs
<1>3. CASE n = 0
  <2>1. Value(x) \div 2 ^ n = Value(x)
    <3>1. 2 ^ n = 1 /\ Value(x) \in Nat BY <1>3, Powers, ValueBound
    <3> QED BY <3>1
  <2>2. cvm_u64_shr(x, n_in) = x BY <1>0, <1>3, WordFacts DEF cvm_u64_shr
  <2> QED BY <1>0, <2>1, <2>2
<1>4. CASE n >= Bits
  <2>1. PICK k \in 0 .. Bits - 1 : k = n - Bits /\ Bits + k = n
    BY <1>0, <1>4, WordFacts
  <2>2. n # 0 BY <1>4, WordFacts
  <2>3. cvm_u64_shr(x, n_in) = I64(Shr(h, k), 0)
    BY <1>0, <1>1, <1>4, <2>1, <2>2 DEF cvm_u64_shr
  <2>4. k \in 0 .. Bits /\ Bits \in Nat /\ k \in Nat BY WordFacts
  <2>5. PICK m, p, q, r \in Nat : Split(Bits - k, h, m, p, q, r) BY <1>1, <2>4, ShrIs
  <2>6. /\ p = 2 ^ k /\ WordMod = m * p /\ h = p * q + r /\ r < p /\ q < m
        /\ Shr(h, k) = q /\ p > 0
    <3>1. Bits - (Bits - k) = k BY <2>4
    <3> QED BY <2>5, <3>1 DEF Split
  <2>7. q < WordMod
    <3>1. m * p >= m BY <2>6
    <3> QED BY <2>6, <3>1
  <2>8. I64(q, 0) \in Pairs /\ Value(I64(q, 0)) = q
    <3>1. 0 < WordMod /\ WordMod * 0 = 0 BY WordFacts
    <3>2. I64(q, 0) \in Pairs /\ Value(I64(q, 0)) = q + WordMod * 0
      BY <2>7, <3>1, IsPair
    <3> QED BY <3>1, <3>2
  <2>9. Value(x) \div 2 ^ n = q
    <3>1. Division(Value(x), w, h, l)
      <4>1. l + w * h = w * h + l OBVIOUS
      <4>2. l + w * h \in Int OBVIOUS
      <4> QED BY <1>1, <1>2, <4>1, <4>2 DEF Division
    <3>2. Division(h, p, q, r) BY <2>6 DEF Division
    <3>3. Division(Value(x), w * p, q, w * r + l) BY <3>1, <3>2, DivisionTwice
    <3>4. 2 ^ n = w * p
      <4>1. 2 ^ (Bits + k) = 2 ^ Bits * 2 ^ k BY <2>4, PowerSum
      <4> QED BY <1>2, <2>1, <2>6, <4>1 DEF WordMod
    <3> QED BY <3>3, <3>4, DivisionIs
  <2> QED BY <1>0, <2>3, <2>6, <2>8, <2>9
<1>5. CASE n # 0 /\ ~(n >= Bits)
  <2>1. n \in 1 .. Bits - 1 BY <1>0, <1>5, WordFacts
  <2>2. cvm_u64_shr(x, n_in) = I64(Shr(l, n) + Shl(h, Bits - n), Shr(h, n))
    BY <1>0, <1>1, <1>5 DEF cvm_u64_shr
  <2>3. h = h + WordMod * 0 /\ 0 \in Int BY WordFacts
  <2>4. PICK lo \in Nat : /\ lo = Shr(l, n) + Shl(h, Bits - n) /\ lo < WordMod
                          /\ (l + WordMod * h) \div 2 ^ n = lo + WordMod * (h \div 2 ^ n)
    BY <1>1, <2>1, <2>3, ShrBy
  <2>5. Shr(h, n) = h \div 2 ^ n BY DEF Shr
  <2>6. Shr(h, n) \in Nat /\ Shr(h, n) < WordMod
    <3>1. n \in 0 .. Bits /\ Bits \in Nat BY <2>1, WordFacts
    <3>2. PICK m, p, q, r \in Nat : Split(Bits - n, h, m, p, q, r) BY <1>1, <3>1, ShrIs
    <3>3. /\ WordMod = m * p /\ q < m /\ Shr(h, n) = q /\ p > 0
      <4>1. Bits - (Bits - n) = n BY <3>1
      <4> QED BY <3>2, <4>1 DEF Split
    <3>4. m * p >= m BY <3>3
    <3> QED BY <3>3, <3>4
  <2>7. /\ I64(lo, Shr(h, n)) \in Pairs
        /\ Value(I64(lo, Shr(h, n))) = lo + WordMod * Shr(h, n)
    BY <2>4, <2>6, IsPair
  <2> QED BY <1>0, <1>1, <2>2, <2>4, <2>5, <2>7
<1> QED BY <1>3, <1>4, <1>5

-----------------------------------------------------------------------------
(* Signs.                                                                  *)

LEMMA HalfWord ==
  \E k \in Nat : /\ k > 0 /\ k = 2 ^ (Bits - 1) /\ WordMod = 2 * k /\ WordMod \div 2 = k
                 /\ Mod = 2 * (WordMod * k) /\ Mod \div 2 = WordMod * k
<1>1. Bits - 1 \in Nat /\ (Bits - 1) + 1 = Bits BY WordFacts
<1>2. PICK k \in Nat : k = 2 ^ (Bits - 1) /\ k > 0 BY <1>1, Powers
<1>3. WordMod = 2 * k BY <1>1, <1>2, Powers DEF WordMod
<1>4. PICK n \in Nat : n = (2 * k) * k OBVIOUS
<1>5. Mod = 2 * n
  <2>1. (2 * k) * (2 * k) = 2 * ((2 * k) * k) OBVIOUS
  <2> QED BY <1>3, <1>4, <2>1, WordFacts
<1>6. \A m \in Nat : (2 * m) \div 2 = m OBVIOUS
<1>7. WordMod * k = n BY <1>3, <1>4
<1> QED BY <1>2, <1>3, <1>5, <1>6, <1>7

(* h as a signed number is s, less by g words.                             *)
IsSigned(h, s, g) ==
  /\ s = SignedHalf(h) /\ s = h + WordMod * g /\ g \in {0, -1}
  /\ g = -1 <=> s < 0
  /\ g = -1 <=> h >= 2 ^ (Bits - 1)
  /\ -(2 ^ (Bits - 1)) <= s /\ s < 2 ^ (Bits - 1)

LEMMA SignedIs ==
  ASSUME NEW h \in Nat, h < WordMod
  PROVE  \E s \in Int, g \in Int : IsSigned(h, s, g)
<1>1. PICK k \in Nat : /\ k > 0 /\ k = 2 ^ (Bits - 1) /\ WordMod = 2 * k
                       /\ WordMod \div 2 = k
  BY HalfWord
<1>2. CASE h < k
  <2>1. SignedHalf(h) = h /\ h = h + WordMod * 0 BY <1>1, <1>2 DEF SignedHalf
  <2>2. IsSigned(h, h, 0) BY <1>1, <1>2, <2>1 DEF IsSigned
  <2> QED BY <2>2
<1>3. CASE ~(h < k)
  <2>1. PICK s \in Int : s = h - 2 * k OBVIOUS
  <2>2. SignedHalf(h) = s /\ s = h + WordMod * (-1) BY <1>1, <1>3, <2>1 DEF SignedHalf
  <2>3. IsSigned(h, s, -1) BY <1>1, <1>3, <2>1, <2>2 DEF IsSigned
  <2> QED BY <2>3
<1> QED BY <1>2, <1>3

(* The sign of a pair is that of its upper half.                           *)
LEMMA SignedPair ==
  ASSUME NEW x \in Pairs
  PROVE  \E l, h \in Nat, s, g \in Int :
           /\ l = x.lo /\ h = x.hi /\ l < WordMod /\ h < WordMod
           /\ Value(x) = l + WordMod * h /\ IsSigned(h, s, g)
           /\ SignedValue(x) = l + WordMod * s
           /\ SignedValue(x) = Value(x) + Mod * g
           /\ g = -1 <=> SignedValue(x) < 0
<1>1. PICK l \in Nat, h \in Nat :
        l = x.lo /\ h = x.hi /\ l < WordMod /\ h < WordMod /\ Value(x) = l + WordMod * h
  BY PairIs
<1>2. PICK s \in Int, g \in Int : IsSigned(h, s, g) BY <1>1, SignedIs
<1>3. PICK k \in Nat : /\ k > 0 /\ k = 2 ^ (Bits - 1) /\ WordMod = 2 * k
                       /\ Mod = 2 * (WordMod * k) /\ Mod \div 2 = WordMod * k
  BY HalfWord
<1>4. PICK w \in Nat : w = WordMod /\ w > 1 BY WordIs
<1>5. Value(x) < Mod \div 2 <=> h < k
  <2>1. CASE h < k
    <3>1. h <= k - 1 BY <2>1
    <3>2. w * h <= w * (k - 1) BY <3>1
    <3>3. w * (k - 1) = w * k - w OBVIOUS
    <3>4. PICK t \in Nat, u \in Nat : t = w * h /\ u = w * k OBVIOUS
    <3>5. l + t < u BY <1>1, <1>4, <3>2, <3>3, <3>4
    <3> QED BY <1>1, <1>3, <1>4, <2>1, <3>4, <3>5
  <2>2. CASE h >= k
    <3>1. w * h >= w * k BY <2>2
    <3>2. PICK t \in Nat, u \in Nat : t = w * h /\ u = w * k OBVIOUS
    <3>3. ~(l + t < u) BY <3>1, <3>2
    <3>4. ~(h < k) BY <2>2
    <3> QED BY <1>1, <1>3, <1>4, <3>2, <3>3, <3>4
  <2> QED BY <2>1, <2>2
<1>6. /\ s = h + WordMod * g /\ g \in {0, -1} /\ (g = -1 <=> h >= k) /\ (g = -1 <=> s < 0)
  BY <1>2, <1>3 DEF IsSigned
<1>7. SignedValue(x) = Value(x) + Mod * g
  <2>1. Value(x) \in Nat /\ Mod \in Nat BY ValueBound, WordFacts
  <2>2. CASE g = 0
    <3>1. Value(x) < Mod \div 2 BY <1>5, <1>6, <2>2
    <3>2. Value(x) + Mod * g = Value(x) BY <2>1, <2>2
    <3> QED BY <3>1, <3>2 DEF SignedValue
  <2>3. CASE g = -1
    <3>1. ~(Value(x) < Mod \div 2) BY <1>5, <1>6, <2>3
    <3>2. Value(x) + Mod * g = Value(x) - Mod BY <2>1, <2>3
    <3> QED BY <3>1, <3>2 DEF SignedValue
  <2> QED BY <1>6, <2>2, <2>3
<1>8. SignedValue(x) = l + WordMod * s
  <2>1. l + w * (h + w * g) = (l + w * h) + (w * w) * g OBVIOUS
  <2>2. Mod = w * w BY <1>4, WordFacts
  <2> QED BY <1>1, <1>4, <1>6, <1>7, <2>1, <2>2
<1>9. g = -1 <=> SignedValue(x) < 0
  <2>1. Value(x) \in Nat /\ Value(x) < Mod /\ Mod \in Nat BY ValueBound, WordFacts
  <2>2. PICK v \in Nat, m \in Nat : v = Value(x) /\ m = Mod /\ v < m BY <2>1
  <2>3. g = 0 => v + m * g = v BY <1>6
  <2>4. g = -1 => v + m * g = v - m BY <1>6
  <2> QED BY <1>6, <1>7, <2>2, <2>3, <2>4
<1> QED BY <1>1, <1>2, <1>7, <1>8, <1>9

LEMMA NegativeIs ==
  ASSUME NEW x \in Pairs PROVE Negative(x) <=> SignedValue(x) < 0
<1>1. PICK l, h \in Nat, s, g \in Int :
        /\ h = x.hi /\ h < WordMod /\ IsSigned(h, s, g) /\ (g = -1 <=> SignedValue(x) < 0)
  BY SignedPair
<1>2. PICK k \in Nat : k > 0 /\ k = 2 ^ (Bits - 1) /\ WordMod = 2 * k BY HalfWord
<1>3. g = -1 <=> h >= k BY <1>1, <1>2 DEF IsSigned
<1>4. Shr(h, Bits - 1) = 1 <=> h >= k
  <2>1. CASE h < k
    <3>1. Division(h, k, 0, h) BY <2>1 DEF Division
    <3> QED BY <1>2, <2>1, <3>1, DivisionIs DEF Shr
  <2>2. CASE ~(h < k)
    <3>1. PICK r \in Nat : r = h - k /\ r < k BY <1>1, <1>2, <2>2
    <3>2. Division(h, k, 1, r) BY <1>2, <3>1 DEF Division
    <3> QED BY <1>2, <2>2, <3>2, DivisionIs DEF Shr
  <2> QED BY <2>1, <2>2
<1> QED BY <1>1, <1>3, <1>4 DEF Negative

LEMMA SarSign ==
  ASSUME NEW h \in Nat, h < WordMod, NEW s \in Int, NEW g \in Int, IsSigned(h, s, g)
  PROVE  /\ s \div 2 ^ (Bits - 1) = g /\ Sar(h, Bits - 1) = g % WordMod
         /\ g = 0 => g % WordMod = 0
         /\ g = -1 => g % WordMod = WordMod - 1
<1>1. PICK k \in Nat : k > 0 /\ k = 2 ^ (Bits - 1) /\ WordMod = 2 * k BY HalfWord
<1>2. /\ s = SignedHalf(h) /\ g \in {0, -1} /\ (g = -1 <=> s < 0) /\ -k <= s /\ s < k
  BY <1>1 DEF IsSigned
<1>3. s \div k = g
  <2>1. CASE g = 0
    <3>1. s \in Nat /\ Division(s, k, 0, s) BY <1>1, <1>2, <2>1 DEF Division
    <3> QED BY <2>1, <3>1, DivisionIs
  <2>2. CASE g = -1
    <3>1. PICK r \in Nat : r = s + k /\ r < k BY <1>1, <1>2, <2>2
    <3>2. Division(s, k, -1, r) BY <1>1, <3>1 DEF Division
    <3> QED BY <2>2, <3>2, DivisionIs
  <2> QED BY <1>2, <2>1, <2>2
<1>4. PICK w \in Nat : w = WordMod /\ w > 1 BY WordIs
<1>5. g = 0 => g % w = 0
  <2>1. Division(0, w, 0, 0) BY <1>4 DEF Division
  <2> QED BY <2>1, DivisionIs
<1>6. g = -1 => g % w = w - 1
  <2>1. Division(-1, w, -1, w - 1) BY <1>4 DEF Division
  <2> QED BY <2>1, DivisionIs
<1> QED BY <1>1, <1>2, <1>3, <1>4, <1>5, <1>6 DEF Sar

LEMMA FromExact ==
  ASSUME NEW x \in Half
  PROVE  /\ cvm_i64_from_i32(x) \in Pairs
         /\ SignedValue(cvm_i64_from_i32(x)) = SignedHalf(x)
<1>1. x \in Nat /\ x < WordMod BY WordFacts DEF Half
<1>2. PICK s \in Int, g \in Int : IsSigned(x, s, g) BY <1>1, SignedIs
<1>3. PICK w \in Nat : w = WordMod /\ w > 1 BY WordIs
<1>4. PICK u \in Nat : /\ u = Sar(x, Bits - 1) /\ u < w /\ (g = 0 => u = 0)
                       /\ (g = -1 => u = w - 1)
  <2>1. g \in {0, -1} BY <1>2 DEF IsSigned
  <2>2. /\ Sar(x, Bits - 1) = g % w /\ (g = 0 => g % w = 0)
        /\ (g = -1 => g % w = w - 1)
    BY <1>1, <1>2, <1>3, SarSign
  <2>3. PICK u \in Nat : u = g % w /\ u < w BY <1>3, <2>1, <2>2
  <2> QED BY <2>2, <2>3
<1>5. cvm_i64_from_i32(x) = I64(x, u) BY <1>4 DEF cvm_i64_from_i32
<1>6. I64(x, u) \in Pairs BY <1>1, <1>3, <1>4, IsPair
<1>7. PICK l, h \in Nat, t, f \in Int :
        /\ l = I64(x, u).lo /\ h = I64(x, u).hi /\ IsSigned(h, t, f)
        /\ SignedValue(I64(x, u)) = l + WordMod * t
  BY <1>6, SignedPair
<1>8. l = x /\ h = u BY <1>7 DEF I64
<1>9. PICK k \in Nat : k > 0 /\ k = 2 ^ (Bits - 1) /\ w = 2 * k BY <1>3, HalfWord
<1>10. /\ t = h + w * f /\ f \in {0, -1} /\ (f = -1 <=> h >= k)
       /\ s = x + w * g /\ g \in {0, -1} /\ s = SignedHalf(x)
  BY <1>2, <1>3, <1>7, <1>9 DEF IsSigned
<1>11. l + w * t = s
  <2>1. CASE g = 0
    <3>1. f = 0 BY <1>4, <1>8, <1>9, <1>10, <2>1
    <3>2. t = 0 /\ s = x BY <1>4, <1>8, <1>10, <2>1, <3>1
    <3> QED BY <1>8, <3>2
  <2>2. CASE g = -1
    <3>1. f = -1 BY <1>4, <1>8, <1>9, <1>10, <2>2
    <3>2. t = -1 /\ s = x - w BY <1>3, <1>4, <1>8, <1>10, <2>2, <3>1
    <3> QED BY <1>3, <1>8, <3>2
  <2> QED BY <1>10, <2>1, <2>2
<1> QED BY <1>3, <1>5, <1>6, <1>7, <1>10, <1>11

LEMMA SarExact ==
  ASSUME NEW x \in Pairs, NEW n_in \in Nat
  PROVE  /\ cvm_i64_sar(x, n_in) \in Pairs
         /\ Value(cvm_i64_sar(x, n_in)) = (SignedValue(x) \div 2 ^ (n_in % (2 * Bits))) % Mod
<1>0. PICK n \in Nat : n = n_in % (2 * Bits) /\ n \in 0 .. 2 * Bits - 1 BY ShiftAmount
<1>1. PICK l, h \in Nat, s, g \in Int :
        /\ l = x.lo /\ h = x.hi /\ l < WordMod /\ h < WordMod /\ IsSigned(h, s, g)
        /\ SignedValue(x) = l + WordMod * s /\ SignedValue(x) = Value(x) + Mod * g
  BY SignedPair
<1>2. PICK w \in Nat : w = WordMod /\ w > 1 BY WordIs
<1>3. s = SignedHalf(h) /\ s = h + w * g /\ g \in {0, -1} BY <1>1, <1>2 DEF IsSigned
<1>4. CASE n = 0
  <2>1. SignedValue(x) \div 2 ^ n = SignedValue(x)
    <3>1. 2 ^ n = 1 /\ SignedValue(x) \in Int BY <1>1, <1>2, <1>4, Powers
    <3> QED BY <3>1
  <2>2. cvm_i64_sar(x, n_in) = x BY <1>0, <1>4, WordFacts DEF cvm_i64_sar
  <2>3. Value(x) = SignedValue(x) % Mod
    <3>1. SignedValue(x) \in Int BY <1>1, <1>2
    <3> QED BY <1>1, <3>1, IsMod
  <2> QED BY <1>0, <2>1, <2>2, <2>3
<1>5. CASE n >= Bits
  <2>1. PICK k \in 0 .. Bits - 1 : k = n - Bits /\ Bits + k = n
    BY <1>0, <1>5, WordFacts
  <2>2. n # 0 BY <1>5, WordFacts
  <2>3. cvm_i64_sar(x, n_in) = I64(Sar(h, k), Sar(h, Bits - 1))
    BY <1>0, <1>1, <1>5, <2>1, <2>2 DEF cvm_i64_sar
  <2>4. k \in Nat /\ Bits \in Nat /\ Bits - 1 - k \in Nat /\ k + (Bits - 1 - k) = Bits - 1
    BY WordFacts
  <2>5. PICK p \in Nat, e \in Nat :
          p = 2 ^ k /\ p > 0 /\ e = 2 ^ (Bits - 1 - k) /\ e > 0 /\ 2 ^ (Bits - 1) = p * e
    BY <2>4, Powers, PowerSum
  <2>6. PICK t \in Int, r \in Nat : Division(s, p, t, r) BY <2>5, Divided
  <2>7. s \div p = t /\ Sar(h, k) = t % w BY <1>2, <1>3, <2>5, <2>6, DivisionIs DEF Sar
  <2>8. PICK r2 \in Nat : Division(t, e, g, r2)
    <3>1. PICK g2 \in Int, r2 \in Nat : Division(t, e, g2, r2) BY <2>5, Divided
    <3>2. Division(s, p * e, g2, p * r2 + r) BY <2>6, <3>1, DivisionTwice
    <3>3. s \div (p * e) = g2 BY <3>2, DivisionIs
    <3>4. g2 = g BY <1>1, <2>5, <3>3, SarSign
    <3> QED BY <3>1, <3>4
  <2>9. PICK r3 \in Nat : Division(t, w, g, r3)
    <3>1. t = e * g + r2 /\ r2 < e BY <2>8 DEF Division
    <3>2. e <= w
      <4>1. PICK k2 \in Nat : k2 = 2 ^ (Bits - 1) /\ w = 2 * k2 BY <1>2, HalfWord
      <4>2. p * e >= e BY <2>5
      <4> QED BY <2>5, <4>1, <4>2
    <3>3. CASE g = 0
      <4>1. t = r2 /\ r2 < w BY <1>2, <2>5, <3>1, <3>2, <3>3
      <4>2. Division(t, w, 0, r2) BY <1>2, <4>1 DEF Division
      <4> QED BY <3>3, <4>2
    <3>4. CASE g = -1
      <4>1. PICK r3 \in Nat : r3 = r2 + w - e /\ r3 < w /\ t = -w + r3
        BY <1>2, <2>5, <3>1, <3>2, <3>4
      <4>2. Division(t, w, -1, r3) BY <1>2, <4>1 DEF Division
      <4> QED BY <3>4, <4>2
    <3> QED BY <1>3, <3>3, <3>4
  <2>10. t % w = r3 BY <2>9, DivisionIs
  <2>15. PICK z \in Int : z = 0 /\ z + g = g /\ t + w * z = t BY <1>2
  <2>11. /\ I64(r3, (z + g) % w) \in Pairs
         /\ Value(I64(r3, (z + g) % w)) = (t + w * z) % Mod
    BY <1>2, <2>9, Assembled
  <2>12. Sar(h, Bits - 1) = (z + g) % w
    <3>1. Sar(h, Bits - 1) = g % WordMod BY <1>1, SarSign
    <3> QED BY <1>2, <2>15, <3>1
  <2>13. SignedValue(x) \div 2 ^ n = t
    <3>1. Division(SignedValue(x), w, s, l)
      <4>1. l + w * s = w * s + l /\ l + w * s \in Int OBVIOUS
      <4> QED BY <1>1, <1>2, <4>1 DEF Division
    <3>2. Division(SignedValue(x), w * p, t, w * r + l) BY <2>6, <3>1, DivisionTwice
    <3>3. 2 ^ n = w * p
      <4>1. 2 ^ (Bits + k) = 2 ^ Bits * 2 ^ k BY <2>4, PowerSum
      <4> QED BY <1>2, <2>1, <2>5, <4>1 DEF WordMod
    <3> QED BY <3>2, <3>3, DivisionIs
  <2> QED BY <1>0, <2>3, <2>7, <2>10, <2>11, <2>12, <2>13, <2>15
<1>6. CASE n # 0 /\ ~(n >= Bits)
  <2>1. n \in 1 .. Bits - 1 BY <1>0, <1>6, WordFacts
  <2>2. cvm_i64_sar(x, n_in) = I64(Shr(l, n) + Shl(h, Bits - n), Sar(h, n))
    BY <1>0, <1>1, <1>6 DEF cvm_i64_sar
  <2>3. PICK lo \in Nat : /\ lo = Shr(l, n) + Shl(h, Bits - n) /\ lo < w
                          /\ (l + w * s) \div 2 ^ n = lo + w * (s \div 2 ^ n)
    <3>1. s = h + WordMod * g BY <1>2, <1>3
    <3>2. LET lo == Shr(l, n) + Shl(h, Bits - n)
          IN  /\ lo \in Nat /\ lo < WordMod
              /\ (l + WordMod * s) \div 2 ^ n = lo + WordMod * (s \div 2 ^ n)
      BY <1>1, <2>1, <3>1, ShrBy
    <3> QED BY <1>2, <3>2
  <2>4. PICK t \in Int : t = s \div 2 ^ n
    <3>1. n \in Nat BY <2>1
    <3>2. 2 ^ n \in Nat /\ 2 ^ n > 0 BY <3>1, Powers
    <3> QED BY <3>2
  <2>8. PICK z \in Int : z = 0 /\ t + z = t OBVIOUS
  <2>5. Sar(h, n) = (t + z) % w BY <1>2, <1>3, <2>4, <2>8 DEF Sar
  <2>6. Division(lo, w, z, lo) BY <1>2, <2>3, <2>8 DEF Division
  <2>7. /\ I64(lo, (t + z) % w) \in Pairs
        /\ Value(I64(lo, (t + z) % w)) = (lo + w * t) % Mod
    BY <1>2, <2>4, <2>6, Assembled
  <2> QED BY <1>0, <1>1, <1>2, <2>2, <2>3, <2>4, <2>5, <2>7
<1> QED BY <1>4, <1>5, <1>6

-----------------------------------------------------------------------------
(* The product of fixed-point numbers: the middle of the double word.      *)

LEMMA FixedExact ==
  ASSUME NEW x \in Half, NEW y \in Half
  PROVE  cvm_qmul_16_16(x, y)
           = ((SignedHalf(x) * SignedHalf(y)) \div 2 ^ (Bits \div 2)) % WordMod
<1>1. x \in Nat /\ x < WordMod /\ y \in Nat /\ y < WordMod BY WordFacts DEF Half
<1>2. PICK w \in Nat : w = WordMod /\ w > 1 BY WordIs
<1>3. PICK s \in Int, g \in Int : s = SignedHalf(x) /\ s = x + w * g
  BY <1>1, <1>2, SignedIs DEF IsSigned
<1>4. PICK t \in Int, f \in Int : t = SignedHalf(y) /\ t = y + w * f
  BY <1>1, <1>2, SignedIs DEF IsSigned
<1>5. PICK v \in Int : v = s * t OBVIOUS
<1>6. PICK q \in Nat : q = Bits \div 2 /\ q \in 0 .. Bits /\ Bits - q \in 0 .. Bits
  BY WordFacts
<1>7. PICK u \in Int, r \in Nat : Division(v, w, u, r) /\ r < w
  <2>1. w > 0 BY <1>2
  <2>2. PICK u \in Int, r \in Nat : Division(v, w, u, r) BY <2>1, Divided
  <2> QED BY <2>2 DEF Division
<1>8. (x * y) % w = r
  <2>1. PICK i \in Int, j \in Int : i = x /\ j = y BY <1>1
  <2>2. PICK d \in Int : d = -(g * t) - (i * f)
    <3>1. -(g * t) - (i * f) \in Int OBVIOUS
    <3> QED BY <3>1
  <2>3. i * j = v + w * d
    <3>1. (i + w * g) * t = i * t + w * (g * t) OBVIOUS
    <3>2. i * t = i * j + w * (i * f)
      <4>1. i * (j + w * f) = i * j + w * (i * f) OBVIOUS
      <4> QED BY <1>4, <2>1, <4>1
    <3>3. w * (-(g * t) - (i * f)) = -(w * (g * t)) - w * (i * f) OBVIOUS
    <3>4. PICK e1, e2, e3 \in Int : e1 = w * (g * t) /\ e2 = w * (i * f) /\ e3 = i * j
      OBVIOUS
    <3>5. v = e3 + e2 + e1 BY <1>3, <1>5, <2>1, <3>1, <3>2, <3>4
    <3> QED BY <2>2, <3>3, <3>4, <3>5
  <2>4. Division(v + w * d, w, u + d, r) BY <1>7, DivisionAdds
  <2> QED BY <2>1, <2>3, <2>4, DivisionIs
<1>9. PICK z \in Nat : z = u % w /\ z < w /\ cvm_mulh(x, y) = z
  <2>1. v \div w = u BY <1>7, DivisionIs
  <2> QED BY <1>2, <1>3, <1>4, <1>5, <2>1 DEF cvm_mulh
<1>10. PICK m, p, rq, rr \in Nat : Split(Bits - q, r, m, p, rq, rr)
  BY <1>2, <1>6, <1>7, ShlIs
<1>11. PICK m1, p1, zq, zr \in Nat : Split(Bits - q, z, m1, p1, zq, zr)
  BY <1>2, <1>6, <1>9, ShlIs
<1>12. /\ m > 0 /\ p > 0 /\ p = 2 ^ q /\ w = m * p /\ r = p * rq + rr /\ rr < p /\ rq < m
       /\ Shr(r, q) = rq
       /\ z = p * zq + zr /\ zr < p /\ Shl(z, Bits - q) = m * zr
  <2>1. Bits - (Bits - q) = q BY <1>6, WordFacts
  <2> QED BY <1>2, <1>10, <1>11, <2>1 DEF Split
<1>13. cvm_qmul_16_16(x, y) = rq + m * zr
  BY <1>2, <1>6, <1>8, <1>9, <1>12 DEF cvm_qmul_16_16
<1>14. Division(v, p, rq + m * u, rr)
  <2>1. v = w * u + r BY <1>7 DEF Division
  <2>2. (m * p) * u + (p * rq + rr) = p * (rq + m * u) + rr OBVIOUS
  <2> QED BY <1>12, <2>1, <2>2 DEF Division
<1>15. v \div p = rq + m * u BY <1>14, DivisionIs
<1>16. PICK e \in Int : u = w * e + z
  <2>1. w > 0 BY <1>2
  <2>2. PICK e \in Int, y2 \in Nat : Division(u, w, e, y2) BY <2>1, Divided
  <2>3. y2 = z BY <1>9, <2>2, DivisionIs
  <2> QED BY <2>2, <2>3 DEF Division
<1>17. Division(rq + m * u, w, m * e + zq, rq + m * zr)
  <2>1. rq + m * ((m * p) * e + (p * zq + zr)) = (m * p) * (m * e + zq) + (rq + m * zr)
    OBVIOUS
  <2>2. rq + m * zr < m * p BY <1>12, Fits
  <2> QED BY <1>2, <1>12, <1>16, <2>1, <2>2 DEF Division
<1>18. (v \div p) % w = rq + m * zr BY <1>15, <1>17, DivisionIs
<1> QED BY <1>2, <1>3, <1>4, <1>5, <1>6, <1>12, <1>13, <1>18

-----------------------------------------------------------------------------
(* Funnel shifts.                                                          *)

LEMMA PowerSplits ==
  ASSUME NEW s \in 1 .. 2 * Bits - 1
  PROVE  \E p \in Nat, m \in Nat :
           p = 2 ^ s /\ m = 2 ^ (2 * Bits - s) /\ p > 0 /\ m > 0 /\ Mod = p * m
<1>1. Bits \in Nat /\ s \in Nat /\ 2 * Bits - s \in Nat /\ s + (2 * Bits - s) = Bits + Bits
  BY WordFacts
<1>2. PICK p \in Nat, m \in Nat : p = 2 ^ s /\ m = 2 ^ (2 * Bits - s) /\ p > 0 /\ m > 0
  BY <1>1, Powers
<1>3. 2 ^ (Bits + Bits) = p * m BY <1>1, <1>2, PowerSum
<1>4. Mod = p * m
  <2>1. 2 ^ (Bits + Bits) = 2 ^ Bits * 2 ^ Bits BY <1>1, PowerSum
  <2> QED BY <1>3, <2>1, WordFacts DEF WordMod
<1> QED BY <1>2, <1>4

LEMMA JoinedIs ==
  ASSUME NEW x \in Pairs, NEW y \in Pairs
  PROVE  Value(Joined(x, y)) = Value(x) + Value(y)
<1>1. PICK l \in Nat, h \in Nat : l = x.lo /\ h = x.hi /\ Value(x) = l + WordMod * h
  BY PairIs
<1>2. PICK m \in Nat, k \in Nat : m = y.lo /\ k = y.hi /\ Value(y) = m + WordMod * k
  BY PairIs
<1>3. PICK w \in Nat : w = WordMod BY WordIs
<1>4. Value(Joined(x, y)) = (l + m) + w * (h + k)
  BY <1>1, <1>2, <1>3 DEF Joined, I64, Value
<1>5. w * (h + k) = w * h + w * k OBVIOUS
<1>6. PICK i \in Nat, j \in Nat : i = w * h /\ j = w * k OBVIOUS
<1> QED BY <1>1, <1>2, <1>3, <1>4, <1>5, <1>6

(* The upper bits of one, the lower bits of the other.                     *)
LEMMA FunnelExact ==
  ASSUME NEW x \in Pairs, NEW y \in Pairs, NEW s \in 1 .. 2 * Bits - 1
  PROVE  Value(Joined(cvm_u64_shl(x, s), cvm_u64_shr(y, 2 * Bits - s)))
           = (Value(x) * 2 ^ s + Value(y) \div 2 ^ (2 * Bits - s)) % Mod
<1>1. PICK p \in Nat, m \in Nat :
        p = 2 ^ s /\ m = 2 ^ (2 * Bits - s) /\ p > 0 /\ m > 0 /\ Mod = p * m
  BY PowerSplits
<1>2. /\ Bits \in Nat /\ s \in Nat /\ 2 * Bits - s \in Nat
      /\ s % (2 * Bits) = s /\ (2 * Bits - s) % (2 * Bits) = 2 * Bits - s
  <2>1. PICK n \in Nat : n = 2 * Bits /\ s < n /\ s > 0 BY WordFacts
  <2>2. Division(s, n, 0, s) /\ Division(n - s, n, 0, n - s) BY <2>1 DEF Division
  <2>3. s % n = s /\ (n - s) % n = n - s BY <2>2, DivisionIs
  <2> QED BY <2>1, <2>3, WordFacts
<1>3. PICK a1, b1 \in Nat : a1 = Value(x) /\ b1 = Value(y) /\ a1 < Mod /\ b1 < Mod
  BY ValueBound
<1>4. /\ cvm_u64_shl(x, s) \in Pairs
      /\ Value(cvm_u64_shl(x, s)) = (a1 * p) % (p * m)
  <2>1. Value(cvm_u64_shl(x, s)) = (Value(x) * 2 ^ (s % (2 * Bits))) % Mod
    BY <1>2, ShlExact
  <2>2. cvm_u64_shl(x, s) \in Pairs BY <1>2, ShlExact
  <2> QED BY <1>1, <1>2, <1>3, <2>1, <2>2
<1>5. /\ cvm_u64_shr(y, 2 * Bits - s) \in Pairs
      /\ Value(cvm_u64_shr(y, 2 * Bits - s)) = b1 \div m
  <2>1. PICK n \in Nat : n = 2 * Bits - s /\ n % (2 * Bits) = n BY <1>2
  <2>2. /\ cvm_u64_shr(y, n) \in Pairs
        /\ Value(cvm_u64_shr(y, n)) = Value(y) \div 2 ^ (n % (2 * Bits))
    BY ShrExact
  <2> QED BY <1>1, <1>3, <2>1, <2>2
<1>6. PICK q \in Int, r \in Nat : Division(a1, m, q, r)
  <2>1. a1 \in Int /\ m > 0 BY <1>1
  <2> QED BY <2>1, Divided
<1>7. Division(p * a1, p * m, q, p * r) BY <1>1, <1>6, DivisionScales
<1>8. (a1 * p) % (p * m) = p * r
  <2>1. p * a1 = a1 * p OBVIOUS
  <2> QED BY <1>7, <2>1, DivisionIs
<1>9. PICK v \in Nat : v = b1 \div m /\ v < p
  <2>1. PICK v \in Int, z \in Nat : Division(b1, m, v, z)
    <3>1. b1 \in Int /\ m > 0 BY <1>1
    <3> QED BY <3>1, Divided
  <2>2. b1 = m * v + z /\ z < m BY <2>1 DEF Division
  <2>3. v >= 0
    <3> SUFFICES ASSUME v <= -1 PROVE FALSE OBVIOUS
    <3>1. m * v <= -m BY <1>1
    <3> QED BY <2>2, <3>1
  <2>4. v < p
    <3> SUFFICES ASSUME v >= p PROVE FALSE BY <2>3
    <3>1. m * v >= m * p BY <1>1
    <3>2. m * p = p * m OBVIOUS
    <3> QED BY <1>1, <1>3, <2>2, <3>1, <3>2
  <2>5. b1 \div m = v BY <2>1, DivisionIs
  <2> QED BY <2>3, <2>4, <2>5
<1>10. Division(a1 * p + v, p * m, q, v + p * r)
  <2>1. a1 = m * q + r /\ r < m BY <1>6 DEF Division
  <2>2. v + p * r < p * m BY <1>1, <1>9, <2>1, Fits
  <2>3. (m * q + r) * p + v = (p * m) * q + (v + p * r) OBVIOUS
  <2>4. p * m \in Nat /\ p * m > 0 BY <1>1, WordFacts
  <2>5. a1 * p + v \in Int /\ v + p * r \in Nat OBVIOUS
  <2> QED BY <2>1, <2>2, <2>3, <2>4, <2>5 DEF Division
<1>11. (a1 * p + v) % (p * m) = v + p * r BY <1>10, DivisionIs
<1>12. Value(Joined(cvm_u64_shl(x, s), cvm_u64_shr(y, 2 * Bits - s))) = p * r + v
  BY <1>4, <1>5, <1>8, <1>9, JoinedIs
<1>13. p * r + v = v + p * r OBVIOUS
<1> QED BY <1>1, <1>3, <1>9, <1>11, <1>12, <1>13

-----------------------------------------------------------------------------
(* Comparisons.                                                            *)

LEMMA InOrder ==
  ASSUME NEW w \in Nat, NEW l \in Nat, l < w, NEW m \in Nat, m < w,
         NEW h \in Int, NEW k \in Int, h < k
  PROVE  l + w * h < m + w * k
<1>1. w * (k - h) = w * k - w * h OBVIOUS
<1>2. w * (k - h) >= w
  <2>1. k - h >= 1 OBVIOUS
  <2> QED BY <2>1
<1>3. PICK i, j \in Int : i = w * h /\ j = w * k OBVIOUS
<1> QED BY <1>1, <1>2, <1>3

LEMMA Ordered ==
  ASSUME NEW w \in Nat, NEW l \in Nat, l < w, NEW m \in Nat, m < w,
         NEW h \in Int, NEW k \in Int
  PROVE  /\ (IF h # k THEN h < k ELSE l < m) <=> l + w * h < m + w * k
         /\ (IF h # k THEN h < k ELSE l <= m) <=> l + w * h <= m + w * k
<1>1. CASE h < k
  <2>1. l + w * h < m + w * k BY <1>1, InOrder
  <2> QED BY <1>1, <2>1
<1>2. CASE k < h
  <2>1. m + w * k < l + w * h BY <1>2, InOrder
  <2> QED BY <1>2, <2>1
<1>3. CASE h = k
  <2>1. PICK i \in Int : i = w * h /\ i = w * k BY <1>3
  <2> QED BY <1>3, <2>1
<1> QED BY <1>1, <1>2, <1>3

LEMMA ComparesExact ==
  ASSUME NEW x \in Pairs, NEW y \in Pairs
  PROVE  /\ Flag(cvm_u64_lt(x, y)) = Flag(Value(x) < Value(y))
         /\ Flag(cvm_u64_le(x, y)) = Flag(Value(x) <= Value(y))
         /\ Flag(cvm_i64_lt(x, y)) = Flag(SignedValue(x) < SignedValue(y))
         /\ Flag(cvm_i64_le(x, y)) = Flag(SignedValue(x) <= SignedValue(y))
         /\ cvm_u64_lt(x, y) <=> Value(x) < Value(y)
         /\ cvm_u64_le(x, y) <=> Value(x) <= Value(y)
<1> DEFINE Parts(z, l, h, s, g) ==
             /\ l = z.lo /\ h = z.hi /\ l < WordMod /\ Value(z) = l + WordMod * h
             /\ IsSigned(h, s, g) /\ SignedValue(z) = l + WordMod * s
<1>11. ASSUME NEW z \in Pairs PROVE \E l, h \in Nat, s, g \in Int : Parts(z, l, h, s, g)
  <2>1. PICK l, h \in Nat, s, g \in Int :
          /\ l = z.lo /\ h = z.hi /\ l < WordMod /\ h < WordMod
          /\ Value(z) = l + WordMod * h /\ IsSigned(h, s, g)
          /\ SignedValue(z) = l + WordMod * s
    BY SignedPair
  <2>2. Parts(z, l, h, s, g) BY <2>1
  <2> HIDE DEF Parts
  <2> QED BY <2>2
<1> HIDE DEF Parts
<1>12. PICK l, h \in Nat, s, g \in Int : Parts(x, l, h, s, g) BY <1>11
<1>13. PICK m, k \in Nat, t, f \in Int : Parts(y, m, k, t, f) BY <1>11
<1>1. /\ l = x.lo /\ h = x.hi /\ l < WordMod /\ Value(x) = l + WordMod * h
      /\ IsSigned(h, s, g) /\ SignedValue(x) = l + WordMod * s
  BY <1>12 DEF Parts
<1>2. /\ m = y.lo /\ k = y.hi /\ m < WordMod /\ Value(y) = m + WordMod * k
      /\ IsSigned(k, t, f) /\ SignedValue(y) = m + WordMod * t
  BY <1>13 DEF Parts
<1>3. PICK w \in Nat : w = WordMod /\ w > 1 BY WordIs
<1>4. s = SignedHalf(h) /\ t = SignedHalf(k) BY <1>1, <1>2 DEF IsSigned
<1>10. h \in Int /\ k \in Int OBVIOUS
<1>14. w \in Nat /\ l < w /\ m < w BY <1>1, <1>2, <1>3
<1>5. h # k <=> s # t
  <2>1. PICK e \in Nat : w = 2 * e /\ e = 2 ^ (Bits - 1) BY <1>3, HalfWord
  <2>2. /\ s = h + w * g /\ g \in {0, -1} /\ (g = -1 <=> s < 0)
        /\ t = k + w * f /\ f \in {0, -1} /\ (f = -1 <=> t < 0)
    BY <1>1, <1>2, <1>3 DEF IsSigned
  <2>3. CASE g = f
    <3>1. w * g = w * f BY <2>3
    <3> QED BY <2>2, <3>1
  <2>4. CASE g # f
    <3>1. s # t BY <2>2, <2>4
    <3>2. h # k BY <1>4, <3>1
    <3> QED BY <3>1, <3>2
  <2> QED BY <2>3, <2>4
<1>6. cvm_u64_lt(x, y) <=> Value(x) < Value(y)
  <2>1. (IF h # k THEN h < k ELSE l < m) <=> l + w * h < m + w * k
    BY <1>10, <1>14, Ordered
  <2> QED BY <1>1, <1>2, <1>3, <2>1 DEF cvm_u64_lt
<1>7. cvm_u64_le(x, y) <=> Value(x) <= Value(y)
  <2>1. (IF h # k THEN h < k ELSE l <= m) <=> l + w * h <= m + w * k
    BY <1>10, <1>14, Ordered
  <2> QED BY <1>1, <1>2, <1>3, <2>1 DEF cvm_u64_le
<1>8. cvm_i64_lt(x, y) <=> SignedValue(x) < SignedValue(y)
  <2>1. (IF s # t THEN s < t ELSE l < m) <=> l + w * s < m + w * t
    BY <1>10, <1>14, Ordered
  <2> QED BY <1>1, <1>2, <1>3, <1>4, <1>5, <2>1 DEF cvm_i64_lt
<1>9. cvm_i64_le(x, y) <=> SignedValue(x) <= SignedValue(y)
  <2>1. (IF s # t THEN s < t ELSE l <= m) <=> l + w * s <= m + w * t
    BY <1>10, <1>14, Ordered
  <2> QED BY <1>1, <1>2, <1>3, <1>4, <1>5, <2>1 DEF cvm_i64_le
<1> QED BY <1>6, <1>7, <1>8, <1>9 DEF Flag, Carry

-----------------------------------------------------------------------------
(* The division loop.                                                      *)

(* The bits of a value, one by one.                                        *)
LEMMA BitIs ==
  ASSUME NEW x \in Pairs, NEW i \in 0 .. 2 * Bits - 1
  PROVE  /\ BitOf(x, i) \in {0, 1}
         /\ Value(x) \div 2 ^ i = 2 * (Value(x) \div 2 ^ (i + 1)) + BitOf(x, i)
<1>1. PICK w \in Nat : w = WordMod /\ w > 1 BY WordIs
<1>2. PICK l \in Nat, h \in Nat :
        l = x.lo /\ h = x.hi /\ l < w /\ h < w /\ Value(x) = l + w * h
  BY <1>1, PairIs
<1>3. PICK v \in Nat : v = Value(x) BY ValueBound
<1>4. i \in Nat /\ Bits \in Nat BY WordFacts
<1>5. PICK u \in Nat : u = 2 ^ i /\ u > 0 /\ 2 ^ (i + 1) = 2 * u BY <1>4, Powers
<1>6. PICK d \in Int, e \in Nat : Division(v, u, d, e) BY <1>5, Divided
<1>7. BitOf(x, i) = d % 2
  <2>1. CASE i >= Bits
    <3>1. PICK j \in Nat : j = i - Bits /\ i = Bits + j BY <1>4, <2>1
    <3>2. PICK p \in Nat : p = 2 ^ j /\ p > 0 BY <3>1, Powers
    <3>3. u = w * p BY <1>1, <1>4, <1>5, <3>1, <3>2, PowerSum DEF WordMod
    <3>4. PICK q \in Int, r \in Nat : Division(h, p, q, r) BY <3>2, Divided
    <3>5. Division(v, w, h, l) BY <1>1, <1>2, <1>3 DEF Division
    <3>6. Division(v, w * p, q, w * r + l) BY <3>4, <3>5, DivisionTwice
    <3>7. q = d BY <1>6, <3>3, <3>6, DivisionIs
    <3>8. h \div p = q BY <3>4, DivisionIs
    <3> QED BY <1>2, <2>1, <3>1, <3>2, <3>7, <3>8 DEF BitOf, Shr
  <2>2. CASE ~(i >= Bits)
    <3>1. Bits - i \in Nat /\ Bits - i - 1 \in Nat /\ (Bits - i - 1) + 1 = Bits - i
          /\ i \in 0 .. Bits
      BY <1>4, <2>2
    <3>2. PICK p \in Nat : p = 2 ^ (Bits - i - 1) /\ 2 ^ (Bits - i) = 2 * p BY <3>1, Powers
    <3>3. w = u * (2 * p) BY <1>1, <1>5, <3>1, <3>2, WordSplits
    <3>4. PICK q \in Int, r \in Nat : Division(l, u, q, r) BY <1>5, Divided
    <3>5. PICK k \in Int : k = p * h OBVIOUS
    <3>6. v = l + u * (2 * k)
      <4>1. (u * (2 * p)) * h = u * (2 * (p * h)) OBVIOUS
      <4> QED BY <1>2, <1>3, <3>3, <3>5, <4>1
    <3>7. PICK n \in Int : n = 2 * k BY <3>5
    <3>8. Division(v, u, q + n, r)
      <4>1. v = l + u * n BY <3>6, <3>7
      <4> QED BY <3>4, <4>1, DivisionAdds
    <3>9. d % 2 = q % 2
      <4>1. q + n = d BY <1>6, <3>8, DivisionIs
      <4> QED BY <3>4, <3>5, <3>7, <4>1 DEF Division
    <3>10. l \div u = q BY <3>4, DivisionIs
    <3> QED BY <1>2, <1>5, <2>2, <3>9, <3>10 DEF BitOf, Shr
  <2> QED BY <2>1, <2>2
<1>8. PICK g \in Int, t \in Nat : Division(d, 2, g, t) BY Divided
<1>9. Division(v, u * 2, g, u * t + e) BY <1>6, <1>8, DivisionTwice
<1>10. v \div u = d BY <1>6, DivisionIs
<1>11. v \div (2 * u) = g
  <2>1. u * 2 = 2 * u OBVIOUS
  <2> QED BY <1>9, <2>1, DivisionIs
<1>12. d = 2 * g + t /\ t < 2 BY <1>8 DEF Division
<1>13. d % 2 = t BY <1>8, DivisionIs
<1> QED BY <1>3, <1>5, <1>7, <1>10, <1>11, <1>12, <1>13

(* Two multiples of t, one less than the other, are t apart.               *)
LEMMA Multiples ==
  ASSUME NEW t \in Nat, NEW m \in Int, NEW n \in Int, t * m < t * n
  PROVE  t * m + t <= t * n
<1>1. m < n
  <2> SUFFICES ASSUME m >= n PROVE FALSE OBVIOUS
  <2>1. t * m >= t * n
    <3>1. t * (m - n) >= 0 OBVIOUS
    <3>2. t * (m - n) = t * m - t * n OBVIOUS
    <3>3. PICK i, j \in Int : i = t * m /\ j = t * n OBVIOUS
    <3> QED BY <3>1, <3>2, <3>3
  <2>2. PICK i, j \in Int : i = t * m /\ j = t * n OBVIOUS
  <2> QED BY <2>1, <2>2
<1>2. t * (n - m) >= t
  <2>1. n - m >= 1 BY <1>1
  <2> QED BY <2>1
<1>3. t * (n - m) = t * n - t * m OBVIOUS
<1>4. PICK i, j \in Int : i = t * m /\ j = t * n OBVIOUS
<1> QED BY <1>2, <1>3, <1>4

(* The bit the quotient gets is one it does not have.                      *)
LEMMA WithBitIs ==
  ASSUME NEW q \in Pairs, NEW i \in 0 .. 2 * Bits - 1, NEW k \in Nat, Value(q) = 2 ^ (i + 1) * k
  PROVE  /\ WithBit(q, i) \in Pairs
         /\ Value(WithBit(q, i)) = Value(q) + 2 ^ i
<1>1. PICK w \in Nat : w = WordMod /\ w > 1 BY WordIs
<1>2. PICK l \in Nat, h \in Nat :
        l = q.lo /\ h = q.hi /\ l < w /\ h < w /\ Value(q) = l + w * h
  BY <1>1, PairIs
<1>3. i \in Nat /\ Bits \in Nat BY WordFacts
<1>4. PICK u \in Nat : u = 2 ^ i /\ u > 0 /\ 2 ^ (i + 1) = 2 * u BY <1>3, Powers
<1>5. PICK t \in Nat : t = 2 * u OBVIOUS
<1>6. q = [lo |-> l, hi |-> h] BY <1>2 DEF Pairs
<1>7. CASE i >= Bits
  <2>1. PICK j \in Nat : j = i - Bits /\ i = Bits + j BY <1>3, <1>7
  <2>2. PICK p \in Nat : p = 2 ^ j /\ p > 0 BY <2>1, Powers
  <2>3. u = w * p BY <1>1, <1>3, <1>4, <2>1, <2>2, PowerSum DEF WordMod
  <2>4. PICK v \in Nat : v = Value(q) /\ v < w * w BY <1>1, ValueBound, WordFacts
  <2>5. PICK s \in Nat : w * w = t * s
    <3>1. CASE i = 2 * Bits - 1
      <4>1. i + 1 = Bits + Bits BY <1>3, <3>1
      <4>2. t = w * w BY <1>1, <1>3, <1>4, <1>5, <4>1, PowerSum DEF WordMod
      <4>3. w * w = t * 1 BY <4>2
      <4> QED BY <4>3
    <3>2. CASE i # 2 * Bits - 1
      <4>1. i + 1 \in 1 .. 2 * Bits - 1 BY <1>3, <3>2
      <4> QED BY <1>1, <1>4, <1>5, <4>1, PowerSplits, WordFacts
    <3> QED BY <3>1, <3>2
  <2>6. v + t <= w * w
    <3>1. v = t * k BY <1>4, <1>5, <2>4
    <3>2. t * k < t * s BY <2>4, <2>5, <3>1
    <3>3. t * k + t <= t * s BY <3>2, Multiples
    <3> QED BY <2>5, <3>1, <3>3
  <2>7. h + p < w
    <3> SUFFICES ASSUME h + p >= w PROVE FALSE BY <1>2, <2>2
    <3>1. w * (h + p) >= w * w BY <1>1
    <3>2. w * (h + p) = w * h + w * p OBVIOUS
    <3>3. PICK m \in Nat, n \in Nat : m = w * h /\ n = w * w OBVIOUS
    <3> QED BY <1>2, <1>4, <1>5, <2>3, <2>4, <2>6, <3>1, <3>2, <3>3
  <2>8. WithBit(q, i) = I64(l, h + p)
    BY <1>6, <1>7, <2>1, <2>2 DEF WithBit, I64
  <2>9. w * (h + p) = w * h + w * p OBVIOUS
  <2>10. PICK n \in Nat : n = h + p OBVIOUS
  <2>11. WithBit(q, i) \in Pairs /\ Value(WithBit(q, i)) = l + w * n
    BY <1>1, <1>2, <2>7, <2>8, <2>10, IsPair
  <2>12. PICK e \in Nat, f \in Nat : e = w * h /\ f = w * p OBVIOUS
  <2>13. w * n = e + f BY <2>9, <2>10, <2>12
  <2>14. Value(q) + 2 ^ i = (l + e) + f BY <1>2, <1>4, <2>3, <2>12
  <2> QED BY <2>11, <2>12, <2>13, <2>14
<1>8. CASE ~(i >= Bits)
  <2>1. i + 1 \in 0 .. Bits BY <1>3, <1>8
  <2>2. PICK s \in Nat : w = t * s BY <1>1, <1>4, <1>5, <2>1, WordSplits
  <2>3. PICK m \in Int : m = k - s * h OBVIOUS
  <2>4. l = t * m
    <3>1. t * (k - s * h) = t * k - (t * s) * h OBVIOUS
    <3>2. PICK e \in Int, f \in Int : e = t * k /\ f = (t * s) * h OBVIOUS
    <3>3. w * h = f BY <2>2, <3>2
    <3>4. Value(q) = e BY <1>4, <1>5, <3>2
    <3>5. l = e - f BY <1>2, <3>2, <3>3, <3>4
    <3> QED BY <2>3, <3>1, <3>2, <3>5
  <2>5. l + t <= w BY <1>2, <2>2, <2>4, Multiples
  <2>6. l + u \in Nat /\ l + u < w BY <1>4, <1>5, <2>5
  <2>7. WithBit(q, i) = I64(l + u, h)
    BY <1>4, <1>6, <1>8 DEF WithBit, I64
  <2>8. WithBit(q, i) \in Pairs /\ Value(WithBit(q, i)) = l + u + w * h
    BY <1>1, <1>2, <2>6, <2>7, IsPair
  <2>9. PICK e \in Nat : e = w * h OBVIOUS
  <2> QED BY <1>2, <1>4, <2>8, <2>9
<1> QED BY <1>7, <1>8

(* A left shift by one makes room for a bit.                               *)
LEMMA ShiftIn ==
  ASSUME NEW x \in Pairs, 2 * Value(x) < Mod, NEW bit \in {0, 1}
  PROVE  LET s == cvm_u64_shl(x, 1)
             t == [s EXCEPT !.lo = @ + bit]
         IN  /\ s \in Pairs /\ Value(s) = 2 * Value(x)
             /\ t \in Pairs /\ Value(t) = 2 * Value(x) + bit
<1> DEFINE s == cvm_u64_shl(x, 1)
           t == [s EXCEPT !.lo = @ + bit]
<1>1. PICK w \in Nat : w = WordMod /\ w > 1 BY WordIs
<1>2. PICK v \in Nat : v = Value(x) BY ValueBound
<1>3. s \in Pairs /\ Value(s) = 2 * v
  <2>1. 1 % (2 * Bits) = 1
    <3>1. Division(1, 2 * Bits, 0, 1) BY WordFacts DEF Division
    <3> QED BY <3>1, DivisionIs
  <2>2. 2 ^ 1 = 2
    <3>1. 0 \in Nat /\ 0 + 1 = 1 OBVIOUS
    <3> QED BY <3>1, Powers
  <2>3. s \in Pairs /\ Value(s) = (v * 2) % Mod
    <3>1. 1 \in Nat OBVIOUS
    <3>2. s \in Pairs /\ Value(s) = (Value(x) * 2 ^ (1 % (2 * Bits))) % Mod BY <3>1, ShlExact
    <3> QED BY <1>2, <2>1, <2>2, <3>2
  <2>4. Division(v * 2, Mod, 0, v * 2) BY <1>2, WordFacts DEF Division
  <2>5. (v * 2) % Mod = 2 * v BY <1>2, <2>4, DivisionIs
  <2> QED BY <2>3, <2>5
<1> HIDE DEF s
<1>4. PICK l \in Nat, h \in Nat :
        l = s.lo /\ h = s.hi /\ l < w /\ h < w /\ Value(s) = l + w * h
  BY <1>1, <1>3, PairIs
<1>5. PICK k \in Nat : w = 2 * k BY <1>1, HalfWord
<1>6. l + bit \in Nat /\ l + bit < w
  <2>1. PICK m \in Nat : m = k * h OBVIOUS
  <2>2. w * h = 2 * m
    <3>1. (2 * k) * h = 2 * (k * h) OBVIOUS
    <3> QED BY <1>5, <2>1, <3>1
  <2>3. l = 2 * (v - m)
    <3>1. l + 2 * m = 2 * v BY <1>3, <1>4, <2>2
    <3> QED BY <3>1
  <2> QED BY <1>4, <1>5, <2>3
<1>7. t = I64(l + bit, h)
  <2>1. s = [lo |-> l, hi |-> h] BY <1>3, <1>4 DEF Pairs
  <2> QED BY <2>1 DEF I64
<1>8. t \in Pairs /\ Value(t) = l + bit + w * h BY <1>1, <1>4, <1>6, <1>7, IsPair
<1>9. PICK m \in Nat : m = w * h OBVIOUS
<1> QED BY <1>2, <1>3, <1>4, <1>8, <1>9 DEF s

DivLoops == [i : -1 .. 2 * Bits - 1, q : Pairs, r : Pairs]

(* What the loop has of the quotient, k, and of the remainder once it took *)
(* all bits of the dividend from t on; t is a power of two.                *)
Divides(x, y, l, t, k) ==
  /\ t = 2 ^ (l.i + 1) /\ t > 0 /\ Value(l.q) = t * k
  /\ IF Value(y) = 0 THEN Value(l.q) + t = Mod /\ Value(x) \div t = Value(l.r)
     ELSE Value(x) \div t = Value(y) * k + Value(l.r) /\ Value(l.r) < Value(y)

LEMMA DivisionStarts ==
  ASSUME NEW x \in Pairs, NEW y \in Pairs
  PROVE  DivStart \in DivLoops /\ \E t \in Nat, k \in Nat : Divides(x, y, DivStart, t, k)
<1>1. PICK w \in Nat : w = WordMod /\ w > 1 BY WordIs
<1>2. PICK m \in Nat : m = w * w /\ m = Mod /\ m > 0 BY <1>1, WordFacts
<1>3. CVM_I64_ZERO \in Pairs /\ Value(CVM_I64_ZERO) = 0
  <2>1. 0 \in Nat /\ 0 < WordMod BY <1>1
  <2>2. I64(0, 0) \in Pairs /\ Value(I64(0, 0)) = 0 + WordMod * 0 BY <2>1, IsPair
  <2> QED BY <1>1, <2>2 DEF CVM_I64_ZERO
<1>4. /\ DivStart.i = 2 * Bits - 1 /\ DivStart.q = CVM_I64_ZERO /\ DivStart.r = CVM_I64_ZERO
      /\ DivStart \in DivLoops
  BY <1>3, WordFacts DEF DivStart, DivLoops
<1>5. 2 ^ (DivStart.i + 1) = m
  <2>1. DivStart.i + 1 = Bits + Bits /\ Bits \in Nat BY <1>4, WordFacts
  <2> QED BY <1>1, <1>2, <2>1, PowerSum DEF WordMod
<1>6. Value(x) \div m = 0
  <2>1. Division(Value(x), m, 0, Value(x)) BY <1>2, ValueBound DEF Division
  <2> QED BY <2>1, DivisionIs
<1>7. Value(y) \in Nat BY ValueBound
<1>8. Divides(x, y, DivStart, m, 0) BY <1>2, <1>3, <1>4, <1>5, <1>6, <1>7 DEF Divides
<1> QED BY <1>4, <1>8

LEMMA DivisionGoesOn ==
  ASSUME NEW x \in Pairs, NEW y \in Pairs, NEW l \in DivLoops, l.i >= 0,
         NEW t \in Nat, NEW k \in Nat, Divides(x, y, l, t, k)
  PROVE  /\ DivBit(x, y, l) \in DivLoops
         /\ \E u \in Nat, j \in Nat : Divides(x, y, DivBit(x, y, l), u, j)
<1> DEFINE shifted == cvm_u64_shl(l.r, 1)
           r == [shifted EXCEPT !.lo = @ + BitOf(x, l.i)]
           n == DivBit(x, y, l)
<1>1. l.i \in Nat /\ l.i \in 0 .. 2 * Bits - 1 /\ l.i - 1 \in -1 .. 2 * Bits - 1
      /\ l.q \in Pairs /\ l.r \in Pairs
  BY WordFacts DEF DivLoops
<1>2. PICK u \in Nat : u = 2 ^ l.i /\ u > 0 /\ t = 2 * u BY <1>1, Powers DEF Divides
<1>3. PICK X \in Nat, Y \in Nat, R \in Nat, Q \in Nat :
        X = Value(x) /\ Y = Value(y) /\ R = Value(l.r) /\ Q = Value(l.q) /\ X < Mod /\ Y < Mod
  BY <1>1, ValueBound
<1>4. PICK bit \in {0, 1} : bit = BitOf(x, l.i) BY <1>1, BitIs
<1>5. PICK d \in Nat, f \in Nat : d = X \div t /\ f = X \div u /\ f = 2 * d + bit /\ f < Mod
  <2>1. Value(x) \div 2 ^ l.i = 2 * (Value(x) \div 2 ^ (l.i + 1)) + BitOf(x, l.i) BY <1>1, BitIs
  <2>2. t = 2 ^ (l.i + 1) BY DEF Divides
  <2>3. X \div u = 2 * (X \div t) + bit BY <1>2, <1>3, <1>4, <2>1, <2>2
  <2>4. X \div t \in Nat /\ X \div u \in Nat /\ X \div u <= X BY <1>2
  <2> QED BY <1>3, <2>3, <2>4, WordFacts
<1>6. R <= d
  <2>1. CASE Y = 0 BY <1>3, <1>5, <2>1 DEF Divides
  <2>2. CASE Y # 0
    <3>1. d = Y * k + R BY <1>3, <1>5, <2>2 DEF Divides
    <3>2. Y * k \in Nat OBVIOUS
    <3> QED BY <3>1, <3>2
  <2> QED BY <2>1, <2>2
<1>7. r \in Pairs /\ Value(r) = 2 * R + bit
  <2>1. 2 * Value(l.r) < Mod BY <1>3, <1>5, <1>6, WordFacts
  <2> QED BY <1>1, <1>3, <1>4, <2>1, ShiftIn
<1>8. cvm_u64_le(y, r) <=> Y <= 2 * R + bit BY <1>3, <1>7, ComparesExact
<1>9. Q = t * k BY <1>3 DEF Divides
<1>10. CASE Y <= 2 * R + bit
  <2>1. n = [i |-> l.i - 1, q |-> WithBit(l.q, l.i), r |-> cvm_i64_sub(r, y)]
    BY <1>8, <1>10 DEF DivBit
  <2>2. WithBit(l.q, l.i) \in Pairs /\ Value(WithBit(l.q, l.i)) = Q + u
    BY <1>1, <1>2, <1>3, WithBitIs DEF Divides
  <2>3. cvm_i64_sub(r, y) \in Pairs /\ Value(cvm_i64_sub(r, y)) = 2 * R + bit - Y
    <3>1. PICK e \in Nat : e = 2 * R + bit - Y BY <1>10
    <3>2. e < Mod BY <1>5, <1>6, <3>1, WordFacts
    <3>3. Division(e, Mod, 0, e) BY <3>2, WordFacts DEF Division
    <3>4. e % Mod = e BY <3>3, DivisionIs
    <3> QED BY <1>3, <1>7, <3>1, <3>4, SubExact
  <2> HIDE DEF r
  <2>4. n \in DivLoops BY <1>1, <2>1, <2>2, <2>3 DEF DivLoops
  <2>5. /\ n.i + 1 = l.i /\ Value(n.q) = Q + u /\ Value(n.r) = 2 * R + bit - Y
    BY <1>1, <2>1, <2>2, <2>3
  <2>6. PICK j \in Nat : j = 2 * k + 1 OBVIOUS
  <2>7. Q + u = u * j
    <3>1. u * (2 * k + 1) = (2 * u) * k + u OBVIOUS
    <3> QED BY <1>2, <1>9, <2>6, <3>1
  <2>8. CASE Y = 0
    <3>1. Q + t = Mod /\ d = R BY <1>3, <1>5, <2>8 DEF Divides
    <3> HIDE DEF n
    <3>2. Divides(x, y, n, u, j)
      BY <1>2, <1>3, <1>5, <2>5, <2>7, <2>8, <3>1 DEF Divides
    <3> QED BY <2>4, <3>2 DEF n
  <2>9. CASE Y # 0
    <3>1. d = Y * k + R /\ R < Y BY <1>3, <1>5, <2>9 DEF Divides
    <3>2. f = Y * j + (2 * R + bit - Y)
      <4>1. Y * (2 * k + 1) = 2 * (Y * k) + Y OBVIOUS
      <4>2. PICK e \in Nat, g \in Nat : e = Y * k /\ g = Y * j OBVIOUS
      <4>3. g = 2 * e + Y BY <2>6, <4>1, <4>2
      <4> QED BY <1>5, <3>1, <4>2, <4>3
    <3>3. 2 * R + bit - Y < Y BY <3>1
    <3> HIDE DEF n
    <3>4. Divides(x, y, n, u, j)
      BY <1>2, <1>3, <1>5, <2>5, <2>7, <2>9, <3>2, <3>3 DEF Divides
    <3> QED BY <2>4, <3>4 DEF n
  <2> QED BY <2>8, <2>9
<1>11. CASE ~(Y <= 2 * R + bit)
  <2>1. n = [i |-> l.i - 1, q |-> l.q, r |-> r] BY <1>8, <1>11 DEF DivBit
  <2> HIDE DEF r
  <2>2. n \in DivLoops BY <1>1, <1>7, <2>1 DEF DivLoops
  <2>3. /\ n.i + 1 = l.i /\ Value(n.q) = Q /\ Value(n.r) = 2 * R + bit
    BY <1>1, <1>3, <1>7, <2>1
  <2>4. Y # 0 BY <1>11
  <2>5. PICK j \in Nat : j = 2 * k OBVIOUS
  <2>6. Q = u * j
    <3>1. u * (2 * k) = (2 * u) * k OBVIOUS
    <3> QED BY <1>2, <1>9, <2>5, <3>1
  <2>7. d = Y * k + R /\ R < Y BY <1>3, <1>5, <2>4 DEF Divides
  <2>8. f = Y * j + (2 * R + bit)
    <3>1. Y * (2 * k) = 2 * (Y * k) OBVIOUS
    <3>2. PICK e \in Nat, g \in Nat : e = Y * k /\ g = Y * j OBVIOUS
    <3>3. g = 2 * e BY <2>5, <3>1, <3>2
    <3> QED BY <1>5, <2>7, <3>2, <3>3
  <2> HIDE DEF n
  <2>9. Divides(x, y, n, u, j)
    BY <1>2, <1>3, <1>5, <1>11, <2>3, <2>4, <2>6, <2>8 DEF Divides
  <2> QED BY <2>2, <2>9 DEF n
<1> QED BY <1>10, <1>11

(* After the last bit quotient and remainder are those of the dividend.     *)
LEMMA DivisionEnds ==
  ASSUME NEW x \in Pairs, NEW y \in Pairs, NEW l \in DivLoops, l.i < 0,
         NEW t \in Nat, NEW k \in Nat, Divides(x, y, l, t, k)
  PROVE  /\ Value(y) # 0 => Division(Value(x), Value(y), Value(l.q), Value(l.r))
         /\ Value(y) = 0 => Value(l.q) = Mod - 1 /\ Value(l.r) = Value(x)
<1>1. l.i + 1 = 0 /\ l.q \in Pairs /\ l.r \in Pairs BY WordFacts DEF DivLoops
<1>2. t = 1 BY <1>1, Powers DEF Divides
<1>3. PICK X \in Nat, Y \in Nat, R \in Nat, Q \in Nat :
        X = Value(x) /\ Y = Value(y) /\ R = Value(l.r) /\ Q = Value(l.q)
  BY <1>1, ValueBound
<1>4. X \div t = X BY <1>2
<1>5. Q = k
  <2>1. Q = t * k BY <1>3 DEF Divides
  <2> QED BY <1>2, <2>1
<1>6. CASE Y # 0
  <2>1. X = Y * k + R /\ R < Y BY <1>3, <1>4, <1>6 DEF Divides
  <2> QED BY <1>3, <1>5, <1>6, <2>1 DEF Division
<1>7. CASE Y = 0
  <2>1. Q + t = Mod /\ X = R BY <1>3, <1>4, <1>7 DEF Divides
  <2> QED BY <1>2, <1>3, <1>7, <2>1, WordFacts
<1> QED BY <1>6, <1>7

(* A value and its sign.                                                    *)
IsMagnitude(x, v, m) ==
  /\ v = SignedValue(x) /\ m = Value(cvm__i64_abs(x))
  /\ cvm__i64_abs(x) \in Pairs
  /\ IF v < 0 THEN m = -v /\ Negative(x) ELSE m = v /\ ~Negative(x)
  /\ v = 0 <=> Value(x) = 0
  /\ v % Mod = Value(x) % Mod

LEMMA MagnitudeIs ==
  ASSUME NEW x \in Pairs
  PROVE  \E v \in Int, m \in Nat : IsMagnitude(x, v, m)
<1>1. PICK s \in Int, g \in Int, l \in Nat :
        /\ g \in {0, -1} /\ SignedValue(x) = l + WordMod * s
        /\ SignedValue(x) = Value(x) + Mod * g /\ (g = -1 <=> SignedValue(x) < 0)
  <2>1. PICK l, h \in Nat, s, g \in Int :
          /\ l = x.lo /\ h = x.hi /\ l < WordMod /\ h < WordMod
          /\ Value(x) = l + WordMod * h /\ IsSigned(h, s, g)
          /\ SignedValue(x) = l + WordMod * s
          /\ SignedValue(x) = Value(x) + Mod * g
          /\ g = -1 <=> SignedValue(x) < 0
    BY SignedPair
  <2> QED BY <2>1 DEF IsSigned
<1>2. PICK n \in Nat, w \in Nat : n = Value(x) /\ w = Mod /\ n < w BY ValueBound, WordFacts
<1>3. PICK v \in Int : v = SignedValue(x) /\ v = n + w * g
  <2>1. n + w * g \in Int OBVIOUS
  <2> QED BY <1>1, <1>2, <2>1
<1>4. v % Mod = Value(x) % Mod
  <2>1. n \in Int /\ w \in Nat /\ w > 0 /\ g \in Int BY <1>2
  <2>2. (n + w * g) % w = n % w BY <2>1, ModAdds
  <2> QED BY <1>2, <1>3, <2>2
<1>5. Negative(x) <=> v < 0 BY <1>3, NegativeIs
<1>6. CASE g = 0
  <2>1. v = n /\ v >= 0 BY <1>1, <1>3, <1>6
  <2>2. cvm__i64_abs(x) = x BY <1>5, <2>1 DEF cvm__i64_abs
  <2>3. IsMagnitude(x, v, n) BY <1>2, <1>3, <1>4, <1>5, <2>1, <2>2 DEF IsMagnitude
  <2> QED BY <2>3
<1>7. CASE g = -1
  <2>1. v = n - w /\ v < 0 BY <1>1, <1>3, <1>7
  <2>2. n > 0
    <3>1. PICK k \in Nat : k > 0 /\ WordMod * k = Mod \div 2 BY HalfWord
    <3>2. PICK h \in Nat : h = WordMod /\ h > 1 BY WordIs
    <3>3. h * k \in Nat /\ h * k > 0 BY <3>1, <3>2
    <3>4. ~(n < h * k)
      BY <1>2, <1>3, <2>1, <3>1, <3>2 DEF SignedValue
    <3> QED BY <3>3, <3>4
  <2>3. PICK m \in Nat : m = w - n /\ m < w /\ m = -v BY <1>2, <2>1, <2>2
  <2>4. (-n) % w = m
    <3>1. Division(-n, w, -1, m) BY <1>2, <2>3 DEF Division
    <3> QED BY <3>1, DivisionIs
  <2>5. cvm__i64_abs(x) = cvm_i64_neg(x) BY <1>5, <2>1 DEF cvm__i64_abs
  <2>6. cvm__i64_abs(x) \in Pairs /\ Value(cvm__i64_abs(x)) = m BY <1>2, <2>4, <2>5, NegExact
  <2>7. IsMagnitude(x, v, m) BY <1>2, <1>3, <1>4, <1>5, <2>1, <2>2, <2>3, <2>6 DEF IsMagnitude
  <2> QED BY <2>7
<1> QED BY <1>1, <1>6, <1>7

(* What the four functions return.                                          *)
LEMMA DivisionExact ==
  ASSUME NEW f \in DivFns, NEW x \in Pairs, NEW y \in Pairs, NEW l \in DivLoops, l.i < 0,
         NEW t \in Nat, NEW k \in Nat,
         Divides(Magnitudes(f, x, y)[1], Magnitudes(f, x, y)[2], l, t, k)
  PROVE  LET v == DivResult(f, x, y, l)
             sx == SignedValue(x)
             sy == SignedValue(y)
         IN  /\ Value(y) # 0 =>
                  /\ f = "udiv" => Value(v) = (Value(x) \div Value(y)) % Mod
                  /\ f = "umod" => Value(v) = (Value(x) % Value(y)) % Mod
                  /\ f = "sdiv" => Value(v) = Quotient(sx, sy) % Mod
                  /\ f = "smod" => Value(v) = (sx - sy * Quotient(sx, sy)) % Mod
             /\ Value(y) = 0 =>
                  /\ f = "udiv" => Value(v) = (Mod - 1) % Mod
                  /\ f \in {"umod", "smod"} => Value(v) = Value(x) % Mod
<1> DEFINE v == DivResult(f, x, y, l)
           sx == SignedValue(x)
           sy == SignedValue(y)
<1>1. l.q \in Pairs /\ l.r \in Pairs BY DEF DivLoops
<1>2. PICK Q \in Nat, R \in Nat :
        Q = Value(l.q) /\ R = Value(l.r) /\ Q % Mod = Q /\ R % Mod = R
  BY <1>1, ValueBound
<1>3. CASE f \in {"udiv", "umod"}
  <2>1. Magnitudes(f, x, y)[1] = x /\ Magnitudes(f, x, y)[2] = y BY <1>3 DEF Magnitudes
  <2>2. /\ Value(y) # 0 => Division(Value(x), Value(y), Q, R)
        /\ Value(y) = 0 => Q = Mod - 1 /\ R = Value(x)
    BY <1>2, <2>1, DivisionEnds
  <2>3. v = IF f = "udiv" THEN l.q ELSE l.r BY <1>3 DEF DivResult
  <2>4. CASE Value(y) # 0
    <3>1. Value(x) \div Value(y) = Q /\ Value(x) % Value(y) = R BY <2>2, <2>4, DivisionIs
    <3> QED BY <1>2, <1>3, <2>3, <2>4, <3>1
  <2>5. CASE Value(y) = 0 BY <1>2, <1>3, <2>2, <2>3, <2>5
  <2> QED BY <2>4, <2>5
<1>4. CASE f \in {"sdiv", "smod"}
  <2>1. /\ Magnitudes(f, x, y)[1] = cvm__i64_abs(x)
        /\ Magnitudes(f, x, y)[2] = cvm__i64_abs(y)
    BY <1>4 DEF Magnitudes
  <2>2. PICK i \in Int, X \in Nat : IsMagnitude(x, i, X) BY MagnitudeIs
  <2>3. PICK j \in Int, Y \in Nat : IsMagnitude(y, j, Y) BY MagnitudeIs
  <2>4. /\ i = sx /\ j = sy /\ X = Value(cvm__i64_abs(x)) /\ Y = Value(cvm__i64_abs(y))
        /\ cvm__i64_abs(x) \in Pairs /\ cvm__i64_abs(y) \in Pairs
        /\ IF i < 0 THEN X = -i /\ Negative(x) ELSE X = i /\ ~Negative(x)
        /\ IF j < 0 THEN Y = -j /\ Negative(y) ELSE Y = j /\ ~Negative(y)
        /\ j = 0 <=> Value(y) = 0
        /\ i % Mod = Value(x) % Mod
    BY <2>2, <2>3 DEF IsMagnitude
  <2>5. /\ Y # 0 => Division(X, Y, Q, R)
        /\ Y = 0 => Q = Mod - 1 /\ R = X
    BY <1>2, <2>1, <2>4, DivisionEnds
  <2>6. /\ v = IF f = "sdiv" THEN IF Negative(x) # Negative(y) THEN cvm_i64_neg(l.q) ELSE l.q
               ELSE IF Negative(x) THEN cvm_i64_neg(l.r) ELSE l.r
    BY <1>4 DEF DivResult
  <2>7. Value(cvm_i64_neg(l.q)) = (-Q) % Mod /\ Value(cvm_i64_neg(l.r)) = (-R) % Mod
    BY <1>1, <1>2, NegExact
  <2>8. PICK q \in Int : q = IF (i < 0) = (j < 0) THEN Q ELSE -Q OBVIOUS
  <2>9. PICK r \in Int : r = IF i < 0 THEN -R ELSE R OBVIOUS
  <2>10. f = "sdiv" => Value(v) = q % Mod BY <1>2, <2>4, <2>6, <2>7, <2>8 DEF Negative
  <2>11. f = "smod" => Value(v) = r % Mod BY <1>2, <1>4, <2>4, <2>6, <2>7, <2>9
  <2>12. CASE Value(y) # 0
    <3>1. Y # 0 /\ Division(X, Y, Q, R) BY <2>4, <2>5, <2>12
    <3>2. X = Y * Q + R BY <3>1 DEF Division
    <3>3. X \div Y = Q BY <3>1, DivisionIs
    <3>4. Quotient(i, j) = q
      <4>1. (IF i < 0 THEN -i ELSE i) = X /\ (IF j < 0 THEN -j ELSE j) = Y BY <2>4
      <4> QED BY <2>8, <3>3, <4>1 DEF Quotient
    <3>5. i - j * q = r
      <4>1. PICK e \in Nat : e = Y * Q OBVIOUS
      <4>2. /\ (-Y) * Q = -(Y * Q) /\ Y * (-Q) = -(Y * Q) /\ (-Y) * (-Q) = Y * Q OBVIOUS
      <4>3. CASE i < 0 /\ j < 0
        <5>1. j = -Y /\ q = Q BY <2>4, <2>8, <4>3
        <5>2. j * q = -e BY <4>1, <4>2, <5>1
        <5> QED BY <2>4, <2>9, <3>2, <4>1, <4>3, <5>2
      <4>4. CASE i < 0 /\ ~(j < 0)
        <5>1. j = Y /\ q = -Q BY <2>4, <2>8, <4>4
        <5>2. j * q = -e BY <4>1, <4>2, <5>1
        <5> QED BY <2>4, <2>9, <3>2, <4>1, <4>4, <5>2
      <4>5. CASE ~(i < 0) /\ j < 0
        <5>1. j = -Y /\ q = -Q BY <2>4, <2>8, <4>5
        <5>2. j * q = e BY <4>1, <4>2, <5>1
        <5> QED BY <2>4, <2>9, <3>2, <4>1, <4>5, <5>2
      <4>6. CASE ~(i < 0) /\ ~(j < 0)
        <5>1. j = Y /\ q = Q BY <2>4, <2>8, <4>6
        <5>2. j * q = e BY <4>1, <5>1
        <5> QED BY <2>4, <2>9, <3>2, <4>1, <4>6, <5>2
      <4> QED BY <4>3, <4>4, <4>5, <4>6
    <3> QED BY <1>4, <2>4, <2>10, <2>11, <2>12, <3>4, <3>5
  <2>13. CASE Value(y) = 0
    <3>1. R = X BY <2>4, <2>5, <2>13
    <3>2. r = i BY <2>4, <2>9, <3>1
    <3> QED BY <1>4, <2>4, <2>11, <2>13, <3>2
  <2> QED BY <2>12, <2>13
<1> QED BY <1>3, <1>4 DEF DivFns

-----------------------------------------------------------------------------
(* The calls.                                                              *)

IntegerNames == IntFns \cup FunnelFns \cup DivFns \cup {"qmul"}

(* While the bits of a dividend are taken, the call is one of a division.   *)
Dividing ==
  at = "udivmod64" =>
    /\ fn \in DivFns /\ a \in Pairs /\ b \in Pairs /\ loop \in DivLoops
    /\ \E t \in Nat, k \in Nat : Divides(Ua, Ub, loop, t, k)

FloatLoops == (at = "d_div" => fn = "fdiv") /\ (at = "fsqrt" => fn = "fsqrt")

LEMMA UnsignedOperands ==
  ASSUME NEW f \in DivFns, NEW x \in Pairs, NEW y \in Pairs
  PROVE  Magnitudes(f, x, y)[1] \in Pairs /\ Magnitudes(f, x, y)[2] \in Pairs
<1>1. cvm__i64_abs(x) \in Pairs /\ cvm__i64_abs(y) \in Pairs BY NegExact DEF cvm__i64_abs
<1> QED BY <1>1 DEF Magnitudes

LEMMA Unreturned ==
  ASSUME at' # "returned" \/ fn' \notin IntegerNames PROVE IntegersExact'
BY DEF IntegersExact, Returned, ReturnedOneOf, IntegerNames, IntFns, FunnelFns, DivFns

LEMMA SumsReturned ==
  ASSUME NEW f \in {"neg", "add", "sub", "mul"}, NEW x \in Pairs, NEW y \in Pairs, NEW z,
         Called(f, x, y, z), Returns(IntResult(f, x, y, z))
  PROVE  IntegersExact'
<1>1. fn' = f /\ a' = x /\ b' = y /\ ret' = IntResult(f, x, y, z) BY DEF Called, Returns
<1>2. CASE f = "neg"
  <2>1. ret' = cvm_i64_neg(x) BY <1>1, <1>2 DEF IntResult
  <2>2. Value(ret') = (-Value(a')) % Mod BY <1>1, <2>1, NegExact
  <2> QED BY <1>1, <1>2, <2>2 DEF IntegersExact, Returned, ReturnedOneOf
<1>3. CASE f = "add"
  <2>1. ret' = cvm_i64_add(x, y) BY <1>1, <1>3 DEF IntResult
  <2>2. Value(ret') = (Value(a') + Value(b')) % Mod BY <1>1, <2>1, AddExact
  <2> QED BY <1>1, <1>3, <2>2 DEF IntegersExact, Returned, ReturnedOneOf
<1>4. CASE f = "sub"
  <2>1. ret' = cvm_i64_sub(x, y) BY <1>1, <1>4 DEF IntResult
  <2>2. Value(ret') = (Value(a') - Value(b')) % Mod BY <1>1, <2>1, SubExact
  <2> QED BY <1>1, <1>4, <2>2 DEF IntegersExact, Returned, ReturnedOneOf
<1>5. CASE f = "mul"
  <2>1. ret' = cvm_u64_mul(x, y) BY <1>1, <1>5 DEF IntResult
  <2>2. Value(ret') = (Value(a') * Value(b')) % Mod BY <1>1, <2>1, MulExact
  <2> QED BY <1>1, <1>5, <2>2 DEF IntegersExact, Returned, ReturnedOneOf
<1> QED BY <1>2, <1>3, <1>4, <1>5

LEMMA ShiftsReturned ==
  ASSUME NEW f \in {"shl64", "shr64", "sar64", "from_i32"}, NEW x \in Pairs, NEW y \in Pairs, NEW z,
         Called(f, x, y, z), Returns(IntResult(f, x, y, z))
  PROVE  IntegersExact'
<1>1. fn' = f /\ a' = x /\ b' = y /\ ret' = IntResult(f, x, y, z) BY DEF Called, Returns
<1>2. y.lo \in Nat /\ x.lo \in Half BY PairIs DEF Pairs
<1>3. CASE f = "shl64"
  <2>1. ret' = cvm_u64_shl(x, y.lo) BY <1>1, <1>3 DEF IntResult
  <2>2. Value(ret') = (Value(a') * 2 ^ (b'.lo % (2 * Bits))) % Mod BY <1>1, <1>2, <2>1, ShlExact
  <2> QED BY <1>1, <1>3, <2>2 DEF IntegersExact, Returned, ReturnedOneOf
<1>4. CASE f = "shr64"
  <2>1. ret' = cvm_u64_shr(x, y.lo) BY <1>1, <1>4 DEF IntResult
  <2>2. ret' \in Pairs /\ Value(ret') = Value(a') \div 2 ^ (b'.lo % (2 * Bits))
    BY <1>1, <1>2, <2>1, ShrExact
  <2>3. Value(ret') = (Value(a') \div 2 ^ (b'.lo % (2 * Bits))) % Mod BY <2>2, ValueBound
  <2> QED BY <1>1, <1>4, <2>3 DEF IntegersExact, Returned, ReturnedOneOf
<1>5. CASE f = "sar64"
  <2>1. ret' = cvm_i64_sar(x, y.lo) BY <1>1, <1>5 DEF IntResult
  <2>2. Value(ret') = (SignedValue(a') \div 2 ^ (b'.lo % (2 * Bits))) % Mod
    BY <1>1, <1>2, <2>1, SarExact
  <2> QED BY <1>1, <1>5, <2>2 DEF IntegersExact, Returned, ReturnedOneOf
<1>6. CASE f = "from_i32"
  <2>1. ret' = cvm_i64_from_i32(x.lo) BY <1>1, <1>6 DEF IntResult
  <2>2. SignedValue(ret') = SignedHalf(a'.lo) BY <1>1, <1>2, <2>1, FromExact
  <2> QED BY <1>1, <1>6, <2>2 DEF IntegersExact, Returned, ReturnedOneOf
<1> QED BY <1>3, <1>4, <1>5, <1>6

LEMMA ComparisonsReturned ==
  ASSUME NEW f \in {"ult", "ule", "lt", "le"}, NEW x \in Pairs, NEW y \in Pairs, NEW z,
         Called(f, x, y, z), Returns(IntResult(f, x, y, z))
  PROVE  IntegersExact'
<1>1. fn' = f /\ a' = x /\ b' = y /\ ret' = IntResult(f, x, y, z) BY DEF Called, Returns
<1>2. CASE f = "ult"
  <2>1. ret' = Flag(cvm_u64_lt(x, y)) BY <1>1, <1>2 DEF IntResult
  <2>2. ret' = Flag(Value(a') < Value(b')) BY <1>1, <2>1, ComparesExact
  <2> QED BY <1>1, <1>2, <2>2 DEF IntegersExact, Returned, ReturnedOneOf
<1>3. CASE f = "ule"
  <2>1. ret' = Flag(cvm_u64_le(x, y)) BY <1>1, <1>3 DEF IntResult
  <2>2. ret' = Flag(Value(a') <= Value(b')) BY <1>1, <2>1, ComparesExact
  <2> QED BY <1>1, <1>3, <2>2 DEF IntegersExact, Returned, ReturnedOneOf
<1>4. CASE f = "lt"
  <2>1. ret' = Flag(cvm_i64_lt(x, y)) BY <1>1, <1>4 DEF IntResult
  <2>2. ret' = Flag(SignedValue(a') < SignedValue(b')) BY <1>1, <2>1, ComparesExact
  <2> QED BY <1>1, <1>4, <2>2 DEF IntegersExact, Returned, ReturnedOneOf
<1>5. CASE f = "le"
  <2>1. ret' = Flag(cvm_i64_le(x, y)) BY <1>1, <1>5 DEF IntResult
  <2>2. ret' = Flag(SignedValue(a') <= SignedValue(b')) BY <1>1, <2>1, ComparesExact
  <2> QED BY <1>1, <1>5, <2>2 DEF IntegersExact, Returned, ReturnedOneOf
<1> QED BY <1>2, <1>3, <1>4, <1>5

LEMMA FunnelReturned ==
  ASSUME NEW f \in FunnelFns, NEW x \in Pairs, NEW y \in Pairs, NEW n \in Nat,
         Called(f, x, y, I64(n, 0)), Returns(IntResult(f, x, y, I64(n, 0)))
  PROVE  IntegersExact'
<1>1. /\ fn' = f /\ a' = x /\ b' = y /\ c'.lo = n /\ ret' = IntResult(f, x, y, I64(n, 0))
      /\ I64(n, 0).lo = n
  BY DEF Called, Returns, I64
<1>2. PICK s \in Nat : s = n % (2 * Bits) /\ s \in 0 .. 2 * Bits - 1 BY ShiftAmount
<1>3. PICK v \in Nat, u \in Nat : /\ v = Value(x) /\ v % Mod = v /\ v < Mod
                                  /\ u = Value(y) /\ u % Mod = u /\ u < Mod
  BY ValueBound
<1>4. /\ Bits \in Nat /\ (2 * Bits) \in Nat /\ 2 * Bits = Bits + Bits BY WordFacts
<1>5. 2 ^ (2 * Bits) = Mod
  <2>1. 2 ^ (Bits + Bits) = 2 ^ Bits * 2 ^ Bits BY <1>4, PowerSum
  <2> QED BY <1>4, <2>1, WordFacts DEF WordMod
<1>6. CASE f = "fshl64"
  <2>1. ret' = __cvm_fshl64(x, y, I64(n, 0)) BY <1>1, <1>6 DEF IntResult
  <2>2. Value(ret') = (v * 2 ^ s + u \div 2 ^ (2 * Bits - s)) % Mod
    <3>1. CASE s = 0
      <4>1. ret' = x BY <1>1, <1>2, <2>1, <3>1 DEF __cvm_fshl64
      <4>2. u \div 2 ^ (2 * Bits - s) = 0
        <5>1. 2 * Bits - s = 2 * Bits BY <1>4, <3>1
        <5>2. Division(u, Mod, 0, u) BY <1>3, WordFacts DEF Division
        <5> QED BY <1>5, <5>1, <5>2, DivisionIs
      <4>3. v * 2 ^ s = v BY <3>1, Powers
      <4> QED BY <1>3, <4>1, <4>2, <4>3
    <3>2. CASE s # 0
      <4>1. s \in 1 .. 2 * Bits - 1 BY <1>2, <1>4, <3>2
      <4>2. ret' = Joined(cvm_u64_shl(x, s), cvm_u64_shr(y, 2 * Bits - s))
        BY <1>1, <1>2, <2>1, <3>2 DEF __cvm_fshl64
      <4> QED BY <1>3, <4>1, <4>2, FunnelExact
    <3> QED BY <3>1, <3>2
  <2> QED BY <1>1, <1>2, <1>3, <1>6, <2>2 DEF IntegersExact, Returned, ReturnedOneOf
<1>7. CASE f = "fshr64"
  <2>1. ret' = __cvm_fshr64(x, y, I64(n, 0)) BY <1>1, <1>7 DEF IntResult
  <2>2. Value(ret') = (v * 2 ^ (2 * Bits - s) + u \div 2 ^ s) % Mod
    <3>1. CASE s = 0
      <4>1. ret' = y BY <1>1, <1>2, <2>1, <3>1 DEF __cvm_fshr64
      <4>2. 2 ^ (2 * Bits - s) = Mod
        <5>1. 2 * Bits - s = 2 * Bits BY <1>4, <3>1
        <5> QED BY <1>5, <5>1
      <4>3. u \div 2 ^ s = u
        <5>1. 2 ^ s = 1 BY <3>1, Powers
        <5> QED BY <5>1
      <4>4. (v * Mod + u) % Mod = u % Mod
        <5>1. PICK w \in Nat : w = Mod /\ w > 0 BY WordFacts
        <5>2. u \in Int /\ w \in Nat /\ w > 0 /\ v \in Int BY <5>1
        <5>3. (u + w * v) % w = u % w BY <5>2, ModAdds
        <5>4. u + w * v = v * w + u OBVIOUS
        <5> QED BY <5>1, <5>3, <5>4
      <4> QED BY <1>3, <4>1, <4>2, <4>3, <4>4
    <3>2. CASE s # 0
      <4>1. PICK t \in Nat : t = 2 * Bits - s /\ t \in 1 .. 2 * Bits - 1 /\ s = 2 * Bits - t
        BY <1>2, <1>4, <3>2
      <4>2. ret' = Joined(cvm_u64_shl(x, t), cvm_u64_shr(y, 2 * Bits - t))
        BY <1>1, <1>2, <2>1, <3>2, <4>1 DEF __cvm_fshr64
      <4>3. Value(ret') = (Value(x) * 2 ^ t + Value(y) \div 2 ^ (2 * Bits - t)) % Mod
        BY <4>1, <4>2, FunnelExact
      <4> QED BY <1>3, <4>1, <4>3
    <3> QED BY <3>1, <3>2
  <2> QED BY <1>1, <1>2, <1>3, <1>7, <2>2 DEF IntegersExact, Returned, ReturnedOneOf
<1> QED BY <1>6, <1>7 DEF FunnelFns

LEMMA FixedReturned ==
  ASSUME NEW x \in Half, NEW y \in Half,
         Called("qmul", I64(x, 0), I64(y, 0), CVM_I64_ZERO),
         Returns(I64(cvm_qmul_16_16(x, y), 0))
  PROVE  IntegersExact'
<1>1. fn' = "qmul" /\ a'.lo = x /\ b'.lo = y /\ ret'.lo = cvm_qmul_16_16(x, y)
  BY DEF Called, Returns, I64
<1>2. ret'.lo = ((SignedHalf(a'.lo) * SignedHalf(b'.lo)) \div 2 ^ (Bits \div 2)) % WordMod
  BY <1>1, FixedExact
<1> QED BY <1>1, <1>2 DEF IntegersExact, Returned, ReturnedOneOf

LEMMA DivisionReturned ==
  ASSUME at = "udivmod64", Dividing, loop.i < 0, Returns(DivResult(fn, a, b, loop)),
         UNCHANGED call
  PROVE  IntegersExact'
<1>1. PICK t \in Nat, k \in Nat : Divides(Ua, Ub, loop, t, k) BY DEF Dividing
<1>2. fn \in DivFns /\ a \in Pairs /\ b \in Pairs /\ loop \in DivLoops BY DEF Dividing
<1>3. fn' = fn /\ a' = a /\ b' = b /\ ret' = DivResult(fn, a, b, loop) BY DEF call, Returns
<1>4. Divides(Magnitudes(fn, a, b)[1], Magnitudes(fn, a, b)[2], loop, t, k)
  BY <1>1 DEF Ua, Ub
<1>5. /\ Value(b') # 0 =>
           /\ fn' = "udiv" => Value(ret') = (Value(a') \div Value(b')) % Mod
           /\ fn' = "umod" => Value(ret') = (Value(a') % Value(b')) % Mod
           /\ fn' = "sdiv" => Value(ret') = Quotient(SignedValue(a'), SignedValue(b')) % Mod
           /\ fn' = "smod" =>
                Value(ret') = (SignedValue(a')
                                 - SignedValue(b') * Quotient(SignedValue(a'), SignedValue(b'))) % Mod
      /\ Value(b') = 0 =>
           /\ fn' = "udiv" => Value(ret') = (Mod - 1) % Mod
           /\ fn' \in {"umod", "smod"} => Value(ret') = Value(a') % Mod
  BY <1>2, <1>3, <1>4, DivisionExact
<1> QED BY <1>2, <1>3, <1>5 DEF IntegersExact, Returned, ReturnedOneOf, DivFns

SoftInv == IntegersExact /\ Dividing /\ FloatLoops

LEMMA SoftStart == Init => SoftInv
<1> SUFFICES ASSUME Init PROVE SoftInv OBVIOUS
<1>1. at = "idle" BY DEF Init
<1> QED BY <1>1 DEF SoftInv, IntegersExact, Dividing, FloatLoops, Returned, ReturnedOneOf

(* A step that enters or leaves no loop of a division of integers.          *)
LEMMA Elsewhere ==
  ASSUME at' # "udivmod64", FloatLoops', IntegersExact' PROVE SoftInv'
BY DEF SoftInv, Dividing

LEMMA SoftStep == SoftInv /\ [Next]_vars => SoftInv'
<1> SUFFICES ASSUME SoftInv, [Next]_vars PROVE SoftInv' OBVIOUS
<1>a. IntegersExact /\ Dividing /\ FloatLoops BY DEF SoftInv
<1>b. "idle" # "udivmod64" /\ "returned" # "udivmod64" /\ "d_div" # "udivmod64"
      /\ "fsqrt" # "udivmod64"
  OBVIOUS
<1>c. Integers64 \subseteq Pairs BY OperandsAssumption
<1>d. ASSUME at' = "returned" PROVE FloatLoops' BY <1>d DEF FloatLoops
<1>1. CASE Resume
  <2>1. at' = "idle" BY <1>1 DEF Resume
  <2> QED BY <2>1, Unreturned, Elsewhere DEF FloatLoops
<1>2. CASE CallInt
  <2>1. PICK f \in IntFns, x \in Integers64, y \in Integers64 :
          Called(f, x, y, CVM_I64_ZERO) /\ Returns(IntResult(f, x, y, CVM_I64_ZERO))
    BY <1>2 DEF CallInt
  <2>2. x \in Pairs /\ y \in Pairs BY <1>c
  <2>3. at' = "returned" BY <2>1 DEF Returns
  <2>4. IntegersExact'
    <3>1. CASE f \in {"neg", "add", "sub", "mul"} BY <2>1, <2>2, <3>1, SumsReturned
    <3>2. CASE f \in {"shl64", "shr64", "sar64", "from_i32"}
      BY <2>1, <2>2, <3>2, ShiftsReturned
    <3>3. CASE f \in {"ult", "ule", "lt", "le"} BY <2>1, <2>2, <3>3, ComparisonsReturned
    <3> QED BY <3>1, <3>2, <3>3 DEF IntFns
  <2> QED BY <1>d, <2>3, <2>4, Elsewhere
<1>3. CASE CallFunnel
  <2>1. PICK f \in FunnelFns, x \in Integers64, y \in Integers64, n \in 0 .. 2 * Bits :
          Called(f, x, y, I64(n, 0)) /\ Returns(IntResult(f, x, y, I64(n, 0)))
    BY <1>3 DEF CallFunnel
  <2>2. x \in Pairs /\ y \in Pairs /\ n \in Nat BY <1>c, WordFacts
  <2>3. at' = "returned" BY <2>1 DEF Returns
  <2>4. IntegersExact' BY <2>1, <2>2, FunnelReturned
  <2> QED BY <1>d, <2>3, <2>4, Elsewhere
<1>4. CASE CallFixed
  <2>1. PICK x \in Half, y \in Half :
          /\ Called("qmul", I64(x, 0), I64(y, 0), CVM_I64_ZERO)
          /\ Returns(I64(cvm_qmul_16_16(x, y), 0))
    BY <1>4 DEF CallFixed
  <2>2. at' = "returned" BY <2>1 DEF Returns
  <2>3. IntegersExact' BY <2>1, FixedReturned
  <2> QED BY <1>d, <2>2, <2>3, Elsewhere
<1>5. CASE CallDiv
  <2>1. PICK f \in DivFns, x \in Integers64, y \in Integers64 :
          Called(f, x, y, CVM_I64_ZERO) /\ Enters("udivmod64", DivStart)
    BY <1>5 DEF CallDiv
  <2>2. x \in Pairs /\ y \in Pairs BY <1>c
  <2>3. at' = "udivmod64" /\ loop' = DivStart /\ fn' = f /\ a' = x /\ b' = y
    BY <2>1 DEF Called, Enters
  <2>4. Magnitudes(f, x, y)[1] \in Pairs /\ Magnitudes(f, x, y)[2] \in Pairs
    BY <2>2, UnsignedOperands
  <2>5. DivStart \in DivLoops
        /\ \E t \in Nat, k \in Nat :
             Divides(Magnitudes(f, x, y)[1], Magnitudes(f, x, y)[2], DivStart, t, k)
    BY <2>4, DivisionStarts
  <2>6. Dividing' BY <2>2, <2>3, <2>5 DEF Dividing, Ua, Ub
  <2>7. IntegersExact' BY <2>3, Unreturned
  <2>8. FloatLoops' BY <2>3 DEF FloatLoops
  <2> QED BY <2>6, <2>7, <2>8 DEF SoftInv
<1>6. CASE DivIteration
  <2>1. /\ at = "udivmod64" /\ loop.i >= 0 /\ loop' = DivBit(Ua, Ub, loop)
        /\ fn' = fn /\ a' = a /\ b' = b /\ at' = at
    BY <1>6 DEF DivIteration, call
  <2>2. PICK t \in Nat, k \in Nat : Divides(Ua, Ub, loop, t, k) BY <1>a, <2>1 DEF Dividing
  <2>3. fn \in DivFns /\ a \in Pairs /\ b \in Pairs /\ loop \in DivLoops
    BY <1>a, <2>1 DEF Dividing
  <2>4. Ua \in Pairs /\ Ub \in Pairs BY <2>3, UnsignedOperands DEF Ua, Ub
  <2>5. /\ DivBit(Ua, Ub, loop) \in DivLoops
        /\ \E u \in Nat, j \in Nat : Divides(Ua, Ub, DivBit(Ua, Ub, loop), u, j)
    BY <2>1, <2>2, <2>3, <2>4, DivisionGoesOn
  <2>6. Ua' = Ua /\ Ub' = Ub BY <2>1 DEF Ua, Ub
  <2>7. Dividing' BY <2>1, <2>3, <2>5, <2>6 DEF Dividing
  <2>8. IntegersExact' BY <2>1, Unreturned
  <2>9. FloatLoops' BY <2>1 DEF FloatLoops
  <2> QED BY <2>7, <2>8, <2>9 DEF SoftInv
<1>7. CASE DivReturn
  <2>1. /\ at = "udivmod64" /\ loop.i < 0 /\ Returns(DivResult(fn, a, b, loop))
        /\ UNCHANGED call
    BY <1>7 DEF DivReturn
  <2>2. at' = "returned" BY <2>1 DEF Returns
  <2>3. IntegersExact' BY <1>a, <2>1, DivisionReturned
  <2> QED BY <1>d, <2>2, <2>3, Elsewhere
<1>8. CASE CallFloat \/ CallFromWord \/ CallFrom64 \/ CallToWord
  <2>1. /\ at' = "returned"
        /\ fn' \in FloatFns \cup FromWord \cup From64 \cup ToWord
    BY <1>8 DEF CallFloat, CallFromWord, CallFrom64, CallToWord, Called, Returns
  <2>2. fn' \notin IntegerNames
    BY <2>1 DEF IntegerNames, IntFns, FunnelFns, DivFns, FloatFns, FromWord, From64, ToWord
  <2> QED BY <1>d, <2>1, <2>2, Unreturned, Elsewhere
<1>9. CASE CallFDiv \/ FDivIteration \/ FDivReturn
  <2>1. fn' = "fdiv" /\ at' \in {"d_div", "returned"}
    BY <1>9, <1>a DEF CallFDiv, FDivIteration, FDivReturn, FloatLoops, Called, Enters, Returns, call
  <2>2. fn' \notin IntegerNames BY <2>1 DEF IntegerNames, IntFns, FunnelFns, DivFns
  <2>3. FloatLoops' BY <2>1 DEF FloatLoops
  <2> QED BY <2>1, <2>2, <2>3, Unreturned, Elsewhere
<1>10. CASE CallSqrt \/ SqrtIteration \/ SqrtReturn
  <2>1. fn' = "fsqrt" /\ at' \in {"fsqrt", "returned"}
    BY <1>10, <1>a
       DEF CallSqrt, SqrtIteration, SqrtReturn, FloatLoops, Called, Enters, Returns, call
  <2>2. fn' \notin IntegerNames BY <2>1 DEF IntegerNames, IntFns, FunnelFns, DivFns
  <2>3. FloatLoops' BY <2>1 DEF FloatLoops
  <2> QED BY <2>1, <2>2, <2>3, Unreturned, Elsewhere
<1>11. CASE UNCHANGED vars
  <2>1. /\ at' = at /\ fn' = fn /\ a' = a /\ b' = b /\ c' = c /\ ret' = ret /\ loop' = loop
    BY <1>11 DEF vars
  <2>2. Ua' = Ua /\ Ub' = Ub BY <2>1 DEF Ua, Ub
  <2>3. Dividing' BY <1>a, <2>1, <2>2 DEF Dividing
  <2>4. FloatLoops' BY <1>a, <2>1 DEF FloatLoops
  <2>5. IntegersExact' BY <1>a, <2>1 DEF IntegersExact, Returned, ReturnedOneOf
  <2> QED BY <2>3, <2>4, <2>5 DEF SoftInv
<1> QED
  BY <1>1, <1>2, <1>3, <1>4, <1>5, <1>6, <1>7, <1>8, <1>9, <1>10, <1>11 DEF Next

(***************************************************************************)
(* The integer functions of cvm_int64_rt.c are exact: for every width of a  *)
(* word and all operands, what a call returns is the sum, difference,       *)
(* product, quotient, remainder, shift or comparison of the numbers modulo  *)
(* 2^64, signed or unsigned, and a division by 0 is what the code defines.  *)
(***************************************************************************)
THEOREM IntegersReturned == Spec => []IntegersExact
<1>1. Init => SoftInv BY SoftStart
<1>2. SoftInv /\ [Next]_vars => SoftInv' BY SoftStep
<1>3. SoftInv => IntegersExact BY DEF SoftInv
<1> QED BY <1>1, <1>2, <1>3, PTL DEF Spec

-----------------------------------------------------------------------------
(* The division of doubles.                                                 *)

LEMMA FormatIs ==
  ASSUME NEW e \in Formats
  PROVE  \E t \in Nat : /\ t = F(e)!TopBits /\ t >= 1 /\ t + 2 <= Bits /\ e \in Nat /\ e >= 1
                        /\ F(e)!MantBits = t + Bits /\ F(e)!MantBits + 1 <= 2 * Bits - 1
<1>1. e \in 1 .. Bits - 2 BY OperandsAssumption
<1>2. e \in Nat /\ e >= 1 /\ e <= Bits - 2 BY <1>1, WordFacts
<1>3. PICK t \in Nat : t = Bits - 1 - e BY <1>2, WordFacts
<1>4. F(e)!TopBits = t BY <1>3 DEF F!TopBits
<1>5. F(e)!MantBits = t + Bits BY <1>4 DEF F!MantBits
<1> QED BY <1>2, <1>3, <1>4, <1>5, WordFacts

LEMMA SameShl ==
  ASSUME NEW e, NEW x, NEW n PROVE F(e)!cvm_u64_shl(x, n) = cvm_u64_shl(x, n)
BY DEF F!cvm_u64_shl, F!I64, F!Shl, F!Shr, F!WordMod, cvm_u64_shl, I64, Shl, Shr, WordMod

LEMMA SameSub ==
  ASSUME NEW e, NEW x, NEW y PROVE F(e)!cvm_i64_sub(x, y) = cvm_i64_sub(x, y)
BY DEF F!cvm_i64_sub, F!I64, F!Carry, F!WordMod, cvm_i64_sub, I64, Carry, WordMod

LEMMA SameCompare ==
  ASSUME NEW e, NEW x, NEW y
  PROVE  /\ F(e)!cvm_u64_le(x, y) <=> cvm_u64_le(x, y)
         /\ F(e)!cvm_u64_lt(x, y) <=> cvm_u64_lt(x, y)
BY DEF F!cvm_u64_le, F!cvm_u64_lt, cvm_u64_le, cvm_u64_lt

(* A significand lies between a power of two, N, and twice it, with two     *)
(* bits to spare.                                                           *)
LEMMA SignificandIs ==
  ASSUME NEW e \in Formats
  PROVE  \E N \in Nat : /\ N > 0 /\ 4 * N <= Mod /\ N = WordMod * 2 ^ F(e)!TopBits
                        /\ \A x \in Pairs : /\ F(e)!Significand(x) \in Pairs
                                            /\ N <= Value(F(e)!Significand(x))
                                            /\ Value(F(e)!Significand(x)) < 2 * N
<1>1. PICK w \in Nat : w = WordMod /\ w > 1 BY WordIs
<1>2. PICK t \in Nat : t = F(e)!TopBits /\ t + 2 <= Bits BY FormatIs
<1>3. PICK p \in Nat : p = 2 ^ t /\ p > 0 BY Powers
<1>4. 4 * p <= w
  <2>1. t + 2 \in 0 .. Bits /\ t + 1 \in Nat /\ (t + 1) + 1 = t + 2 BY <1>2, WordFacts
  <2>2. 2 ^ (t + 2) = 4 * p BY <1>3, <2>1, Powers
  <2>3. PICK d \in Nat : w = (4 * p) * d /\ d > 0 BY <1>1, <2>1, <2>2, WordSplits
  <2>4. (4 * p) * d >= 4 * p
    <3>1. PICK q \in Nat : q = 4 * p OBVIOUS
    <3>2. d >= 1 BY <2>3
    <3>3. q * d >= q BY <3>2
    <3> QED BY <3>1, <3>3
  <2> QED BY <2>3, <2>4
<1>5. PICK N \in Nat : N = w * p OBVIOUS
<1>6. N > 0
  <2>1. w * p > 0 BY <1>1, <1>3
  <2> QED BY <1>5, <2>1
<1>7. 4 * N <= Mod
  <2>1. w * (4 * p) <= w * w BY <1>4
  <2>2. w * (4 * p) = 4 * (w * p) OBVIOUS
  <2> QED BY <1>1, <1>5, <2>1, <2>2, WordFacts
<1>8. ASSUME NEW x \in Pairs
      PROVE  /\ F(e)!Significand(x) \in Pairs
             /\ N <= Value(F(e)!Significand(x)) /\ Value(F(e)!Significand(x)) < 2 * N
  <2>1. PICK l \in Nat, h \in Nat : l = x.lo /\ h = x.hi /\ l < w BY <1>1, PairIs
  <2>2. PICK r \in Nat : r = h % p /\ r < p BY <1>3
  <2>3. F(e)!Significand(x) = I64(l, r + p)
    BY <1>2, <1>3, <2>1, <2>2 DEF F!Significand, F!CVM_D_MHI, F!I64, I64
  <2>4. PICK g \in Nat : g = r + p /\ p <= g /\ g < 2 * p /\ g < w
    <3>1. r + p \in Nat /\ p <= r + p /\ r + p < 2 * p /\ r + p < w BY <1>1, <1>4, <2>2
    <3> QED BY <3>1
  <2>5. I64(l, g) \in Pairs /\ Value(I64(l, g)) = l + w * g BY <1>1, <2>1, <2>4, IsPair
  <2>6. w * p <= w * g BY <2>4
  <2>7. l + w * g < 2 * (w * p)
    <3>1. w * g + w <= w * (2 * p)
      <4>1. g + 1 <= 2 * p BY <2>4
      <4>2. w * (g + 1) <= w * (2 * p) BY <4>1
      <4>3. w * (g + 1) = w * g + w OBVIOUS
      <4> QED BY <4>2, <4>3
    <3>2. w * (2 * p) = 2 * (w * p) OBVIOUS
    <3>3. PICK i \in Nat, j \in Nat : i = w * g /\ j = w * p OBVIOUS
    <3> QED BY <2>1, <3>1, <3>2, <3>3
  <2>8. PICK i \in Nat : i = w * g OBVIOUS
  <2> QED BY <1>5, <2>3, <2>4, <2>5, <2>6, <2>7, <2>8
<1>9. N = WordMod * 2 ^ F(e)!TopBits BY <1>1, <1>2, <1>3, <1>5
<1> QED BY <1>6, <1>7, <1>8, <1>9

FDivLoops(e) ==
  [i : 0 .. F(e)!FDivLast, q : Pairs, r : Pairs, adjust : {0, -1}]

(* The quotient has i + 1 bits.                                            *)
FDivides(m, n, l) ==
  /\ m * 2 ^ (l.i - l.adjust) = n * Value(l.q) + Value(l.r)
  /\ Value(l.r) < n
  /\ Value(l.q) < 2 ^ (l.i + 1)

LEMMA FDivisionStarts ==
  ASSUME NEW e \in Formats, NEW x \in Pairs, NEW y \in Pairs
  PROVE  LET l == F(e)!FDivStart(x, y)
         IN  /\ l \in FDivLoops(e)
             /\ FDivides(Value(F(e)!Significand(x)), Value(F(e)!Significand(y)), l)
<1> DEFINE s == F(e)!Significand(x)
           u == F(e)!Significand(y)
           l == F(e)!FDivStart(x, y)
<1>1. PICK N \in Nat : /\ N > 0 /\ 4 * N <= Mod
                       /\ s \in Pairs /\ N <= Value(s) /\ Value(s) < 2 * N
                       /\ u \in Pairs /\ N <= Value(u) /\ Value(u) < 2 * N
  BY SignificandIs
<1>2. PICK m \in Nat, n \in Nat : m = Value(s) /\ n = Value(u) BY <1>1, ValueBound
<1>3. 0 \in 0 .. F(e)!FDivLast
  <2>1. F(e)!MantBits + 1 \in Nat BY FormatIs, WordFacts
  <2> QED BY <2>1 DEF F!FDivLast
<1>4. I64(1, 0) \in Pairs /\ Value(I64(1, 0)) = 1 BY IsPair, WordFacts
<1>5. 2 ^ 0 = 1 /\ 2 ^ 1 = 2
  <2>1. 0 \in Nat /\ 0 + 1 = 1 OBVIOUS
  <2> QED BY <2>1, Powers
<1> DEFINE k == Carry(cvm_u64_lt(s, u))
<1>6. l = [i |-> 0, q |-> I64(1, 0), r |-> cvm_i64_sub(cvm_u64_shl(s, k), u), adjust |-> -k]
  <2>1. F(e)!Carry(F(e)!cvm_u64_lt(s, u)) = k BY SameCompare DEF F!Carry, Carry
  <2>2. F(e)!I64(1, 0) = I64(1, 0) BY DEF F!I64, I64
  <2> HIDE DEF s, u, k
  <2> QED BY <2>1, <2>2, SameShl, SameSub DEF F!FDivStart, s, u
<1>11. ASSUME NEW j \in Nat, NEW d \in Nat, d < n, m * 2 ^ j = n + d,
              l.i - l.adjust = j, l.i + 1 = 1, Value(l.q) = 1, Value(l.r) = d
       PROVE  FDivides(m, n, l)
  <2> HIDE DEF l
  <2>1. n * Value(l.q) = n
    <3>1. n * 1 = n OBVIOUS
    <3> QED BY <1>11, <3>1
  <2>2. 2 ^ (l.i + 1) = 2
    <3> HIDE DEF k
    <3> QED BY <1>5, <1>11
  <2> QED BY <1>11, <2>1, <2>2 DEF FDivides
<1> HIDE DEF s, u, l
<1>7. ASSUME NEW d \in Nat, d < 4 * N, d >= n, cvm_u64_shl(s, k) \in Pairs,
             Value(cvm_u64_shl(s, k)) = d
      PROVE  /\ cvm_i64_sub(cvm_u64_shl(s, k), u) \in Pairs
             /\ Value(cvm_i64_sub(cvm_u64_shl(s, k), u)) = d - n
  <2> DEFINE v == cvm_u64_shl(s, k)
  <2> HIDE DEF k, v
  <2>1. v \in Pairs /\ Value(v) = d BY <1>7 DEF v
  <2>2. cvm_i64_sub(v, u) \in Pairs /\ Value(cvm_i64_sub(v, u)) = (d - n) % Mod
    BY <1>1, <1>2, <2>1, SubExact
  <2>3. d - n \in Nat /\ d - n < Mod BY <1>1, <1>7, WordFacts
  <2>4. Division(d - n, Mod, 0, d - n) BY <2>3, WordFacts DEF Division
  <2>5. (d - n) % Mod = d - n BY <2>4, DivisionIs
  <2> QED BY <2>2, <2>5 DEF v
<1>8. cvm_u64_lt(s, u) <=> m < n BY <1>1, <1>2, ComparesExact
<1>9. CASE m < n
  <2>1. k = 1 BY <1>8, <1>9 DEF Carry
  <2>2. cvm_u64_shl(s, k) \in Pairs /\ Value(cvm_u64_shl(s, k)) = 2 * m
    <3>1. 2 * Value(s) < Mod BY <1>1, <1>2, <1>9, WordFacts
    <3> QED BY <1>1, <1>2, <2>1, <3>1, ShiftIn
  <2>3. 2 * m >= n /\ 2 * m < 4 * N /\ 2 * m < 2 * n /\ 2 * m - n < n BY <1>1, <1>2, <1>9
  <2>4. cvm_i64_sub(cvm_u64_shl(s, k), u) \in Pairs
        /\ Value(cvm_i64_sub(cvm_u64_shl(s, k), u)) = 2 * m - n
    BY <2>2, <2>3, <1>7
  <2>5. l \in FDivLoops(e) /\ l.i - l.adjust = 1 /\ l.i + 1 = 1 /\ Value(l.q) = 1
        /\ Value(l.r) = 2 * m - n
    BY <1>3, <1>4, <1>6, <2>1, <2>4 DEF FDivLoops
  <2>6. FDivides(m, n, l)
    <3>1. 2 * m - n \in Nat /\ m * 2 ^ 1 = n + (2 * m - n) BY <1>5, <2>3
    <3> QED BY <1>11, <2>3, <2>5, <3>1
  <2> QED BY <1>2, <2>5, <2>6 DEF l, s, u
<1>10. CASE ~(m < n)
  <2>1. k = 0 BY <1>8, <1>10 DEF Carry
  <2>2. cvm_u64_shl(s, k) = s
    <3>1. Division(0, 2 * Bits, 0, 0) BY WordFacts DEF Division
    <3>2. 0 % (2 * Bits) = 0 BY <3>1, DivisionIs
    <3> QED BY <2>1, <3>2, WordFacts DEF cvm_u64_shl
  <2>3. m >= n /\ m < 2 * N /\ m - n < n BY <1>1, <1>2, <1>10
  <2>4. cvm_i64_sub(cvm_u64_shl(s, k), u) \in Pairs
        /\ Value(cvm_i64_sub(cvm_u64_shl(s, k), u)) = m - n
    BY <1>1, <1>2, <2>2, <2>3, <1>7
  <2>5. l \in FDivLoops(e) /\ l.i - l.adjust = 0 /\ l.i + 1 = 1 /\ Value(l.q) = 1
        /\ Value(l.r) = m - n
    <3> HIDE DEF k
    <3>1. -k = 0
      <4>1. PICK z \in Int : z = k /\ z <= 0 /\ z >= 0 BY <2>1
      <4>2. -z <= 0 /\ -z >= 0 /\ -z \in Int BY <4>1
      <4> QED BY <4>1, <4>2
    <3> QED BY <1>3, <1>4, <1>6, <2>4, <3>1 DEF FDivLoops
  <2>6. FDivides(m, n, l)
    <3>1. PICK d \in Nat : d = m - n BY <2>3
    <3>2. m * 2 ^ 0 = n + d
      <4>1. m * 1 = m OBVIOUS
      <4> QED BY <1>5, <3>1, <4>1
    <3>3. 0 \in Nat OBVIOUS
    <3> QED BY <1>11, <2>3, <2>5, <3>1, <3>2, <3>3
  <2> QED BY <1>2, <2>5, <2>6 DEF l, s, u
<1> QED BY <1>9, <1>10

LEMMA FDivisionGoesOn ==
  ASSUME NEW e \in Formats, NEW y \in Pairs, NEW l \in FDivLoops(e), l.i < F(e)!FDivLast,
         NEW m \in Nat, FDivides(m, Value(F(e)!Significand(y)), l)
  PROVE  /\ F(e)!FDivBit(y, l) \in FDivLoops(e)
         /\ FDivides(m, Value(F(e)!Significand(y)), F(e)!FDivBit(y, l))
<1> DEFINE u == F(e)!Significand(y)
           p == F(e)!FDivBit(y, l)
           s == cvm_u64_shl(l.r, 1)
           v == cvm_u64_shl(l.q, 1)
<1>1. PICK n \in Nat : u \in Pairs /\ n = Value(u) /\ 2 * n < Mod
  <2>1. PICK N \in Nat : /\ N > 0 /\ 4 * N <= Mod /\ u \in Pairs /\ Value(u) < 2 * N
    BY SignificandIs
  <2> QED BY <2>1, ValueBound, WordFacts
<1>2. PICK top \in Nat : top = F(e)!FDivLast /\ top <= 2 * Bits - 1
  <2>1. F(e)!MantBits + 1 \in Nat /\ F(e)!MantBits + 1 <= 2 * Bits - 1 BY FormatIs, WordFacts
  <2> QED BY <2>1 DEF F!FDivLast
<1>3. PICK i \in Nat : /\ i = l.i /\ i < top /\ i + 1 \in 0 .. F(e)!FDivLast
                       /\ i + 2 <= 2 * Bits
  BY <1>2, WordFacts DEF FDivLoops
<1>4. l.q \in Pairs /\ l.r \in Pairs /\ l.adjust \in {0, -1} BY DEF FDivLoops
<1>5. PICK q \in Nat, r \in Nat : q = Value(l.q) /\ r = Value(l.r) BY <1>4, ValueBound
<1>6. PICK k \in Nat : k = i - l.adjust BY <1>4
<1>7. /\ m * 2 ^ k = n * q + r /\ r < n /\ q < 2 ^ (i + 1)
  BY <1>1, <1>3, <1>5, <1>6 DEF FDivides
<1>8. PICK c1 \in Nat, c2 \in Nat :
        c1 = 2 ^ (i + 1) /\ c2 = 2 ^ (i + 2) /\ c2 = 2 * c1 /\ c2 <= Mod
  <2>1. i + 1 \in Nat /\ (i + 1) + 1 = i + 2 /\ i + 2 \in Nat OBVIOUS
  <2>2. 2 ^ (i + 1) \in Nat /\ 2 ^ (i + 2) = 2 * 2 ^ (i + 1) BY <2>1, Powers
  <2>3. 2 ^ (i + 2) <= Mod
    <3>1. CASE i + 2 = 2 * Bits
      <4>1. Bits \in Nat /\ i + 2 = Bits + Bits BY <3>1, WordFacts
      <4>2. 2 ^ (i + 2) = 2 ^ Bits * 2 ^ Bits BY <4>1, PowerSum
      <4> QED BY <4>2, WordFacts DEF WordMod
    <3>2. CASE i + 2 # 2 * Bits
      <4>1. i + 2 \in 1 .. 2 * Bits - 1 BY <1>3, <3>2, WordFacts
      <4>2. PICK f \in Nat, g \in Nat : f = 2 ^ (i + 2) /\ g > 0 /\ Mod = f * g
        BY <4>1, PowerSplits
      <4>3. f * g >= f
        <5>1. g >= 1 BY <4>2
        <5>2. f * g >= f * 1 BY <5>1
        <5> QED BY <5>2
      <4> QED BY <4>2, <4>3
    <3> QED BY <3>1, <3>2
  <2> QED BY <2>2, <2>3
<1>9. s \in Pairs /\ Value(s) = 2 * r
  <2>1. 2 * Value(l.r) < Mod BY <1>1, <1>5, <1>7, WordFacts
  <2> QED BY <1>4, <1>5, <2>1, ShiftIn
<1>10. /\ v \in Pairs /\ Value(v) = 2 * q
       /\ [v EXCEPT !.lo = @ + 1] \in Pairs /\ Value([v EXCEPT !.lo = @ + 1]) = 2 * q + 1
  <2>1. 2 * Value(l.q) < Mod BY <1>5, <1>7, <1>8, WordFacts
  <2>2. 1 \in {0, 1} OBVIOUS
  <2> QED BY <1>4, <1>5, <2>1, <2>2, ShiftIn
<1>11. p = IF cvm_u64_le(u, s)
           THEN [l EXCEPT !.i = @ + 1, !.q = [v EXCEPT !.lo = @ + 1], !.r = cvm_i64_sub(s, u)]
           ELSE [l EXCEPT !.i = @ + 1, !.q = v, !.r = s]
  <2>1. F(e)!cvm_u64_shl(l.r, 1) = s /\ F(e)!cvm_u64_shl(l.q, 1) = v BY SameShl
  <2> HIDE DEF s, v, u
  <2>2. F(e)!cvm_u64_le(u, s) <=> cvm_u64_le(u, s) BY SameCompare
  <2>3. F(e)!cvm_i64_sub(s, u) = cvm_i64_sub(s, u) BY SameSub
  <2> QED BY <2>1, <2>2, <2>3 DEF F!FDivBit, u
<1>12. cvm_u64_le(u, s) <=> n <= 2 * r BY <1>1, <1>9, ComparesExact
<1>13. m * 2 ^ (k + 1) = 2 * (n * q) + 2 * r
  <2>1. PICK d \in Nat : d = 2 ^ k /\ 2 ^ (k + 1) = 2 * d BY Powers
  <2>2. m * (2 * d) = 2 * (m * d) OBVIOUS
  <2>3. PICK f \in Nat, g \in Nat : f = m * d /\ g = n * q OBVIOUS
  <2>4. f = g + r BY <1>7, <2>1, <2>3
  <2> QED BY <2>1, <2>2, <2>3, <2>4
<1>14. l = [i |-> l.i, q |-> l.q, r |-> l.r, adjust |-> l.adjust] BY DEF FDivLoops
<1> HIDE DEF u, s, v, p
<1>15. CASE n <= 2 * r
  <2>1. cvm_i64_sub(s, u) \in Pairs /\ Value(cvm_i64_sub(s, u)) = 2 * r - n
    <3>1. PICK d \in Nat : d = 2 * r - n /\ d < Mod BY <1>1, <1>7, <1>15, WordFacts
    <3>2. Division(d, Mod, 0, d) BY <3>1, WordFacts DEF Division
    <3>3. d % Mod = d BY <3>2, DivisionIs
    <3> QED BY <1>1, <1>9, <3>1, <3>3, SubExact
  <2>2. p = [i |-> i + 1, q |-> [v EXCEPT !.lo = @ + 1], r |-> cvm_i64_sub(s, u),
             adjust |-> l.adjust]
    BY <1>3, <1>11, <1>12, <1>14, <1>15
  <2>3. p \in FDivLoops(e) BY <1>3, <1>4, <1>10, <2>1, <2>2 DEF FDivLoops
  <2>4. p.i - p.adjust = k + 1 /\ p.i + 1 = i + 2 /\ Value(p.q) = 2 * q + 1
        /\ Value(p.r) = 2 * r - n
    BY <1>4, <1>6, <1>10, <2>1, <2>2
  <2>5. m * 2 ^ (k + 1) = n * (2 * q + 1) + (2 * r - n)
    <3>1. n * (2 * q + 1) = 2 * (n * q) + n OBVIOUS
    <3>2. PICK g \in Nat, h \in Nat : g = n * q /\ h = n * (2 * q + 1) OBVIOUS
    <3> QED BY <1>13, <3>1, <3>2
  <2>6. 2 * r - n < n /\ 2 * q + 1 < c2 BY <1>7, <1>8
  <2>7. FDivides(m, n, p) BY <1>8, <2>4, <2>5, <2>6 DEF FDivides
  <2> QED BY <1>1, <2>3, <2>7 DEF p, u
<1>16. CASE ~(n <= 2 * r)
  <2>1. p = [i |-> i + 1, q |-> v, r |-> s, adjust |-> l.adjust]
    BY <1>3, <1>11, <1>12, <1>14, <1>16
  <2>2. p \in FDivLoops(e) BY <1>3, <1>4, <1>9, <1>10, <2>1 DEF FDivLoops
  <2>3. p.i - p.adjust = k + 1 /\ p.i + 1 = i + 2 /\ Value(p.q) = 2 * q /\ Value(p.r) = 2 * r
    BY <1>4, <1>6, <1>9, <1>10, <2>1
  <2>4. m * 2 ^ (k + 1) = n * (2 * q) + 2 * r
    <3>1. n * (2 * q) = 2 * (n * q) OBVIOUS
    <3> QED BY <1>13, <3>1
  <2>5. 2 * r < n /\ 2 * q < c2 BY <1>7, <1>8, <1>16
  <2>6. FDivides(m, n, p) BY <1>8, <2>3, <2>4, <2>5 DEF FDivides
  <2> QED BY <1>1, <2>2, <2>6 DEF p, u
<1> QED BY <1>15, <1>16

(* While the bits of a quotient of doubles are found.                       *)
FDividing ==
  at = "d_div" =>
    /\ a \in Pairs /\ b \in Pairs /\ loop \in FDivLoops(fmt)
    /\ FDivides(Value(F(fmt)!Significand(a)), Value(F(fmt)!Significand(b)), loop)

LoopsInv == fmt \in Formats /\ Dividing /\ FDividing

LEMMA LoopsStart == Init => LoopsInv
<1> SUFFICES ASSUME Init PROVE LoopsInv OBVIOUS
<1>1. at = "idle" /\ fmt \in Formats BY DEF Init
<1> QED BY <1>1 DEF LoopsInv, Dividing, FDividing

(* Between calls no loop runs.                                             *)
LEMMA Outside ==
  ASSUME at' \notin {"udivmod64", "d_div"}, fmt' \in Formats PROVE LoopsInv'
BY DEF LoopsInv, Dividing, FDividing

LEMMA LoopsStep == LoopsInv /\ SoftInv /\ [Next]_vars => LoopsInv'
<1> SUFFICES ASSUME LoopsInv, SoftInv, [Next]_vars PROVE LoopsInv' OBVIOUS
<1>a. fmt \in Formats /\ Dividing /\ FDividing /\ FloatLoops BY DEF LoopsInv, SoftInv
<1>b. Dividing'
  <2>1. SoftInv' BY SoftStep
  <2> QED BY <2>1 DEF SoftInv
<1>1. CASE Resume
  <2>1. at' = "idle" /\ fmt' = fmt BY <1>1 DEF Resume
  <2> QED BY <1>a, <2>1, Outside
<1>2. CASE CallInt \/ CallFunnel \/ CallFixed
  <2>1. at' = "returned" /\ fmt' = fmt
    BY <1>2 DEF CallInt, CallFunnel, CallFixed, Called, Returns
  <2> QED BY <1>a, <2>1, Outside
<1>3. CASE CallDiv \/ DivIteration
  <2>1. at' = "udivmod64" /\ fmt' = fmt
    BY <1>3 DEF CallDiv, DivIteration, Called, Enters, call
  <2>2. FDividing' BY <2>1 DEF FDividing
  <2> QED BY <1>a, <1>b, <2>1, <2>2 DEF LoopsInv
<1>4. CASE DivReturn \/ FDivReturn \/ SqrtReturn
  <2>1. at' = "returned" /\ fmt' = fmt
    BY <1>4 DEF DivReturn, FDivReturn, SqrtReturn, Returns, call
  <2> QED BY <1>a, <2>1, Outside
<1>5. CASE CallFloat \/ CallFromWord \/ CallFrom64 \/ CallToWord
  <2>1. at' = "returned" /\ fmt' = fmt
    BY <1>5 DEF CallFloat, CallFromWord, CallFrom64, CallToWord, Called, Returns
  <2> QED BY <1>a, <2>1, Outside
<1>6. CASE CallFDiv
  <2>1. PICK x \in Floats(fmt), y \in Floats(fmt) :
          /\ Called("fdiv", x, y, CVM_I64_ZERO)
          /\ IF F(fmt)!DivNeedsLoop(x, y)
             THEN Enters("d_div", F(fmt)!FDivStart(x, y))
             ELSE Returns(F(fmt)!DivSpecial(x, y))
    BY <1>6 DEF CallFDiv
  <2>2. x \in Pairs /\ y \in Pairs BY <1>a, OperandsAssumption
  <2>3. fmt' = fmt /\ a' = x /\ b' = y BY <2>1 DEF Called
  <2>4. CASE F(fmt)!DivNeedsLoop(x, y)
    <3>1. at' = "d_div" /\ loop' = F(fmt)!FDivStart(x, y) BY <2>1, <2>4 DEF Enters
    <3>2. /\ F(fmt)!FDivStart(x, y) \in FDivLoops(fmt)
          /\ FDivides(Value(F(fmt)!Significand(x)), Value(F(fmt)!Significand(y)),
                      F(fmt)!FDivStart(x, y))
      BY <1>a, <2>2, FDivisionStarts
    <3>3. FDividing' BY <2>2, <2>3, <3>1, <3>2 DEF FDividing
    <3> QED BY <1>a, <1>b, <2>3, <3>3 DEF LoopsInv
  <2>5. CASE ~F(fmt)!DivNeedsLoop(x, y)
    <3>1. at' = "returned" BY <2>1, <2>5 DEF Returns
    <3> QED BY <1>a, <2>3, <3>1, Outside
  <2> QED BY <2>4, <2>5
<1>7. CASE FDivIteration
  <2>1. /\ at = "d_div" /\ loop.i < F(fmt)!FDivLast /\ loop' = F(fmt)!FDivBit(b, loop)
        /\ fmt' = fmt /\ a' = a /\ b' = b /\ at' = at
    BY <1>7 DEF FDivIteration, call
  <2>2. /\ a \in Pairs /\ b \in Pairs /\ loop \in FDivLoops(fmt)
        /\ FDivides(Value(F(fmt)!Significand(a)), Value(F(fmt)!Significand(b)), loop)
    BY <1>a, <2>1 DEF FDividing
  <2>3. PICK m \in Nat : m = Value(F(fmt)!Significand(a))
    BY <1>a, <2>2, SignificandIs, ValueBound
  <2>4. /\ F(fmt)!FDivBit(b, loop) \in FDivLoops(fmt)
        /\ FDivides(m, Value(F(fmt)!Significand(b)), F(fmt)!FDivBit(b, loop))
    BY <1>a, <2>1, <2>2, <2>3, FDivisionGoesOn
  <2>5. FDividing' BY <2>1, <2>2, <2>3, <2>4 DEF FDividing
  <2> QED BY <1>a, <1>b, <2>1, <2>5 DEF LoopsInv
<1>8. CASE CallSqrt \/ SqrtIteration
  <2>1. at' \in {"fsqrt", "returned"} /\ fmt' = fmt
    BY <1>8 DEF CallSqrt, SqrtIteration, Called, Enters, Returns, call
  <2> QED BY <1>a, <2>1, Outside
<1>9. CASE UNCHANGED vars
  <2>1. at' = at /\ fmt' = fmt /\ a' = a /\ b' = b /\ loop' = loop BY <1>9 DEF vars
  <2>2. FDividing' BY <1>a, <2>1 DEF FDividing
  <2> QED BY <1>a, <1>b, <2>1, <2>2 DEF LoopsInv
<1> QED BY <1>1, <1>2, <1>3, <1>4, <1>5, <1>6, <1>7, <1>8, <1>9 DEF Next

LEMMA LoopsExact == LoopsInv => DivisionInvariant
<1> SUFFICES ASSUME LoopsInv PROVE DivisionInvariant OBVIOUS
<1>a. fmt \in Formats /\ Dividing /\ FDividing BY DEF LoopsInv
<1>1. ASSUME at = "udivmod64", Value(Ub) # 0
      PROVE  LET taken == 2 ^ (loop.i + 1) IN
             /\ Value(Ua) \div taken = Value(Ub) * (Value(loop.q) \div taken) + Value(loop.r)
             /\ Value(loop.q) % taken = 0
             /\ Value(loop.r) < Value(Ub)
  <2>1. PICK t \in Nat, k \in Nat : Divides(Ua, Ub, loop, t, k) BY <1>a, <1>1 DEF Dividing
  <2>2. /\ t = 2 ^ (loop.i + 1) /\ t > 0 /\ Value(loop.q) = t * k
        /\ Value(Ua) \div t = Value(Ub) * k + Value(loop.r) /\ Value(loop.r) < Value(Ub)
    BY <1>1, <2>1 DEF Divides
  <2>3. Division(Value(loop.q), t, k, 0)
    <3>1. PICK g \in Nat : g = t * k OBVIOUS
    <3> QED BY <2>2, <3>1 DEF Division
  <2>4. Value(loop.q) \div t = k /\ Value(loop.q) % t = 0 BY <2>3, DivisionIs
  <2> QED BY <2>2, <2>4
<1>2. ASSUME at = "d_div"
      PROVE  LET m == Value(F(fmt)!Significand(a))
                 n == Value(F(fmt)!Significand(b)) IN
             /\ m * 2 ^ (loop.i - loop.adjust) = n * Value(loop.q) + Value(loop.r)
             /\ Value(loop.r) < n
  BY <1>a, <1>2 DEF FDividing, FDivides
<1> QED BY <1>1, <1>2 DEF DivisionInvariant

(***************************************************************************)
(* The loops of cvm__udivmod64 and cvm_d_div: at every iteration, for all   *)
(* widths and operands, the part of the dividend taken so far is divisor    *)
(* times quotient plus remainder, and the remainder is below the divisor,   *)
(* so that neither the shift of the remainder nor a bit of the quotient     *)
(* overflows its 64 bits.                                                   *)
(***************************************************************************)
THEOREM DivisionsKeep == Spec => []DivisionInvariant
<1>1. Init => SoftInv /\ LoopsInv BY SoftStart, LoopsStart
<1>2. (SoftInv /\ LoopsInv) /\ [Next]_vars => (SoftInv /\ LoopsInv)'
  BY SoftStep, LoopsStep
<1>3. SoftInv /\ LoopsInv => DivisionInvariant BY LoopsExact
<1> QED BY <1>1, <1>2, <1>3, PTL DEF Spec

-----------------------------------------------------------------------------
(* The order of doubles.                                                    *)

LEMMA PairsEqual ==
  ASSUME NEW x \in Pairs, NEW y \in Pairs, Value(x) = Value(y) PROVE x = y
<1>1. PICK w \in Nat : w = WordMod /\ w > 1 BY WordIs
<1>2. PICK l \in Nat, h \in Nat : l = x.lo /\ h = x.hi /\ l < w /\ Value(x) = l + w * h
  BY <1>1, PairIs
<1>3. PICK m \in Nat, k \in Nat : m = y.lo /\ k = y.hi /\ m < w /\ Value(y) = m + w * k
  BY <1>1, PairIs
<1>4. PICK v \in Nat : v = Value(x) BY ValueBound
<1>5. v = w * h + l /\ v = w * k + m
  <2>1. PICK i, j \in Nat : i = w * h /\ j = w * k OBVIOUS
  <2>2. v = l + i /\ v = m + j BY <1>2, <1>3, <1>4, <2>1
  <2>3. v = i + l /\ v = j + m BY <2>2
  <2> QED BY <2>1, <2>3
<1>6. Division(v, w, h, l) /\ Division(v, w, k, m) BY <1>1, <1>2, <1>3, <1>5 DEF Division
<1>7. h = k /\ l = m BY <1>6, DivisionIs
<1>8. x = [lo |-> x.lo, hi |-> x.hi] /\ y = [lo |-> y.lo, hi |-> y.hi] BY DEF Pairs
<1> QED BY <1>2, <1>3, <1>7, <1>8

(* A double is a sign and a magnitude; the zeros are those of magnitude 0.  *)
SignAndMagnitude(e, x, k, s, m) ==
  /\ s = F(e)!CVM_D_SIGN(x) /\ m = Value(F(e)!Magnitude(x))
  /\ s \in {0, 1} /\ m < k /\ Value(x) = m + k * s
  /\ F(e)!cvm_d_iszero(x) <=> m = 0

LEMMA NumberIs ==
  ASSUME NEW e \in Formats
  PROVE  \E k \in Nat : \A x \in Pairs : \E s \in Nat, m \in Nat : SignAndMagnitude(e, x, k, s, m)
<1>1. PICK w \in Nat : w = WordMod /\ w > 1 BY WordIs
<1>2. PICK d \in Nat : d > 0 /\ d = 2 ^ (Bits - 1) /\ w = 2 * d BY <1>1, HalfWord
<1>3. PICK k \in Nat : k = w * d OBVIOUS
<1>4. PICK t \in Nat : t = F(e)!TopBits /\ t + 2 <= Bits BY FormatIs
<1>5. PICK p \in Nat, q \in Nat : p = 2 ^ t /\ q = 2 ^ e /\ p > 0 /\ q > 0 /\ d = p * q
  <2>1. e \in Nat /\ t + e = Bits - 1
    <3>1. e \in 1 .. Bits - 2 BY OperandsAssumption
    <3> QED BY <1>4, <3>1, WordFacts DEF F!TopBits
  <2>2. 2 ^ (t + e) = 2 ^ t * 2 ^ e BY <2>1, PowerSum
  <2> QED BY <1>2, <2>1, <2>2, Powers
<1>6. ASSUME NEW x \in Pairs
      PROVE  \E s \in Nat, m \in Nat : SignAndMagnitude(e, x, k, s, m)
  <2>1. PICK l \in Nat, h \in Nat : l = x.lo /\ h = x.hi /\ l < w /\ h < w /\ Value(x) = l + w * h
    BY <1>1, PairIs
  <2>2. PICK s \in Nat, g \in Nat : Division(h, d, s, g) /\ s \in {0, 1}
    <3>1. CASE h < d
      <4>1. Division(h, d, 0, h) BY <1>2, <3>1 DEF Division
      <4> QED BY <4>1
    <3>2. CASE ~(h < d)
      <4>1. PICK g \in Nat : g = h - d /\ g < d BY <1>2, <2>1, <3>2
      <4>2. Division(h, d, 1, g) BY <1>2, <4>1 DEF Division
      <4> QED BY <4>2
    <3> QED BY <3>1, <3>2
  <2>3. h = d * s + g /\ g < d /\ h \div d = s /\ h % d = g
    <3>1. h \div d = s /\ h % d = g BY <2>2, DivisionIs
    <3> QED BY <2>2, <3>1 DEF Division
  <2>4. s = F(e)!CVM_D_SIGN(x) BY <1>2, <2>1, <2>3 DEF F!CVM_D_SIGN, F!Shr
  <2>5. F(e)!Magnitude(x) = I64(l, g) BY <1>2, <2>1, <2>3 DEF F!Magnitude, F!I64, I64
  <2>6. PICK m \in Nat : m = l + w * g OBVIOUS
  <2>7. m = Value(F(e)!Magnitude(x))
    <3>1. g < w BY <1>2, <2>3
    <3> QED BY <1>1, <2>1, <2>5, <2>6, <3>1, IsPair
  <2>8. m < k
    <3>1. g + 1 <= d BY <2>3
    <3>2. w * (g + 1) <= w * d BY <3>1
    <3>3. w * (g + 1) = w * g + w OBVIOUS
    <3>4. PICK i \in Nat : i = w * g OBVIOUS
    <3> QED BY <1>3, <2>1, <2>6, <3>2, <3>3, <3>4
  <2>9. Value(x) = m + k * s
    <3>1. w * (d * s + g) = w * g + (w * d) * s OBVIOUS
    <3>2. PICK i, j \in Nat : i = w * g /\ j = (w * d) * s OBVIOUS
    <3> QED BY <1>3, <2>1, <2>3, <2>6, <3>1, <3>2
  <2>10. F(e)!cvm_d_iszero(x) <=> m = 0
    <3>1. PICK u \in Int, r \in Nat : Division(h, p, u, r) BY <1>5, Divided
    <3>2. PICK n \in Int, z \in Nat : Division(u, q, n, z) BY <1>5, <3>1, Divided DEF Division
    <3>3. Division(h, p * q, n, p * z + r) BY <3>1, <3>2, DivisionTwice
    <3>4. g = p * z + r BY <1>5, <2>3, <3>3, DivisionIs
    <3>5. h \div p = u /\ h % p = r /\ u % q = z BY <3>1, <3>2, DivisionIs
    <3>6. F(e)!CVM_D_EXP(x) = z /\ F(e)!CVM_D_MHI(x) = r
      BY <1>4, <1>5, <2>1, <3>5 DEF F!CVM_D_EXP, F!CVM_D_MHI, F!Shr
    <3>7. F(e)!cvm_d_iszero(x) <=> z = 0 /\ r = 0 /\ l = 0
      BY <2>1, <3>6 DEF F!cvm_d_iszero, F!NoMantissa
    <3>8. g = 0 <=> z = 0 /\ r = 0
      <4>1. z = 0 => p * z = 0 OBVIOUS
      <4>2. z > 0 => p * z > 0 BY <1>5
      <4>3. PICK i \in Nat : i = p * z OBVIOUS
      <4> QED BY <3>4, <4>1, <4>2, <4>3
    <3>9. m = 0 <=> l = 0 /\ g = 0
      <4>1. g = 0 => w * g = 0 OBVIOUS
      <4>2. g > 0 => w * g > 0 BY <1>1
      <4>3. PICK i \in Nat : i = w * g OBVIOUS
      <4> QED BY <2>6, <4>1, <4>2, <4>3
    <3> QED BY <3>7, <3>8, <3>9
  <2>11. SignAndMagnitude(e, x, k, s, m)
    BY <2>2, <2>4, <2>7, <2>8, <2>9, <2>10 DEF SignAndMagnitude
  <2> QED BY <2>11
<1> QED BY <1>6

RankOf(e, x) ==
  IF F(e)!CVM_D_SIGN(x) = 1 THEN -Value(F(e)!Magnitude(x)) ELSE Value(F(e)!Magnitude(x))

LEMMA OrderIs ==
  ASSUME NEW e \in Formats, NEW x \in Pairs, NEW y \in Pairs,
         NEW nan, nan = (F(e)!cvm_d_isnan(x) \/ F(e)!cvm_d_isnan(y))
  PROVE  /\ RankOf(e, x) \in Int /\ RankOf(e, y) \in Int
         /\ F(e)!cvm_d_eq(x, y) <=> ~nan /\ RankOf(e, x) = RankOf(e, y)
         /\ F(e)!cvm_d_ne(x, y) <=> nan \/ RankOf(e, x) # RankOf(e, y)
         /\ F(e)!cvm_d_lt(x, y) <=> ~nan /\ RankOf(e, x) < RankOf(e, y)
         /\ F(e)!cvm_d_le(x, y) <=> ~nan /\ RankOf(e, x) <= RankOf(e, y)
<1>1. PICK k \in Nat : \A z \in Pairs : \E s \in Nat, m \in Nat : SignAndMagnitude(e, z, k, s, m)
  BY NumberIs
<1>2. PICK s \in Nat, m \in Nat : SignAndMagnitude(e, x, k, s, m) BY <1>1
<1>3. PICK t \in Nat, n \in Nat : SignAndMagnitude(e, y, k, t, n) BY <1>1
<1>4. /\ s = F(e)!CVM_D_SIGN(x) /\ m = Value(F(e)!Magnitude(x))
      /\ s \in {0, 1} /\ m < k /\ Value(x) = m + k * s
      /\ F(e)!cvm_d_iszero(x) <=> m = 0
  BY <1>2 DEF SignAndMagnitude
<1>5. /\ t = F(e)!CVM_D_SIGN(y) /\ n = Value(F(e)!Magnitude(y))
      /\ t \in {0, 1} /\ n < k /\ Value(y) = n + k * t
      /\ F(e)!cvm_d_iszero(y) <=> n = 0
  BY <1>3 DEF SignAndMagnitude
<1>6. PICK i \in Int, j \in Int :
        /\ i = RankOf(e, x) /\ i = (IF s = 1 THEN -m ELSE m)
        /\ j = RankOf(e, y) /\ j = (IF t = 1 THEN -n ELSE n)
  BY <1>4, <1>5 DEF RankOf
<1>7. PICK v \in Nat, u \in Nat :
        /\ v = Value(x) /\ v = (IF s = 1 THEN m + k ELSE m)
        /\ u = Value(y) /\ u = (IF t = 1 THEN n + k ELSE n)
  <2>1. k * 1 = k /\ k * 0 = 0 OBVIOUS
  <2>2. CASE s = 0 /\ t = 0 BY <1>4, <1>5, <2>1, <2>2
  <2>3. CASE s = 0 /\ t = 1 BY <1>4, <1>5, <2>1, <2>3
  <2>4. CASE s = 1 /\ t = 0 BY <1>4, <1>5, <2>1, <2>4
  <2>5. CASE s = 1 /\ t = 1 BY <1>4, <1>5, <2>1, <2>5
  <2> QED BY <1>4, <1>5, <2>2, <2>3, <2>4, <2>5
<1>8. x = y <=> v = u BY <1>7, PairsEqual
<1>9. (m = 0 /\ n = 0) \/ x = y <=> i = j
  <2>1. CASE s = 0 /\ t = 0 BY <1>6, <1>7, <1>8, <2>1
  <2>2. CASE s = 1 /\ t = 1
    <3>1. i = -m /\ j = -n /\ v = m + k /\ u = n + k BY <1>6, <1>7, <2>2
    <3> QED BY <1>8, <3>1
  <2>3. CASE s = 0 /\ t = 1
    <3>1. i = m /\ j = -n /\ v = m /\ u = n + k BY <1>6, <1>7, <2>3
    <3> QED BY <1>4, <1>8, <3>1
  <2>4. CASE s = 1 /\ t = 0
    <3>1. i = -m /\ j = n /\ v = m + k /\ u = n BY <1>6, <1>7, <2>4
    <3> QED BY <1>5, <1>8, <3>1
  <2> QED BY <1>4, <1>5, <2>1, <2>2, <2>3, <2>4
<1>10. F(e)!cvm_d_eq(x, y) <=> ~nan /\ i = j BY <1>4, <1>5, <1>9 DEF F!cvm_d_eq
<1>11. F(e)!cvm_d_ne(x, y) <=> nan \/ i # j BY <1>4, <1>5, <1>9 DEF F!cvm_d_ne
<1>12. /\ F(e)!cvm_u64_lt(x, y) <=> v < u
       /\ F(e)!cvm_u64_lt(y, x) <=> u < v
  <2>1. (cvm_u64_lt(x, y) <=> v < u) /\ (cvm_u64_lt(y, x) <=> u < v) BY <1>7, ComparesExact
  <2> QED BY <2>1, SameCompare
<1>13. F(e)!cvm_d_lt(x, y) <=> ~nan /\ i < j
  <2>1. F(e)!cvm_d_lt(x, y) <=>
          /\ ~nan /\ ~(m = 0 /\ n = 0)
          /\ IF s # t THEN s > t ELSE IF s = 0 THEN v < u ELSE u < v
    BY <1>4, <1>5, <1>12 DEF F!cvm_d_lt
  <2>2. ~(m = 0 /\ n = 0) /\ (IF s # t THEN s > t ELSE IF s = 0 THEN v < u ELSE u < v) <=> i < j
    <3>1. CASE s = 0 /\ t = 0
      <4>1. i = m /\ j = n /\ v = m /\ u = n BY <1>6, <1>7, <3>1
      <4> QED BY <3>1, <4>1
    <3>2. CASE s = 1 /\ t = 1
      <4>1. i = -m /\ j = -n /\ v = m + k /\ u = n + k BY <1>6, <1>7, <3>2
      <4>2. u < v <=> i < j BY <4>1
      <4>3. i < j => ~(m = 0 /\ n = 0) BY <4>1
      <4> QED BY <3>2, <4>2, <4>3
    <3>3. CASE s = 0 /\ t = 1
      <4>1. i = m /\ j = -n BY <1>6, <3>3
      <4>2. ~(i < j) BY <4>1
      <4> QED BY <3>3, <4>2
    <3>4. CASE s = 1 /\ t = 0
      <4>1. i = -m /\ j = n BY <1>6, <3>4
      <4>2. i < j <=> ~(m = 0 /\ n = 0) BY <4>1
      <4> QED BY <3>4, <4>2
    <3> QED BY <1>4, <1>5, <3>1, <3>2, <3>3, <3>4
  <2> QED BY <2>1, <2>2
<1>14. F(e)!cvm_d_le(x, y) <=> ~nan /\ i <= j BY <1>10, <1>13 DEF F!cvm_d_le
<1> QED BY <1>6, <1>10, <1>11, <1>13, <1>14

LEMMA OrderReturned ==
  ASSUME fmt \in Formats, NEW f \in FloatFns, NEW x \in Pairs, NEW y \in Pairs, NEW z,
         Called(f, x, y, z), Returns(FloatResult(f, x, y))
  PROVE  OrderNumeric'
<1>1. fmt' = fmt /\ fn' = f /\ a' = x /\ b' = y /\ ret' = FloatResult(f, x, y)
  BY DEF Called, Returns
<1> DEFINE nan == F(fmt)!cvm_d_isnan(x) \/ F(fmt)!cvm_d_isnan(y)
<1>2. PICK i \in Int, j \in Int :
        /\ i = RankOf(fmt, x) /\ j = RankOf(fmt, y)
        /\ F(fmt)!cvm_d_eq(x, y) <=> ~nan /\ i = j
        /\ F(fmt)!cvm_d_ne(x, y) <=> nan \/ i # j
        /\ F(fmt)!cvm_d_lt(x, y) <=> ~nan /\ i < j
        /\ F(fmt)!cvm_d_le(x, y) <=> ~nan /\ i <= j
        /\ F(fmt)!cvm_d_lt(y, x) <=> ~nan /\ j < i
        /\ F(fmt)!cvm_d_le(y, x) <=> ~nan /\ j <= i
  <2>1. nan = (F(fmt)!cvm_d_isnan(y) \/ F(fmt)!cvm_d_isnan(x)) OBVIOUS
  <2> HIDE DEF nan
  <2>2. /\ RankOf(fmt, x) \in Int /\ RankOf(fmt, y) \in Int
        /\ F(fmt)!cvm_d_eq(x, y) <=> ~nan /\ RankOf(fmt, x) = RankOf(fmt, y)
        /\ F(fmt)!cvm_d_ne(x, y) <=> nan \/ RankOf(fmt, x) # RankOf(fmt, y)
        /\ F(fmt)!cvm_d_lt(x, y) <=> ~nan /\ RankOf(fmt, x) < RankOf(fmt, y)
        /\ F(fmt)!cvm_d_le(x, y) <=> ~nan /\ RankOf(fmt, x) <= RankOf(fmt, y)
    BY OrderIs DEF nan
  <2>3. /\ F(fmt)!cvm_d_lt(y, x) <=> ~nan /\ RankOf(fmt, y) < RankOf(fmt, x)
        /\ F(fmt)!cvm_d_le(y, x) <=> ~nan /\ RankOf(fmt, y) <= RankOf(fmt, x)
    BY <2>1, OrderIs
  <2> QED BY <2>2, <2>3
<1>3. /\ F(fmt)!__cvm_ford(x, y) <=> ~nan
      /\ F(fmt)!__cvm_fone(x, y) <=> ~nan /\ i # j
  BY <1>2 DEF F!__cvm_ford, F!__cvm_fone
<1>4. Rank(a)' = i /\ Rank(b)' = j
  BY <1>1, <1>2 DEF Rank, Sign, Abs, RankOf
<1>5. NaN(a)' \/ NaN(b)' <=> nan BY <1>1 DEF NaN
<1> HIDE DEF nan
<1>6. /\ f = "feq" => ret' = Flag(~nan /\ i = j)
      /\ f = "fne" => ret' = Flag(nan \/ i # j)
      /\ f = "flt" => ret' = Flag(~nan /\ i < j)
      /\ f = "fle" => ret' = Flag(~nan /\ i <= j)
      /\ f = "fgt" => ret' = Flag(~nan /\ i > j)
      /\ f = "fge" => ret' = Flag(~nan /\ i >= j)
      /\ f = "ford" => ret' = Flag(~nan)
      /\ f = "fone" => ret' = Flag(~nan /\ i # j)
  BY <1>1, <1>2, <1>3 DEF FloatResult, Flag, Carry
<1> QED BY <1>1, <1>4, <1>5, <1>6 DEF OrderNumeric, Returned, Flag, Carry

LEMMA FloatReturns ==
  ASSUME SoftInv, Next PROVE CallFloat \/ at' # "returned" \/ fn' \notin FloatFns
<1>a. Dividing /\ FloatLoops BY DEF SoftInv
<1>1. CASE Resume BY <1>1 DEF Resume
<1>2. CASE CallInt BY <1>2 DEF CallInt, Called, IntFns, FloatFns
<1>3. CASE CallFunnel BY <1>3 DEF CallFunnel, Called, FunnelFns, FloatFns
<1>4. CASE CallFixed BY <1>4 DEF CallFixed, Called, FloatFns
<1>5. CASE CallDiv \/ DivIteration
  <2>1. at' = "udivmod64" BY <1>5 DEF CallDiv, DivIteration, Enters
  <2> QED BY <2>1
<1>6. CASE DivReturn BY <1>a, <1>6 DEF DivReturn, Dividing, call, DivFns, FloatFns
<1>7. CASE CallFromWord \/ CallFrom64 \/ CallToWord
  BY <1>7 DEF CallFromWord, CallFrom64, CallToWord, Called, FromWord, From64, ToWord, FloatFns
<1>8. CASE CallFDiv \/ FDivIteration \/ FDivReturn
  <2>1. fn' = "fdiv"
    BY <1>8, <1>a DEF CallFDiv, FDivIteration, FDivReturn, FloatLoops, Called, call
  <2> QED BY <2>1 DEF FloatFns
<1>9. CASE CallSqrt \/ SqrtIteration \/ SqrtReturn
  <2>1. fn' = "fsqrt"
    BY <1>9, <1>a DEF CallSqrt, SqrtIteration, SqrtReturn, FloatLoops, Called, call
  <2> QED BY <2>1 DEF FloatFns
<1> QED BY <1>1, <1>2, <1>3, <1>4, <1>5, <1>6, <1>7, <1>8, <1>9 DEF Next

LEMMA FloatCall ==
  ASSUME fmt \in Formats, CallFloat
  PROVE  \E f \in FloatFns, x \in Pairs, y \in Pairs :
           Called(f, x, y, CVM_I64_ZERO) /\ Returns(FloatResult(f, x, y))
<1>1. PICK f \in FloatFns, x \in Floats(fmt), y \in Floats(fmt) :
        Called(f, x, y, CVM_I64_ZERO) /\ Returns(FloatResult(f, x, y))
  BY DEF CallFloat
<1>2. x \in Pairs /\ y \in Pairs BY OperandsAssumption
<1> QED BY <1>1, <1>2

LEMMA OrderStep == OrderNumeric /\ SoftInv /\ LoopsInv /\ [Next]_vars => OrderNumeric'
<1> SUFFICES ASSUME OrderNumeric, SoftInv, LoopsInv, [Next]_vars PROVE OrderNumeric' OBVIOUS
<1>1. fmt \in Formats BY DEF LoopsInv
<1>2. CASE CallFloat BY <1>1, <1>2, FloatCall, OrderReturned
<1>3. CASE at' # "returned" \/ fn' \notin FloatFns BY <1>3 DEF OrderNumeric
<1>4. CASE UNCHANGED vars
  <2>1. /\ at' = at /\ fn' = fn /\ a' = a /\ b' = b /\ ret' = ret /\ fmt' = fmt
    BY <1>4 DEF vars
  <2>2. NaN(a)' = NaN(a) /\ NaN(b)' = NaN(b) /\ Rank(a)' = Rank(a) /\ Rank(b)' = Rank(b)
    BY <2>1 DEF NaN, Rank, Sign, Abs
  <2> QED BY <2>1, <2>2 DEF OrderNumeric, Returned
<1> QED BY <1>2, <1>3, <1>4, FloatReturns

(***************************************************************************)
(* The comparisons of doubles (cvm_d_eq, cvm_d_ne, cvm_d_lt, cvm_d_le and    *)
(* the ordered ones) are those of the numbers, for every format and all     *)
(* operands, subnormal ones included: 0 equals -0, negative numbers order   *)
(* the other way round, and a NaN compares unordered.                       *)
(***************************************************************************)
THEOREM ComparisonsNumeric == Spec => []OrderNumeric
<1>1. Init => OrderNumeric /\ SoftInv /\ LoopsInv
  <2>1. Init => OrderNumeric
    <3>1. ASSUME Init PROVE at = "idle" BY <3>1 DEF Init
    <3> QED BY <3>1 DEF OrderNumeric
  <2> QED BY <2>1, SoftStart, LoopsStart
<1>2. (OrderNumeric /\ SoftInv /\ LoopsInv) /\ [Next]_vars
      => (OrderNumeric /\ SoftInv /\ LoopsInv)'
  BY OrderStep, SoftStep, LoopsStep
<1> QED BY <1>1, <1>2, PTL DEF Spec

-----------------------------------------------------------------------------
(* The parts of a double.                                                   *)

(* The widths of a format: p for the mantissa in the upper word, q for the  *)
(* exponent, 2 * p * q for the word.                                        *)
Widths(e, t, p, q, w) ==
  /\ t = F(e)!TopBits /\ t >= 1 /\ t + 2 <= Bits /\ t + e = Bits - 1
  /\ p = 2 ^ t /\ q = 2 ^ e /\ p >= 2 /\ q >= 2
  /\ w = WordMod /\ w = 2 * (p * q) /\ p * q = 2 ^ (Bits - 1)
  /\ F(e)!ExpMax = q - 1

LEMMA WidthsAre ==
  ASSUME NEW e \in Formats
  PROVE  \E t, p, q, w \in Nat : Widths(e, t, p, q, w)
<1>1. PICK t \in Nat : t = F(e)!TopBits /\ t >= 1 /\ t + 2 <= Bits /\ e \in Nat /\ e >= 1
  BY FormatIs
<1>2. t + e = Bits - 1 BY <1>1, WordFacts DEF F!TopBits
<1>3. PICK w \in Nat, d \in Nat : w = WordMod /\ d = 2 ^ (Bits - 1) /\ w = 2 * d BY HalfWord
<1>4. PICK p \in Nat, q \in Nat : p = 2 ^ t /\ q = 2 ^ e /\ d = p * q
  <2>1. 2 ^ (t + e) = 2 ^ t * 2 ^ e BY <1>1, PowerSum
  <2> QED BY <1>1, <1>2, <1>3, <2>1, Powers
<1>5. p >= 2 /\ q >= 2
  <2>1. ASSUME NEW n \in Nat, n >= 1 PROVE 2 ^ n >= 2
    <3>1. n - 1 \in Nat /\ (n - 1) + 1 = n BY <2>1
    <3>2. 2 ^ (n - 1) \in Nat /\ 2 ^ (n - 1) > 0 /\ 2 ^ n = 2 * 2 ^ (n - 1) BY <3>1, Powers
    <3> QED BY <3>2
  <2> QED BY <1>1, <1>4, <2>1
<1>6. F(e)!ExpMax = q - 1 BY <1>4 DEF F!ExpMax
<1>7. Widths(e, t, p, q, w) BY <1>1, <1>2, <1>3, <1>4, <1>5, <1>6 DEF Widths
<1> QED BY <1>7

(* What cvm_d_pack packs is what comes out again.                           *)
LEMMA PackIs ==
  ASSUME NEW e \in Formats, NEW t \in Nat, NEW p \in Nat, NEW q \in Nat, NEW w \in Nat,
         Widths(e, t, p, q, w),
         NEW s \in {0, 1}, NEW x \in 0 .. q - 1, NEW h \in Nat, NEW l
  PROVE  LET d == F(e)!cvm_d_pack(s, x, h, l)
         IN  /\ F(e)!CVM_D_SIGN(d) = s /\ F(e)!CVM_D_EXP(d) = x
             /\ F(e)!CVM_D_MHI(d) = h % p /\ d.lo = l
<1> DEFINE d == F(e)!cvm_d_pack(s, x, h, l)
<1>1. /\ t = F(e)!TopBits /\ p = 2 ^ t /\ q = 2 ^ e /\ p >= 2 /\ q >= 2
      /\ p * q = 2 ^ (Bits - 1)
  BY DEF Widths
<1>2. PICK r \in Nat : r = h % p /\ r < p BY <1>1
<1>3. x \in Nat /\ x < q /\ x % q = x
  <2>1. x \in Nat /\ x < q BY <1>1
  <2>2. Division(x, q, 0, x) BY <1>1, <2>1 DEF Division
  <2> QED BY <2>1, <2>2, DivisionIs
<1>4. PICK k \in Nat, m \in Nat : k = p * q /\ m = x * p OBVIOUS
<1>5. d = I64(l, s * k + m + r)
  BY <1>1, <1>2, <1>3, <1>4 DEF F!cvm_d_pack, F!I64, I64
<1>6. m + r \in Nat /\ m + r < k
  <2>1. (x + 1) * p <= q * p
    <3>1. x + 1 <= q BY <1>3
    <3> QED BY <3>1
  <2>2. (x + 1) * p = x * p + p /\ q * p = p * q OBVIOUS
  <2> QED BY <1>2, <1>4, <2>1, <2>2
<1>7. s * k + m + r \in Nat OBVIOUS
<1>8. Division(s * k + m + r, k, s, m + r)
  <2>1. s * k = k * s OBVIOUS
  <2> QED BY <1>6, <2>1 DEF Division
<1>9. F(e)!CVM_D_SIGN(d) = s
  <2>1. (s * k + m + r) \div k = s BY <1>8, DivisionIs
  <2> QED BY <1>1, <1>4, <1>5, <2>1 DEF F!CVM_D_SIGN, F!Shr, I64
<1>10. PICK u \in Int : u = s * q + x OBVIOUS
<1>11. Division(s * k + m + r, p, u, r)
  <2>1. s * (p * q) = p * (s * q) /\ x * p = p * x OBVIOUS
  <2>2. p * (s * q + x) = p * (s * q) + p * x OBVIOUS
  <2>3. PICK i, j \in Int : i = p * (s * q) /\ j = p * x OBVIOUS
  <2>4. p * u = i + j /\ s * k = i /\ m = j BY <1>4, <1>10, <2>1, <2>2, <2>3
  <2>5. s * k + m + r = p * u + r BY <2>4
  <2>6. s * k + m + r \in Int OBVIOUS
  <2> QED BY <1>1, <1>2, <1>10, <2>5, <2>6 DEF Division
<1>12. Division(u, q, s, x)
  <2>1. s * q = q * s OBVIOUS
  <2> QED BY <1>1, <1>3, <1>10, <2>1 DEF Division
<1>13. F(e)!CVM_D_EXP(d) = x
  <2>1. (s * k + m + r) \div p = u /\ u % q = x BY <1>11, <1>12, DivisionIs
  <2> QED BY <1>1, <1>5, <2>1 DEF F!CVM_D_EXP, F!Shr, I64
<1>14. F(e)!CVM_D_MHI(d) = r
  <2>1. (s * k + m + r) % p = r BY <1>11, DivisionIs
  <2> QED BY <1>1, <1>5, <2>1 DEF F!CVM_D_MHI, I64
<1> QED BY <1>2, <1>5, <1>9, <1>13, <1>14 DEF I64

(* Zeros, infinities and the NaN.                                           *)
LEMMA SpecialIs ==
  ASSUME NEW e \in Formats, NEW s \in {0, 1}
  PROVE  /\ LET z == F(e)!SignedZero(s)
            IN  F(e)!cvm_d_iszero(z) /\ F(e)!CVM_D_SIGN(z) = s /\ ~F(e)!cvm_d_isnan(z)
         /\ LET z == F(e)!SignedInf(s)
            IN  F(e)!cvm_d_isinf(z) /\ F(e)!CVM_D_SIGN(z) = s /\ ~F(e)!cvm_d_isnan(z)
         /\ F(e)!cvm_d_isnan(F(e)!CVM_D_NAN)
<1>1. PICK t, p, q, w \in Nat : Widths(e, t, p, q, w) BY WidthsAre
<1>2. t = F(e)!TopBits /\ t >= 1 /\ p = 2 ^ t /\ p >= 2 /\ q >= 2 /\ F(e)!ExpMax = q - 1
  BY <1>1 DEF Widths
<1>3. 0 \in 0 .. q - 1 /\ q - 1 \in 0 .. q - 1 /\ q - 1 # 0 BY <1>2
<1>4. 0 % p = 0
  <2>1. Division(0, p, 0, 0) BY <1>2 DEF Division
  <2> QED BY <2>1, DivisionIs
<1>5. ASSUME NEW x \in 0 .. q - 1
      PROVE  LET d == F(e)!cvm_d_pack(s, x, 0, 0)
             IN  F(e)!CVM_D_SIGN(d) = s /\ F(e)!CVM_D_EXP(d) = x /\ F(e)!NoMantissa(d)
  <2>1. 0 \in Nat OBVIOUS
  <2>2. LET d == F(e)!cvm_d_pack(s, x, 0, 0)
        IN  /\ F(e)!CVM_D_SIGN(d) = s /\ F(e)!CVM_D_EXP(d) = x
            /\ F(e)!CVM_D_MHI(d) = 0 % p /\ d.lo = 0
    BY <1>1, <2>1, PackIs
  <2> QED BY <1>4, <2>2 DEF F!NoMantissa
<1>6. F(e)!cvm_d_isnan(F(e)!CVM_D_NAN)
  <2>1. PICK h \in Nat : h = 2 ^ (t - 1) /\ h % p = h /\ h # 0
    <3>1. t - 1 \in Nat /\ (t - 1) + 1 = t BY <1>2
    <3>2. PICK h \in Nat : h = 2 ^ (t - 1) /\ h > 0 /\ p = 2 * h BY <1>2, <3>1, Powers
    <3>3. Division(h, p, 0, h) BY <3>2 DEF Division
    <3> QED BY <3>2, <3>3, DivisionIs
  <2>2. F(e)!CVM_D_NAN = F(e)!cvm_d_pack(0, q - 1, h, 0) BY <1>2, <2>1 DEF F!CVM_D_NAN
  <2>3. 0 \in {0, 1} OBVIOUS
  <2>4. LET d == F(e)!cvm_d_pack(0, q - 1, h, 0)
        IN  F(e)!CVM_D_EXP(d) = q - 1 /\ F(e)!CVM_D_MHI(d) = h % p
    BY <1>1, <1>3, <2>3, PackIs
  <2> QED BY <1>2, <2>1, <2>2, <2>4 DEF F!cvm_d_isnan, F!NoMantissa
<1>7. LET d == F(e)!cvm_d_pack(s, 0, 0, 0)
      IN  F(e)!CVM_D_SIGN(d) = s /\ F(e)!CVM_D_EXP(d) = 0 /\ F(e)!NoMantissa(d)
  BY <1>3, <1>5
<1>8. LET d == F(e)!cvm_d_pack(s, q - 1, 0, 0)
      IN  F(e)!CVM_D_SIGN(d) = s /\ F(e)!CVM_D_EXP(d) = q - 1 /\ F(e)!NoMantissa(d)
  BY <1>3, <1>5
<1> QED BY <1>2, <1>3, <1>6, <1>7, <1>8
        DEF F!SignedZero, F!SignedInf, F!cvm_d_iszero, F!cvm_d_isinf, F!cvm_d_isnan

LEMMA PackedIs ==
  ASSUME NEW e \in Formats, NEW t \in Nat, NEW p \in Nat, NEW q \in Nat, NEW w \in Nat,
         Widths(e, t, p, q, w),
         NEW s \in {0, 1}, NEW x \in Int, NEW h \in Nat, NEW l \in Nat, l < w
  PROVE  LET z == F(e)!Packed(s, x, h, l)
         IN  /\ ~F(e)!cvm_d_isnan(z) /\ F(e)!CVM_D_SIGN(z) = s
             /\ x >= F(e)!ExpMax => F(e)!cvm_d_isinf(z)
             /\ x <= 0 => F(e)!cvm_d_iszero(z)
             /\ x > 0 /\ x < F(e)!ExpMax =>
                  /\ F(e)!CVM_D_EXP(z) = x
                  /\ p <= h /\ h < 2 * p => Value(F(e)!Significand(z)) = l + w * h
<1> DEFINE z == F(e)!Packed(s, x, h, l)
<1>1. /\ t = F(e)!TopBits /\ p = 2 ^ t /\ p >= 2 /\ q >= 2 /\ F(e)!ExpMax = q - 1
      /\ w = WordMod /\ w = 2 * (p * q)
  BY DEF Widths
<1>2. CASE x >= q - 1
  <2>1. z = F(e)!SignedInf(s) BY <1>1, <1>2 DEF F!Packed
  <2>2. ~(x <= 0) /\ ~(x < q - 1) BY <1>1, <1>2
  <2> QED BY <1>1, <2>1, <2>2, SpecialIs
<1>3. CASE x <= 0
  <2>1. ~(x >= q - 1) /\ ~(x > 0) BY <1>1, <1>3
  <2>2. z = F(e)!SignedZero(s) BY <1>1, <1>3, <2>1 DEF F!Packed
  <2> QED BY <1>1, <2>1, <2>2, SpecialIs
<1>4. CASE x > 0 /\ x < q - 1
  <2>1. z = F(e)!cvm_d_pack(s, x, h, l) /\ x \in 0 .. q - 1 /\ ~(x >= q - 1) /\ ~(x <= 0)
    BY <1>1, <1>4 DEF F!Packed
  <2> HIDE DEF z
  <2>2. /\ F(e)!CVM_D_SIGN(z) = s /\ F(e)!CVM_D_EXP(z) = x
        /\ F(e)!CVM_D_MHI(z) = h % p /\ z.lo = l
    BY <2>1, PackIs
  <2>3. ~F(e)!cvm_d_isnan(z) BY <1>1, <1>4, <2>2 DEF F!cvm_d_isnan
  <2>4. ASSUME p <= h, h < 2 * p PROVE Value(F(e)!Significand(z)) = l + w * h
    <3>1. PICK r \in Nat : r = h - p /\ r < p /\ h = r + p BY <2>4
    <3>2. Division(h, p, 1, r) BY <1>1, <3>1 DEF Division
    <3>3. h % p = r BY <3>2, DivisionIs
    <3>4. F(e)!Significand(z) = I64(l, h)
      BY <1>1, <2>2, <3>1, <3>3 DEF F!Significand, F!I64, I64
    <3> QED BY <1>1, <3>4 DEF Value, I64
  <2> QED BY <1>1, <2>1, <2>2, <2>3, <2>4 DEF z
<1> QED BY <1>1, <1>2, <1>3, <1>4

-----------------------------------------------------------------------------
(* The product of two significands.                                         *)

(* A sum that wraps is smaller than its summand.                            *)
Wraps(w, x, y, j, r, k) ==
  r = (x + (w * j + y)) % w /\ r < w /\ x + y = r + w * k /\ k = Carry(r < x)

LEMMA CarryOut ==
  ASSUME NEW w \in Nat, NEW x \in Nat, NEW y \in Nat, x < w, y < w, NEW j \in Nat
  PROVE  \E r \in Nat, k \in {0, 1} : Wraps(w, x, y, j, r, k)
<1>1. PICK r \in Nat, k \in {0, 1} : r < w /\ x + y = r + w * k /\ k = Carry(r < x)
  <2>1. CASE x + y < w
    <3>1. x + y = x + y + w * 0 /\ ~(x + y < x) /\ x + y \in Nat OBVIOUS
    <3> QED BY <2>1, <3>1 DEF Carry
  <2>2. CASE ~(x + y < w)
    <3>1. PICK r \in Nat : r = x + y - w BY <2>2
    <3>2. r < w /\ r < x /\ x + y = r + w * 1 BY <3>1
    <3> QED BY <3>2 DEF Carry
  <2> QED BY <2>1, <2>2
<1>2. Division(x + (w * j + y), w, k + j, r)
  <2>1. w * (k + j) = w * k + w * j OBVIOUS
  <2>2. PICK f, g \in Nat : f = w * k /\ g = w * j OBVIOUS
  <2>3. k + j \in Int /\ x + (w * j + y) \in Int OBVIOUS
  <2>4. x + (w * j + y) = w * (k + j) + r BY <1>1, <2>1, <2>2
  <2> QED BY <1>1, <2>3, <2>4 DEF Division
<1>3. r = (x + (w * j + y)) % w BY <1>2, DivisionIs
<1>4. Wraps(w, x, y, j, r, k) BY <1>1, <1>3 DEF Wraps
<1> QED BY <1>4

(* A product of two words is two words.                                     *)
TwoWords(w, v, h, l) == h < w /\ l < w /\ v = w * h + l /\ v \div w = h

LEMMA WordProduct ==
  ASSUME NEW w \in Nat, NEW x \in Nat, NEW y \in Nat, x < w, y < w
  PROVE  \E h \in Nat, l \in Nat : TwoWords(w, x * y, h, l)
<1>1. PICK v \in Nat : v = x * y OBVIOUS
<1>2. PICK h \in Int, l \in Nat : Division(v, w, h, l)
  <2>1. v \in Int /\ w > 0 BY <1>1
  <2> QED BY <2>1, Divided
<1>3. v = w * h + l /\ l < w BY <1>2 DEF Division
<1>4. h >= 0
  <2> SUFFICES ASSUME h <= -1 PROVE FALSE OBVIOUS
  <2>1. w * h <= -w BY <1>3
  <2> QED BY <1>1, <1>3, <2>1
<1>5. h < w
  <2> SUFFICES ASSUME h >= w PROVE FALSE BY <1>4
  <2>1. w * h >= w * w OBVIOUS
  <2>2. x * y <= x * w OBVIOUS
  <2>3. x * w < w * w OBVIOUS
  <2>4. PICK f, g, k \in Int : f = w * h /\ g = w * w /\ k = x * w OBVIOUS
  <2> QED BY <1>1, <1>3, <2>1, <2>2, <2>3, <2>4
<1>6. v \div w = h BY <1>2, DivisionIs
<1>7. TwoWords(w, x * y, h, l) BY <1>1, <1>3, <1>5, <1>6 DEF TwoWords
<1> QED BY <1>4, <1>7

(* Carries of two columns, written as one sum.                              *)
LEMMA Columns ==
  ASSUME NEW w \in Int, NEW d0 \in Int, NEW d1 \in Int, NEW d2 \in Int, NEW d3 \in Int,
         NEW u1 \in Int, NEW u2 \in Int, NEW k2 \in Int, NEW k3 \in Int,
         d1 = u1 + w * k2, d2 + k2 = u2 + w * k3
  PROVE  d0 + w * (d1 + w * (d2 + w * d3)) = d0 + w * (u1 + w * (u2 + w * (d3 + k3)))
<1>1. (u1 + w * k2) + w * (d2 + w * d3) = u1 + w * ((d2 + k2) + w * d3) OBVIOUS
<1>2. (u2 + w * k3) + w * d3 = u2 + w * (d3 + k3) OBVIOUS
<1>3. PICK v \in Int : v = w * d3 OBVIOUS
<1>4. d1 + w * (d2 + v) = u1 + w * ((d2 + k2) + v) BY <1>1, <1>3
<1>5. (d2 + k2) + v = u2 + w * (d3 + k3) BY <1>2, <1>3
<1>6. PICK r \in Int : r = u2 + w * (d3 + k3) OBVIOUS
<1>7. d1 + w * (d2 + v) = u1 + w * r BY <1>4, <1>5, <1>6
<1> QED BY <1>3, <1>6, <1>7

(* The four words of a product; the lowest is not kept.                     *)
FourWords(w, v, u0, u1, u2, u3) ==
  /\ u0 < w /\ u1 < w /\ u2 < w /\ u3 < w
  /\ v = u0 + w * (u1 + w * (u2 + w * u3))

IsProduct(e, x, y, u0, u1, u2, u3) ==
  /\ FourWords(WordMod, Value(x) * Value(y), u0, u1, u2, u3)
  /\ F(e)!Product(x, y).w1 = u1 /\ F(e)!Product(x, y).w2 = u2 /\ F(e)!Product(x, y).w3 = u3

LEMMA ProductIs ==
  ASSUME NEW e \in Formats, NEW x \in Pairs, NEW y \in Pairs
  PROVE  \E u0, u1, u2, u3 \in Nat : IsProduct(e, x, y, u0, u1, u2, u3)
<1>1. PICK w \in Nat : w = WordMod /\ w > 2
  <2>1. PICK t, p, q, w \in Nat : Widths(e, t, p, q, w) BY WidthsAre
  <2>2. w = WordMod /\ w = 2 * (p * q) /\ p >= 2 /\ q >= 2 BY <2>1 DEF Widths
  <2>3. p * q >= 2 * q BY <2>2
  <2>4. PICK k \in Nat : k = p * q OBVIOUS
  <2>5. w > 2 BY <2>2, <2>3, <2>4
  <2> QED BY <2>2, <2>5
<1>2. PICK xl, xh \in Nat : xl = x.lo /\ xh = x.hi /\ xl < w /\ xh < w /\ Value(x) = xl + w * xh
  BY <1>1, PairIs
<1>3. PICK yl, yh \in Nat : yl = y.lo /\ yh = y.hi /\ yl < w /\ yh < w /\ Value(y) = yl + w * yh
  BY <1>1, PairIs
<1>4. PICK h00, l00 \in Nat :
        h00 < w /\ l00 < w /\ xl * yl = w * h00 + l00 /\ (xl * yl) \div w = h00
  <2>1. PICK h, l \in Nat : TwoWords(w, xl * yl, h, l) BY <1>2, <1>3, WordProduct
  <2> QED BY <2>1 DEF TwoWords
<1>5. PICK h01, l01 \in Nat :
        h01 < w /\ l01 < w /\ xl * yh = w * h01 + l01 /\ (xl * yh) \div w = h01
  <2>1. PICK h, l \in Nat : TwoWords(w, xl * yh, h, l) BY <1>2, <1>3, WordProduct
  <2> QED BY <2>1 DEF TwoWords
<1>6. PICK h10, l10 \in Nat :
        h10 < w /\ l10 < w /\ xh * yl = w * h10 + l10 /\ (xh * yl) \div w = h10
  <2>1. PICK h, l \in Nat : TwoWords(w, xh * yl, h, l) BY <1>2, <1>3, WordProduct
  <2> QED BY <2>1 DEF TwoWords
<1>7. PICK h11, l11 \in Nat :
        h11 < w /\ l11 < w /\ xh * yh = w * h11 + l11 /\ (xh * yh) \div w = h11
  <2>1. PICK h, l \in Nat : TwoWords(w, xh * yh, h, l) BY <1>2, <1>3, WordProduct
  <2> QED BY <2>1 DEF TwoWords
<1>8. PICK s1a \in Nat, k1 \in {0, 1} :
        /\ s1a = (h00 + xl * yh) % w /\ s1a < w /\ h00 + l01 = s1a + w * k1
        /\ k1 = Carry(s1a < h00)
  <2>1. PICK r \in Nat, k \in {0, 1} : Wraps(w, h00, l01, h01, r, k)
    <3>1. h00 < w /\ l01 < w BY <1>4, <1>5
    <3> QED BY <3>1, CarryOut
  <2>2. w * h01 + l01 = xl * yh BY <1>5
  <2> QED BY <2>1, <2>2 DEF Wraps
<1>9. PICK u1 \in Nat, k2 \in {0, 1} :
        /\ u1 = (s1a + xh * yl) % w /\ u1 < w /\ s1a + l10 = u1 + w * k2
        /\ k2 = Carry(u1 < s1a)
  <2>1. PICK r \in Nat, k \in {0, 1} : Wraps(w, s1a, l10, h10, r, k)
    <3>1. s1a < w /\ l10 < w BY <1>6, <1>8
    <3> QED BY <3>1, CarryOut
  <2>2. w * h10 + l10 = xh * yl BY <1>6
  <2> QED BY <2>1, <2>2 DEF Wraps
<1>10. PICK s2a \in Nat, k3 \in {0, 1} :
        /\ s2a = (h01 + h10) % w /\ s2a < w /\ h01 + h10 = s2a + w * k3
        /\ k3 = Carry(s2a < h01)
  <2>1. PICK r \in Nat, k \in {0, 1} : Wraps(w, h01, h10, 0, r, k)
    <3>1. 0 \in Nat OBVIOUS
    <3> QED BY <1>5, <1>6, <3>1, CarryOut
  <2>2. w * 0 + h10 = h10 OBVIOUS
  <2> QED BY <2>1, <2>2 DEF Wraps
<1>11. PICK s2b \in Nat, k4 \in {0, 1} :
        /\ s2b = (s2a + xh * yh) % w /\ s2b < w /\ s2a + l11 = s2b + w * k4
        /\ k4 = Carry(s2b < s2a)
  <2>1. PICK r \in Nat, k \in {0, 1} : Wraps(w, s2a, l11, h11, r, k)
    <3>1. s2a < w /\ l11 < w BY <1>7, <1>10
    <3> QED BY <3>1, CarryOut
  <2>2. w * h11 + l11 = xh * yh BY <1>7
  <2> QED BY <2>1, <2>2 DEF Wraps
<1>12. PICK to2 \in Nat : to2 = k1 + k2 /\ to2 < w BY <1>1
<1>13. PICK u2 \in Nat, k5 \in {0, 1} :
        /\ u2 = (s2b + to2) % w /\ u2 < w /\ s2b + to2 = u2 + w * k5
        /\ k5 = Carry(u2 < s2b)
  <2>1. PICK r \in Nat, k \in {0, 1} : Wraps(w, s2b, to2, 0, r, k)
    <3>1. 0 \in Nat OBVIOUS
    <3>2. s2b < w /\ to2 < w BY <1>11, <1>12
    <3> QED BY <3>1, <3>2, CarryOut
  <2>2. w * 0 + to2 = to2 OBVIOUS
  <2> QED BY <2>1, <2>2 DEF Wraps
<1>14. PICK to3 \in Nat : to3 = k3 + k4 + k5 OBVIOUS
<1>15. PICK u3 \in Nat : u3 = h11 + to3 OBVIOUS
<1>16. PICK v \in Nat : v = Value(x) * Value(y) /\ v < (w * w) * (w * w)
  <2>1. PICK m \in Nat, n \in Nat, k \in Nat :
          m = Value(x) /\ n = Value(y) /\ k = w * w /\ m < k /\ n < k
    BY <1>1, ValueBound, WordFacts
  <2>2. m * n <= m * k BY <2>1
  <2>3. m * k < k * k BY <2>1
  <2>4. PICK f, g, h \in Nat : f = m * n /\ g = m * k /\ h = k * k OBVIOUS
  <2> QED BY <2>1, <2>2, <2>3, <2>4
<1>17. v = l00 + w * (u1 + w * (u2 + w * u3))
  <2>1. v = xl * yl + w * (xl * yh + xh * yl) + w * (w * (xh * yh))
    <3>1. (xl + w * xh) * (yl + w * yh) = xl * yl + w * (xl * yh + xh * yl) + w * (w * (xh * yh))
      OBVIOUS
    <3> QED BY <1>2, <1>3, <1>16, <3>1
  <2>2. v = (w * h00 + l00) + w * ((w * h01 + l01) + (w * h10 + l10)) + w * (w * (w * h11 + l11))
    BY <2>1, <1>4, <1>5, <1>6, <1>7
  <2>3. (w * h00 + l00) + w * ((w * h01 + l01) + (w * h10 + l10)) + w * (w * (w * h11 + l11))
        = l00 + w * ((h00 + l01 + l10) + w * ((h01 + h10 + l11) + w * h11))
    OBVIOUS
  <2>4. PICK d1, d2 \in Int : d1 = h00 + l01 + l10 /\ d2 = h01 + h10 + l11 OBVIOUS
  <2>5. d1 = u1 + w * to2
    <3>1. w * (k1 + k2) = w * k1 + w * k2 OBVIOUS
    <3>2. PICK f, g \in Int : f = w * k1 /\ g = w * k2 OBVIOUS
    <3>3. w * to2 = f + g BY <1>12, <3>1, <3>2
    <3>4. h00 + l01 = s1a + f /\ s1a + l10 = u1 + g BY <1>8, <1>9, <3>2
    <3> QED BY <2>4, <3>3, <3>4
  <2>6. d2 + to2 = u2 + w * to3
    <3>1. w * (k3 + k4 + k5) = w * k3 + w * k4 + w * k5 OBVIOUS
    <3>2. PICK f, g, h \in Int : f = w * k3 /\ g = w * k4 /\ h = w * k5 OBVIOUS
    <3>3. w * to3 = f + g + h BY <1>14, <3>1, <3>2
    <3>4. h01 + h10 = s2a + f /\ s2a + l11 = s2b + g /\ s2b + to2 = u2 + h
      BY <1>10, <1>11, <1>13, <3>2
    <3> QED BY <2>4, <3>3, <3>4
  <2>7. /\ w \in Int /\ l00 \in Int /\ h11 \in Int /\ u1 \in Int /\ u2 \in Int
        /\ to2 \in Int /\ to3 \in Int
    OBVIOUS
  <2>8. l00 + w * (d1 + w * (d2 + w * h11)) = l00 + w * (u1 + w * (u2 + w * (h11 + to3)))
    BY <2>5, <2>6, <2>7, Columns
  <2> QED BY <1>15, <2>2, <2>3, <2>4, <2>8
<1>18. u3 < w
  <2> SUFFICES ASSUME u3 >= w PROVE FALSE OBVIOUS
  <2>1. PICK i \in Nat : i = u2 + w * u3 OBVIOUS
  <2>2. i >= w * w
    <3>1. w * u3 >= w * w OBVIOUS
    <3>2. PICK f, g \in Nat : f = w * u3 /\ g = w * w OBVIOUS
    <3> QED BY <2>1, <3>1, <3>2
  <2>3. PICK j \in Nat : j = u1 + w * i OBVIOUS
  <2>4. w * j >= w * (w * i)
    <3>1. j >= w * i BY <2>3
    <3> QED BY <3>1
  <2>5. w * (w * i) = (w * w) * i OBVIOUS
  <2>6. PICK s \in Nat : s = w * w OBVIOUS
  <2>7. s * i >= s * s BY <2>2, <2>6
  <2>8. v = l00 + w * j BY <1>17, <2>1, <2>3
  <2>9. PICK f, g, h \in Nat : f = w * j /\ g = s * i /\ h = s * s OBVIOUS
  <2>10. f >= g BY <2>4, <2>5, <2>6, <2>9
  <2> QED BY <1>16, <2>6, <2>7, <2>8, <2>9, <2>10
<1>19. u3 = (h11 + to3) % w
  <2>1. Division(h11 + to3, w, 0, u3) BY <1>1, <1>15, <1>18 DEF Division
  <2> QED BY <2>1, DivisionIs
<1>20. F(e)!Product(x, y) = [w1 |-> u1, w2 |-> u2, w3 |-> u3]
  <2> DEFINE p0_hi == F(e)!cvm_mulhu(x.lo, y.lo)
             a1 == (p0_hi + x.lo * y.hi) % w
             v1  == (a1 + x.hi * y.lo) % w
             t2 == F(e)!Carry(a1 < p0_hi) + F(e)!Carry(v1 < a1)
             p1_hi == F(e)!cvm_mulhu(x.lo, y.hi)
             a2 == (p1_hi + F(e)!cvm_mulhu(x.hi, y.lo)) % w
             b2 == (a2 + x.hi * y.hi) % w
             v2  == (b2 + t2) % w
             t3 == F(e)!Carry(a2 < p1_hi) + F(e)!Carry(b2 < a2) + F(e)!Carry(v2 < b2)
  <2>1. F(e)!Product(x, y)
        = [w1 |-> v1, w2 |-> v2, w3 |-> (F(e)!cvm_mulhu(x.hi, y.hi) + t3) % w]
    BY <1>1 DEF F!Product, F!WordMod, WordMod
  <2>2. /\ F(e)!cvm_mulhu(x.lo, y.lo) = h00 /\ F(e)!cvm_mulhu(x.lo, y.hi) = h01
        /\ F(e)!cvm_mulhu(x.hi, y.lo) = h10 /\ F(e)!cvm_mulhu(x.hi, y.hi) = h11
    BY <1>1, <1>2, <1>3, <1>4, <1>5, <1>6, <1>7 DEF F!cvm_mulhu, F!WordMod, WordMod
  <2>3. a1 = s1a BY <1>2, <1>3, <1>5, <1>8, <2>2
  <2> HIDE DEF a1
  <2>4. v1 = u1 BY <1>2, <1>3, <1>6, <1>9, <2>3
  <2> HIDE DEF v1
  <2>5. t2 = to2 BY <1>8, <1>9, <1>12, <2>2, <2>3, <2>4 DEF F!Carry, Carry
  <2> HIDE DEF t2
  <2>6. a2 = s2a BY <1>10, <2>2
  <2> HIDE DEF a2
  <2>7. b2 = s2b BY <1>2, <1>3, <1>7, <1>11, <2>6
  <2> HIDE DEF b2
  <2>8. v2 = u2 BY <1>13, <2>5, <2>7
  <2> HIDE DEF v2
  <2>9. t3 = to3 BY <1>10, <1>11, <1>13, <1>14, <2>2, <2>6, <2>7, <2>8 DEF F!Carry, Carry
  <2> HIDE DEF t3
  <2> QED BY <1>19, <2>1, <2>2, <2>4, <2>8, <2>9
<1>21. FourWords(WordMod, v, l00, u1, u2, u3)
  BY <1>1, <1>4, <1>9, <1>13, <1>17, <1>18 DEF FourWords
<1>22. IsProduct(e, x, y, l00, u1, u2, u3) BY <1>16, <1>20, <1>21 DEF IsProduct
<1> QED BY <1>4, <1>9, <1>13, <1>18, <1>22

LEMMA Above ==
  ASSUME NEW d \in Nat, NEW l \in Nat, l < d, NEW u \in Nat, NEW m \in Nat
  PROVE  u >= m <=> l + d * u >= d * m
<1>1. CASE u >= m
  <2>1. d * u >= d * m BY <1>1
  <2>2. PICK i, j \in Nat : i = d * u /\ j = d * m OBVIOUS
  <2> QED BY <1>1, <2>1, <2>2
<1>2. CASE ~(u >= m)
  <2>1. d * (u + 1) <= d * m BY <1>2
  <2>2. d * (u + 1) = d * u + d OBVIOUS
  <2>3. PICK i, j \in Nat : i = d * u /\ j = d * m OBVIOUS
  <2> QED BY <1>2, <2>1, <2>2, <2>3
<1> QED BY <1>1, <1>2

LEMMA QuotientBetween ==
  ASSUME NEW u \in Nat, NEW m \in Nat, NEW x, NEW r, Division(u, m, x, r),
         NEW p \in Nat, m * p <= u, u < 2 * (m * p)
  PROVE  x \in Nat /\ p <= x /\ x < 2 * p
<1>1. x \in Int /\ r \in Nat /\ u = m * x + r /\ r < m BY DEF Division
<1>2. x >= p
  <2> SUFFICES ASSUME x + 1 <= p PROVE FALSE BY <1>1
  <2>1. m * (x + 1) <= m * p BY <1>1
  <2>2. m * (x + 1) = m * x + m BY <1>1
  <2>3. PICK i, j \in Int : i = m * x /\ j = m * p BY <1>1
  <2> QED BY <1>1, <2>1, <2>2, <2>3
<1>3. x < 2 * p
  <2> SUFFICES ASSUME x >= 2 * p PROVE FALSE BY <1>1
  <2>1. m * x >= m * (2 * p) BY <1>1
  <2>2. m * (2 * p) = 2 * (m * p) OBVIOUS
  <2>3. PICK i, j \in Int : i = m * x /\ j = m * p BY <1>1
  <2> QED BY <1>1, <2>1, <2>2, <2>3
<1> QED BY <1>1, <1>2, <1>3

(* The product of two significands has one bit more than twice the mantissa *)
(* or two.                                                                  *)
Factors(w, p, m, n, v, u0, u1, u2, u3, u) ==
  /\ p > 0 /\ v = m * n /\ FourWords(w, v, u0, u1, u2, u3) /\ u = u2 + w * u3
  /\ w * p <= m /\ m < 2 * (w * p) /\ w * p <= n /\ n < 2 * (w * p)

ProductRange(w, p, v, u) ==
  /\ p * p <= u /\ u < 4 * (p * p)
  /\ u >= 2 * (p * p) <=> v >= 2 * ((w * p) * (w * p))

LEMMA ProductBits ==
  ASSUME NEW w \in Nat, NEW p \in Nat, NEW m \in Nat, NEW n \in Nat, NEW v \in Nat,
         NEW u0 \in Nat, NEW u1 \in Nat, NEW u2 \in Nat, NEW u3 \in Nat, NEW u \in Nat,
         Factors(w, p, m, n, v, u0, u1, u2, u3, u)
  PROVE  ProductRange(w, p, v, u)
<1>a. /\ p > 0 /\ v = m * n /\ w * p <= m /\ m < 2 * (w * p) /\ w * p <= n /\ n < 2 * (w * p)
  BY DEF Factors
<1>1. /\ u0 < w /\ u1 < w /\ v = u0 + w * (u1 + w * u) BY DEF Factors, FourWords
<1>2. PICK d \in Nat, k \in Nat, N \in Nat : d = w * w /\ k = p * p /\ N = w * p OBVIOUS
<1>3. N * N = d * k
  <2>1. (w * p) * (w * p) = (w * w) * (p * p) OBVIOUS
  <2> QED BY <1>2, <2>1
<1>4. PICK l \in Nat : l = u0 + w * u1 /\ l < d
  <2>1. w * (u1 + 1) <= w * w BY <1>1
  <2>2. w * (u1 + 1) = w * u1 + w OBVIOUS
  <2>3. PICK i \in Nat : i = w * u1 OBVIOUS
  <2> QED BY <1>1, <1>2, <2>1, <2>2, <2>3
<1>5. v = l + d * u
  <2>1. u0 + w * (u1 + w * u) = u0 + w * u1 + (w * w) * u OBVIOUS
  <2> QED BY <1>1, <1>2, <1>4, <2>1
<1>6. v >= N * N
  <2>1. N <= m /\ N <= n BY <1>a, <1>2
  <2>2. N * N <= m * N BY <2>1
  <2>3. m * N <= m * n BY <2>1
  <2>4. PICK i, j \in Nat : i = N * N /\ j = m * N OBVIOUS
  <2> QED BY <1>a, <2>2, <2>3, <2>4
<1>7. v < 4 * (N * N)
  <2>1. m < 2 * N /\ n < 2 * N BY <1>a, <1>2
  <2>2. m * n <= m * (2 * N) BY <2>1
  <2>3. N > 0 BY <2>1
  <2>4. m * (2 * N) < (2 * N) * (2 * N) BY <2>1, <2>3
  <2>5. (2 * N) * (2 * N) = 4 * (N * N) OBVIOUS
  <2>6. PICK i, j \in Nat : i = m * (2 * N) /\ j = (2 * N) * (2 * N) OBVIOUS
  <2> QED BY <1>a, <2>2, <2>4, <2>5, <2>6
<1>8. u >= k
  <2>1. l + d * u >= d * k BY <1>3, <1>5, <1>6
  <2> QED BY <1>4, <2>1, Above
<1>9. ~(u >= 4 * k)
  <2>1. PICK f \in Nat : f = 4 * k OBVIOUS
  <2>2. d * (4 * k) = 4 * (d * k) OBVIOUS
  <2>3. ~(l + d * u >= d * f) BY <1>3, <1>5, <1>7, <2>1, <2>2
  <2> QED BY <1>4, <2>1, <2>3, Above
<1>10. u >= 2 * k <=> v >= 2 * (N * N)
  <2>1. PICK f \in Nat : f = 2 * k OBVIOUS
  <2>2. d * (2 * k) = 2 * (d * k) OBVIOUS
  <2>3. d * f = 2 * (N * N) BY <1>3, <2>1, <2>2
  <2>4. u >= f <=> l + d * u >= d * f BY <1>4, Above
  <2> QED BY <1>5, <2>1, <2>3, <2>4
<1> QED BY <1>2, <1>8, <1>9, <1>10 DEF ProductRange

(* Two words of three, after a shift.                                       *)
ShiftedWords(n, u1, u2, u3, u, x, l) ==
  /\ x = Shl(u3, Bits - n) + Shr(u2, n)
  /\ l = Shl(u2, Bits - n) + Shr(u1, n) /\ l < WordMod
  /\ (u1 + WordMod * u) \div 2 ^ n = l + WordMod * x

LEMMA ThreeShifted ==
  ASSUME NEW n \in 1 .. Bits - 1, NEW u1 \in Nat, NEW u2 \in Nat, NEW u3 \in Nat,
         u1 < WordMod, u2 < WordMod, u3 < WordMod,
         NEW u \in Nat, u = u2 + WordMod * u3,
         NEW x \in Nat, x = u \div 2 ^ n, x < WordMod
  PROVE  \E l \in Nat : ShiftedWords(n, u1, u2, u3, u, x, l)
<1>1. PICK w \in Nat : w = WordMod /\ w > 1 BY WordIs
<1>2. PICK m \in Nat : m = 2 ^ n /\ m > 0
  <2>1. n \in Nat BY WordFacts
  <2> QED BY <2>1, Powers
<1>3. ASSUME NEW l \in Nat, NEW h \in Nat
      PROVE  Shr(l, n) + Shl(h, Bits - n) = Shl(h, Bits - n) + Shr(l, n)
  <2>1. Shr(l, n) \in Int BY <1>2 DEF Shr
  <2>2. Shl(h, Bits - n) \in Int
    <3>1. Bits - n \in Nat BY WordFacts
    <3>2. PICK p \in Nat : p = 2 ^ (Bits - n) BY <3>1, Powers
    <3>3. PICK i \in Nat : i = h * p OBVIOUS
    <3> QED BY <1>1, <3>2, <3>3 DEF Shl
  <2> QED BY <2>1, <2>2
<1>4. PICK l \in Nat : /\ l = Shr(u1, n) + Shl(u2, Bits - n) /\ l < w
                       /\ (u1 + w * u) \div m = l + w * x
  <2>1. u \in Int /\ u3 \in Int OBVIOUS
  <2>2. LET lo == Shr(u1, n) + Shl(u2, Bits - n)
        IN  /\ lo \in Nat /\ lo < WordMod
            /\ (u1 + WordMod * u) \div 2 ^ n = lo + WordMod * (u \div 2 ^ n)
    BY <2>1, ShrBy
  <2> QED BY <1>1, <1>2, <2>2
<1>5. PICK h \in Nat, j \in Int : /\ h = Shr(u2, n) + Shl(u3, Bits - n) /\ h < w
                                  /\ x = h + w * j /\ j = u3 \div m
  <2>1. u3 \in Int /\ 0 \in Int /\ u3 = u3 + WordMod * 0 BY WordFacts
  <2>2. LET lo == Shr(u2, n) + Shl(u3, Bits - n)
        IN  /\ lo \in Nat /\ lo < WordMod
            /\ (u2 + WordMod * u3) \div 2 ^ n = lo + WordMod * (u3 \div 2 ^ n)
    BY <2>1, ShrBy
  <2>3. u3 \div m \in Int BY <1>2
  <2> QED BY <1>1, <1>2, <2>2, <2>3
<1>6. j = 0
  <2>1. j >= 0 BY <1>2, <1>5
  <2>2. ASSUME j >= 1 PROVE FALSE
    <3>1. w * j >= w BY <2>2
    <3> QED BY <1>1, <1>5, <3>1
  <2> QED BY <2>1, <2>2
<1>7. x = h BY <1>5, <1>6
<1>8. x = Shl(u3, Bits - n) + Shr(u2, n) BY <1>3, <1>5, <1>7
<1>9. l = Shl(u2, Bits - n) + Shr(u1, n) BY <1>3, <1>4
<1>10. ShiftedWords(n, u1, u2, u3, u, x, l) BY <1>1, <1>2, <1>4, <1>8, <1>9 DEF ShiftedWords
<1> QED BY <1>10

MulExponent(e, x, y) == F(e)!CVM_D_EXP(x) + F(e)!CVM_D_EXP(y) - F(e)!Bias
SigProduct(e, x, y) == Value(F(e)!Significand(x)) * Value(F(e)!Significand(y))

IsFiniteProduct(e, x, y, i, h, l) ==
  /\ i = Carry(SigProduct(e, x, y) >= 2 ^ (2 * F(e)!MantBits + 1))
  /\ F(e)!MulFinite(x, y)
     = F(e)!Packed(F(e)!ProductSign(x, y), MulExponent(e, x, y) + i, h, l)
  /\ l < WordMod /\ 2 ^ F(e)!TopBits <= h /\ h < 2 * 2 ^ F(e)!TopBits
  /\ SigProduct(e, x, y) \div 2 ^ (F(e)!MantBits + i) = l + WordMod * h

LEMMA MulFiniteIs ==
  ASSUME NEW e \in Formats, NEW x \in Pairs, NEW y \in Pairs
  PROVE  \E i \in {0, 1}, h \in Nat, l \in Nat : IsFiniteProduct(e, x, y, i, h, l)
<1> DEFINE s == F(e)!Significand(x)
           r == F(e)!Significand(y)
           pr == F(e)!Product(s, r)
<1>1. PICK t, p, q, w \in Nat : Widths(e, t, p, q, w) BY WidthsAre
<1>2. /\ t = F(e)!TopBits /\ t >= 1 /\ t + 2 <= Bits /\ t + e = Bits - 1
      /\ p = 2 ^ t /\ q = 2 ^ e /\ p >= 2 /\ q >= 2
      /\ w = WordMod /\ w = 2 * (p * q)
  BY <1>1 DEF Widths
<1>3. PICK N \in Nat : /\ N = w * p
                       /\ s \in Pairs /\ N <= Value(s) /\ Value(s) < 2 * N
                       /\ r \in Pairs /\ N <= Value(r) /\ Value(r) < 2 * N
  BY <1>2, SignificandIs
<1>4. PICK m \in Nat, n \in Nat : m = Value(s) /\ n = Value(r) BY <1>3, ValueBound
<1> HIDE DEF s, r, pr
<1>5. PICK v \in Nat : v = m * n /\ v = SigProduct(e, x, y)
  <2>1. m * n \in Nat OBVIOUS
  <2> QED BY <1>4, <2>1 DEF SigProduct, s, r
<1>6. PICK u0, u1, u2, u3 \in Nat :
        FourWords(w, v, u0, u1, u2, u3) /\ pr.w1 = u1 /\ pr.w2 = u2 /\ pr.w3 = u3
  <2>1. PICK u0, u1, u2, u3 \in Nat : IsProduct(e, s, r, u0, u1, u2, u3)
    BY <1>3, ProductIs
  <2> QED BY <1>2, <1>4, <1>5, <2>1 DEF pr, IsProduct
<1>7. /\ u0 < w /\ u1 < w /\ u2 < w /\ u3 < w
      /\ v = u0 + w * (u1 + w * (u2 + w * u3))
  BY <1>6 DEF FourWords
<1>8. PICK u \in Nat : u = u2 + w * u3 OBVIOUS
<1>9. /\ p * p <= u /\ u < 4 * (p * p)
      /\ u >= 2 * (p * p) <=> v >= 2 * ((w * p) * (w * p))
  <2>1. /\ w * p <= m /\ m < 2 * (w * p) /\ w * p <= n /\ n < 2 * (w * p)
        /\ p > 0 /\ FourWords(w, v, u0, u1, u2, u3) /\ v = m * n
    BY <1>2, <1>3, <1>4, <1>5, <1>6
  <2>2. Factors(w, p, m, n, v, u0, u1, u2, u3, u) BY <1>8, <2>1 DEF Factors
  <2>3. ProductRange(w, p, v, u) BY <2>2, ProductBits
  <2> QED BY <2>3 DEF ProductRange
<1>10. PICK k \in Nat : k = p * p OBVIOUS
<1>11. F(e)!MantBits = t + Bits /\ t \in Nat /\ Bits \in Nat BY <1>2, WordFacts DEF F!MantBits
<1>12. 2 ^ (2 * F(e)!MantBits + 1) = 2 * ((w * p) * (w * p))
  <2>1. PICK f \in Nat : f = t + Bits /\ 2 ^ f = p * w
    <3>1. 2 ^ (t + Bits) = 2 ^ t * 2 ^ Bits BY <1>11, PowerSum
    <3> QED BY <1>2, <1>11, <3>1 DEF WordMod
  <2>2. 2 * f + 1 = (f + f) + 1 /\ f + f \in Nat OBVIOUS
  <2>3. 2 ^ (f + f) = 2 ^ f * 2 ^ f BY PowerSum
  <2>4. 2 ^ (2 * f + 1) = 2 * 2 ^ (f + f) BY <2>2, Powers
  <2>5. (p * w) * (p * w) = (w * p) * (w * p) OBVIOUS
  <2> QED BY <1>11, <2>1, <2>3, <2>4, <2>5
<1>13. PICK i \in {0, 1} : i = Carry(v >= 2 ^ (2 * F(e)!MantBits + 1)) /\ (i = 1 <=> u >= 2 * k)
  <2>1. u >= 2 * k <=> v >= 2 ^ (2 * F(e)!MantBits + 1) BY <1>9, <1>10, <1>12
  <2>2. CASE u >= 2 * k BY <2>1, <2>2 DEF Carry
  <2>3. CASE ~(u >= 2 * k) BY <2>1, <2>3 DEF Carry
  <2> QED BY <2>2, <2>3
<1>14. F(e)!Shr(pr.w3 * F(e)!WordMod + pr.w2, Bits + F(e)!TopBits - e) % 2 = i
  <2>1. Bits + t - e = (t + t) + 1 /\ t + t \in Nat BY <1>2, <1>11, OperandsAssumption
  <2>2. 2 ^ (Bits + t - e) = 2 * k
    <3>1. 2 ^ (t + t) = 2 ^ t * 2 ^ t BY PowerSum
    <3>2. 2 ^ ((t + t) + 1) = 2 * 2 ^ (t + t) BY <2>1, Powers
    <3> QED BY <1>2, <1>10, <2>1, <3>1, <3>2
  <2>3. u3 * w + u2 = u
    <3>1. u3 * w = w * u3 OBVIOUS
    <3>2. PICK j \in Nat : j = w * u3 OBVIOUS
    <3> QED BY <1>8, <3>1, <3>2
  <2>4. (u \div (2 * k)) % 2 = i
    <3>1. PICK f \in Nat : f = 2 * k /\ u < 2 * f BY <1>9, <1>10
    <3>2. CASE u >= f
      <4>1. PICK d \in Nat : d = u - f BY <3>2
      <4>2. Division(u, f, 1, d) BY <3>1, <4>1 DEF Division
      <4>3. u \div f = 1 BY <3>1, <4>2, DivisionIs
      <4>4. i = 1 /\ 1 % 2 = 1 BY <1>13, <3>1, <3>2
      <4> QED BY <3>1, <4>3, <4>4
    <3>3. CASE ~(u >= f)
      <4>1. Division(u, f, 0, u) BY <3>3 DEF Division
      <4>2. u \div f = 0 BY <3>1, <4>1, DivisionIs
      <4>3. i = 0 /\ 0 % 2 = 0 BY <1>13, <3>1, <3>3
      <4> QED BY <3>1, <4>2, <4>3
    <3> QED BY <3>2, <3>3
  <2> QED BY <1>2, <1>6, <2>2, <2>3, <2>4 DEF F!Shr, F!WordMod, WordMod
<1>15. PICK g \in 1 .. Bits - 1 : g = t + i BY <1>2, <1>11
<1>16. PICK d \in Nat : d = 2 ^ g /\ d > 0 /\ d * p <= u /\ u < 2 * (d * p)
  <2>1. CASE i = 0
    <3>1. g = t /\ u < 2 * k BY <1>13, <1>15, <2>1
    <3> QED BY <1>2, <1>9, <1>10, <3>1
  <2>2. CASE i = 1
    <3>1. g = t + 1 /\ u >= 2 * k BY <1>13, <1>15, <2>2
    <3>2. 2 ^ g = 2 * p BY <1>2, <3>1, Powers
    <3>3. (2 * p) * p = 2 * (p * p) OBVIOUS
    <3> QED BY <1>2, <1>9, <1>10, <3>1, <3>2, <3>3
  <2> QED BY <2>1, <2>2
<1>17. PICK h \in Int, c1 \in Nat : Division(u, d, h, c1) BY <1>16, Divided
<1>18. h \in Nat /\ p <= h /\ h < 2 * p BY <1>16, <1>17, QuotientBetween
<1>19. h < w /\ h = u \div 2 ^ g
  <2>1. p * q >= p * 1 BY <1>2
  <2>2. PICK f \in Nat : f = p * q OBVIOUS
  <2> QED BY <1>2, <1>16, <1>17, <1>18, <2>1, <2>2, DivisionIs
<1>20. PICK l \in Nat : /\ h = Shl(u3, Bits - g) + Shr(u2, g)
                        /\ l = Shl(u2, Bits - g) + Shr(u1, g) /\ l < w
                        /\ (u1 + w * u) \div d = l + w * h
  <2>1. /\ u1 < WordMod /\ u2 < WordMod /\ u3 < WordMod /\ h < WordMod
        /\ u = u2 + WordMod * u3
    BY <1>2, <1>7, <1>8, <1>19
  <2>2. PICK l \in Nat : ShiftedWords(g, u1, u2, u3, u, h, l)
    BY <1>18, <1>19, <2>1, ThreeShifted
  <2> QED BY <1>2, <1>16, <2>2 DEF ShiftedWords
<1>21. v \div 2 ^ (F(e)!MantBits + i) = l + w * h
  <2>1. PICK z \in Nat : z = u1 + w * u OBVIOUS
  <2>2. v = w * z + u0
    <3>1. PICK f \in Nat : f = w * z OBVIOUS
    <3> QED BY <1>7, <1>8, <2>1, <3>1
  <2>3. Division(v, w, z, u0) BY <1>2, <1>7, <2>2 DEF Division
  <2>4. PICK a1 \in Int, a2 \in Nat : Division(z, d, a1, a2) BY <1>16, Divided
  <2>5. Division(v, w * d, a1, w * a2 + u0) BY <2>3, <2>4, DivisionTwice
  <2>6. v \div (w * d) = z \div d BY <2>4, <2>5, DivisionIs
  <2>7. 2 ^ (F(e)!MantBits + i) = w * d
    <3>1. F(e)!MantBits + i = Bits + g /\ g \in Nat BY <1>11, <1>15
    <3>2. 2 ^ (Bits + g) = 2 ^ Bits * 2 ^ g BY <1>11, <3>1, PowerSum
    <3> QED BY <1>2, <1>16, <3>1, <3>2 DEF WordMod
  <2> QED BY <1>20, <2>1, <2>6, <2>7
<1>22. F(e)!MulFinite(x, y)
       = F(e)!Packed(F(e)!ProductSign(x, y), MulExponent(e, x, y) + i, h, l)
  <2>1. /\ F(e)!Shl(u3, Bits - g) = Shl(u3, Bits - g)
        /\ F(e)!Shl(u2, Bits - g) = Shl(u2, Bits - g)
        /\ F(e)!Shr(u2, g) = Shr(u2, g) /\ F(e)!Shr(u1, g) = Shr(u1, g)
    BY DEF F!Shl, F!Shr, Shl, Shr, F!WordMod, WordMod
  <2> QED BY <1>2, <1>6, <1>14, <1>15, <1>20, <2>1 DEF F!MulFinite, MulExponent, pr, s, r
<1>23. IsFiniteProduct(e, x, y, i, h, l)
  BY <1>2, <1>5, <1>13, <1>18, <1>20, <1>21, <1>22 DEF IsFiniteProduct
<1>24. h \in Nat BY <1>18
<1> QED BY <1>23, <1>24


LEMMA SignIs ==
  ASSUME NEW e \in Formats, NEW x \in Pairs PROVE F(e)!CVM_D_SIGN(x) \in {0, 1}
<1>1. PICK k \in Nat : \A z \in Pairs : \E s \in Nat, m \in Nat : SignAndMagnitude(e, z, k, s, m)
  BY NumberIs
<1>2. PICK s \in Nat, m \in Nat : SignAndMagnitude(e, x, k, s, m) BY <1>1
<1> QED BY <1>2 DEF SignAndMagnitude

LEMMA ProductSignIs ==
  ASSUME NEW e \in Formats, NEW x \in Pairs, NEW y \in Pairs
  PROVE  F(e)!ProductSign(x, y) = IF F(e)!CVM_D_SIGN(x) = F(e)!CVM_D_SIGN(y) THEN 0 ELSE 1
<1>1. F(e)!CVM_D_SIGN(x) \in {0, 1} /\ F(e)!CVM_D_SIGN(y) \in {0, 1} BY SignIs
<1>2. (0 + 0) % 2 = 0 /\ (0 + 1) % 2 = 1 /\ (1 + 0) % 2 = 1 /\ (1 + 1) % 2 = 0 OBVIOUS
<1> HIDE DEF F!CVM_D_SIGN
<1>3. PICK s \in {0, 1}, r \in {0, 1} : s = F(e)!CVM_D_SIGN(x) /\ r = F(e)!CVM_D_SIGN(y)
  BY <1>1
<1>4. (s + r) % 2 = IF s = r THEN 0 ELSE 1 BY <1>2
<1> QED BY <1>3, <1>4 DEF F!ProductSign

(* The number of a sign, an exponent and a significand, or what is beyond   *)
(* the range of the exponent.                                              *)
NumberOf(e, z, s, x, sig) ==
  /\ F(e)!CVM_D_SIGN(z) = s
  /\ IF x >= F(e)!ExpMax THEN F(e)!cvm_d_isinf(z)
     ELSE IF x <= 0 THEN F(e)!cvm_d_iszero(z)
     ELSE F(e)!CVM_D_EXP(z) = x /\ Value(F(e)!Significand(z)) = sig

LEMMA PackedNumber ==
  ASSUME NEW e \in Formats, NEW s \in {0, 1}, NEW x \in Int, NEW h \in Nat, NEW l \in Nat,
         l < WordMod, 2 ^ F(e)!TopBits <= h, h < 2 * 2 ^ F(e)!TopBits
  PROVE  LET z == F(e)!Packed(s, x, h, l)
         IN  ~F(e)!cvm_d_isnan(z) /\ NumberOf(e, z, s, x, l + WordMod * h)
<1> DEFINE z == F(e)!Packed(s, x, h, l)
<1>1. PICK t, p, q, w \in Nat : Widths(e, t, p, q, w) BY WidthsAre
<1>2. t = F(e)!TopBits /\ p = 2 ^ t /\ w = WordMod /\ q >= 2 /\ F(e)!ExpMax = q - 1
  BY <1>1 DEF Widths
<1>3. l < w /\ p <= h /\ h < 2 * p BY <1>2
<1>4. /\ ~F(e)!cvm_d_isnan(z) /\ F(e)!CVM_D_SIGN(z) = s
      /\ x >= F(e)!ExpMax => F(e)!cvm_d_isinf(z)
      /\ x <= 0 => F(e)!cvm_d_iszero(z)
      /\ x > 0 /\ x < F(e)!ExpMax =>
           /\ F(e)!CVM_D_EXP(z) = x
           /\ p <= h /\ h < 2 * p => Value(F(e)!Significand(z)) = l + w * h
  BY <1>1, <1>3, PackedIs
<1> HIDE DEF z
<1>5. PICK i \in Nat : i = l + w * h OBVIOUS
<1>6. i = l + WordMod * h BY <1>2, <1>5
<1>7. NumberOf(e, z, s, x, i) BY <1>2, <1>3, <1>4, <1>5 DEF NumberOf
<1> QED BY <1>4, <1>6, <1>7 DEF z

LEMMA ExponentIs ==
  ASSUME NEW e \in Formats, NEW x \in Pairs, NEW y \in Pairs
  PROVE  MulExponent(e, x, y) \in Int
<1>1. PICK t, p, q, w \in Nat : Widths(e, t, p, q, w) BY WidthsAre
<1>2. t = F(e)!TopBits /\ p = 2 ^ t /\ q = 2 ^ e /\ p >= 2 /\ q >= 2 BY <1>1 DEF Widths
<1>3. ASSUME NEW z \in Pairs PROVE F(e)!CVM_D_EXP(z) \in Int
  <2>1. z.hi \in Nat
    <3>1. PICK m \in Nat : m = WordMod BY WordIs
    <3> QED BY <3>1, PairIs
  <2>2. PICK u \in Int : u = z.hi \div p BY <1>2, <2>1
  <2>3. u % q \in Int BY <1>2
  <2> QED BY <1>2, <2>2, <2>3 DEF F!CVM_D_EXP, F!Shr
<1>4. F(e)!Bias \in Int
  <2>1. e - 1 \in Nat BY FormatIs
  <2>2. 2 ^ (e - 1) \in Nat BY <2>1, Powers
  <2> QED BY <2>2 DEF F!Bias
<1> HIDE DEF F!CVM_D_EXP, F!Bias
<1> QED BY <1>3, <1>4 DEF MulExponent


(* What cvm_d_mul makes of two doubles.                                     *)
MulTruncates(e, x, y, z) ==
  LET nan(d) == F(e)!cvm_d_isnan(d)
      inf(d) == F(e)!cvm_d_isinf(d)
      zero(d) == F(e)!cvm_d_iszero(d)
      normal(d) == F(e)!CVM_D_EXP(d) \in 1 .. F(e)!ExpMax - 1
      s == IF F(e)!CVM_D_SIGN(x) = F(e)!CVM_D_SIGN(y) THEN 0 ELSE 1
      i == Carry(SigProduct(e, x, y) >= 2 ^ (2 * F(e)!MantBits + 1))
  IN  /\ nan(z) <=> nan(x) \/ nan(y) \/ (inf(x) /\ zero(y)) \/ (zero(x) /\ inf(y))
      /\ ~nan(z) /\ (inf(x) \/ inf(y)) => inf(z) /\ F(e)!CVM_D_SIGN(z) = s
      /\ ~nan(z) /\ (zero(x) \/ zero(y)) => zero(z) /\ F(e)!CVM_D_SIGN(z) = s
      /\ normal(x) /\ normal(y) =>
           NumberOf(e, z, s, MulExponent(e, x, y) + i,
                    SigProduct(e, x, y) \div 2 ^ (F(e)!MantBits + i))

LEMMA MulIs ==
  ASSUME NEW e \in Formats, NEW x \in Pairs, NEW y \in Pairs
  PROVE  MulTruncates(e, x, y, F(e)!cvm_d_mul(x, y))
<1> DEFINE z == F(e)!cvm_d_mul(x, y)
<1>1. PICK s \in {0, 1} : s = F(e)!ProductSign(x, y)
  <2>1. F(e)!ProductSign(x, y) \in {0, 1} BY ProductSignIs
  <2> QED BY <2>1
<1>2. s = IF F(e)!CVM_D_SIGN(x) = F(e)!CVM_D_SIGN(y) THEN 0 ELSE 1 BY <1>1, ProductSignIs
<1>3. PICK m \in Nat : m = F(e)!ExpMax /\ m # 0
  <2>1. PICK t, p, q, w \in Nat : Widths(e, t, p, q, w) BY WidthsAre
  <2>2. q >= 2 /\ F(e)!ExpMax = q - 1 BY <2>1 DEF Widths
  <2> QED BY <2>2
<1>4. ASSUME NEW d
      PROVE  /\ ~(F(e)!cvm_d_isnan(d) /\ F(e)!cvm_d_isinf(d))
             /\ ~(F(e)!cvm_d_isnan(d) /\ F(e)!cvm_d_iszero(d))
             /\ ~(F(e)!cvm_d_isinf(d) /\ F(e)!cvm_d_iszero(d))
  BY <1>3 DEF F!cvm_d_isnan, F!cvm_d_isinf, F!cvm_d_iszero
<1>5. ASSUME NEW d, F(e)!CVM_D_EXP(d) \in 1 .. m - 1
      PROVE  ~F(e)!cvm_d_isnan(d) /\ ~F(e)!cvm_d_isinf(d) /\ ~F(e)!cvm_d_iszero(d)
  BY <1>3, <1>5 DEF F!cvm_d_isnan, F!cvm_d_isinf, F!cvm_d_iszero
<1>6. /\ F(e)!cvm_d_iszero(F(e)!SignedZero(s)) /\ F(e)!CVM_D_SIGN(F(e)!SignedZero(s)) = s
      /\ F(e)!cvm_d_isinf(F(e)!SignedInf(s)) /\ F(e)!CVM_D_SIGN(F(e)!SignedInf(s)) = s
      /\ F(e)!cvm_d_isnan(F(e)!CVM_D_NAN)
      /\ ~F(e)!cvm_d_isnan(F(e)!SignedZero(s)) /\ ~F(e)!cvm_d_isnan(F(e)!SignedInf(s))
  BY SpecialIs
<1>7. PICK i \in {0, 1}, h \in Nat, l \in Nat : IsFiniteProduct(e, x, y, i, h, l)
  BY MulFiniteIs
<1>8. PICK ex \in Int : ex = MulExponent(e, x, y) + i
  <2>1. MulExponent(e, x, y) \in Int BY ExponentIs
  <2>2. PICK j \in Int : j = MulExponent(e, x, y) BY <2>1
  <2> QED BY <2>2
<1>9. /\ i = Carry(SigProduct(e, x, y) >= 2 ^ (2 * F(e)!MantBits + 1))
      /\ F(e)!MulFinite(x, y) = F(e)!Packed(s, ex, h, l)
      /\ l < WordMod /\ 2 ^ F(e)!TopBits <= h /\ h < 2 * 2 ^ F(e)!TopBits
      /\ SigProduct(e, x, y) \div 2 ^ (F(e)!MantBits + i) = l + WordMod * h
  BY <1>1, <1>7, <1>8 DEF IsFiniteProduct
<1>10. LET f == F(e)!Packed(s, ex, h, l)
       IN  ~F(e)!cvm_d_isnan(f) /\ NumberOf(e, f, s, ex, l + WordMod * h)
  BY <1>9, PackedNumber
<1>11. /\ ~F(e)!cvm_d_isnan(F(e)!MulFinite(x, y))
       /\ NumberOf(e, F(e)!MulFinite(x, y), s, ex,
                   SigProduct(e, x, y) \div 2 ^ (F(e)!MantBits + i))
  BY <1>9, <1>10
<1>12. z = IF F(e)!cvm_d_isnan(x) \/ F(e)!cvm_d_isnan(y) THEN F(e)!CVM_D_NAN
           ELSE IF F(e)!cvm_d_isinf(x)
           THEN IF F(e)!cvm_d_iszero(y) THEN F(e)!CVM_D_NAN ELSE F(e)!SignedInf(s)
           ELSE IF F(e)!cvm_d_isinf(y)
           THEN IF F(e)!cvm_d_iszero(x) THEN F(e)!CVM_D_NAN ELSE F(e)!SignedInf(s)
           ELSE IF F(e)!cvm_d_iszero(x) \/ F(e)!cvm_d_iszero(y) THEN F(e)!SignedZero(s)
           ELSE F(e)!MulFinite(x, y)
  BY <1>1 DEF F!cvm_d_mul
<1> HIDE DEF z
<1> DEFINE nan(d) == F(e)!cvm_d_isnan(d)
           inf(d) == F(e)!cvm_d_isinf(d)
           zero(d) == F(e)!cvm_d_iszero(d)
<1>13. nan(z) <=> nan(x) \/ nan(y) \/ (inf(x) /\ zero(y)) \/ (zero(x) /\ inf(y))
  BY <1>4, <1>6, <1>11, <1>12
<1>14. ~nan(z) /\ (inf(x) \/ inf(y)) => inf(z) /\ F(e)!CVM_D_SIGN(z) = s
  BY <1>4, <1>6, <1>12, <1>13
<1>15. ~nan(z) /\ (zero(x) \/ zero(y)) => zero(z) /\ F(e)!CVM_D_SIGN(z) = s
  BY <1>4, <1>6, <1>12, <1>13
<1>16. ASSUME F(e)!CVM_D_EXP(x) \in 1 .. m - 1, F(e)!CVM_D_EXP(y) \in 1 .. m - 1
       PROVE  z = F(e)!MulFinite(x, y)
  BY <1>5, <1>12, <1>16
<1> QED BY <1>2, <1>3, <1>8, <1>9, <1>11, <1>13, <1>14, <1>15, <1>16 DEF MulTruncates, z

LEMMA MulReturned ==
  ASSUME fmt \in Formats, NEW f \in FloatFns, NEW x \in Pairs, NEW y \in Pairs, NEW z,
         Called(f, x, y, z), Returns(FloatResult(f, x, y))
  PROVE  ProductsTruncated'
<1> SUFFICES ASSUME f = "fmul" PROVE ProductsTruncated'
  BY DEF Called, ProductsTruncated, Returned
<1>1. PICK d : d = F(fmt)!cvm_d_mul(x, y) OBVIOUS
<1>2. fmt' = fmt /\ fn' = "fmul" /\ a' = x /\ b' = y /\ ret' = d
  BY <1>1 DEF Called, Returns, FloatResult
<1>3. MulTruncates(fmt, x, y, d) BY <1>1, MulIs
<1>4. /\ NaN(a)' = F(fmt)!cvm_d_isnan(x) /\ NaN(b)' = F(fmt)!cvm_d_isnan(y)
      /\ Inf(a)' = F(fmt)!cvm_d_isinf(x) /\ Inf(b)' = F(fmt)!cvm_d_isinf(y)
      /\ Zero(a)' = F(fmt)!cvm_d_iszero(x) /\ Zero(b)' = F(fmt)!cvm_d_iszero(y)
      /\ Sign(a)' = F(fmt)!CVM_D_SIGN(x) /\ Sign(b)' = F(fmt)!CVM_D_SIGN(y)
      /\ Normal(a)' = (F(fmt)!CVM_D_EXP(x) \in 1 .. F(fmt)!ExpMax - 1)
      /\ Normal(b)' = (F(fmt)!CVM_D_EXP(y) \in 1 .. F(fmt)!ExpMax - 1)
      /\ NaN(ret)' = F(fmt)!cvm_d_isnan(d) /\ Inf(ret)' = F(fmt)!cvm_d_isinf(d)
      /\ Zero(ret)' = F(fmt)!cvm_d_iszero(d) /\ Sign(ret)' = F(fmt)!CVM_D_SIGN(d)
  BY <1>2 DEF NaN, Inf, Zero, Sign, Normal, Exp
<1>5. /\ (Sig(a) * Sig(b))' = SigProduct(fmt, x, y) /\ P' = F(fmt)!MantBits
      /\ (Exp(a) + Exp(b) - F(fmt)!Bias)' = MulExponent(fmt, x, y)
  BY <1>2 DEF Sig, Exp, P, SigProduct, MulExponent
<1>6. ASSUME NEW s, NEW k, NEW sig
      PROVE  IsNumber(ret, s, k, sig)' = NumberOf(fmt, d, s, k, sig)
  BY <1>2 DEF IsNumber, NumberOf, Sign, Inf, Zero, Exp, Sig
<1> QED BY <1>3, <1>4, <1>5, <1>6 DEF MulTruncates, ProductsTruncated

LEMMA MulStep == ProductsTruncated /\ SoftInv /\ LoopsInv /\ [Next]_vars => ProductsTruncated'
<1> SUFFICES ASSUME ProductsTruncated, SoftInv, LoopsInv, [Next]_vars PROVE ProductsTruncated'
  OBVIOUS
<1>1. fmt \in Formats BY DEF LoopsInv
<1>2. CASE CallFloat BY <1>1, <1>2, FloatCall, MulReturned
<1>3. CASE at' # "returned" \/ fn' \notin FloatFns
  BY <1>3 DEF ProductsTruncated, Returned, FloatFns
<1>4. CASE UNCHANGED vars
  <2>1. at' = at /\ fn' = fn /\ a' = a /\ b' = b /\ ret' = ret /\ fmt' = fmt
    BY <1>4 DEF vars
  <2>2. /\ NaN(a)' = NaN(a) /\ NaN(b)' = NaN(b) /\ NaN(ret)' = NaN(ret)
        /\ Inf(a)' = Inf(a) /\ Inf(b)' = Inf(b) /\ Inf(ret)' = Inf(ret)
        /\ Zero(a)' = Zero(a) /\ Zero(b)' = Zero(b) /\ Zero(ret)' = Zero(ret)
        /\ Sign(a)' = Sign(a) /\ Sign(b)' = Sign(b) /\ Sign(ret)' = Sign(ret)
        /\ Normal(a)' = Normal(a) /\ Normal(b)' = Normal(b) /\ P' = P
        /\ Sig(a)' = Sig(a) /\ Sig(b)' = Sig(b) /\ Exp(a)' = Exp(a) /\ Exp(b)' = Exp(b)
        /\ F(fmt)!Bias' = F(fmt)!Bias
    BY <2>1 DEF NaN, Inf, Zero, Sign, Normal, P, Sig, Exp
  <2>3. ASSUME NEW s, NEW k, NEW sig
        PROVE  IsNumber(ret, s, k, sig)' = IsNumber(ret, s, k, sig)
    BY <2>1 DEF IsNumber, Sign, Inf, Zero, Exp, Sig
  <2> QED BY <2>1, <2>2, <2>3 DEF ProductsTruncated, Returned
<1> QED BY <1>2, <1>3, <1>4, FloatReturns

(***************************************************************************)
(* cvm_d_mul truncates: with the four partial products of words and the      *)
(* three carries between them it gets the product of the significands, of   *)
(* one bit more or less, cut to the mantissa, for every format and all      *)
(* operands; a product of an infinity and a zero is not a number, overflow  *)
(* is infinite and underflow 0, with the sign of the product.               *)
(***************************************************************************)
THEOREM ProductsAreTruncated == Spec => []ProductsTruncated
<1>1. Init => ProductsTruncated /\ SoftInv /\ LoopsInv
  <2>1. Init => ProductsTruncated
    <3>1. ASSUME Init PROVE at = "idle" BY <3>1 DEF Init
    <3> QED BY <3>1 DEF ProductsTruncated, Returned
  <2> QED BY <2>1, SoftStart, LoopsStart
<1>2. (ProductsTruncated /\ SoftInv /\ LoopsInv) /\ [Next]_vars
      => (ProductsTruncated /\ SoftInv /\ LoopsInv)'
  BY MulStep, SoftStep, LoopsStep
<1> QED BY <1>1, <1>2, PTL DEF Spec

-----------------------------------------------------------------------------
(* The quotient of two significands, rounded.                               *)

LEMMA SameShr ==
  ASSUME NEW e, NEW x, NEW n PROVE F(e)!cvm_u64_shr(x, n) = cvm_u64_shr(x, n)
BY DEF F!cvm_u64_shr, F!I64, F!Shl, F!Shr, F!WordMod, cvm_u64_shr, I64, Shl, Shr, WordMod

LEMMA SameAdd ==
  ASSUME NEW e, NEW x, NEW y PROVE F(e)!cvm_i64_add(x, y) = cvm_i64_add(x, y)
BY DEF F!cvm_i64_add, F!I64, F!Carry, F!WordMod, cvm_i64_add, I64, Carry, WordMod

(* To the nearest multiple of n, ties to even, in multiples of n.           *)
Rounded(m, n) ==
  LET q == m \div n
      r == m % n
  IN  q + Carry(2 * r > n \/ (2 * r = n /\ q % 2 = 1))

(* Of one more bit of the quotient, g, and its remainder k.                 *)
IsRounded(m, n, k, q, g) ==
  /\ m \div n = q
  /\ Rounded(m, n) = q + Carry(g = 1 /\ (k # 0 \/ q % 2 = 1))

LEMMA GuardBit ==
  ASSUME NEW m \in Nat, NEW n \in Nat, NEW q \in Nat, NEW g \in {0, 1}, NEW k \in Nat, k < n,
         2 * m = n * (2 * q + g) + k
  PROVE  IsRounded(m, n, k, q, g) /\ \E r \in Nat : Division(m, n, q, r)
<1>1. PICK i \in Nat : i = n * q OBVIOUS
<1>2. 2 * m = 2 * i + n * g + k
  <2>1. n * (2 * q + g) = 2 * (n * q) + n * g OBVIOUS
  <2> QED BY <1>1, <2>1
<1>3. PICK r \in Int : r = m - i OBVIOUS
<1>4. g = 0 => 2 * r = k BY <1>2, <1>3
<1>5. g = 1 => 2 * r = n + k BY <1>2, <1>3
<1>6. r \in Nat /\ r < n BY <1>4, <1>5
<1>7. Division(m, n, q, r)
  <2>1. m = i + r BY <1>3
  <2> QED BY <1>1, <1>6, <2>1 DEF Division
<1>8. m \div n = q /\ m % n = r BY <1>7, DivisionIs
<1>9. 2 * r > n \/ (2 * r = n /\ q % 2 = 1) <=> g = 1 /\ (k # 0 \/ q % 2 = 1)
  BY <1>4, <1>5, <1>6
<1>10. Rounded(m, n) = q + Carry(g = 1 /\ (k # 0 \/ q % 2 = 1))
  BY <1>8, <1>9 DEF Rounded, Carry
<1> QED BY <1>6, <1>7, <1>8, <1>10 DEF IsRounded

(* Whether a pair is odd its lower word says.                               *)
LEMMA OddPair ==
  ASSUME NEW x \in Pairs
  PROVE  x.lo % 2 = Value(x) % 2
<1>1. PICK d \in Nat : WordMod = 2 * d BY HalfWord
<1>2. PICK l \in Nat, h \in Nat : l = x.lo /\ Value(x) = l + WordMod * h BY PairIs
<1>3. PICK i \in Nat : i = d * h OBVIOUS
<1>4. (2 * d) * h = 2 * (d * h) OBVIOUS
<1>5. Value(x) = l + 2 * i BY <1>1, <1>2, <1>3, <1>4
<1>6. (l + 2 * i) % 2 = l % 2
  <2>1. 2 \in Nat /\ 2 > 0 /\ i \in Int OBVIOUS
  <2> QED BY <2>1, ModAdds
<1> QED BY <1>2, <1>5, <1>6

LEMMA ShrOne ==
  ASSUME NEW x \in Pairs
  PROVE  cvm_u64_shr(x, 1) \in Pairs /\ Value(cvm_u64_shr(x, 1)) = Value(x) \div 2
<1>1. 1 % (2 * Bits) = 1
  <2>1. Division(1, 2 * Bits, 0, 1) BY WordFacts DEF Division
  <2> QED BY <2>1, DivisionIs
<1>2. 2 ^ 1 = 2
  <2>1. 0 \in Nat /\ 0 + 1 = 1 OBVIOUS
  <2> QED BY <2>1, Powers
<1>3. 1 \in Nat OBVIOUS
<1>4. /\ cvm_u64_shr(x, 1) \in Pairs
      /\ Value(cvm_u64_shr(x, 1)) = Value(x) \div 2 ^ (1 % (2 * Bits))
  BY <1>3, ShrExact
<1> QED BY <1>1, <1>2, <1>4

(* A significand, or what rounding up makes of the largest.                 *)
LEMMA UpperWord ==
  ASSUME NEW p \in Nat, p > 0, NEW x \in Pairs, WordMod * p <= Value(x),
         Value(x) <= 2 * (WordMod * p)
  PROVE  /\ x.hi \in Nat /\ x.lo \in Nat /\ x.lo < WordMod /\ p <= x.hi
         /\ Value(x) = x.lo + WordMod * x.hi
         /\ (x.hi \div (2 * p)) % 2 = Carry(Value(x) = 2 * (WordMod * p))
         /\ Value(x) # 2 * (WordMod * p) => x.hi < 2 * p
<1>1. PICK w \in Nat : w = WordMod /\ w > 1 BY WordIs
<1>2. PICK l \in Nat, h \in Nat : l = x.lo /\ h = x.hi /\ l < w /\ Value(x) = l + w * h
  BY <1>1, PairIs
<1>3. PICK v \in Nat, N \in Nat, d \in Nat : v = l + w * h /\ N = w * p /\ d = 2 * p OBVIOUS
<1>4. w * d = 2 * N
  <2>1. w * (2 * p) = 2 * (w * p) OBVIOUS
  <2> QED BY <1>3, <2>1
<1>5. h >= p
  <2>1. h >= p <=> l + w * h >= w * p BY <1>2, Above
  <2> QED BY <1>1, <1>2, <2>1
<1>6. h >= d <=> v >= 2 * N BY <1>2, <1>3, <1>4, Above
<1>7. v <= 2 * N BY <1>1, <1>2, <1>3
<1>8. CASE v = 2 * N
  <2>1. h < d + 1
    <3>1. w * (d + 1) = w * d + w OBVIOUS
    <3>2. PICK i \in Nat, j \in Nat : i = w * (d + 1) /\ j = d + 1 OBVIOUS
    <3>3. ~(v >= i) BY <1>1, <1>4, <1>8, <3>1, <3>2
    <3>4. h >= j <=> l + w * h >= w * j BY <1>2, Above
    <3> QED BY <1>3, <3>2, <3>3, <3>4
  <2>2. h = d BY <1>6, <1>8, <2>1
  <2>3. (h \div d) % 2 = 1
    <3>1. Division(h, d, 1, 0) BY <1>3, <2>2 DEF Division
    <3>2. h \div d = 1 BY <3>1, DivisionIs
    <3>3. 1 % 2 = 1 OBVIOUS
    <3> QED BY <3>2, <3>3
  <2>4. Carry(Value(x) = 2 * (WordMod * p)) = 1 BY <1>1, <1>2, <1>3, <1>8 DEF Carry
  <2> QED BY <1>1, <1>2, <1>3, <1>5, <1>8, <2>3, <2>4
<1>9. CASE v # 2 * N
  <2>1. h < d BY <1>6, <1>7, <1>9
  <2>2. (h \div d) % 2 = 0
    <3>1. Division(h, d, 0, h) BY <1>3, <2>1 DEF Division
    <3>2. h \div d = 0 BY <3>1, DivisionIs
    <3>3. 0 % 2 = 0 OBVIOUS
    <3> QED BY <3>2, <3>3
  <2>3. Carry(Value(x) = 2 * (WordMod * p)) = 0 BY <1>1, <1>2, <1>3, <1>9 DEF Carry
  <2> QED BY <1>1, <1>2, <1>3, <1>5, <2>1, <2>2, <2>3
<1> QED BY <1>8, <1>9

(* What cvm_d_div_round_rne makes of the number v: the words h and l, and   *)
(* one more in the exponent if v has grown by a bit.                        *)
Nearest(e, d, x, v, o, h, l) ==
  /\ d.q.hi = h /\ d.q.lo = l /\ d.exp = x + o
  /\ o = Carry(v = 2 * (WordMod * 2 ^ F(e)!TopBits))
  /\ l < WordMod /\ 2 ^ F(e)!TopBits <= h /\ h < 2 * 2 ^ F(e)!TopBits
  /\ v \div 2 ^ o = l + WordMod * h

Rounds(e, d, x, v) == \E o \in {0, 1}, h \in Nat, l \in Nat : Nearest(e, d, x, v, o, h, l)

(* q and r are the quotient and the remainder of 2 * m by n, and the        *)
(* quotient of m lies between a power of two, N, and twice it.             *)
OneBitMore(e, q, r, m, n, N) ==
  /\ N = WordMod * 2 ^ F(e)!TopBits
  /\ 2 * m = n * Value(q) + Value(r) /\ Value(r) < n
  /\ n * N <= m /\ m < 2 * (n * N)

LEMMA RoundIs ==
  ASSUME NEW e \in Formats, NEW q \in Pairs, NEW r \in Pairs, NEW x \in Int,
         NEW m \in Nat, NEW n \in Nat, NEW N \in Nat, OneBitMore(e, q, r, m, n, N)
  PROVE  Rounds(e, F(e)!cvm_d_div_round_rne(q, x, r), x, Rounded(m, n))
<1> DEFINE s == cvm_u64_shr(q, 1)
           d == F(e)!cvm_d_div_round_rne(q, x, r)
<1>0. /\ N = WordMod * 2 ^ F(e)!TopBits
      /\ 2 * m = n * Value(q) + Value(r) /\ Value(r) < n
      /\ n * N <= m /\ m < 2 * (n * N)
  BY DEF OneBitMore
<1>1. PICK t, p, k, w \in Nat : Widths(e, t, p, k, w) BY WidthsAre
<1>2. t = F(e)!TopBits /\ p = 2 ^ t /\ p >= 2 /\ w = WordMod /\ N = w * p BY <1>0, <1>1 DEF Widths
<1>3. 2 ^ (t + 1) = 2 * p BY <1>2, Powers
<1>4. 4 * N <= Mod /\ N > 0 BY <1>0, SignificandIs
<1>5. s \in Pairs /\ Value(s) = Value(q) \div 2 BY ShrOne
<1> HIDE DEF s
<1>6. PICK i \in Nat, g \in {0, 1} :
        Value(q) = 2 * i + g /\ Value(s) = i /\ q.lo % 2 = g /\ s.lo % 2 = i % 2
  <2>1. PICK v \in Nat : v = Value(q) BY ValueBound
  <2>2. PICK i \in Nat, g \in {0, 1} : i = v \div 2 /\ g = v % 2 /\ v = 2 * i + g BY <2>1
  <2> QED BY <1>5, <2>1, <2>2, OddPair
<1>7. PICK j \in Nat : j = Value(r) BY ValueBound
<1>8. PICK f \in Nat : IsRounded(m, n, j, i, g) /\ Division(m, n, i, f)
  <2>1. 2 * m = n * (2 * i + g) + j /\ j < n BY <1>0, <1>6, <1>7
  <2> QED BY <2>1, GuardBit
<1>9. N <= i /\ i < 2 * N BY <1>0, <1>8, QuotientBetween
<1>10. r # CVM_I64_ZERO <=> j # 0
  <2>1. CVM_I64_ZERO \in Pairs /\ Value(CVM_I64_ZERO) = 0
    BY IsPair, WordFacts DEF CVM_I64_ZERO
  <2> QED BY <1>7, <2>1, PairsEqual
<1> DEFINE up == g = 1 /\ (j # 0 \/ i % 2 = 1)
<1>11. PICK v \in Nat : v = Rounded(m, n) /\ v = i + Carry(up) /\ N <= v /\ v <= 2 * N
  <2>1. Carry(up) \in {0, 1} BY DEF Carry
  <2>2. Rounded(m, n) = i + Carry(up) BY <1>8 DEF IsRounded
  <2> HIDE DEF up
  <2>3. PICK z \in Nat : z = i + Carry(up) /\ N <= z /\ z <= 2 * N BY <1>9, <2>1
  <2> QED BY <2>2, <2>3
<1>12. up <=> q.lo % 2 = 1 /\ (r # CVM_I64_ZERO \/ s.lo % 2 = 1) BY <1>6, <1>10
<1>13. up \in BOOLEAN OBVIOUS
<1> HIDE DEF up
<1>14. PICK z \in Pairs : z = (IF up THEN cvm_i64_add(s, I64(1, 0)) ELSE s) /\ Value(z) = v
  <2>1. CASE up
    <3>1. I64(1, 0) \in Pairs /\ Value(I64(1, 0)) = 1 BY IsPair, WordFacts
    <3>2. /\ cvm_i64_add(s, I64(1, 0)) \in Pairs
          /\ Value(cvm_i64_add(s, I64(1, 0))) = (i + 1) % Mod
      BY <1>5, <1>6, <3>1, AddExact
    <3>3. i + 1 = v BY <1>11, <2>1 DEF Carry
    <3>4. v % Mod = v
      <4>1. v < Mod BY <1>4, <1>11, WordFacts
      <4>2. Division(v, Mod, 0, v) BY <4>1, WordFacts DEF Division
      <4> QED BY <4>2, DivisionIs
    <3> QED BY <2>1, <3>2, <3>3, <3>4
  <2>2. CASE ~up
    <3>1. v = i BY <1>11, <2>2 DEF Carry
    <3> QED BY <1>5, <1>6, <2>2, <3>1
  <2> QED BY <2>1, <2>2
<1>15. /\ z.hi \in Nat /\ z.lo \in Nat /\ z.lo < w /\ p <= z.hi /\ v = z.lo + w * z.hi
       /\ (z.hi \div (2 * p)) % 2 = Carry(v = 2 * N)
       /\ v # 2 * N => z.hi < 2 * p
  <2>1. p > 0 /\ WordMod * p <= Value(z) /\ Value(z) <= 2 * (WordMod * p)
    BY <1>2, <1>11, <1>14
  <2> QED BY <1>2, <1>14, <2>1, UpperWord
<1>16. up /\ (z.hi \div (2 * p)) % 2 = 1 <=> v = 2 * N
  <2>1. v = 2 * N => up
    <3>1. ~up => v = i BY <1>11 DEF Carry
    <3> QED BY <1>9, <3>1
  <2> QED BY <1>15, <2>1 DEF Carry
<1>17. d = [q |-> IF v = 2 * N THEN cvm_u64_shr(z, 1) ELSE z, exp |-> x + Carry(v = 2 * N)]
  <2>1. F(e)!cvm_u64_shr(q, 1) = s BY SameShr DEF s
  <2>2. F(e)!cvm_i64_add(s, F(e)!I64(1, 0)) = cvm_i64_add(s, I64(1, 0))
    BY SameAdd DEF F!I64, I64
  <2>3. F(e)!cvm_u64_shr(z, 1) = cvm_u64_shr(z, 1) BY SameShr
  <2>4. F(e)!CVM_I64_ZERO = CVM_I64_ZERO
    BY DEF F!CVM_I64_ZERO, CVM_I64_ZERO, F!I64, I64
  <2>5. F(e)!Shr(z.hi, F(e)!TopBits + 1) = z.hi \div (2 * p) BY <1>2, <1>3 DEF F!Shr
  <2> QED BY <1>12, <1>14, <1>16, <2>1, <2>2, <2>3, <2>4, <2>5
          DEF F!cvm_d_div_round_rne, F!Carry, Carry
<1> HIDE DEF d
<1>18. 2 ^ 0 = 1 /\ 2 ^ 1 = 2
  <2>1. 0 \in Nat /\ 0 + 1 = 1 OBVIOUS
  <2> QED BY <2>1, Powers
<1>19. CASE v = 2 * N
  <2>1. PICK y \in Pairs : y = cvm_u64_shr(z, 1) /\ Value(y) = N
    <3>1. (2 * N) \div 2 = N OBVIOUS
    <3> QED BY <1>14, <1>19, <3>1, ShrOne
  <2>2. /\ y.hi \in Nat /\ y.lo \in Nat /\ y.lo < w /\ p <= y.hi /\ N = y.lo + w * y.hi
        /\ y.hi < 2 * p
    <3>1. /\ p > 0 /\ WordMod * p <= Value(y) /\ Value(y) <= 2 * (WordMod * p)
          /\ Value(y) # 2 * (WordMod * p)
      BY <1>2, <1>4, <2>1
    <3> QED BY <1>2, <2>1, <3>1, UpperWord
  <2>3. v \div 2 ^ 1 = N BY <1>18, <1>19
  <2>4. d = [q |-> y, exp |-> x + 1] BY <1>17, <1>19, <2>1 DEF Carry
  <2>5. Nearest(e, d, x, v, 1, y.hi, y.lo)
    <3>1. d.q.hi = y.hi /\ d.q.lo = y.lo /\ d.exp = x + 1 BY <2>4
    <3>2. 1 = Carry(v = 2 * (WordMod * 2 ^ F(e)!TopBits)) BY <1>2, <1>19 DEF Carry
    <3>3. v \div 2 ^ 1 = y.lo + WordMod * y.hi BY <1>2, <2>2, <2>3
    <3> QED BY <1>2, <2>2, <3>1, <3>2, <3>3 DEF Nearest
  <2> QED BY <1>11, <2>2, <2>5 DEF d, Rounds
<1>20. CASE v # 2 * N
  <2>1. v \div 2 ^ 0 = v BY <1>18
  <2>2. d = [q |-> z, exp |-> x + 0] BY <1>17, <1>20 DEF Carry
  <2>3. Nearest(e, d, x, v, 0, z.hi, z.lo)
    <3>1. d.q.hi = z.hi /\ d.q.lo = z.lo /\ d.exp = x + 0 BY <2>2
    <3>2. 0 = Carry(v = 2 * (WordMod * 2 ^ F(e)!TopBits)) BY <1>2, <1>20 DEF Carry
    <3>3. v \div 2 ^ 0 = z.lo + WordMod * z.hi BY <1>2, <1>15, <2>1
    <3> QED BY <1>2, <1>15, <1>20, <3>1, <3>2, <3>3 DEF Nearest
  <2> QED BY <1>11, <1>15, <2>3 DEF d, Rounds
<1> QED BY <1>19, <1>20

Less(e, x, y) == Carry(Value(F(e)!Significand(x)) < Value(F(e)!Significand(y)))
Dividend(e, x, y) == Value(F(e)!Significand(x)) * 2 ^ (F(e)!MantBits + Less(e, x, y))
DivExponent(e, x, y) == F(e)!CVM_D_EXP(x) - F(e)!CVM_D_EXP(y) + F(e)!Bias - Less(e, x, y)
RoundedQuotient(e, x, y) == Rounded(Dividend(e, x, y), Value(F(e)!Significand(y)))

(* What cvm_d_div makes of two doubles.                                     *)
DivRounds(e, x, y, z) ==
  LET nan(d) == F(e)!cvm_d_isnan(d)
      inf(d) == F(e)!cvm_d_isinf(d)
      zero(d) == F(e)!cvm_d_iszero(d)
      normal(d) == F(e)!CVM_D_EXP(d) \in 1 .. F(e)!ExpMax - 1
      s == IF F(e)!CVM_D_SIGN(x) = F(e)!CVM_D_SIGN(y) THEN 0 ELSE 1
      o == Carry(RoundedQuotient(e, x, y) = 2 ^ (F(e)!MantBits + 1))
  IN  /\ nan(z) <=> nan(x) \/ nan(y) \/ (inf(x) /\ inf(y)) \/ (zero(x) /\ zero(y))
      /\ ~nan(z) /\ (inf(x) \/ zero(y)) => inf(z) /\ F(e)!CVM_D_SIGN(z) = s
      /\ ~nan(z) /\ (zero(x) \/ inf(y)) => zero(z) /\ F(e)!CVM_D_SIGN(z) = s
      /\ normal(x) /\ normal(y) =>
           NumberOf(e, z, s, DivExponent(e, x, y) + o, RoundedQuotient(e, x, y) \div 2 ^ o)

(* A NaN, an infinity, a zero and a normal number are four things.          *)
LEMMA KindsAre ==
  ASSUME NEW e \in Formats, NEW d
  PROVE  /\ ~(F(e)!cvm_d_isnan(d) /\ F(e)!cvm_d_isinf(d))
         /\ ~(F(e)!cvm_d_isnan(d) /\ F(e)!cvm_d_iszero(d))
         /\ ~(F(e)!cvm_d_isinf(d) /\ F(e)!cvm_d_iszero(d))
         /\ F(e)!CVM_D_EXP(d) \in 1 .. F(e)!ExpMax - 1 =>
              ~F(e)!cvm_d_isnan(d) /\ ~F(e)!cvm_d_isinf(d) /\ ~F(e)!cvm_d_iszero(d)
<1>1. PICK m \in Nat : m = F(e)!ExpMax /\ m # 0
  <2>1. PICK t, p, q, w \in Nat : Widths(e, t, p, q, w) BY WidthsAre
  <2>2. q >= 2 /\ F(e)!ExpMax = q - 1 BY <2>1 DEF Widths
  <2> QED BY <2>2
<1> QED BY <1>1 DEF F!cvm_d_isnan, F!cvm_d_isinf, F!cvm_d_iszero

LEMMA DivSpecialIs ==
  ASSUME NEW e \in Formats, NEW x \in Pairs, NEW y \in Pairs, ~F(e)!DivNeedsLoop(x, y)
  PROVE  DivRounds(e, x, y, F(e)!DivSpecial(x, y))
<1> DEFINE z == F(e)!DivSpecial(x, y)
           nan(d) == F(e)!cvm_d_isnan(d)
           inf(d) == F(e)!cvm_d_isinf(d)
           zero(d) == F(e)!cvm_d_iszero(d)
<1>1. PICK s \in {0, 1} : s = F(e)!ProductSign(x, y)
  <2>1. F(e)!ProductSign(x, y) \in {0, 1} BY ProductSignIs
  <2> QED BY <2>1
<1>2. s = IF F(e)!CVM_D_SIGN(x) = F(e)!CVM_D_SIGN(y) THEN 0 ELSE 1 BY <1>1, ProductSignIs
<1>3. /\ zero(F(e)!SignedZero(s)) /\ F(e)!CVM_D_SIGN(F(e)!SignedZero(s)) = s
      /\ inf(F(e)!SignedInf(s)) /\ F(e)!CVM_D_SIGN(F(e)!SignedInf(s)) = s
      /\ nan(F(e)!CVM_D_NAN) /\ ~nan(F(e)!SignedZero(s)) /\ ~nan(F(e)!SignedInf(s))
  BY SpecialIs
<1>4. nan(x) \/ nan(y) \/ inf(x) \/ inf(y) \/ zero(x) \/ zero(y) BY DEF F!DivNeedsLoop
<1>5. z = IF nan(x) \/ nan(y) THEN F(e)!CVM_D_NAN
          ELSE IF inf(x)
          THEN IF inf(y) THEN F(e)!CVM_D_NAN ELSE F(e)!SignedInf(s)
          ELSE IF inf(y) THEN F(e)!SignedZero(s)
          ELSE IF zero(y)
          THEN IF zero(x) THEN F(e)!CVM_D_NAN ELSE F(e)!SignedInf(s)
          ELSE F(e)!SignedZero(s)
  BY <1>1 DEF F!DivSpecial
<1> HIDE DEF z
<1>6. nan(z) <=> nan(x) \/ nan(y) \/ (inf(x) /\ inf(y)) \/ (zero(x) /\ zero(y))
  BY <1>3, <1>4, <1>5, KindsAre
<1>7. ~nan(z) /\ (inf(x) \/ zero(y)) => inf(z) /\ F(e)!CVM_D_SIGN(z) = s
  BY <1>3, <1>4, <1>5, <1>6, KindsAre
<1>8. ~nan(z) /\ (zero(x) \/ inf(y)) => zero(z) /\ F(e)!CVM_D_SIGN(z) = s
  BY <1>3, <1>4, <1>5, <1>6, KindsAre
<1>9. ~(/\ F(e)!CVM_D_EXP(x) \in 1 .. F(e)!ExpMax - 1
        /\ F(e)!CVM_D_EXP(y) \in 1 .. F(e)!ExpMax - 1)
  BY <1>4, KindsAre
<1> QED BY <1>2, <1>6, <1>7, <1>8, <1>9 DEF DivRounds, z

LEMMA DividendIs ==
  ASSUME NEW e \in Formats, NEW x \in Pairs, NEW y \in Pairs, NEW l \in FDivLoops(e),
         l.i = F(e)!FDivLast, l.adjust = -Less(e, x, y),
         FDivides(Value(F(e)!Significand(x)), Value(F(e)!Significand(y)), l)
  PROVE  \E m \in Nat, n \in Nat, N \in Nat :
           /\ m = Dividend(e, x, y) /\ n = Value(F(e)!Significand(y))
           /\ OneBitMore(e, l.q, l.r, m, n, N) /\ 2 * N = 2 ^ (F(e)!MantBits + 1)
<1> DEFINE s == F(e)!Significand(x)
           u == F(e)!Significand(y)
<1>1. PICK N \in Nat : /\ N > 0 /\ N = WordMod * 2 ^ F(e)!TopBits
                       /\ s \in Pairs /\ N <= Value(s) /\ Value(s) < 2 * N
                       /\ u \in Pairs /\ N <= Value(u) /\ Value(u) < 2 * N
  BY SignificandIs
<1>2. PICK i \in Nat, n \in Nat : i = Value(s) /\ n = Value(u) BY <1>1, ValueBound
<1>3. PICK k \in {0, 1} : k = Less(e, x, y) /\ (k = 1 <=> i < n) BY <1>2 DEF Less, Carry
<1>4. PICK t \in Nat, f \in Nat :
        t = F(e)!TopBits /\ f = F(e)!MantBits /\ f = t + Bits /\ l.i = f + 1
  <2>1. PICK t \in Nat : t = F(e)!TopBits /\ F(e)!MantBits = t + Bits BY FormatIs
  <2>2. t + Bits \in Nat BY WordFacts
  <2> QED BY <2>1, <2>2 DEF F!FDivLast
<1>5. 2 ^ f = N /\ 2 ^ (f + 1) = 2 * N
  <2>1. 2 ^ (t + Bits) = 2 ^ t * 2 ^ Bits BY <1>4, PowerSum, WordFacts
  <2>2. PICK p \in Nat : p = 2 ^ t BY Powers
  <2>3. PICK w \in Nat : w = WordMod BY WordIs
  <2>4. p * w = w * p OBVIOUS
  <2>5. 2 ^ f = N BY <1>1, <1>4, <2>1, <2>2, <2>3, <2>4 DEF WordMod
  <2> QED BY <1>4, <2>5, Powers
<1>6. PICK m \in Nat : m = Dividend(e, x, y) /\ m = i * 2 ^ (f + k) /\ 2 * m = i * 2 ^ (f + k + 1)
  <2>1. f + k \in Nat /\ f + k + 1 = (f + k) + 1 OBVIOUS
  <2>2. PICK j \in Nat : j = 2 ^ (f + k) /\ 2 ^ (f + k + 1) = 2 * j BY <2>1, Powers
  <2>3. PICK m \in Nat : m = i * j OBVIOUS
  <2>4. i * (2 * j) = 2 * (i * j) OBVIOUS
  <2>5. m = Dividend(e, x, y) BY <1>2, <1>3, <1>4, <2>2, <2>3 DEF Dividend
  <2> QED BY <2>2, <2>3, <2>4, <2>5
<1>7. 2 * m = n * Value(l.q) + Value(l.r) /\ Value(l.r) < n
  <2>1. l.i - l.adjust = f + k + 1
    <3>1. PICK z \in Int : z = -k /\ l.adjust = z BY <1>3
    <3> QED BY <1>4, <3>1
  <2>2. i * 2 ^ (l.i - l.adjust) = n * Value(l.q) + Value(l.r) /\ Value(l.r) < n
    BY <1>2 DEF FDivides
  <2> QED BY <1>6, <2>1, <2>2
<1>8. PICK c1 \in Nat, c2 \in Nat : c1 = i * N /\ c2 = n * N OBVIOUS
<1>9. c2 <= m /\ m < 2 * c2
  <2>1. CASE k = 0
    <3>1. f + k = f /\ n <= i /\ i < 2 * n BY <1>1, <1>2, <1>3, <2>1
    <3>2. m = c1 BY <1>5, <1>6, <1>8, <3>1
    <3>3. n * N <= i * N /\ i * N < (2 * n) * N BY <1>1, <3>1
    <3>4. (2 * n) * N = 2 * (n * N) OBVIOUS
    <3> QED BY <1>8, <3>2, <3>3, <3>4
  <2>2. CASE k = 1
    <3>1. f + k = f + 1 /\ n <= 2 * i /\ 2 * i < 2 * n BY <1>1, <1>2, <1>3, <2>2
    <3>2. m = 2 * c1
      <4>1. i * (2 * N) = 2 * (i * N) OBVIOUS
      <4> QED BY <1>5, <1>6, <1>8, <3>1, <4>1
    <3>3. n * N <= (2 * i) * N /\ (2 * i) * N < (2 * n) * N BY <1>1, <3>1
    <3>4. (2 * n) * N = 2 * (n * N) /\ (2 * i) * N = 2 * (i * N) OBVIOUS
    <3> QED BY <1>8, <3>2, <3>3, <3>4
  <2> QED BY <2>1, <2>2
<1>10. OneBitMore(e, l.q, l.r, m, n, N) BY <1>1, <1>7, <1>8, <1>9 DEF OneBitMore
<1> QED BY <1>2, <1>4, <1>5, <1>6, <1>10

LEMMA DivExponentIs ==
  ASSUME NEW e \in Formats, NEW x \in Pairs, NEW y \in Pairs
  PROVE  /\ F(e)!CVM_D_EXP(x) \in Int /\ F(e)!CVM_D_EXP(y) \in Int /\ F(e)!Bias \in Int
         /\ Less(e, x, y) \in {0, 1}
<1>1. PICK t, p, q, w \in Nat : Widths(e, t, p, q, w) BY WidthsAre
<1>2. t = F(e)!TopBits /\ p = 2 ^ t /\ q = 2 ^ e /\ p >= 2 /\ q >= 2 BY <1>1 DEF Widths
<1>3. ASSUME NEW z \in Pairs PROVE F(e)!CVM_D_EXP(z) \in Int
  <2>1. z.hi \in Nat
    <3>1. PICK m \in Nat : m = WordMod BY WordIs
    <3> QED BY <3>1, PairIs
  <2>2. PICK u \in Int : u = z.hi \div p BY <1>2, <2>1
  <2>3. u % q \in Int BY <1>2
  <2> QED BY <1>2, <2>2, <2>3 DEF F!CVM_D_EXP, F!Shr
<1>4. F(e)!Bias \in Int
  <2>1. e - 1 \in Nat BY FormatIs
  <2>2. 2 ^ (e - 1) \in Nat BY <2>1, Powers
  <2> QED BY <2>2 DEF F!Bias
<1>5. Less(e, x, y) \in {0, 1} BY DEF Less, Carry
<1> HIDE DEF F!CVM_D_EXP, F!Bias
<1> QED BY <1>3, <1>4, <1>5

LEMMA DivResultIs ==
  ASSUME NEW e \in Formats, NEW x \in Pairs, NEW y \in Pairs, NEW l \in FDivLoops(e),
         F(e)!DivNeedsLoop(x, y), l.i = F(e)!FDivLast, l.adjust = -Less(e, x, y),
         FDivides(Value(F(e)!Significand(x)), Value(F(e)!Significand(y)), l)
  PROVE  DivRounds(e, x, y, F(e)!FDivResult(x, y, l))
<1> DEFINE z == F(e)!FDivResult(x, y, l)
<1>1. PICK s \in {0, 1} :
        /\ s = F(e)!ProductSign(x, y)
        /\ s = IF F(e)!CVM_D_SIGN(x) = F(e)!CVM_D_SIGN(y) THEN 0 ELSE 1
  <2>1. F(e)!ProductSign(x, y) \in {0, 1} BY ProductSignIs
  <2> QED BY <2>1, ProductSignIs
<1>2. PICK m \in Nat, n \in Nat, N \in Nat :
        /\ m = Dividend(e, x, y) /\ n = Value(F(e)!Significand(y))
        /\ OneBitMore(e, l.q, l.r, m, n, N) /\ 2 * N = 2 ^ (F(e)!MantBits + 1)
  BY DividendIs
<1>3. PICK ex \in Int : ex = F(e)!CVM_D_EXP(x) - F(e)!CVM_D_EXP(y) + F(e)!Bias + l.adjust
                        /\ ex = DivExponent(e, x, y)
  <2>1. PICK i \in Int, j \in Int, k \in Int :
          i = F(e)!CVM_D_EXP(x) /\ j = F(e)!CVM_D_EXP(y) /\ k = F(e)!Bias
    BY DivExponentIs
  <2>2. PICK f \in Int : f = Less(e, x, y) /\ (f = 0 \/ f = 1) BY DivExponentIs
  <2>3. PICK g \in Int : g = l.adjust /\ g = -f BY <2>2
  <2>4. PICK h \in Int : h = i - j + k + g /\ h = i - j + k - f BY <2>3
  <2>5. DivExponent(e, x, y) = h BY <2>1, <2>2, <2>4 DEF DivExponent
  <2> QED BY <2>1, <2>3, <2>4, <2>5
<1>4. l.q \in Pairs /\ l.r \in Pairs BY DEF FDivLoops
<1> DEFINE d == F(e)!cvm_d_div_round_rne(l.q, ex, l.r)
<1>5. PICK o \in {0, 1}, h \in Nat, g \in Nat : Nearest(e, d, ex, Rounded(m, n), o, h, g)
  <2>1. PICK q \in Pairs, r \in Pairs : q = l.q /\ r = l.r BY <1>4
  <2>2. OneBitMore(e, q, r, m, n, N) BY <1>2, <2>1
  <2>3. Rounds(e, F(e)!cvm_d_div_round_rne(q, ex, r), ex, Rounded(m, n))
    BY <2>2, RoundIs
  <2> QED BY <2>1, <2>3 DEF Rounds
<1> HIDE DEF d
<1>6. RoundedQuotient(e, x, y) = Rounded(m, n) BY <1>2 DEF RoundedQuotient
<1> DEFINE v == RoundedQuotient(e, x, y)
<1>7. /\ d.q.hi = h /\ d.q.lo = g /\ d.exp = ex + o
      /\ o = Carry(v = 2 ^ (F(e)!MantBits + 1))
      /\ g < WordMod /\ 2 ^ F(e)!TopBits <= h /\ h < 2 * 2 ^ F(e)!TopBits
      /\ v \div 2 ^ o = g + WordMod * h
  <2>1. N = WordMod * 2 ^ F(e)!TopBits /\ 2 * N = 2 ^ (F(e)!MantBits + 1)
    BY <1>2 DEF OneBitMore
  <2> QED BY <1>5, <1>6, <2>1 DEF Nearest
<1> HIDE DEF v
<1>8. z = F(e)!Packed(s, ex + o, h, g) BY <1>1, <1>3, <1>7 DEF F!FDivResult, d
<1> HIDE DEF z
<1>9. ~F(e)!cvm_d_isnan(z) /\ NumberOf(e, z, s, ex + o, v \div 2 ^ o)
  <2>1. PICK xo \in Int : xo = ex + o OBVIOUS
  <2>2. LET f == F(e)!Packed(s, xo, h, g)
        IN  ~F(e)!cvm_d_isnan(f) /\ NumberOf(e, f, s, xo, g + WordMod * h)
    BY <1>7, PackedNumber
  <2> QED BY <1>7, <1>8, <2>1, <2>2
<1>10. /\ ~F(e)!cvm_d_isnan(x) /\ ~F(e)!cvm_d_isinf(x) /\ ~F(e)!cvm_d_iszero(x)
       /\ ~F(e)!cvm_d_isnan(y) /\ ~F(e)!cvm_d_isinf(y) /\ ~F(e)!cvm_d_iszero(y)
  BY DEF F!DivNeedsLoop
<1> QED BY <1>1, <1>3, <1>7, <1>9, <1>10 DEF DivRounds, v, z

-----------------------------------------------------------------------------
(* The exponent is one less if the dividend has to be shifted.              *)

LEMMA AdjustStarts ==
  ASSUME NEW e \in Formats, NEW x \in Pairs, NEW y \in Pairs
  PROVE  F(e)!FDivStart(x, y).adjust = -Less(e, x, y)
<1>1. PICK s \in Pairs, u \in Pairs : s = F(e)!Significand(x) /\ u = F(e)!Significand(y)
  BY SignificandIs
<1>2. F(e)!cvm_u64_lt(s, u) <=> Value(s) < Value(u) BY SameCompare, ComparesExact
<1> QED BY <1>1, <1>2 DEF F!FDivStart, F!Carry, Less, Carry

LEMMA AdjustStays ==
  ASSUME NEW e, NEW y, NEW l \in FDivLoops(e)
  PROVE  F(e)!FDivBit(y, l).adjust = l.adjust
<1>1. l = [i |-> l.i, q |-> l.q, r |-> l.r, adjust |-> l.adjust] BY DEF FDivLoops
<1> QED BY <1>1 DEF F!FDivBit

Adjusted ==
  at = "d_div" => F(fmt)!DivNeedsLoop(a, b) /\ loop.adjust = -Less(fmt, a, b)

LEMMA AdjustedStep == Adjusted /\ LoopsInv /\ [Next]_vars => Adjusted'
<1> SUFFICES ASSUME Adjusted, LoopsInv, [Next]_vars PROVE Adjusted' OBVIOUS
<1>a. fmt \in Formats /\ FDividing BY DEF LoopsInv
<1>1. CASE at' # "d_div" BY <1>1 DEF Adjusted
<1>2. CASE CallFDiv
  <2>1. PICK x \in Floats(fmt), y \in Floats(fmt) :
          /\ Called("fdiv", x, y, CVM_I64_ZERO)
          /\ IF F(fmt)!DivNeedsLoop(x, y)
             THEN Enters("d_div", F(fmt)!FDivStart(x, y))
             ELSE Returns(F(fmt)!DivSpecial(x, y))
    BY <1>2 DEF CallFDiv
  <2>2. x \in Pairs /\ y \in Pairs BY <1>a, OperandsAssumption
  <2>3. fmt' = fmt /\ a' = x /\ b' = y BY <2>1 DEF Called
  <2>4. CASE F(fmt)!DivNeedsLoop(x, y)
    <3>1. at' = "d_div" /\ loop' = F(fmt)!FDivStart(x, y) BY <2>1, <2>4 DEF Enters
    <3>2. F(fmt)!FDivStart(x, y).adjust = -Less(fmt, x, y) BY <1>a, <2>2, AdjustStarts
    <3> QED BY <2>3, <2>4, <3>1, <3>2 DEF Adjusted
  <2>5. CASE ~F(fmt)!DivNeedsLoop(x, y)
    <3>1. at' = "returned" BY <2>1, <2>5 DEF Returns
    <3> QED BY <1>1, <3>1
  <2> QED BY <2>4, <2>5
<1>3. CASE FDivIteration
  <2>1. /\ at = "d_div" /\ loop' = F(fmt)!FDivBit(b, loop)
        /\ fmt' = fmt /\ a' = a /\ b' = b
    BY <1>3 DEF FDivIteration, call
  <2>2. F(fmt)!FDivBit(b, loop).adjust = loop.adjust
    BY <1>a, <2>1, AdjustStays DEF FDividing
  <2> QED BY <2>1, <2>2 DEF Adjusted
<1>4. CASE UNCHANGED vars
  <2>1. at' = at /\ fmt' = fmt /\ a' = a /\ b' = b /\ loop' = loop BY <1>4 DEF vars
  <2> QED BY <2>1 DEF Adjusted
<1>5. CASE Resume \/ CallInt \/ CallFunnel \/ CallFixed \/ CallDiv \/ DivReturn
  <2>1. at' # "d_div"
    BY <1>5 DEF Resume, CallInt, CallFunnel, CallFixed, CallDiv, DivReturn, Returns, Enters
  <2> QED BY <1>1, <2>1
<1>6. CASE CallFloat \/ CallFromWord \/ CallFrom64 \/ CallToWord
  <2>1. at' # "d_div"
    BY <1>6 DEF CallFloat, CallFromWord, CallFrom64, CallToWord, Returns
  <2> QED BY <1>1, <2>1
<1>7. CASE DivIteration \/ FDivReturn \/ CallSqrt \/ SqrtIteration \/ SqrtReturn
  <2>1. at' # "d_div"
    BY <1>7 DEF DivIteration, FDivReturn, CallSqrt, SqrtIteration, SqrtReturn, Returns, Enters
  <2> QED BY <1>1, <2>1
<1> QED BY <1>2, <1>3, <1>4, <1>5, <1>6, <1>7 DEF Next

LEMMA RoundedReturned ==
  ASSUME fmt' \in Formats, fn' = "fdiv", DivRounds(fmt', a', b', ret')
  PROVE  QuotientsNearest'
<1>1. PICK e, x, y, d : fmt' = e /\ a' = x /\ b' = y /\ ret' = d OBVIOUS
<1>2. DivRounds(e, x, y, d) BY <1>1
<1>3. /\ NaN(a)' = F(e)!cvm_d_isnan(x) /\ NaN(b)' = F(e)!cvm_d_isnan(y)
      /\ Inf(a)' = F(e)!cvm_d_isinf(x) /\ Inf(b)' = F(e)!cvm_d_isinf(y)
      /\ Zero(a)' = F(e)!cvm_d_iszero(x) /\ Zero(b)' = F(e)!cvm_d_iszero(y)
      /\ Sign(a)' = F(e)!CVM_D_SIGN(x) /\ Sign(b)' = F(e)!CVM_D_SIGN(y)
      /\ Normal(a)' = (F(e)!CVM_D_EXP(x) \in 1 .. F(e)!ExpMax - 1)
      /\ Normal(b)' = (F(e)!CVM_D_EXP(y) \in 1 .. F(e)!ExpMax - 1)
      /\ NaN(ret)' = F(e)!cvm_d_isnan(d) /\ Inf(ret)' = F(e)!cvm_d_isinf(d)
      /\ Zero(ret)' = F(e)!cvm_d_iszero(d) /\ Sign(ret)' = F(e)!CVM_D_SIGN(d)
  BY <1>1 DEF NaN, Inf, Zero, Sign, Normal, Exp
<1>4. /\ Carry(Sig(a) < Sig(b))' = Less(e, x, y)
      /\ Rounded(Sig(a) * 2 ^ (P + Carry(Sig(a) < Sig(b))), Sig(b))' = RoundedQuotient(e, x, y)
      /\ (Exp(a) - Exp(b) + F(fmt)!Bias - Carry(Sig(a) < Sig(b)))' = DivExponent(e, x, y)
      /\ P' = F(e)!MantBits
  BY <1>1 DEF Sig, Exp, P, Less, Dividend, DivExponent, RoundedQuotient
<1>5. ASSUME NEW s, NEW k, NEW sig
      PROVE  IsNumber(ret, s, k, sig)' = NumberOf(e, d, s, k, sig)
  BY <1>1 DEF IsNumber, NumberOf, Sign, Inf, Zero, Exp, Sig
<1>6. PICK k, v, o, s :
        /\ k = Less(e, x, y) /\ v = RoundedQuotient(e, x, y)
        /\ o = Carry(v = 2 ^ (F(e)!MantBits + 1))
        /\ s = IF F(e)!CVM_D_SIGN(x) = F(e)!CVM_D_SIGN(y) THEN 0 ELSE 1
  OBVIOUS
<1>7. /\ NaN(ret)' <=> NaN(a)' \/ NaN(b)' \/ (Inf(a)' /\ Inf(b)') \/ (Zero(a)' /\ Zero(b)')
      /\ ~NaN(ret)' /\ (Inf(a)' \/ Zero(b)') => Inf(ret)' /\ Sign(ret)' = s
      /\ ~NaN(ret)' /\ (Zero(a)' \/ Inf(b)') => Zero(ret)' /\ Sign(ret)' = s
      /\ Normal(a)' /\ Normal(b)' => NumberOf(e, d, s, DivExponent(e, x, y) + o, v \div 2 ^ o)
  BY <1>2, <1>3, <1>6 DEF DivRounds
<1>8. /\ s = (IF Sign(a) = Sign(b) THEN 0 ELSE 1)'
      /\ o = Carry(Rounded(Sig(a) * 2 ^ (P + Carry(Sig(a) < Sig(b))), Sig(b)) = 2 ^ (P + 1))'
  BY <1>3, <1>4, <1>6
<1>9. Normal(a)' /\ Normal(b)' =>
        LET sig == Rounded(Sig(a) * 2 ^ (P + Carry(Sig(a) < Sig(b))), Sig(b))
            over == Carry(sig = 2 ^ (P + 1))
        IN  IsNumber(ret, IF Sign(a) = Sign(b) THEN 0 ELSE 1,
                     Exp(a) - Exp(b) + F(fmt)!Bias - Carry(Sig(a) < Sig(b)) + over,
                     sig \div 2 ^ over)'
  BY <1>4, <1>5, <1>6, <1>7, <1>8
<1> QED BY <1>7, <1>8, <1>9 DEF QuotientsNearest, Rounded

LEMMA QuotientStep ==
  QuotientsNearest /\ Adjusted /\ SoftInv /\ LoopsInv /\ [Next]_vars => QuotientsNearest'
<1> SUFFICES ASSUME QuotientsNearest, Adjusted, SoftInv, LoopsInv, [Next]_vars
             PROVE  QuotientsNearest'
  OBVIOUS
<1>a. fmt \in Formats /\ FDividing /\ Dividing /\ FloatLoops BY DEF LoopsInv, SoftInv
<1>1. CASE at' # "returned" \/ fn' # "fdiv" BY <1>1 DEF QuotientsNearest, Returned
<1>2. CASE CallFDiv
  <2>1. PICK x \in Floats(fmt), y \in Floats(fmt) :
          /\ Called("fdiv", x, y, CVM_I64_ZERO)
          /\ IF F(fmt)!DivNeedsLoop(x, y)
             THEN Enters("d_div", F(fmt)!FDivStart(x, y))
             ELSE Returns(F(fmt)!DivSpecial(x, y))
    BY <1>2 DEF CallFDiv
  <2>2. x \in Pairs /\ y \in Pairs BY <1>a, OperandsAssumption
  <2>3. fmt' = fmt /\ fn' = "fdiv" /\ a' = x /\ b' = y BY <2>1 DEF Called
  <2>4. CASE F(fmt)!DivNeedsLoop(x, y)
    <3>1. at' = "d_div" BY <2>1, <2>4 DEF Enters
    <3> QED BY <1>1, <3>1
  <2>5. CASE ~F(fmt)!DivNeedsLoop(x, y)
    <3>1. ret' = F(fmt)!DivSpecial(x, y) BY <2>1, <2>5 DEF Returns
    <3>2. DivRounds(fmt, x, y, F(fmt)!DivSpecial(x, y)) BY <1>a, <2>2, <2>5, DivSpecialIs
    <3> QED BY <1>a, <2>3, <3>1, <3>2, RoundedReturned
  <2> QED BY <2>4, <2>5
<1>3. CASE FDivReturn
  <2>1. /\ at = "d_div" /\ loop.i = F(fmt)!FDivLast /\ ret' = F(fmt)!FDivResult(a, b, loop)
        /\ fmt' = fmt /\ fn' = fn /\ a' = a /\ b' = b
    BY <1>3 DEF FDivReturn, Returns, call
  <2>2. /\ fn = "fdiv" /\ a \in Pairs /\ b \in Pairs /\ loop \in FDivLoops(fmt)
        /\ FDivides(Value(F(fmt)!Significand(a)), Value(F(fmt)!Significand(b)), loop)
        /\ F(fmt)!DivNeedsLoop(a, b) /\ loop.adjust = -Less(fmt, a, b)
    BY <1>a, <2>1 DEF FDividing, FloatLoops, Adjusted
  <2>3. DivRounds(fmt, a, b, F(fmt)!FDivResult(a, b, loop))
    BY <1>a, <2>1, <2>2, DivResultIs
  <2> QED BY <1>a, <2>1, <2>2, <2>3, RoundedReturned
<1>4. CASE UNCHANGED vars
  <2>1. at' = at /\ fn' = fn /\ a' = a /\ b' = b /\ ret' = ret /\ fmt' = fmt
    BY <1>4 DEF vars
  <2>2. /\ NaN(a)' = NaN(a) /\ NaN(b)' = NaN(b) /\ NaN(ret)' = NaN(ret)
        /\ Inf(a)' = Inf(a) /\ Inf(b)' = Inf(b) /\ Inf(ret)' = Inf(ret)
        /\ Zero(a)' = Zero(a) /\ Zero(b)' = Zero(b) /\ Zero(ret)' = Zero(ret)
        /\ Sign(a)' = Sign(a) /\ Sign(b)' = Sign(b) /\ Sign(ret)' = Sign(ret)
        /\ Normal(a)' = Normal(a) /\ Normal(b)' = Normal(b) /\ P' = P
        /\ Sig(a)' = Sig(a) /\ Sig(b)' = Sig(b) /\ Exp(a)' = Exp(a) /\ Exp(b)' = Exp(b)
        /\ F(fmt)!Bias' = F(fmt)!Bias
    BY <2>1 DEF NaN, Inf, Zero, Sign, Normal, P, Sig, Exp
  <2>3. ASSUME NEW s, NEW k, NEW sig
        PROVE  IsNumber(ret, s, k, sig)' = IsNumber(ret, s, k, sig)
    BY <2>1 DEF IsNumber, Sign, Inf, Zero, Exp, Sig
  <2> QED BY <2>1, <2>2, <2>3 DEF QuotientsNearest, Returned
<1>5. CASE Resume \/ CallInt \/ CallFunnel \/ CallFixed \/ CallDiv \/ DivIteration \/ DivReturn
  <2>1. at' # "returned" \/ fn' # "fdiv"
    BY <1>5, <1>a DEF Resume, CallInt, CallFunnel, CallFixed, CallDiv, DivIteration, DivReturn,
       Called, Enters, call, Dividing, IntFns, FunnelFns, DivFns
  <2> QED BY <1>1, <2>1
<1>6. CASE CallFloat \/ CallFromWord \/ CallFrom64 \/ CallToWord
  <2>1. fn' # "fdiv"
    BY <1>6 DEF CallFloat, CallFromWord, CallFrom64, CallToWord, Called,
       FloatFns, FromWord, From64, ToWord
  <2> QED BY <1>1, <2>1
<1>7. CASE FDivIteration \/ CallSqrt \/ SqrtIteration \/ SqrtReturn
  <2>1. at' # "returned" \/ fn' # "fdiv"
    BY <1>7, <1>a DEF FDivIteration, CallSqrt, SqrtIteration, SqrtReturn, Called, call, FloatLoops
  <2> QED BY <1>1, <2>1
<1> QED BY <1>2, <1>3, <1>4, <1>5, <1>6, <1>7 DEF Next

(***************************************************************************)
(* cvm_d_div rounds to the nearest double, ties to even, for every format    *)
(* and all operands: the loop leaves one bit of the quotient more than the   *)
(* mantissa holds and the rest of the dividend in the remainder, the two    *)
(* decide whether cvm_d_div_round_rne counts one up, and if that fills the   *)
(* significand the exponent grows.  Invalid quotients are no numbers, a      *)
(* division by zero and overflow are infinite, underflow is 0, all with the  *)
(* sign of the quotient.                                                    *)
(***************************************************************************)
THEOREM QuotientsAreNearest == Spec => []QuotientsNearest
<1>1. Init => QuotientsNearest /\ Adjusted /\ SoftInv /\ LoopsInv
  <2>1. Init => QuotientsNearest /\ Adjusted
    <3>1. ASSUME Init PROVE at = "idle" BY <3>1 DEF Init
    <3> QED BY <3>1 DEF QuotientsNearest, Returned, Adjusted
  <2> QED BY <2>1, SoftStart, LoopsStart
<1>2. (QuotientsNearest /\ Adjusted /\ SoftInv /\ LoopsInv) /\ [Next]_vars
      => (QuotientsNearest /\ Adjusted /\ SoftInv /\ LoopsInv)'
  BY QuotientStep, AdjustedStep, SoftStep, LoopsStep
<1> QED BY <1>1, <1>2, PTL DEF Spec

-----------------------------------------------------------------------------
(* Sums and differences.                                                    *)

LEMMA PowerOrder ==
  ASSUME NEW m \in Nat, NEW n \in Nat, m <= n PROVE 2 ^ m <= 2 ^ n
<1>1. n - m \in Nat /\ m + (n - m) = n OBVIOUS
<1>2. PICK i \in Nat, j \in Nat : i = 2 ^ m /\ j = 2 ^ (n - m) /\ j >= 1 BY <1>1, Powers
<1>3. 2 ^ n = i * j
  <2>1. 2 ^ (m + (n - m)) = 2 ^ m * 2 ^ (n - m) BY <1>1, PowerSum
  <2> QED BY <1>1, <1>2, <2>1
<1>4. i * j >= i BY <1>2
<1> QED BY <1>2, <1>3, <1>4

(* Between which powers of two a number lies.                               *)
Leads(k, v) == 2 ^ k <= v /\ v < 2 ^ (k + 1)

LEMMA LeadsUnder ==
  ASSUME NEW k \in Nat, NEW v \in Nat, Leads(k, v), NEW n \in Nat, v < 2 ^ n PROVE k < n
<1> SUFFICES ASSUME n <= k PROVE FALSE OBVIOUS
<1>1. 2 ^ n <= 2 ^ k BY PowerOrder
<1>2. PICK i \in Nat, j \in Nat : i = 2 ^ n /\ j = 2 ^ k BY Powers
<1> QED BY <1>1, <1>2 DEF Leads

LEMMA TopBitIs ==
  ASSUME NEW e \in Formats, NEW x \in Nat, x > 0, x < WordMod
  PROVE  \E k \in 0 .. Bits - 1 : k = F(e)!cvm__top_bit_u32(x) /\ Leads(k, x)
<1> DEFINE T == {n \in Nat : x < 2 ^ (n + 1)}
<1>1. Bits - 1 \in T
  <2>1. Bits - 1 \in Nat /\ (Bits - 1) + 1 = Bits BY WordFacts
  <2> QED BY <2>1 DEF WordMod
<1>2. PICK k \in T : \A n \in T : k <= n
  <2>1. T \subseteq Nat /\ T # {} BY <1>1
  <2> HIDE DEF T
  <2> QED BY <2>1, Least
<1>3. k \in 0 .. Bits - 1 BY <1>1, <1>2, WordFacts
<1>4. Leads(k, x)
  <2>1. CASE k = 0
    <3>1. 2 ^ k = 1 BY <2>1, Powers
    <3> QED BY <1>2, <3>1 DEF Leads
  <2>2. CASE k # 0
    <3>1. k - 1 \in Nat /\ (k - 1) + 1 = k BY <1>2, <2>2
    <3>2. k - 1 \notin T BY <1>2, <3>1
    <3>3. PICK i \in Nat : i = 2 ^ k BY <1>2, Powers
    <3>4. ~(x < i) BY <3>1, <3>2, <3>3
    <3> QED BY <1>2, <3>3, <3>4 DEF Leads
  <2> QED BY <2>1, <2>2
<1>5. F(e)!cvm__top_bit_u32(x) \in 0 .. Bits - 1 /\ Leads(F(e)!cvm__top_bit_u32(x), x)
  BY <1>3, <1>4 DEF F!cvm__top_bit_u32, Leads
<1> QED BY <1>5

LEMMA LeadingIs ==
  ASSUME NEW e \in Formats, NEW x \in Pairs, Value(x) # 0
  PROVE  \E k \in Nat : k = F(e)!LeadingBit(x) /\ Leads(k, Value(x))
<1>1. PICK w \in Nat : w = WordMod /\ w > 1 BY WordIs
<1>2. PICK l \in Nat, h \in Nat : l = x.lo /\ h = x.hi /\ l < w /\ h < w /\ Value(x) = l + w * h
  BY <1>1, PairIs
<1>3. CASE h = 0
  <2>1. Value(x) = l
    <3>1. w * 0 = 0 OBVIOUS
    <3> QED BY <1>2, <1>3, <3>1
  <2>2. l > 0 /\ l < WordMod BY <1>1, <1>2, <2>1
  <2>3. PICK k \in 0 .. Bits - 1 : k = F(e)!cvm__top_bit_u32(l) /\ Leads(k, l)
    BY <2>2, TopBitIs
  <2>4. k \in Nat BY WordFacts
  <2> QED BY <1>2, <1>3, <2>1, <2>3, <2>4 DEF F!LeadingBit
<1>4. CASE h # 0
  <2>1. h > 0 /\ h < WordMod BY <1>1, <1>2, <1>4
  <2>2. PICK k \in 0 .. Bits - 1 : k = F(e)!cvm__top_bit_u32(h) /\ Leads(k, h)
    BY <2>1, TopBitIs
  <2>3. k \in Nat /\ Bits \in Nat /\ Bits + k \in Nat /\ k + 1 \in Nat BY WordFacts
  <2>4. PICK p \in Nat : p = 2 ^ k /\ 2 ^ (k + 1) = 2 * p BY <2>3, Powers
  <2>5. PICK m \in Nat : m = w * p /\ 2 ^ (Bits + k) = m
    <3>1. 2 ^ (Bits + k) = 2 ^ Bits * 2 ^ k BY <2>3, PowerSum
    <3> QED BY <1>1, <2>4, <3>1 DEF WordMod
  <2>6. 2 ^ (Bits + k + 1) = 2 * m BY <2>3, <2>5, Powers
  <2>7. PICK v \in Nat : v = l + w * h OBVIOUS
  <2>8. v >= m
    <3>1. h >= p <=> l + w * h >= w * p BY <1>2, Above
    <3> QED BY <2>2, <2>4, <2>5, <2>7, <3>1 DEF Leads
  <2>9. v < 2 * m
    <3>1. PICK d \in Nat : d = 2 * p OBVIOUS
    <3>2. h >= d <=> l + w * h >= w * d BY <1>2, Above
    <3>3. w * (2 * p) = 2 * (w * p) OBVIOUS
    <3>4. w * d = 2 * m BY <2>5, <3>1, <3>3
    <3>5. ~(h >= d) BY <2>2, <2>4, <3>1 DEF Leads
    <3> QED BY <2>7, <3>2, <3>4, <3>5
  <2>10. Leads(Bits + k, v) BY <2>5, <2>6, <2>8, <2>9 DEF Leads
  <2>11. F(e)!LeadingBit(x) = Bits + k BY <1>2, <1>4, <2>2 DEF F!LeadingBit
  <2> QED BY <1>2, <2>3, <2>7, <2>10, <2>11
<1> QED BY <1>3, <1>4

(* An amount that is less than the width of a pair.                         *)
LEMMA Within ==
  ASSUME NEW d \in Nat, d < 2 * Bits PROVE d % (2 * Bits) = d
<1>1. Division(d, 2 * Bits, 0, d) BY WordFacts DEF Division
<1> QED BY <1>1, DivisionIs

(* The significand added is the one shifted, in two words.                   *)
LEMMA AlignedIs ==
  ASSUME NEW e \in Formats, NEW x \in Pairs, NEW d \in Nat, d < 2 * Bits
  PROVE  F(e)!AlignedBy(x, d) \in Pairs /\ Value(F(e)!AlignedBy(x, d)) = Value(x) \div 2 ^ d
<1>1. d % (2 * Bits) = d BY Within
<1>2. F(e)!AlignedBy(x, d) = cvm_u64_shr(x, d)
  <2>1. Bits \in Nat /\ Bits > 0 BY WordFacts
  <2>2. CASE d = 0
    <3>1. ~(d >= Bits) /\ ~(d > 0) BY <2>1, <2>2
    <3> QED BY <1>1, <2>2, <3>1 DEF F!AlignedBy, cvm_u64_shr
  <2>3. CASE d >= Bits
    <3>1. d # 0 /\ ~(d < Bits) BY <2>1, <2>3
    <3> QED BY <1>1, <2>3, <3>1 DEF F!AlignedBy, cvm_u64_shr, F!Shr, Shr, F!I64, I64
  <2>4. CASE d > 0 /\ d < Bits
    <3>1. d # 0 /\ ~(d >= Bits) BY <2>1, <2>4
    <3> QED BY <1>1, <2>4, <3>1
            DEF F!AlignedBy, cvm_u64_shr, F!Shr, Shr, F!Shl, Shl, F!WordMod, WordMod, F!I64, I64
  <2> QED BY <2>1, <2>2, <2>3, <2>4
<1> QED BY <1>1, <1>2, ShrExact

(* The unit of a significand: its leading 1.                                *)
Unit(e, f, N) ==
  /\ N = WordMod * 2 ^ F(e)!TopBits /\ N > 0 /\ 4 * N <= Mod
  /\ f = F(e)!MantBits /\ f + 1 < 2 * Bits /\ 2 ^ f = N /\ 2 ^ (f + 1) = 2 * N

LEMMA UnitIs ==
  ASSUME NEW e \in Formats
  PROVE  \E f \in Nat, N \in Nat : Unit(e, f, N)
<1>1. PICK N \in Nat : N > 0 /\ 4 * N <= Mod /\ N = WordMod * 2 ^ F(e)!TopBits BY SignificandIs
<1>2. PICK t \in Nat : t = F(e)!TopBits /\ F(e)!MantBits = t + Bits /\ t + Bits + 1 <= 2 * Bits - 1
  BY FormatIs
<1>3. PICK f \in Nat : f = t + Bits BY WordFacts
<1>4. 2 ^ f = N
  <2>1. 2 ^ (t + Bits) = 2 ^ t * 2 ^ Bits BY PowerSum, WordFacts
  <2>2. PICK p \in Nat, w \in Nat : p = 2 ^ t /\ w = WordMod BY Powers, WordIs
  <2>3. p * w = w * p OBVIOUS
  <2> QED BY <1>1, <1>2, <1>3, <2>1, <2>2, <2>3 DEF WordMod
<1>5. 2 ^ (f + 1) = 2 * N BY <1>4, Powers
<1>6. f + 1 < 2 * Bits BY <1>2, <1>3, WordFacts
<1> QED BY <1>1, <1>2, <1>3, <1>4, <1>5, <1>6 DEF Unit

LEMMA UnitSignificand ==
  ASSUME NEW e \in Formats, NEW f, NEW N, Unit(e, f, N), NEW x \in Pairs
  PROVE  /\ F(e)!Significand(x) \in Pairs
         /\ N <= Value(F(e)!Significand(x)) /\ Value(F(e)!Significand(x)) < 2 * N
BY SignificandIs DEF Unit

(* A finite number packed from a whole significand.                         *)
LEMMA PackWhole ==
  ASSUME NEW e \in Formats, NEW f \in Nat, NEW N \in Nat, Unit(e, f, N), NEW s \in {0, 1},
         NEW x \in Nat, x < F(e)!ExpMax,
         NEW r \in Pairs, N <= Value(r), Value(r) < 2 * N
  PROVE  LET z == F(e)!cvm_d_pack(s, x, r.hi, r.lo)
         IN  /\ ~F(e)!cvm_d_isnan(z)
             /\ x >= 1 => NumberOf(e, z, s, x, Value(r)) /\ F(e)!CVM_D_EXP(z) = x
<1> DEFINE z == F(e)!cvm_d_pack(s, x, r.hi, r.lo)
<1>1. PICK t, p, q, w \in Nat : Widths(e, t, p, q, w) BY WidthsAre
<1>2. t = F(e)!TopBits /\ p = 2 ^ t /\ w = WordMod /\ p >= 2 /\ q >= 2 /\ F(e)!ExpMax = q - 1
  BY <1>1 DEF Widths
<1>3. N = w * p BY <1>2 DEF Unit
<1>4. /\ r.hi \in Nat /\ r.lo \in Nat /\ r.lo < w /\ p <= r.hi /\ r.hi < 2 * p
      /\ Value(r) = r.lo + w * r.hi
  <2>1. PICK v \in Nat : v = Value(r) BY ValueBound
  <2>2. /\ p > 0 /\ WordMod * p <= Value(r) /\ Value(r) <= 2 * (WordMod * p)
        /\ Value(r) # 2 * (WordMod * p)
    BY <1>2, <1>3, <2>1
  <2> QED BY <1>2, <2>2, UpperWord
<1>5. x \in 0 .. q - 1 /\ x # F(e)!ExpMax BY <1>2
<1>6. F(e)!CVM_D_EXP(z) = x BY <1>1, <1>4, <1>5, PackIs
<1>7. ~F(e)!cvm_d_isnan(z) BY <1>5, <1>6 DEF F!cvm_d_isnan
<1>8. ASSUME x >= 1 PROVE NumberOf(e, z, s, x, Value(r))
  <2>1. F(e)!Packed(s, x, r.hi, r.lo) = z
    <3>1. ~(x >= F(e)!ExpMax) /\ ~(x <= 0) BY <1>2, <1>8
    <3> QED BY <3>1 DEF F!Packed
  <2>2. NumberOf(e, F(e)!Packed(s, x, r.hi, r.lo), s, x, r.lo + WordMod * r.hi)
    <3>1. r.lo < WordMod /\ 2 ^ F(e)!TopBits <= r.hi /\ r.hi < 2 * 2 ^ F(e)!TopBits /\ x \in Int
      BY <1>2, <1>4
    <3> QED BY <1>4, <3>1, PackedNumber
  <2> HIDE DEF z
  <2> QED BY <1>2, <1>4, <2>1, <2>2
<1> QED BY <1>6, <1>7, <1>8

(* The difference of significands of the value v: too small, or shifted by   *)
(* k bits.                                                                 *)
TooSmall(e, z, x, v) ==
  F(e)!cvm_d_iszero(z) /\ (v = 0 \/ \E k \in Nat : k >= x /\ v * 2 ^ k < 2 ^ (F(e)!MantBits + 1))
ShiftedBy(e, z, s, x, v, k) ==
  k < x /\ NumberOf(e, z, s, x - k, v * 2 ^ k) /\ F(e)!CVM_D_EXP(z) = x - k
Difference(e, z, s, x, v) ==
  /\ ~F(e)!cvm_d_isnan(z)
  /\ x >= 1 => TooSmall(e, z, x, v) \/ \E k \in Nat : ShiftedBy(e, z, s, x, v, k)

LEMMA SubtractedIs ==
  ASSUME NEW e \in Formats, NEW f \in Nat, NEW N \in Nat, Unit(e, f, N), NEW s \in {0, 1},
         NEW x \in Nat, x < F(e)!ExpMax,
         NEW i \in Pairs, NEW j \in Pairs, Value(j) <= Value(i), Value(i) < 2 * N
  PROVE  /\ Difference(e, F(e)!Subtracted(s, x, i, j), s, x, Value(i) - Value(j))
         /\ Value(j) = 0 /\ N <= Value(i) =>
              F(e)!Subtracted(s, x, i, j) = F(e)!cvm_d_pack(s, x, i.hi, i.lo)
<1> DEFINE z == F(e)!Subtracted(s, x, i, j)
           r == cvm_i64_sub(i, j)
<1>1. PICK vi \in Nat, vj \in Nat : vi = Value(i) /\ vj = Value(j) /\ vj <= vi /\ vi < 2 * N
  BY ValueBound
<1>2. PICK v \in Nat : v = vi - vj /\ v < 2 * N BY <1>1
<1>3. /\ N > 0 /\ 4 * N <= Mod /\ Mod \in Nat /\ f = F(e)!MantBits /\ f + 1 < 2 * Bits
      /\ 2 ^ f = N /\ 2 ^ (f + 1) = 2 * N
  BY WordFacts DEF Unit
<1>4. r \in Pairs /\ Value(r) = v
  <2>1. r \in Pairs /\ Value(r) = v % Mod BY <1>1, <1>2, SubExact
  <2>2. Division(v, Mod, 0, v) BY <1>2, <1>3 DEF Division
  <2> QED BY <2>1, <2>2, DivisionIs
<1>5. r = CVM_I64_ZERO <=> v = 0
  <2>1. CVM_I64_ZERO \in Pairs /\ Value(CVM_I64_ZERO) = 0
    BY IsPair, WordFacts DEF CVM_I64_ZERO
  <2> QED BY <1>4, <2>1, PairsEqual
<1>6. F(e)!cvm_i64_sub(i, j) = r /\ F(e)!CVM_I64_ZERO = CVM_I64_ZERO
  BY SameSub DEF F!CVM_I64_ZERO, CVM_I64_ZERO, F!I64, I64
<1> HIDE DEF r
<1>7. CASE v = 0
  <2>1. z = F(e)!SignedZero(0) BY <1>5, <1>6, <1>7 DEF F!Subtracted
  <2> HIDE DEF z
  <2>2. F(e)!cvm_d_iszero(z) /\ ~F(e)!cvm_d_isnan(z) BY <2>1, SpecialIs
  <2>3. Difference(e, z, s, x, v) BY <1>7, <2>2 DEF Difference, TooSmall
  <2>4. ~(vj = 0 /\ N <= vi) BY <1>2, <1>3, <1>7
  <2> QED BY <1>1, <1>2, <2>3, <2>4 DEF z
<1>8. CASE v # 0
  <2>1. PICK k0 \in Nat : k0 = F(e)!LeadingBit(r) /\ Leads(k0, v) BY <1>4, <1>8, LeadingIs
  <2>2. k0 <= f
    <3>1. f + 1 \in Nat /\ v < 2 ^ (f + 1) BY <1>2, <1>3
    <3>2. k0 < f + 1 BY <2>1, <3>1, LeadsUnder
    <3> QED BY <3>2
  <2>3. PICK k \in Nat : k = f - k0 /\ k0 + k = f /\ k < 2 * Bits
    <3>1. PICK n \in Nat : n = 2 * Bits BY WordFacts
    <3>2. f - k0 \in Nat /\ k0 + (f - k0) = f /\ f - k0 < n BY <1>3, <2>2, <3>1
    <3> QED BY <3>1, <3>2
  <2>4. PICK m \in Nat : m = v * 2 ^ k /\ N <= m /\ m < 2 * N
    <3>1. PICK g \in Nat, h \in Nat : g = 2 ^ k0 /\ h = 2 ^ k /\ h > 0 /\ 2 ^ (k0 + 1) = 2 * g
      BY Powers
    <3>2. N = g * h
      <4>1. 2 ^ (k0 + k) = 2 ^ k0 * 2 ^ k BY PowerSum
      <4> QED BY <1>3, <2>3, <3>1, <4>1
    <3>3. g <= v /\ v < 2 * g BY <2>1, <3>1 DEF Leads
    <3>4. g * h <= v * h /\ v * h < (2 * g) * h BY <3>1, <3>3
    <3>5. (2 * g) * h = 2 * (g * h) OBVIOUS
    <3> QED BY <3>1, <3>2, <3>4, <3>5
  <2>5. PICK y \in Pairs : y = cvm_u64_shl(r, k) /\ Value(y) = m
    <3>1. k % (2 * Bits) = k BY <2>3, Within
    <3>2. cvm_u64_shl(r, k) \in Pairs /\ Value(cvm_u64_shl(r, k)) = m % Mod
      BY <1>4, <2>4, <3>1, ShlExact
    <3>3. Division(m, Mod, 0, m) BY <1>3, <2>4 DEF Division
    <3> QED BY <3>2, <3>3, DivisionIs
  <2>6. F(e)!cvm_u64_shl(r, k) = y BY <2>5, SameShl
  <2>7. z = IF k > 0 /\ x - k <= 0 THEN F(e)!SignedZero(s)
            ELSE F(e)!cvm_d_pack(s, x - k, y.hi, y.lo)
    BY <1>3, <1>5, <1>6, <1>8, <2>1, <2>3, <2>6 DEF F!Subtracted
  <2> HIDE DEF z
  <2>8. CASE k > 0 /\ x - k <= 0
    <3>1. F(e)!cvm_d_iszero(z) /\ ~F(e)!cvm_d_isnan(z) BY <2>7, <2>8, SpecialIs
    <3>2. k >= x /\ v * 2 ^ k < 2 ^ (F(e)!MantBits + 1) BY <1>3, <2>4, <2>8
    <3>3. TooSmall(e, z, x, v) BY <3>1, <3>2 DEF TooSmall
    <3>4. ~(vj = 0 /\ N <= vi)
      <4>1. ASSUME N <= v PROVE FALSE
        <5>1. PICK g \in Nat : g = 2 ^ k0 /\ 2 ^ (k0 + 1) = 2 * g BY Powers
        <5>2. k0 + 1 \in Nat /\ k0 + 1 <= f BY <2>3, <2>8
        <5>3. 2 * g <= N BY <1>3, <5>1, <5>2, PowerOrder
        <5> QED BY <2>1, <4>1, <5>1, <5>3 DEF Leads
      <4> QED BY <1>2, <4>1
    <3> QED BY <1>1, <1>2, <3>1, <3>3, <3>4 DEF Difference, z
  <2>9. CASE ~(k > 0 /\ x - k <= 0)
    <3>1. PICK u \in Nat : u = x - k /\ u < F(e)!ExpMax /\ z = F(e)!cvm_d_pack(s, u, y.hi, y.lo)
      <4>1. PICK M \in Int : M = F(e)!ExpMax
        <5>1. PICK t, p, q, w \in Nat : Widths(e, t, p, q, w) BY WidthsAre
        <5> QED BY <5>1 DEF Widths
      <4>2. x - k \in Nat /\ x - k < M BY <2>9, <4>1
      <4> QED BY <2>7, <2>9, <4>1, <4>2
    <3>2. ~F(e)!cvm_d_isnan(z) /\ (u >= 1 => NumberOf(e, z, s, u, m) /\ F(e)!CVM_D_EXP(z) = u)
      BY <2>4, <2>5, <3>1, PackWhole
    <3>3. x >= 1 => ShiftedBy(e, z, s, x, v, k)
      BY <2>4, <2>9, <3>1, <3>2 DEF ShiftedBy
    <3>4. Difference(e, z, s, x, v) BY <3>2, <3>3 DEF Difference
    <3>5. ASSUME vj = 0, N <= vi PROVE z = F(e)!cvm_d_pack(s, x, i.hi, i.lo)
      <4>1. r = i BY <1>1, <1>2, <1>4, <3>5, PairsEqual
      <4>2. k = 0
        <5>1. SUFFICES ASSUME k > 0 PROVE FALSE OBVIOUS
        <5>2. PICK g \in Nat : g = 2 ^ k0 /\ 2 ^ (k0 + 1) = 2 * g BY Powers
        <5>3. k0 + 1 \in Nat /\ k0 + 1 <= f BY <2>3, <5>1
        <5>4. 2 * g <= N BY <1>3, <5>2, <5>3, PowerOrder
        <5> QED BY <1>1, <1>2, <2>1, <3>5, <5>2, <5>4 DEF Leads
      <4>3. y = i
        <5>1. 2 ^ k = 1 BY <4>2, Powers
        <5>2. m = vi BY <1>1, <1>2, <2>4, <3>5, <5>1
        <5> QED BY <1>1, <2>5, <5>2, PairsEqual
      <4> QED BY <3>1, <4>2, <4>3
    <3> QED BY <1>1, <1>2, <3>4, <3>5 DEF z
  <2> QED BY <2>8, <2>9
<1> QED BY <1>7, <1>8

(* The sum of significands of the value v.                                   *)
SumOf(e, z, s, x, v) ==
  /\ ~F(e)!cvm_d_isnan(z)
  /\ LET over == Carry(v >= 2 ^ (F(e)!MantBits + 1))
     IN  x >= 1 => NumberOf(e, z, s, x + over, v \div 2 ^ over)

LEMMA AddedIs ==
  ASSUME NEW e \in Formats, NEW f \in Nat, NEW N \in Nat, Unit(e, f, N), NEW s \in {0, 1},
         NEW x \in Nat, x < F(e)!ExpMax,
         NEW i \in Pairs, NEW j \in Pairs, N <= Value(i), Value(i) < 2 * N, Value(j) < 2 * N
  PROVE  /\ SumOf(e, F(e)!Added(s, x, i, j), s, x, Value(i) + Value(j))
         /\ Value(j) = 0 => F(e)!Added(s, x, i, j) = F(e)!cvm_d_pack(s, x, i.hi, i.lo)
<1> DEFINE z == F(e)!Added(s, x, i, j)
           r == cvm_i64_add(i, j)
<1>1. PICK vi \in Nat, vj \in Nat :
        vi = Value(i) /\ vj = Value(j) /\ N <= vi /\ vi < 2 * N /\ vj < 2 * N
  BY ValueBound
<1>2. PICK v \in Nat : v = vi + vj /\ N <= v /\ v < 4 * N BY <1>1
<1>3. /\ N > 0 /\ 4 * N <= Mod /\ Mod \in Nat /\ f = F(e)!MantBits /\ 2 ^ (f + 1) = 2 * N
      /\ N = WordMod * 2 ^ F(e)!TopBits
  BY WordFacts DEF Unit
<1>4. r \in Pairs /\ Value(r) = v
  <2>1. r \in Pairs /\ Value(r) = v % Mod BY <1>1, <1>2, AddExact
  <2>2. Division(v, Mod, 0, v) BY <1>2, <1>3 DEF Division
  <2> QED BY <2>1, <2>2, DivisionIs
<1>5. F(e)!cvm_i64_add(i, j) = r BY SameAdd
<1> HIDE DEF r
<1>6. PICK t, p, q, w \in Nat : Widths(e, t, p, q, w) BY WidthsAre
<1>7. t = F(e)!TopBits /\ p = 2 ^ t /\ w = WordMod /\ w > 1 /\ p >= 2 /\ q >= 2
      /\ F(e)!ExpMax = q - 1 /\ N = w * p /\ 2 ^ (t + 1) = 2 * p
  <2>1. t = F(e)!TopBits /\ p = 2 ^ t /\ w = WordMod /\ p >= 2 /\ q >= 2 /\ F(e)!ExpMax = q - 1
    BY <1>6 DEF Widths
  <2>2. 2 ^ (t + 1) = 2 * p BY <2>1, Powers
  <2> QED BY <1>3, <2>1, <2>2, WordFacts
<1>8. PICK l \in Nat, h \in Nat : l = r.lo /\ h = r.hi /\ l < w /\ h < w /\ v = l + w * h
  BY <1>4, <1>7, PairIs
<1>9. PICK d \in Nat : d = 2 * p /\ d > 0 /\ w * d = 2 * N
  <2>1. PICK d \in Nat : d = 2 * p /\ d > 0 BY <1>7
  <2>2. w * (2 * p) = 2 * (w * p) OBVIOUS
  <2> QED BY <1>7, <2>1, <2>2
<1>10. h >= d <=> v >= 2 * N
  <2>1. h >= d <=> l + w * h >= w * d BY <1>8, Above
  <2> QED BY <1>8, <1>9, <2>1
<1>11. F(e)!Shr(r.hi, F(e)!TopBits + 1) = h \div d BY <1>7, <1>8, <1>9 DEF F!Shr
<1>12. 2 ^ 0 = 1 /\ 2 ^ 1 = 2
  <2>1. 0 \in Nat /\ 0 + 1 = 1 OBVIOUS
  <2> QED BY <2>1, Powers
<1>13. CASE v < 2 * N
  <2>1. h \div d = 0
    <3>1. Division(h, d, 0, h) BY <1>9, <1>10, <1>13 DEF Division
    <3> QED BY <3>1, DivisionIs
  <2>2. z = F(e)!cvm_d_pack(s, x, h, l)
    <3>1. 0 % 2 = 0 OBVIOUS
    <3> QED BY <1>5, <1>8, <1>11, <2>1, <3>1 DEF F!Added
  <2> HIDE DEF z
  <2>3. ~F(e)!cvm_d_isnan(z) /\ (x >= 1 => NumberOf(e, z, s, x, v))
    BY <1>2, <1>4, <1>8, <1>13, <2>2, PackWhole
  <2>4. Carry(v >= 2 ^ (F(e)!MantBits + 1)) = 0 BY <1>3, <1>13 DEF Carry
  <2>5. x + 0 = x /\ v \div 2 ^ 0 = v BY <1>12
  <2>6. SumOf(e, z, s, x, v) BY <2>3, <2>4, <2>5 DEF SumOf
  <2>7. ASSUME vj = 0 PROVE z = F(e)!cvm_d_pack(s, x, i.hi, i.lo)
    <3>1. r = i BY <1>1, <1>2, <1>4, <2>7, PairsEqual
    <3> QED BY <1>8, <2>2, <3>1
  <2> QED BY <1>1, <1>2, <2>6, <2>7 DEF z
<1>14. CASE v >= 2 * N
  <2>1. h \div d = 1
    <3>1. h < 2 * d
      <4>1. PICK g \in Nat : g = 2 * d OBVIOUS
      <4>2. w * (2 * d) = 2 * (w * d) OBVIOUS
      <4>3. w * g = 4 * N BY <1>9, <4>1, <4>2
      <4>4. h >= g <=> l + w * h >= w * g BY <1>8, Above
      <4> QED BY <1>2, <1>8, <4>1, <4>3, <4>4
    <3>2. PICK g \in Nat : g = h - d /\ g < d BY <1>9, <1>10, <1>14, <3>1
    <3>3. Division(h, d, 1, g) BY <1>9, <3>2 DEF Division
    <3> QED BY <3>3, DivisionIs
  <2>2. (h \div d) % 2 # 0
    <3>1. PICK g : g = h \div d /\ g = 1 BY <2>1
    <3>2. g % 2 # 0 BY <3>1
    <3> QED BY <3>1, <3>2
  <2>3. PICK y \in Pairs : y = cvm_u64_shr(r, 1) /\ Value(y) = v \div 2 BY <1>4, ShrOne
  <2>4. N <= v \div 2 /\ v \div 2 < 2 * N
    <3>1. PICK k \in Nat, g \in Nat : Division(v, 2, k, g) /\ k = v \div 2
      <4>1. PICK k \in Int, g \in Nat : Division(v, 2, k, g) BY Divided
      <4>2. k = v \div 2 BY <4>1, DivisionIs
      <4>3. k \in Nat BY <4>1 DEF Division
      <4> QED BY <4>1, <4>2, <4>3
    <3>2. v = 2 * k + g /\ g < 2 BY <3>1 DEF Division
    <3> QED BY <1>2, <1>14, <3>1, <3>2
  <2>5. I64(F(e)!Shr(l, 1) + F(e)!Shl(h, Bits - 1), F(e)!Shr(h, 1)) = y
    <3>1. 1 % (2 * Bits) = 1
      <4>1. 1 \in Nat /\ 1 < 2 * Bits BY WordFacts
      <4> QED BY <4>1, Within
    <3>2. 1 # 0 /\ ~(1 >= Bits) BY WordFacts
    <3> QED BY <1>8, <2>3, <3>1, <3>2
            DEF cvm_u64_shr, F!Shr, Shr, F!Shl, Shl, F!WordMod, WordMod
  <2>6. z = IF x + 1 >= F(e)!ExpMax THEN F(e)!SignedInf(s)
            ELSE F(e)!cvm_d_pack(s, x + 1, y.hi, y.lo)
    <3>1. y.hi = F(e)!Shr(h, 1) /\ y.lo = F(e)!Shr(l, 1) + F(e)!Shl(h, Bits - 1)
      BY <2>5 DEF I64
    <3> QED BY <1>5, <1>8, <1>11, <2>2, <3>1 DEF F!Added
  <2> HIDE DEF z
  <2>7. ~F(e)!cvm_d_isnan(z) /\ NumberOf(e, z, s, x + 1, v \div 2)
    <3>1. CASE x + 1 >= F(e)!ExpMax
      <4>1. z = F(e)!SignedInf(s) BY <2>6, <3>1
      <4> QED BY <3>1, <4>1, SpecialIs DEF NumberOf
    <3>2. CASE ~(x + 1 >= F(e)!ExpMax)
      <4>1. PICK u \in Nat : u = x + 1 /\ u < F(e)!ExpMax /\ u >= 1 BY <1>7, <3>2
      <4>2. z = F(e)!cvm_d_pack(s, u, y.hi, y.lo) BY <2>6, <3>2, <4>1
      <4>3. ~F(e)!cvm_d_isnan(z) /\ NumberOf(e, z, s, u, v \div 2)
        BY <2>3, <2>4, <4>1, <4>2, PackWhole
      <4> QED BY <4>1, <4>3
    <3> QED BY <3>1, <3>2
  <2>8. Carry(v >= 2 ^ (F(e)!MantBits + 1)) = 1 BY <1>3, <1>14 DEF Carry
  <2>9. SumOf(e, z, s, x, v) BY <1>12, <2>7, <2>8 DEF SumOf
  <2>10. vj # 0 BY <1>1, <1>2, <1>14
  <2> QED BY <1>1, <1>2, <2>9, <2>10 DEF z
<1> QED BY <1>2, <1>13, <1>14

(* What cvm_d_add makes of operands of one sign and of different signs: z    *)
(* for the significands m and n of exponents i and j, D apart.               *)
SameSigns(e, z, s, i, D, m, n) ==
  LET v == m * 2 ^ D + n
      over == Carry(v >= 2 ^ (F(e)!MantBits + 1 + D))
  IN  NumberOf(e, z, s, i + over, v \div 2 ^ (D + over))

UnitsOf(e, z, j) ==
  LET d == F(e)!CVM_D_EXP(z) - j
  IN  IF d >= 0 THEN Value(F(e)!Significand(z)) * 2 ^ d
      ELSE Value(F(e)!Significand(z)) \div 2 ^ (-d)

OtherSigns(e, z, s, j, D, m, n) ==
  LET v == m * 2 ^ D - n
  IN  IF F(e)!cvm_d_iszero(z) THEN v = 0 \/ v * 2 ^ (j - 1) < 2 ^ F(e)!MantBits
      ELSE /\ F(e)!CVM_D_EXP(z) \in 1 .. F(e)!ExpMax - 1
           /\ F(e)!CVM_D_SIGN(z) = s
           /\ UnitsOf(e, z, j) - v \in 0 .. 2 ^ D - 1

LEMMA SameSignsIs ==
  ASSUME NEW e \in Formats, NEW f \in Nat, NEW N \in Nat, Unit(e, f, N), NEW z, NEW s,
         NEW i \in Nat, i >= 1, NEW D \in Nat, NEW m \in Nat, NEW n \in Nat,
         NEW q \in Nat, NEW r, Division(n, 2 ^ D, q, r), SumOf(e, z, s, i, m + q)
  PROVE  SameSigns(e, z, s, i, D, m, n)
<1>1. PICK g \in Nat : g = 2 ^ D /\ g > 0 BY Powers
<1>2. r \in Nat /\ r < g /\ n = g * q + r BY <1>1 DEF Division
<1>3. f = F(e)!MantBits /\ 2 ^ (f + 1) = 2 * N BY DEF Unit
<1>4. PICK u \in Nat : u = m + q OBVIOUS
<1>5. PICK v \in Nat : v = m * 2 ^ D + n /\ v = g * u + r
  <2>1. m * g + (g * q + r) = g * (m + q) + r
    <3>1. PICK k \in Nat : k = r BY <1>2
    <3>2. m * g + (g * q + k) = g * (m + q) + k OBVIOUS
    <3> QED BY <3>1, <3>2
  <2>2. m * g + n \in Nat OBVIOUS
  <2> QED BY <1>1, <1>2, <1>4, <2>1, <2>2
<1>6. Division(v, g, u, r) BY <1>1, <1>2, <1>5 DEF Division
<1>7. PICK o \in {0, 1} : o = Carry(u >= 2 * N) BY DEF Carry
<1>8. v >= 2 ^ (f + 1 + D) <=> u >= 2 * N
  <2>1. 2 ^ (f + 1 + D) = 2 ^ (f + 1) * 2 ^ D BY PowerSum
  <2>2. PICK k \in Nat : k = 2 * N OBVIOUS
  <2>3. 2 ^ (f + 1 + D) = k * g BY <1>1, <1>3, <2>1, <2>2
  <2>4. k * g = g * k OBVIOUS
  <2>5. u >= k <=> r + g * u >= g * k BY <1>2, Above
  <2>6. r + g * u = v
    <3>1. PICK h \in Nat : h = g * u OBVIOUS
    <3> QED BY <1>2, <1>5, <3>1
  <2> QED BY <2>2, <2>3, <2>4, <2>5, <2>6
<1>9. o = Carry(v >= 2 ^ (F(e)!MantBits + 1 + D)) BY <1>3, <1>7, <1>8 DEF Carry
<1>10. NumberOf(e, z, s, i + o, u \div 2 ^ o) BY <1>3, <1>4, <1>7 DEF SumOf
<1>11. v \div 2 ^ (D + o) = u \div 2 ^ o
  <2>1. PICK c1 \in Nat : c1 = 2 ^ o /\ c1 > 0
    <3>1. o \in Nat OBVIOUS
    <3> QED BY <3>1, Powers
  <2>2. PICK k \in Int, h \in Nat : Division(u, c1, k, h) BY <2>1, Divided
  <2>3. Division(v, g * c1, k, g * h + r) BY <1>6, <2>2, DivisionTwice
  <2>4. 2 ^ (D + o) = g * c1 BY <1>1, <2>1, PowerSum
  <2>5. v \div (g * c1) = k /\ u \div c1 = k BY <2>2, <2>3, DivisionIs
  <2> QED BY <2>1, <2>4, <2>5
<1> QED BY <1>5, <1>9, <1>10, <1>11 DEF SameSigns

LEMMA OtherSignsIs ==
  ASSUME NEW e \in Formats, NEW f \in Nat, NEW N \in Nat, Unit(e, f, N), NEW z, NEW s,
         NEW i \in Nat, NEW j \in Nat, j >= 1, NEW D \in Nat, i = j + D, i < F(e)!ExpMax,
         NEW m \in Nat, NEW n \in Nat, NEW q \in Nat, q <= m, NEW r, Division(n, 2 ^ D, q, r),
         Difference(e, z, s, i, m - q)
  PROVE  OtherSigns(e, z, s, j, D, m, n)
<1>1. PICK g \in Nat : g = 2 ^ D /\ g > 0 BY Powers
<1>2. r \in Nat /\ r < g /\ n = g * q + r BY <1>1 DEF Division
<1>3. f = F(e)!MantBits /\ 2 ^ f = N /\ N > 0 /\ 2 ^ (f + 1) = 2 * N BY DEF Unit
<1>4. PICK u \in Nat : u = m - q OBVIOUS
<1>5. PICK w \in Nat : w = g * u OBVIOUS
<1>6. PICK v \in Int : v = m * 2 ^ D - n /\ v = w - r
  <2>1. m * g - (g * q + r) = g * (m - q) - r
    <3>1. PICK k \in Nat : k = r BY <1>2
    <3>2. m * g - (g * q + k) = g * (m - q) - k OBVIOUS
    <3> QED BY <3>1, <3>2
  <2>2. m * g - n \in Int OBVIOUS
  <2> QED BY <1>1, <1>2, <1>4, <1>5, <2>1, <2>2
<1>7. Difference(e, z, s, i, u) /\ i >= 1 BY <1>4
<1>8. CASE TooSmall(e, z, i, u)
  <2>1. PICK b1 \in Nat : b1 = 2 ^ (j - 1) /\ 2 ^ j = 2 * b1 /\ b1 > 0
    <3>1. j - 1 \in Nat /\ (j - 1) + 1 = j OBVIOUS
    <3> QED BY <3>1, Powers
  <2>2. v * b1 <= w * b1
    <3>1. v <= w BY <1>2, <1>6
    <3> QED BY <2>1, <3>1
  <2>3. w * b1 < N
    <3>1. CASE u = 0
      <4>1. w = 0
        <5>1. g * 0 = 0 OBVIOUS
        <5> QED BY <1>5, <3>1, <5>1
      <4>2. 0 * b1 = 0 OBVIOUS
      <4> QED BY <1>3, <4>1, <4>2
    <3>2. CASE u # 0
      <4>1. PICK k \in Nat : k >= i /\ u * 2 ^ k < 2 * N BY <1>3, <1>8, <3>2 DEF TooSmall
      <4>2. PICK h \in Nat, c1 \in Nat : h = 2 ^ k /\ c1 = 2 ^ i BY Powers
      <4>3. c1 <= h BY <4>1, <4>2, PowerOrder
      <4>4. u * c1 <= u * h BY <4>3
      <4>5. c1 = (2 * b1) * g
        <5>1. 2 ^ (j + D) = 2 ^ j * 2 ^ D BY PowerSum
        <5> QED BY <1>1, <2>1, <4>2, <5>1
      <4>6. u * ((2 * b1) * g) = 2 * ((g * u) * b1) OBVIOUS
      <4>7. PICK y \in Nat : y = w * b1 OBVIOUS
      <4>8. u * c1 = 2 * y BY <1>5, <4>5, <4>6, <4>7
      <4>9. PICK k1 \in Nat, k2 \in Nat : k1 = u * c1 /\ k2 = u * h OBVIOUS
      <4>10. k2 < 2 * N BY <4>1, <4>2, <4>9
      <4> QED BY <4>4, <4>7, <4>8, <4>9, <4>10
    <3> QED BY <3>1, <3>2
  <2>4. v * 2 ^ (j - 1) < 2 ^ F(e)!MantBits
    <3>1. PICK k1 \in Int, k2 \in Int : k1 = v * b1 /\ k2 = w * b1 OBVIOUS
    <3> QED BY <1>3, <2>1, <2>2, <2>3, <3>1
  <2>5. F(e)!cvm_d_iszero(z) BY <1>8 DEF TooSmall
  <2> QED BY <1>6, <2>4, <2>5 DEF OtherSigns
<1>9. CASE \E k \in Nat : ShiftedBy(e, z, s, i, u, k)
  <2>1. PICK k \in Nat : ShiftedBy(e, z, s, i, u, k) BY <1>9
  <2>2. PICK x \in Nat : x = i - k /\ x >= 1 /\ F(e)!CVM_D_EXP(z) = x
    BY <2>1 DEF ShiftedBy
  <2>3. PICK M \in Nat : M = F(e)!ExpMax
    <3>1. PICK t, p, c1, c2 \in Nat : Widths(e, t, p, c1, c2) BY WidthsAre
    <3>2. c1 >= 2 /\ F(e)!ExpMax = c1 - 1 BY <3>1 DEF Widths
    <3> QED BY <3>2
  <2>4. x \in 1 .. M - 1 /\ ~(x >= M) /\ ~(x <= 0) BY <2>2, <2>3
  <2>5. F(e)!CVM_D_SIGN(z) = s /\ Value(F(e)!Significand(z)) = u * 2 ^ k
    BY <2>1, <2>2, <2>3, <2>4 DEF ShiftedBy, NumberOf
  <2>6. ~F(e)!cvm_d_iszero(z) BY <2>2, <2>3, <2>4, KindsAre
  <2>7. UnitsOf(e, z, j) = w
    <3>1. PICK c1 \in Nat : c1 = 2 ^ k BY Powers
    <3>2. x - j = D - k BY <2>2
    <3>3. CASE D >= k
      <4>1. PICK h \in Nat : h = D - k /\ x - j = h /\ h >= 0 /\ k + h = D BY <3>2, <3>3
      <4>2. PICK c2 \in Nat : c2 = 2 ^ h BY Powers
      <4>3. g = c1 * c2
        <5>1. 2 ^ (k + h) = 2 ^ k * 2 ^ h BY PowerSum
        <5> QED BY <1>1, <3>1, <4>1, <4>2, <5>1
      <4>4. (u * c1) * c2 = (c1 * c2) * u OBVIOUS
      <4>5. UnitsOf(e, z, j) = (u * c1) * c2 BY <2>2, <2>5, <3>1, <4>1, <4>2 DEF UnitsOf
      <4> QED BY <1>5, <4>3, <4>4, <4>5
    <3>4. CASE ~(D >= k)
      <4>1. PICK h \in Nat : h = k - D /\ -(x - j) = h /\ ~(x - j >= 0) /\ D + h = k
        BY <2>2, <3>2, <3>4
      <4>2. PICK c2 \in Nat : c2 = 2 ^ h /\ c2 > 0 BY Powers
      <4>3. c1 = g * c2
        <5>1. 2 ^ (D + h) = 2 ^ D * 2 ^ h BY PowerSum
        <5> QED BY <1>1, <3>1, <4>1, <4>2, <5>1
      <4>4. u * c1 = c2 * w
        <5>1. u * (g * c2) = c2 * (g * u) OBVIOUS
        <5> QED BY <1>5, <4>3, <5>1
      <4>5. (u * c1) \div c2 = w
        <5>1. Division(u * c1, c2, w, 0) BY <4>2, <4>4 DEF Division
        <5> QED BY <5>1, DivisionIs
      <4>6. UnitsOf(e, z, j) = (u * c1) \div c2 BY <2>2, <2>5, <3>1, <4>1, <4>2 DEF UnitsOf
      <4> QED BY <4>5, <4>6
    <3> QED BY <3>3, <3>4
  <2>8. w - v \in 0 .. g - 1 BY <1>2, <1>6
  <2> QED BY <1>1, <1>6, <2>2, <2>3, <2>4, <2>5, <2>6, <2>7, <2>8 DEF OtherSigns
<1> QED BY <1>7, <1>8, <1>9 DEF Difference

(* A double is put together from its parts; its magnitude is the exponent    *)
(* and what the significand has beyond its leading 1.                       *)
PartsOf(e, x, N, E) ==
  /\ E = F(e)!CVM_D_EXP(x) /\ E <= F(e)!ExpMax
  /\ F(e)!Magnitude(x) \in Pairs
  /\ Value(F(e)!Magnitude(x)) = N * E + (Value(F(e)!Significand(x)) - N)
  /\ F(e)!cvm_d_pack(F(e)!CVM_D_SIGN(x), E, F(e)!Significand(x).hi, F(e)!Significand(x).lo) = x

LEMMA PartsAre ==
  ASSUME NEW e \in Formats, NEW f \in Nat, NEW N \in Nat, Unit(e, f, N), NEW x \in Pairs
  PROVE  \E E \in Nat : PartsOf(e, x, N, E)
<1>1. PICK t, p, q, w \in Nat : Widths(e, t, p, q, w) BY WidthsAre
<1>2. /\ t = F(e)!TopBits /\ p = 2 ^ t /\ q = 2 ^ e /\ w = WordMod /\ p >= 2 /\ q >= 2
      /\ F(e)!ExpMax = q - 1 /\ p * q = 2 ^ (Bits - 1) /\ w = 2 * (p * q)
  BY <1>1 DEF Widths
<1>3. N = w * p BY <1>2 DEF Unit
<1>4. PICK l \in Nat, h \in Nat : l = x.lo /\ h = x.hi /\ l < w /\ h < w /\ Value(x) = l + w * h
  BY <1>2, PairIs
<1>5. PICK u \in Int, r \in Nat : Division(h, p, u, r)
  <2>1. h \in Int /\ p > 0 BY <1>2
  <2> QED BY <2>1, Divided
<1>6. PICK s \in Int, E \in Nat : Division(u, q, s, E)
  <2>1. u \in Int /\ q > 0 BY <1>2
  <2> QED BY <2>1, Divided
<1>7. PICK d \in Nat : d = p * q OBVIOUS
<1>8. PICK g \in Nat : g = p * E + r OBVIOUS
<1>9. Division(h, d, s, g) BY <1>5, <1>6, <1>7, <1>8, DivisionTwice
<1>10. /\ h \div p = u /\ h % p = r /\ u % q = E /\ h \div d = s /\ h % d = g
       /\ r < p /\ E < q /\ g < d /\ h = d * s + g
  <2>1. h \div p = u /\ h % p = r BY <1>5, DivisionIs
  <2>2. u % q = E BY <1>6, DivisionIs
  <2>3. h \div d = s /\ h % d = g BY <1>9, DivisionIs
  <2> QED BY <1>5, <1>6, <1>9, <2>1, <2>2, <2>3 DEF Division
<1>11. E = F(e)!CVM_D_EXP(x) /\ F(e)!CVM_D_MHI(x) = r /\ F(e)!CVM_D_SIGN(x) = s
  BY <1>2, <1>4, <1>7, <1>10 DEF F!CVM_D_EXP, F!CVM_D_MHI, F!CVM_D_SIGN, F!Shr
<1>12. E <= F(e)!ExpMax BY <1>2, <1>10
<1>13. F(e)!Magnitude(x) = I64(l, g)
  BY <1>2, <1>4, <1>7, <1>10 DEF F!Magnitude, F!I64, I64
<1>14. F(e)!Significand(x) = I64(l, r + p)
  BY <1>2, <1>4, <1>11 DEF F!Significand, F!I64, I64
<1>15. I64(l, g) \in Pairs /\ Value(I64(l, g)) = l + w * g
  <2>1. g < w BY <1>2, <1>7, <1>10
  <2> QED BY <1>2, <1>4, <2>1, IsPair
<1>16. Value(I64(l, r + p)) = l + w * (r + p) BY <1>2 DEF Value, I64
<1>17. l + w * g = N * E + ((l + w * (r + p)) - N)
  <2>1. l + w * (p * E + r) = (w * p) * E + ((l + w * (r + p)) - w * p) OBVIOUS
  <2> QED BY <1>3, <1>8, <2>1
<1>18. F(e)!cvm_d_pack(s, E, r + p, l) = x
  <2>1. E % q = E
    <3>1. Division(E, q, 0, E) BY <1>2, <1>10 DEF Division
    <3> QED BY <3>1, DivisionIs
  <2>2. (r + p) % p = r
    <3>1. Division(r + p, p, 1, r) BY <1>2, <1>10 DEF Division
    <3> QED BY <3>1, DivisionIs
  <2>3. F(e)!cvm_d_pack(s, E, r + p, l) = I64(l, s * d + E * p + r)
    BY <1>2, <1>7, <2>1, <2>2 DEF F!cvm_d_pack, F!I64, I64
  <2>4. s * d + E * p + r = h
    <3>1. s * d = d * s /\ E * p = p * E OBVIOUS
    <3>2. PICK c1 \in Int, c2 \in Int : c1 = d * s /\ c2 = p * E OBVIOUS
    <3> QED BY <1>8, <1>10, <3>1, <3>2
  <2>5. x = [lo |-> x.lo, hi |-> x.hi] BY DEF Pairs
  <2> QED BY <1>4, <2>3, <2>4, <2>5 DEF I64
<1>19. Value(F(e)!Magnitude(x)) = N * E + (Value(F(e)!Significand(x)) - N)
  BY <1>13, <1>14, <1>15, <1>16, <1>17
<1>20. F(e)!Significand(x).hi = r + p /\ F(e)!Significand(x).lo = l BY <1>14 DEF I64
<1>21. PartsOf(e, x, N, E) BY <1>11, <1>12, <1>13, <1>15, <1>18, <1>19, <1>20 DEF PartsOf
<1> QED BY <1>21

(* The larger of two magnitudes has the larger exponent, or the larger       *)
(* significand.                                                            *)
LEMMA LargerExponent ==
  ASSUME NEW N \in Nat, NEW i \in Nat, NEW j \in Nat, NEW m \in Nat, NEW n \in Nat,
         N <= m, m < 2 * N, N <= n, n < 2 * N, N * j + (n - N) <= N * i + (m - N)
  PROVE  j <= i /\ (i = j => n <= m)
<1>1. PICK a1 \in Nat, b1 \in Nat : a1 = m - N /\ b1 = n - N /\ a1 < N /\ b1 < N OBVIOUS
<1>2. ASSUME i < j PROVE FALSE
  <2>1. a1 + N * i < b1 + N * j BY <1>1, <1>2, InOrder
  <2>2. PICK k1 \in Nat, k2 \in Nat : k1 = N * i /\ k2 = N * j OBVIOUS
  <2> QED BY <1>1, <2>1, <2>2
<1>3. ASSUME i = j PROVE n <= m
  <2>1. PICK k1 \in Nat : k1 = N * i /\ k1 = N * j BY <1>3
  <2> QED BY <2>1
<1> QED BY <1>2, <1>3

(* The significand of the smaller operand, aligned, is not the larger one.   *)
LEMMA AlignedBelow ==
  ASSUME NEW N \in Nat, NEW D \in Nat, NEW m \in Nat, NEW n \in Nat, N <= m, n < 2 * N,
         D = 0 => n <= m
  PROVE  \E q \in Nat, r \in Nat : /\ Division(n, 2 ^ D, q, r) /\ q = n \div 2 ^ D
                                   /\ q <= m /\ q <= n
<1>1. PICK g \in Nat : g = 2 ^ D /\ g > 0 BY Powers
<1>2. PICK q0 \in Int, r \in Nat : Division(n, g, q0, r) BY <1>1, Divided
<1>3. n = g * q0 + r /\ r < g BY <1>2 DEF Division
<1>4. PICK q \in Nat : q = q0
  <2>1. ASSUME q0 <= -1 PROVE FALSE
    <3>1. g * q0 <= -g BY <1>1, <2>1
    <3>2. PICK k \in Int : k = g * q0 OBVIOUS
    <3> QED BY <1>3, <3>1, <3>2
  <2> QED BY <2>1
<1>5. q = n \div g BY <1>2, <1>4, DivisionIs
<1>6. PICK k \in Nat : k = g * q OBVIOUS
<1>7. q <= n
  <2>1. q <= k BY <1>1, <1>6
  <2> QED BY <1>3, <1>4, <1>6, <2>1
<1>8. q <= m
  <2>1. CASE D = 0 BY <1>7, <2>1
  <2>2. CASE D # 0
    <3>1. D - 1 \in Nat /\ (D - 1) + 1 = D BY <2>2
    <3>2. PICK h \in Nat : h > 0 /\ g = 2 * h BY <1>1, <3>1, Powers
    <3>3. 2 * q <= k BY <1>6, <3>2
    <3> QED BY <1>3, <1>4, <1>6, <3>3
  <2> QED BY <2>1, <2>2
<1> QED BY <1>1, <1>2, <1>4, <1>5, <1>7, <1>8

(* What cvm_d_add makes of the larger operand x and the smaller operand y.   *)
Bounded(e, x, y, z) ==
  LET D == F(e)!CVM_D_EXP(x) - F(e)!CVM_D_EXP(y)
      m == Value(F(e)!Significand(x))
      n == Value(F(e)!Significand(y))
      s == F(e)!CVM_D_SIGN(x)
  IN  IF D > F(e)!MantBits + 1 THEN z = x
      ELSE IF s = F(e)!CVM_D_SIGN(y) THEN SameSigns(e, z, s, F(e)!CVM_D_EXP(x), D, m, n)
      ELSE OtherSigns(e, z, s, F(e)!CVM_D_EXP(y), D, m, n)

Finite(e, x) == ~F(e)!cvm_d_isnan(x) /\ ~F(e)!cvm_d_isinf(x)
IsNormal(e, x) == F(e)!CVM_D_EXP(x) \in 1 .. F(e)!ExpMax - 1

LEMMA SumOrderedIs ==
  ASSUME NEW e \in Formats, NEW x \in Pairs, NEW y \in Pairs, Finite(e, x), Finite(e, y),
         Value(F(e)!Magnitude(y)) <= Value(F(e)!Magnitude(x))
  PROVE  LET z == F(e)!SumOrdered(x, y)
         IN  /\ ~F(e)!cvm_d_isnan(z)
             /\ IsNormal(e, x) /\ IsNormal(e, y) => Bounded(e, x, y, z)
<1> DEFINE z == F(e)!SumOrdered(x, y)
           u == F(e)!Significand(x)
           o == F(e)!Significand(y)
<1>1. PICK f \in Nat, N \in Nat : Unit(e, f, N) BY UnitIs
<1>2. PICK i \in Nat : PartsOf(e, x, N, i) BY <1>1, PartsAre
<1>3. PICK j \in Nat : PartsOf(e, y, N, j) BY <1>1, PartsAre
<1>4. /\ i = F(e)!CVM_D_EXP(x) /\ i <= F(e)!ExpMax
      /\ Value(F(e)!Magnitude(x)) = N * i + (Value(u) - N)
      /\ F(e)!cvm_d_pack(F(e)!CVM_D_SIGN(x), i, u.hi, u.lo) = x
  BY <1>2 DEF PartsOf
<1>5. /\ j = F(e)!CVM_D_EXP(y)
      /\ Value(F(e)!Magnitude(y)) = N * j + (Value(o) - N)
  BY <1>3 DEF PartsOf
<1>6. PICK m \in Nat : u \in Pairs /\ m = Value(u) /\ N <= m /\ m < 2 * N
  BY <1>1, UnitSignificand, ValueBound
<1>7. PICK n \in Nat : o \in Pairs /\ n = Value(o) /\ N <= n /\ n < 2 * N
  BY <1>1, UnitSignificand, ValueBound
<1>8. PICK s \in {0, 1} : s = F(e)!CVM_D_SIGN(x) BY SignIs
<1> DEFINE same == s = F(e)!CVM_D_SIGN(y)
<1> HIDE DEF u, o
<1>9. j <= i /\ (i = j => n <= m)
  <2>1. N * j + (n - N) <= N * i + (m - N) BY <1>4, <1>5, <1>6, <1>7
  <2> QED BY <1>6, <1>7, <2>1, LargerExponent
<1>10. i < F(e)!ExpMax
  <2>1. i # F(e)!ExpMax BY <1>4 DEF Finite, F!cvm_d_isnan, F!cvm_d_isinf
  <2>2. PICK M \in Nat : M = F(e)!ExpMax
    <3>1. PICK t, p, c1, c2 \in Nat : Widths(e, t, p, c1, c2) BY WidthsAre
    <3>2. c1 >= 2 /\ F(e)!ExpMax = c1 - 1 BY <3>1 DEF Widths
    <3> QED BY <3>2
  <2> QED BY <1>4, <2>1, <2>2
<1>11. PICK D \in Nat : D = i - j /\ i = j + D /\ D = F(e)!CVM_D_EXP(x) - F(e)!CVM_D_EXP(y)
  BY <1>4, <1>5, <1>9
<1>12. f = F(e)!MantBits /\ f + 1 < 2 * Bits /\ 2 ^ (f + 1) = 2 * N BY <1>1 DEF Unit
<1>13. PICK q \in Nat, r \in Nat : /\ Division(n, 2 ^ D, q, r) /\ q = n \div 2 ^ D
                                   /\ q <= m /\ q <= n
  <2>1. D = 0 => n <= m BY <1>9, <1>11
  <2> QED BY <1>6, <1>7, <2>1, AlignedBelow
<1>14. PICK W \in Nat : W = 2 * Bits BY WordFacts
<1>15. z = IF D >= W THEN x
           ELSE IF ~same THEN F(e)!Subtracted(s, i, u, F(e)!AlignedBy(o, D))
           ELSE F(e)!Added(s, i, u, F(e)!AlignedBy(o, D))
  BY <1>4, <1>8, <1>11, <1>14 DEF F!SumOrdered, u, o
<1> HIDE DEF z
<1>16. CASE D >= W
  <2>1. z = x BY <1>15, <1>16
  <2>2. ~F(e)!cvm_d_isnan(z) BY <2>1 DEF Finite
  <2>3. D > F(e)!MantBits + 1 BY <1>12, <1>14, <1>16
  <2>4. Bounded(e, x, y, z) BY <1>11, <2>1, <2>3 DEF Bounded
  <2> QED BY <2>2, <2>4 DEF z
<1>17. CASE ~(D >= W)
  <2>1. PICK k \in Pairs : k = F(e)!AlignedBy(o, D) /\ Value(k) = q
    <3>1. D < 2 * Bits BY <1>14, <1>17
    <3> QED BY <1>7, <1>13, <3>1, AlignedIs
  <2>2. CASE same
    <3>1. z = F(e)!Added(s, i, u, k) BY <1>15, <1>17, <2>1, <2>2
    <3>2. /\ SumOf(e, z, s, i, m + q)
          /\ q = 0 => z = F(e)!cvm_d_pack(s, i, u.hi, u.lo)
      <4>1. /\ i < F(e)!ExpMax /\ N <= Value(u) /\ Value(u) < 2 * N /\ Value(k) < 2 * N
        BY <1>6, <1>7, <1>10, <1>13, <2>1
      <4> QED BY <1>1, <1>6, <2>1, <3>1, <4>1, AddedIs
    <3>3. ~F(e)!cvm_d_isnan(z) BY <3>2 DEF SumOf
    <3>4. ASSUME IsNormal(e, x), IsNormal(e, y), ~(D > F(e)!MantBits + 1)
          PROVE  SameSigns(e, z, s, i, D, m, n)
      <4>1. i >= 1
        <5>1. PICK M \in Int : M = F(e)!ExpMax - 1 /\ i \in 1 .. M
          <6>1. PICK t, p, c1, c2 \in Nat : Widths(e, t, p, c1, c2) BY WidthsAre
          <6>2. F(e)!ExpMax = c1 - 1 BY <6>1 DEF Widths
          <6> QED BY <1>4, <3>4, <6>2 DEF IsNormal
        <5> QED BY <5>1
      <4> QED BY <1>1, <1>13, <3>2, <4>1, SameSignsIs
    <3>5. ASSUME D > F(e)!MantBits + 1 PROVE q = 0
      <4>1. f + 1 \in Nat /\ f + 1 <= D BY <1>12, <3>5
      <4>2. PICK g \in Nat : g = 2 ^ D /\ g > 0 BY Powers
      <4>3. n < g BY <1>7, <1>12, <4>1, <4>2, PowerOrder
      <4>4. Division(n, g, 0, n) BY <4>2, <4>3 DEF Division
      <4> QED BY <1>13, <4>2, <4>4, DivisionIs
    <3>6. ASSUME IsNormal(e, x), IsNormal(e, y) PROVE Bounded(e, x, y, z)
      BY <1>4, <1>5, <1>6, <1>7, <1>8, <1>11, <2>2, <3>2, <3>4, <3>5, <3>6 DEF Bounded, u, o
    <3> QED BY <3>3, <3>6 DEF z
  <2>3. CASE ~same
    <3>1. z = F(e)!Subtracted(s, i, u, k) BY <1>15, <1>17, <2>1, <2>3
    <3>2. /\ Difference(e, z, s, i, m - q)
          /\ q = 0 => z = F(e)!cvm_d_pack(s, i, u.hi, u.lo)
      <4>1. i < F(e)!ExpMax /\ Value(k) <= Value(u) /\ Value(u) < 2 * N
        BY <1>6, <1>10, <1>13, <2>1
      <4> QED BY <1>1, <1>6, <2>1, <3>1, <4>1, SubtractedIs
    <3>3. ~F(e)!cvm_d_isnan(z) BY <3>2 DEF Difference
    <3>4. ASSUME IsNormal(e, x), IsNormal(e, y), ~(D > F(e)!MantBits + 1)
          PROVE  OtherSigns(e, z, s, j, D, m, n)
      <4>1. j >= 1
        <5>1. PICK M \in Int : M = F(e)!ExpMax - 1 /\ j \in 1 .. M
          <6>1. PICK t, p, c1, c2 \in Nat : Widths(e, t, p, c1, c2) BY WidthsAre
          <6>2. F(e)!ExpMax = c1 - 1 BY <6>1 DEF Widths
          <6> QED BY <1>5, <3>4, <6>2 DEF IsNormal
        <5> QED BY <5>1
      <4> QED BY <1>1, <1>10, <1>11, <1>13, <3>2, <4>1, OtherSignsIs
    <3>5. ASSUME D > F(e)!MantBits + 1 PROVE q = 0
      <4>1. f + 1 \in Nat /\ f + 1 <= D BY <1>12, <3>5
      <4>2. PICK g \in Nat : g = 2 ^ D /\ g > 0 BY Powers
      <4>3. n < g BY <1>7, <1>12, <4>1, <4>2, PowerOrder
      <4>4. Division(n, g, 0, n) BY <4>2, <4>3 DEF Division
      <4> QED BY <1>13, <4>2, <4>4, DivisionIs
    <3>6. ASSUME IsNormal(e, x), IsNormal(e, y) PROVE Bounded(e, x, y, z)
      BY <1>4, <1>5, <1>6, <1>7, <1>8, <1>11, <2>3, <3>2, <3>4, <3>5, <3>6 DEF Bounded, u, o
    <3> QED BY <3>3, <3>6 DEF z
  <2> QED BY <2>2, <2>3
<1> QED BY <1>14, <1>16, <1>17

(* What cvm_d_add makes of two doubles.                                      *)
Adds(e, x, y, z) ==
  /\ F(e)!cvm_d_isnan(z) <=>
       \/ F(e)!cvm_d_isnan(x) \/ F(e)!cvm_d_isnan(y)
       \/ F(e)!cvm_d_isinf(x) /\ F(e)!cvm_d_isinf(y) /\ F(e)!CVM_D_SIGN(x) # F(e)!CVM_D_SIGN(y)
  /\ IsNormal(e, x) /\ IsNormal(e, y) =>
       IF Value(F(e)!Magnitude(x)) >= Value(F(e)!Magnitude(y))
       THEN Bounded(e, x, y, z) ELSE Bounded(e, y, x, z)

LEMMA AddIs ==
  ASSUME NEW e \in Formats, NEW x \in Pairs, NEW y \in Pairs
  PROVE  Adds(e, x, y, F(e)!cvm_d_add(x, y))
<1> DEFINE z == F(e)!cvm_d_add(x, y)
<1>1. PICK f \in Nat, N \in Nat : Unit(e, f, N) BY UnitIs
<1>2. PICK m \in Nat : F(e)!Magnitude(x) \in Pairs /\ m = Value(F(e)!Magnitude(x))
  <2>1. PICK E \in Nat : PartsOf(e, x, N, E) BY <1>1, PartsAre
  <2>2. F(e)!Magnitude(x) \in Pairs BY <2>1 DEF PartsOf
  <2> QED BY <2>2, ValueBound
<1>3. PICK n \in Nat : F(e)!Magnitude(y) \in Pairs /\ n = Value(F(e)!Magnitude(y))
  <2>1. PICK E \in Nat : PartsOf(e, y, N, E) BY <1>1, PartsAre
  <2>2. F(e)!Magnitude(y) \in Pairs BY <2>1 DEF PartsOf
  <2> QED BY <2>2, ValueBound
<1>4. F(e)!cvm_u64_lt(F(e)!Magnitude(x), F(e)!Magnitude(y)) <=> m < n
  <2>1. cvm_u64_lt(F(e)!Magnitude(x), F(e)!Magnitude(y)) <=> m < n
    BY <1>2, <1>3, ComparesExact
  <2> QED BY <2>1, SameCompare
<1>5. F(e)!cvm_d_isnan(F(e)!CVM_D_NAN)
  <2>1. 0 \in {0, 1} OBVIOUS
  <2> QED BY <2>1, SpecialIs
<1> DEFINE nan(d) == F(e)!cvm_d_isnan(d)
           inf(d) == F(e)!cvm_d_isinf(d)
           zero(d) == F(e)!cvm_d_iszero(d)
           sign(d) == F(e)!CVM_D_SIGN(d)
<1>6. z = IF nan(x) \/ nan(y) THEN F(e)!CVM_D_NAN
          ELSE IF inf(x)
          THEN IF inf(y) /\ sign(x) # sign(y) THEN F(e)!CVM_D_NAN ELSE x
          ELSE IF inf(y) \/ zero(x) THEN y
          ELSE IF zero(y) THEN x
          ELSE IF m < n THEN F(e)!SumOrdered(y, x) ELSE F(e)!SumOrdered(x, y)
  BY <1>4 DEF F!cvm_d_add
<1>7. ASSUME Finite(e, x), Finite(e, y), n <= m
      PROVE  /\ ~nan(F(e)!SumOrdered(x, y))
             /\ IsNormal(e, x) /\ IsNormal(e, y) => Bounded(e, x, y, F(e)!SumOrdered(x, y))
  BY <1>2, <1>3, <1>7, SumOrderedIs
<1>8. ASSUME Finite(e, x), Finite(e, y), m <= n
      PROVE  /\ ~nan(F(e)!SumOrdered(y, x))
             /\ IsNormal(e, x) /\ IsNormal(e, y) => Bounded(e, y, x, F(e)!SumOrdered(y, x))
  BY <1>2, <1>3, <1>8, SumOrderedIs
<1>9. ASSUME NEW d
      PROVE  /\ ~(nan(d) /\ inf(d)) /\ ~(nan(d) /\ zero(d)) /\ ~(inf(d) /\ zero(d))
             /\ IsNormal(e, d) => ~nan(d) /\ ~inf(d) /\ ~zero(d)
  BY KindsAre DEF IsNormal
<1>10. m < n \/ n <= m OBVIOUS
<1>11. m < n => m <= n OBVIOUS
<1> HIDE DEF z, nan, inf, zero, sign
<1>12. Finite(e, x) = (~nan(x) /\ ~inf(x)) /\ Finite(e, y) = (~nan(y) /\ ~inf(y))
  BY DEF Finite, nan, inf
<1>13. nan(F(e)!CVM_D_NAN) BY <1>5 DEF nan
<1>14. nan(z) <=> nan(x) \/ nan(y) \/ (inf(x) /\ inf(y) /\ sign(x) # sign(y))
  BY <1>6, <1>7, <1>8, <1>9, <1>10, <1>11, <1>12, <1>13
<1>15. ASSUME IsNormal(e, x), IsNormal(e, y)
       PROVE  IF m >= n THEN Bounded(e, x, y, z) ELSE Bounded(e, y, x, z)
  <2>1. CASE m < n
    <3>1. z = F(e)!SumOrdered(y, x) BY <1>6, <1>9, <1>15, <2>1
    <3>2. Bounded(e, y, x, z) BY <1>8, <1>9, <1>11, <1>12, <1>15, <2>1, <3>1
    <3> QED BY <2>1, <3>2
  <2>2. CASE n <= m
    <3>1. z = F(e)!SumOrdered(x, y) BY <1>6, <1>9, <1>15, <2>2
    <3>2. Bounded(e, x, y, z) BY <1>7, <1>9, <1>12, <1>15, <2>2, <3>1
    <3> QED BY <2>2, <3>2
  <2> QED BY <2>1, <2>2
<1>16. Adds(e, x, y, z) BY <1>2, <1>3, <1>14, <1>15 DEF Adds, nan, inf, sign
<1> QED BY <1>16 DEF z

(* The negative of a double differs in the sign alone.                      *)
LEMMA NegIs ==
  ASSUME NEW e \in Formats, NEW x \in Pairs
  PROVE  LET y == F(e)!cvm_d_neg(x)
         IN  /\ y \in Pairs /\ F(e)!CVM_D_EXP(y) = F(e)!CVM_D_EXP(x)
             /\ F(e)!cvm_d_isnan(y) <=> F(e)!cvm_d_isnan(x)
             /\ F(e)!cvm_d_isinf(y) <=> F(e)!cvm_d_isinf(x)
             /\ F(e)!cvm_d_iszero(y) <=> F(e)!cvm_d_iszero(x)
             /\ F(e)!CVM_D_SIGN(y) = 1 - F(e)!CVM_D_SIGN(x)
             /\ F(e)!Significand(y) = F(e)!Significand(x)
<1> DEFINE y == F(e)!cvm_d_neg(x)
<1>1. PICK t, p, q, w \in Nat : Widths(e, t, p, q, w) BY WidthsAre
<1>2. PICK d \in Nat : /\ t = F(e)!TopBits /\ p = 2 ^ t /\ q = 2 ^ e /\ w = WordMod
                       /\ p >= 2 /\ q >= 2 /\ d = p * q /\ d = 2 ^ (Bits - 1) /\ w = 2 * d
  BY <1>1 DEF Widths
<1>3. PICK l \in Nat, h \in Nat : l = x.lo /\ h = x.hi /\ l < w /\ h < w BY <1>2, PairIs
<1>4. PICK k \in Nat, c1 \in Int : k = (h + d) % w /\ k < w /\ k = h + d * c1 /\ c1 \in {1, -1}
  <2>1. CASE h < d
    <3>1. Division(h + d, w, 0, h + d)
      <4>1. h + d \in Nat /\ h + d < w /\ w > 0 BY <1>2, <2>1
      <4> QED BY <4>1 DEF Division
    <3>2. (h + d) % w = h + d BY <3>1, DivisionIs
    <3>3. h + d = h + d * 1 /\ h + d < w BY <1>2, <2>1
    <3> QED BY <3>2, <3>3
  <2>2. CASE ~(h < d)
    <3>1. PICK k \in Nat : k = h - d /\ k < w BY <1>3, <2>2
    <3>2. Division(h + d, w, 1, k)
      <4>1. h + d \in Nat /\ h + d = w * 1 + k /\ w > 0 BY <1>2, <1>3, <3>1
      <4> QED BY <3>1, <4>1 DEF Division
    <3>3. (h + d) % w = k BY <3>2, DivisionIs
    <3>4. PICK c1 \in Int : c1 = -1 OBVIOUS
    <3>5. k = h + d * c1 BY <3>1, <3>4
    <3> QED BY <3>1, <3>3, <3>4, <3>5
  <2> QED BY <2>1, <2>2
<1>5. y = I64(l, k) BY <1>2, <1>3, <1>4 DEF F!cvm_d_neg, F!I64, F!WordMod, I64, WordMod
<1>6. y \in Pairs
  <2>1. I64(l, k) \in Pairs BY <1>2, <1>3, <1>4, IsPair
  <2> QED BY <1>5, <2>1
<1>7. PICK u \in Int, r \in Nat : Division(h, p, u, r)
  <2>1. h \in Int /\ p > 0 BY <1>2
  <2> QED BY <2>1, Divided
<1>8. PICK s \in Int, E \in Nat : Division(u, q, s, E)
  <2>1. u \in Int /\ q > 0 BY <1>2
  <2> QED BY <2>1, Divided
<1>9. PICK g \in Int : g = q * c1 OBVIOUS
<1>10. Division(k, p, u + g, r)
  <2>1. Division(h + p * g, p, u + g, r) BY <1>7, DivisionAdds
  <2>2. p * (q * c1) = (p * q) * c1 OBVIOUS
  <2>3. k = h + p * g BY <1>2, <1>4, <1>9, <2>2
  <2> QED BY <2>1, <2>3
<1>11. Division(u + g, q, s + c1, E) BY <1>8, <1>9, DivisionAdds
<1>12. PICK v \in Int : v = u + g OBVIOUS
<1>13. /\ h \div p = u /\ h % p = r /\ u % q = E
       /\ k \div p = v /\ k % p = r /\ v % q = E
  <2>1. h \div p = u /\ h % p = r BY <1>7, DivisionIs
  <2>2. u % q = E BY <1>8, DivisionIs
  <2>3. k \div p = v /\ k % p = r BY <1>10, <1>12, DivisionIs
  <2>4. v % q = E BY <1>11, <1>12, DivisionIs
  <2> QED BY <2>1, <2>2, <2>3, <2>4
<1>14. F(e)!CVM_D_EXP(x) = E /\ F(e)!CVM_D_MHI(x) = r
  BY <1>2, <1>3, <1>13 DEF F!CVM_D_EXP, F!CVM_D_MHI, F!Shr
<1>15. F(e)!CVM_D_EXP(y) = E /\ F(e)!CVM_D_MHI(y) = r /\ y.lo = l
  BY <1>2, <1>5, <1>13 DEF F!CVM_D_EXP, F!CVM_D_MHI, F!Shr, I64
<1>16. F(e)!CVM_D_SIGN(x) = s /\ F(e)!CVM_D_SIGN(y) = s + c1
  <2>1. PICK i \in Nat : i = p * E + r OBVIOUS
  <2>2. Division(h, d, s, i) BY <1>2, <1>7, <1>8, <2>1, DivisionTwice
  <2>3. Division(k, d, s + c1, i) BY <1>4, <2>2, DivisionAdds
  <2>4. h \div d = s /\ k \div d = s + c1 BY <2>2, <2>3, DivisionIs
  <2> QED BY <1>2, <1>3, <1>5, <2>4 DEF F!CVM_D_SIGN, F!Shr, I64
<1> HIDE DEF y
<1>17. F(e)!CVM_D_SIGN(y) = 1 - F(e)!CVM_D_SIGN(x)
  <2>1. F(e)!CVM_D_SIGN(x) \in {0, 1} /\ F(e)!CVM_D_SIGN(y) \in {0, 1} BY <1>6, SignIs
  <2>2. s \in {0, 1} /\ s + c1 \in {0, 1} BY <1>16, <2>1
  <2>3. s + c1 = 1 - s BY <1>4, <2>2
  <2> QED BY <1>16, <2>3
<1>18. F(e)!NoMantissa(x) <=> F(e)!NoMantissa(y) BY <1>3, <1>14, <1>15 DEF F!NoMantissa
<1>19. F(e)!Significand(y) = F(e)!Significand(x)
  BY <1>3, <1>14, <1>15 DEF F!Significand, F!I64, I64
<1> QED BY <1>6, <1>14, <1>15, <1>17, <1>18, <1>19
        DEF F!cvm_d_isnan, F!cvm_d_isinf, F!cvm_d_iszero, y

(* The bound of SumsBounded on a sum of normal numbers.                     *)
SumBound ==
  IF Distance > P + 1 THEN ret = Larger
  ELSE LET over == Carry(ExactSum >= 2 ^ (P + 1 + Distance)) IN
    CASE OneSign ->
           IsNumber(ret, Sign(a), Exp(Larger) + over, ExactSum \div 2 ^ (Distance + over))
      [] ~OneSign /\ Zero(ret) ->
           ExactSum = 0 \/ ExactSum * 2 ^ (Exp(Smaller) - 1) < 2 ^ P
      [] ~OneSign /\ ~Zero(ret) ->
           /\ Normal(ret)
           /\ Sign(ret) = Sign(Larger)
           /\ InUnits(ret) - ExactSum \in 0 .. 2 ^ Distance - 1

LEMMA SumBoundIs ==
  ASSUME NEW e, fmt' = e, NEW g, NEW s, NEW d, Larger' = g, Smaller' = s, ret' = d,
         NEW one, OneSign' = one, one = (F(e)!CVM_D_SIGN(g) = F(e)!CVM_D_SIGN(s)),
         one => Sign(a)' = F(e)!CVM_D_SIGN(g), Bounded(e, g, s, d)
  PROVE  SumBound'
<1> DEFINE D == F(e)!CVM_D_EXP(g) - F(e)!CVM_D_EXP(s)
           m == Value(F(e)!Significand(g))
           n == Value(F(e)!Significand(s))
<1>1. Distance' = D /\ P' = F(e)!MantBits BY DEF Distance, Exp, P
<1>2. /\ Sig(Larger)' = m /\ Sig(Smaller)' = n
      /\ Exp(Larger)' = F(e)!CVM_D_EXP(g) /\ Exp(Smaller)' = F(e)!CVM_D_EXP(s)
      /\ Sign(Larger)' = F(e)!CVM_D_SIGN(g) /\ Sign(ret)' = F(e)!CVM_D_SIGN(d)
      /\ Zero(ret)' = F(e)!cvm_d_iszero(d)
      /\ Normal(ret)' = (F(e)!CVM_D_EXP(d) \in 1 .. F(e)!ExpMax - 1)
  BY DEF Sig, Exp, Sign, Zero, Normal
<1>3. ExactSum' = IF one THEN m * 2 ^ D + n ELSE m * 2 ^ D - n
  BY <1>1, <1>2 DEF ExactSum
<1>4. InUnits(ret)' = UnitsOf(e, d, F(e)!CVM_D_EXP(s))
  BY <1>2 DEF InUnits, UnitsOf, Exp, Sig
<1>5. ASSUME NEW k1, NEW k2, NEW k3
      PROVE  IsNumber(ret, k1, k2, k3)' = NumberOf(e, d, k1, k2, k3)
  BY DEF IsNumber, NumberOf, Sign, Inf, Zero, Exp, Sig
<1>6. /\ D > F(e)!MantBits + 1 => d = g
      /\ ~(D > F(e)!MantBits + 1) /\ one =>
           SameSigns(e, d, F(e)!CVM_D_SIGN(g), F(e)!CVM_D_EXP(g), D, m, n)
      /\ ~(D > F(e)!MantBits + 1) /\ ~one =>
           OtherSigns(e, d, F(e)!CVM_D_SIGN(g), F(e)!CVM_D_EXP(s), D, m, n)
  BY DEF Bounded
<1> HIDE DEF D, m, n
<1>7. CASE D > F(e)!MantBits + 1 BY <1>1, <1>6, <1>7 DEF SumBound
<1>8. CASE ~(D > F(e)!MantBits + 1) /\ one
  <2>1. SameSigns(e, d, F(e)!CVM_D_SIGN(g), F(e)!CVM_D_EXP(g), D, m, n) BY <1>6, <1>8
  <2>2. PICK v, o : v = m * 2 ^ D + n /\ o = Carry(v >= 2 ^ (F(e)!MantBits + 1 + D)) OBVIOUS
  <2>3. NumberOf(e, d, F(e)!CVM_D_SIGN(g), F(e)!CVM_D_EXP(g) + o, v \div 2 ^ (D + o))
    BY <2>1, <2>2 DEF SameSigns
  <2>4. ExactSum' = v BY <1>3, <1>8, <2>2
  <2>5. o = Carry(ExactSum >= 2 ^ (P + 1 + Distance))' BY <1>1, <2>2, <2>4
  <2>6. IsNumber(ret, Sign(a), Exp(Larger) + Carry(ExactSum >= 2 ^ (P + 1 + Distance)),
                 ExactSum \div 2 ^ (Distance + Carry(ExactSum >= 2 ^ (P + 1 + Distance))))'
    BY <1>1, <1>2, <1>5, <1>8, <2>3, <2>4, <2>5
  <2> QED BY <1>1, <1>8, <2>6 DEF SumBound
<1>9. CASE ~(D > F(e)!MantBits + 1) /\ ~one
  <2>1. OtherSigns(e, d, F(e)!CVM_D_SIGN(g), F(e)!CVM_D_EXP(s), D, m, n) BY <1>6, <1>9
  <2>2. ExactSum' = m * 2 ^ D - n BY <1>3, <1>9
  <2>3. CASE F(e)!cvm_d_iszero(d)
    <3>1. (ExactSum = 0 \/ ExactSum * 2 ^ (Exp(Smaller) - 1) < 2 ^ P)'
      BY <1>1, <1>2, <2>1, <2>2, <2>3 DEF OtherSigns
    <3> QED BY <1>1, <1>2, <1>9, <2>3, <3>1 DEF SumBound
  <2>4. CASE ~F(e)!cvm_d_iszero(d)
    <3>1. (/\ Normal(ret) /\ Sign(ret) = Sign(Larger)
           /\ InUnits(ret) - ExactSum \in 0 .. 2 ^ Distance - 1)'
      BY <1>1, <1>2, <1>4, <2>1, <2>2, <2>4 DEF OtherSigns
    <3> QED BY <1>1, <1>2, <1>9, <2>4, <3>1 DEF SumBound
  <2> QED BY <2>3, <2>4
<1> QED BY <1>7, <1>8, <1>9

LEMMA SumReturned ==
  ASSUME fmt \in Formats, NEW f \in FloatFns, NEW x \in Pairs, NEW y \in Pairs, NEW z,
         Called(f, x, y, z), Returns(FloatResult(f, x, y))
  PROVE  SumsBounded'
<1> SUFFICES ASSUME f \in {"fadd", "fsub"} PROVE SumsBounded'
  BY DEF Called, SumsBounded, ReturnedSum, ReturnedOneOf
<1>1. PICK e \in Formats : e = fmt OBVIOUS
<1>2. PICK k \in Pairs :
        /\ k = (IF f = "fsub" THEN F(e)!cvm_d_neg(y) ELSE y)
        /\ F(e)!CVM_D_EXP(k) = F(e)!CVM_D_EXP(y)
        /\ F(e)!cvm_d_isnan(k) <=> F(e)!cvm_d_isnan(y)
        /\ F(e)!cvm_d_isinf(k) <=> F(e)!cvm_d_isinf(y)
  <2>1. CASE f = "fsub" BY <2>1, NegIs
  <2>2. CASE f = "fadd" BY <2>2
  <2> QED BY <2>1, <2>2
<1>3. PICK d : d = F(e)!cvm_d_add(x, k) OBVIOUS
<1>4. fmt' = e /\ fn' = f /\ a' = x /\ b' = y /\ ret' = d
  BY <1>1, <1>2, <1>3 DEF Called, Returns, FloatResult, F!cvm_d_sub
<1>5. Adds(e, x, k, d) BY <1>3, AddIs
<1>6. Added' = k BY <1>2, <1>4 DEF Added
<1>7. /\ NaN(a)' = F(e)!cvm_d_isnan(x) /\ NaN(b)' = F(e)!cvm_d_isnan(y)
      /\ Inf(a)' = F(e)!cvm_d_isinf(x) /\ Inf(b)' = F(e)!cvm_d_isinf(y)
      /\ NaN(ret)' = F(e)!cvm_d_isnan(d) /\ Sign(a)' = F(e)!CVM_D_SIGN(x)
      /\ OneSign' = (F(e)!CVM_D_SIGN(x) = F(e)!CVM_D_SIGN(k))
      /\ Normal(a)' = IsNormal(e, x) /\ Normal(b)' = IsNormal(e, k)
      /\ Abs(a)' = Value(F(e)!Magnitude(x)) /\ Abs(Added)' = Value(F(e)!Magnitude(k))
  BY <1>2, <1>4, <1>6 DEF NaN, Inf, Sign, OneSign, Normal, IsNormal, Exp, Abs
<1>8. NaN(ret)' <=> NaN(a)' \/ NaN(b)' \/ (Inf(a)' /\ Inf(b)' /\ ~OneSign')
  BY <1>2, <1>5, <1>7 DEF Adds
<1>9. ASSUME Normal(a)', Normal(b)' PROVE SumBound'
  <2>1. PICK one : one = (F(e)!CVM_D_SIGN(x) = F(e)!CVM_D_SIGN(k)) OBVIOUS
  <2>2. CASE Value(F(e)!Magnitude(x)) >= Value(F(e)!Magnitude(k))
    <3>1. Bounded(e, x, k, d) BY <1>5, <1>7, <1>9, <2>2 DEF Adds
    <3>2. Larger' = x /\ Smaller' = k BY <1>4, <1>6, <1>7, <2>2 DEF Larger, Smaller
    <3> QED BY <1>4, <1>7, <2>1, <3>1, <3>2, SumBoundIs
  <2>3. CASE ~(Value(F(e)!Magnitude(x)) >= Value(F(e)!Magnitude(k)))
    <3>1. Bounded(e, k, x, d) BY <1>5, <1>7, <1>9, <2>3 DEF Adds
    <3>2. Larger' = k /\ Smaller' = x BY <1>4, <1>6, <1>7, <2>3 DEF Larger, Smaller
    <3>3. one = (F(e)!CVM_D_SIGN(k) = F(e)!CVM_D_SIGN(x)) BY <2>1
    <3>4. one => Sign(a)' = F(e)!CVM_D_SIGN(k) BY <1>7, <2>1
    <3> QED BY <1>4, <1>7, <2>1, <3>1, <3>2, <3>3, <3>4, SumBoundIs
  <2> QED BY <2>2, <2>3
<1> QED BY <1>8, <1>9 DEF SumsBounded, ReturnedSum, SumBound

LEMMA SumStep == SumsBounded /\ SoftInv /\ LoopsInv /\ [Next]_vars => SumsBounded'
<1> SUFFICES ASSUME SumsBounded, SoftInv, LoopsInv, [Next]_vars PROVE SumsBounded' OBVIOUS
<1>1. fmt \in Formats BY DEF LoopsInv
<1>2. CASE CallFloat BY <1>1, <1>2, FloatCall, SumReturned
<1>3. CASE at' # "returned" \/ fn' \notin FloatFns
  BY <1>3 DEF SumsBounded, ReturnedSum, ReturnedOneOf, FloatFns
<1>4. CASE UNCHANGED vars
  <2>1. at' = at /\ fn' = fn /\ a' = a /\ b' = b /\ ret' = ret /\ fmt' = fmt
    BY <1>4 DEF vars
  <2>2. /\ NaN(a)' = NaN(a) /\ NaN(b)' = NaN(b) /\ NaN(ret)' = NaN(ret)
        /\ Inf(a)' = Inf(a) /\ Inf(b)' = Inf(b) /\ Zero(ret)' = Zero(ret)
        /\ Normal(a)' = Normal(a) /\ Normal(b)' = Normal(b) /\ Normal(ret)' = Normal(ret)
        /\ P' = P /\ Added' = Added /\ OneSign' = OneSign
        /\ Sign(a)' = Sign(a) /\ Sign(ret)' = Sign(ret)
        /\ Larger' = Larger /\ Smaller' = Smaller
    BY <2>1 DEF NaN, Inf, Zero, Sign, Normal, P, Exp, Added, OneSign, Larger, Smaller, Abs
  <2>3. /\ Sign(Larger)' = Sign(Larger) /\ Exp(Larger)' = Exp(Larger)
        /\ Exp(Smaller)' = Exp(Smaller)
        /\ Sig(Larger)' = Sig(Larger) /\ Sig(Smaller)' = Sig(Smaller)
    BY <2>1, <2>2 DEF Sign, Exp, Sig
  <2>4. Distance' = Distance /\ ExactSum' = ExactSum /\ InUnits(ret)' = InUnits(ret)
    BY <2>1, <2>2, <2>3 DEF Distance, ExactSum, InUnits, Exp, Sig
  <2>5. ASSUME NEW s, NEW k, NEW sig
        PROVE  IsNumber(ret, s, k, sig)' = IsNumber(ret, s, k, sig)
    BY <2>1 DEF IsNumber, Sign, Inf, Zero, Exp, Sig
  <2>6. SumBound' = SumBound BY <2>1, <2>2, <2>3, <2>4, <2>5 DEF SumBound
  <2> QED BY <2>1, <2>2, <2>6 DEF SumsBounded, ReturnedSum, ReturnedOneOf, SumBound
<1> QED BY <1>2, <1>3, <1>4, FloatReturns

(***************************************************************************)
(* cvm_d_add and cvm_d_sub, for every format and all operands: a sum of      *)
(* numbers of one sign is truncated; a difference is never below the exact  *)
(* one in magnitude and less than a unit in the last place of the larger    *)
(* operand above it, with the sign of the larger operand, and zero only if   *)
(* it is too small to be normal; operands too far apart leave the larger one *)
(* as it is; only a NaN or two infinities of different signs give a NaN.    *)
(***************************************************************************)
THEOREM SumsAreBounded == Spec => []SumsBounded
<1>1. Init => SumsBounded /\ SoftInv /\ LoopsInv
  <2>1. Init => SumsBounded
    <3>1. ASSUME Init PROVE at = "idle" BY <3>1 DEF Init
    <3> QED BY <3>1 DEF SumsBounded, ReturnedSum, ReturnedOneOf
  <2> QED BY <2>1, SoftStart, LoopsStart
<1>2. (SumsBounded /\ SoftInv /\ LoopsInv) /\ [Next]_vars
      => (SumsBounded /\ SoftInv /\ LoopsInv)'
  BY SumStep, SoftStep, LoopsStep
<1> QED BY <1>1, <1>2, PTL DEF Spec

-----------------------------------------------------------------------------
(* Conversions.                                                             *)

LEMMA BiasIs ==
  ASSUME NEW e \in Formats
  PROVE  \E B \in Nat : B = F(e)!Bias /\ F(e)!ExpMax = 2 * B + 1
<1>1. e - 1 \in Nat /\ (e - 1) + 1 = e BY FormatIs
<1>2. PICK k \in Nat : k = 2 ^ (e - 1) /\ k > 0 /\ 2 ^ e = 2 * k BY <1>1, Powers
<1>3. F(e)!Bias = k - 1 BY <1>2 DEF F!Bias
<1>4. F(e)!ExpMax = 2 * k - 1 BY <1>2 DEF F!ExpMax
<1> QED BY <1>2, <1>3, <1>4

LEMMA PackPair ==
  ASSUME NEW e \in Formats, NEW s \in {0, 1}, NEW x \in Nat, NEW h \in Nat, NEW l \in Nat,
         l < WordMod
  PROVE  F(e)!cvm_d_pack(s, x, h, l) \in Pairs
<1>1. PICK t, p, q, w \in Nat : Widths(e, t, p, q, w) BY WidthsAre
<1>2. PICK d \in Nat : /\ t = F(e)!TopBits /\ p = 2 ^ t /\ q = 2 ^ e /\ w = WordMod
                       /\ p >= 2 /\ q >= 2 /\ d = p * q /\ d = 2 ^ (Bits - 1) /\ w = 2 * d
  BY <1>1 DEF Widths
<1>3. PICK u \in Nat, r \in Nat : u = x % q /\ u < q /\ r = h % p /\ r < p BY <1>2
<1>4. PICK k \in Nat : k = u * p OBVIOUS
<1>5. k + p <= d
  <2>1. u + 1 <= q BY <1>3
  <2>2. (u + 1) * p <= q * p BY <2>1
  <2>3. (u + 1) * p = u * p + p /\ q * p = p * q OBVIOUS
  <2> QED BY <1>2, <1>4, <2>2, <2>3
<1>6. PICK g \in Nat : g = s * d + k + r /\ g < w
  <2>1. s = 0 => s * d = 0 OBVIOUS
  <2>2. s = 1 => s * d = d OBVIOUS
  <2>3. PICK c1 \in Nat : c1 = s * d /\ c1 <= d BY <2>1, <2>2
  <2> QED BY <1>2, <1>3, <1>5, <2>3
<1>7. F(e)!cvm_d_pack(s, x, h, l) = I64(l, g)
  BY <1>2, <1>3, <1>4, <1>6 DEF F!cvm_d_pack, F!I64, I64
<1>8. I64(l, g) \in Pairs BY <1>2, <1>6, IsPair
<1> QED BY <1>7, <1>8

(* The normal number of a sign, an exponent and a fraction.                 *)
IsDouble(e, z, s, x, sig) ==
  /\ z \in Pairs /\ IsNormal(e, z)
  /\ F(e)!CVM_D_SIGN(z) = s /\ F(e)!CVM_D_EXP(z) = x /\ Value(F(e)!Significand(z)) = sig

LEMMA PackFraction ==
  ASSUME NEW e \in Formats, NEW f \in Nat, NEW N \in Nat, Unit(e, f, N), NEW s \in {0, 1},
         NEW x \in Nat, x >= 1, x < F(e)!ExpMax, NEW m \in Pairs, Value(m) < N
  PROVE  IsDouble(e, F(e)!cvm_d_pack(s, x, m.hi, m.lo), s, x, Value(m) + N)
<1> DEFINE z == F(e)!cvm_d_pack(s, x, m.hi, m.lo)
<1>1. PICK t, p, q, w \in Nat : Widths(e, t, p, q, w) BY WidthsAre
<1>2. /\ t = F(e)!TopBits /\ p = 2 ^ t /\ w = WordMod /\ p >= 2 /\ q >= 2
      /\ F(e)!ExpMax = q - 1 /\ N = w * p /\ 4 * N <= Mod /\ Mod = w * w
  BY <1>1, WordFacts DEF Widths, Unit
<1>3. PICK l \in Nat, h \in Nat : l = m.lo /\ h = m.hi /\ l < w /\ h < w /\ Value(m) = l + w * h
  BY <1>2, PairIs
<1>4. h < p
  <2>1. h >= p <=> l + w * h >= w * p BY <1>3, Above
  <2>2. PICK v \in Nat : v = Value(m) BY ValueBound
  <2> QED BY <1>2, <1>3, <2>1, <2>2
<1>5. PICK g \in Nat : g = h + p /\ g < w
  <2>1. 2 * p <= w
    <3>1. w = 2 * (p * q) BY <1>1 DEF Widths
    <3>2. p * q >= p BY <1>2
    <3>3. PICK k \in Nat : k = p * q OBVIOUS
    <3> QED BY <3>1, <3>2, <3>3
  <2> QED BY <1>4, <2>1
<1>6. PICK r \in Pairs : r = I64(l, g) /\ Value(r) = l + w * g
  <2>1. I64(l, g) \in Pairs /\ Value(I64(l, g)) = l + w * g BY <1>2, <1>3, <1>5, IsPair
  <2> QED BY <2>1
<1>7. Value(r) = Value(m) + N
  <2>1. l + w * (h + p) = (l + w * h) + w * p OBVIOUS
  <2> QED BY <1>2, <1>3, <1>5, <1>6, <2>1
<1>8. z = F(e)!cvm_d_pack(s, x, r.hi, r.lo)
  <2>1. g % p = h % p
    <3>1. h \in Int /\ p > 0 /\ 1 \in Int BY <1>2
    <3>2. (h + p * 1) % p = h % p BY <3>1, ModAdds
    <3>3. g = h + p * 1 BY <1>5
    <3> QED BY <3>2, <3>3
  <2>2. r.hi = g /\ r.lo = l BY <1>6 DEF I64
  <2> QED BY <1>2, <1>3, <2>1, <2>2 DEF F!cvm_d_pack
<1>9. PICK v \in Nat : v = Value(m) BY ValueBound
<1>10. N <= Value(r) /\ Value(r) < 2 * N BY <1>7, <1>9
<1>11. NumberOf(e, z, s, x, Value(r)) /\ F(e)!CVM_D_EXP(z) = x BY <1>6, <1>8, <1>10, PackWhole
<1>12. z \in Pairs BY <1>2, <1>3, PackPair
<1> HIDE DEF z
<1>13. x \in 1 .. F(e)!ExpMax - 1 /\ ~(x >= F(e)!ExpMax) /\ ~(x <= 0) BY <1>2
<1>14. IsNormal(e, z) BY <1>11, <1>13 DEF IsNormal
<1> QED BY <1>7, <1>11, <1>12, <1>13, <1>14 DEF NumberOf, IsDouble, z

(* The double that is the number v times 2 ^ n, v of k + 1 bits.             *)
Scaled(e, z, s, v, k, n) == IsDouble(e, z, s, F(e)!Bias + k + n, v * 2 ^ (F(e)!MantBits - k))

LEMMA FromWordIs ==
  ASSUME NEW e \in Formats, F(e)!Bias >= Bits, NEW v \in Nat, v > 0, v < WordMod
  PROVE  \E k \in 0 .. Bits - 1 : Leads(k, v) /\ Scaled(e, F(e)!cvm_d_from_u32(v), 0, v, k, 0)
<1>1. PICK f \in Nat, N \in Nat : Unit(e, f, N) BY UnitIs
<1>2. /\ f = F(e)!MantBits /\ 2 ^ f = N /\ N > 0 /\ 4 * N <= Mod /\ Mod \in Nat
      /\ f + 1 < 2 * Bits /\ Bits \in Nat
  BY <1>1, WordFacts DEF Unit
<1>3. PICK k \in 0 .. Bits - 1 : k = F(e)!cvm__top_bit_u32(v) /\ Leads(k, v) BY TopBitIs
<1>4. PICK n \in Nat : n = f - k /\ k \in Nat /\ k + n = f /\ n < 2 * Bits
  <2>1. PICK t \in Nat : f = t + Bits BY <1>2, FormatIs
  <2>2. k \in Nat /\ k <= Bits - 1 BY <1>2, <1>3
  <2>3. f - k \in Nat /\ k + (f - k) = f /\ f - k < 2 * Bits BY <1>2, <2>1, <2>2
  <2> QED BY <2>2, <2>3
<1>5. PICK g \in Nat, h \in Nat : /\ g = 2 ^ k /\ h = 2 ^ n /\ h > 0 /\ g <= v /\ v < 2 * g
                                  /\ N = g * h
  <2>1. 2 ^ (k + n) = 2 ^ k * 2 ^ n BY <1>4, PowerSum
  <2>2. 2 ^ k \in Nat /\ 2 ^ n \in Nat /\ 2 ^ n > 0 /\ 2 ^ (k + 1) = 2 * 2 ^ k BY <1>4, Powers
  <2> QED BY <1>2, <1>3, <1>4, <2>1, <2>2 DEF Leads
<1>6. PICK u \in Nat : u = v - g /\ u < g /\ u < WordMod BY <1>5, WordFacts
<1>7. I64(u, 0) \in Pairs /\ Value(I64(u, 0)) = u
  <2>1. 0 < WordMod /\ WordMod * 0 = 0 BY WordFacts
  <2>2. I64(u, 0) \in Pairs /\ Value(I64(u, 0)) = u + WordMod * 0 BY <1>6, <2>1, IsPair
  <2> QED BY <2>1, <2>2
<1>8. PICK i \in Nat : i = u * h /\ i < N
  <2>1. u * h < g * h BY <1>5, <1>6
  <2> QED BY <1>5, <2>1
<1>9. PICK m \in Pairs : m = cvm_u64_shl(I64(u, 0), n) /\ Value(m) = i
  <2>1. n % (2 * Bits) = n BY <1>4, Within
  <2>2. cvm_u64_shl(I64(u, 0), n) \in Pairs /\ Value(cvm_u64_shl(I64(u, 0), n)) = i % Mod
    BY <1>5, <1>7, <1>8, <2>1, ShlExact
  <2>3. Division(i, Mod, 0, i) BY <1>2, <1>8 DEF Division
  <2> QED BY <2>2, <2>3, DivisionIs
<1>10. PICK B \in Nat : B = F(e)!Bias /\ F(e)!ExpMax = 2 * B + 1 BY BiasIs
<1>11. PICK x \in Nat : x = F(e)!Bias + k /\ x >= 1 /\ x < F(e)!ExpMax
  BY <1>2, <1>3, <1>10, WordFacts
<1>12. F(e)!cvm_d_from_u32(v) = F(e)!cvm_d_pack(0, x, m.hi, m.lo)
  <2>1. F(e)!cvm_u64_shl(I64(u, 0), n) = m BY <1>9, SameShl
  <2>2. F(e)!I64(v - g, 0) = I64(u, 0) BY <1>6 DEF F!I64, I64
  <2> QED BY <1>2, <1>3, <1>4, <1>5, <1>11, <2>1, <2>2 DEF F!cvm_d_from_u32
<1>13. IsDouble(e, F(e)!cvm_d_pack(0, x, m.hi, m.lo), 0, x, Value(m) + N)
  <2>1. 0 \in {0, 1} OBVIOUS
  <2> QED BY <1>1, <1>8, <1>9, <1>11, <2>1, PackFraction
<1>14. Value(m) + N = v * 2 ^ (F(e)!MantBits - k)
  <2>1. (v - g) * h + g * h = v * h OBVIOUS
  <2> QED BY <1>2, <1>4, <1>5, <1>6, <1>8, <1>9, <2>1
<1>15. x = F(e)!Bias + k + 0 BY <1>4, <1>10, <1>11
<1>16. Scaled(e, F(e)!cvm_d_from_u32(v), 0, v, k, 0) BY <1>12, <1>13, <1>14, <1>15 DEF Scaled
<1> QED BY <1>3, <1>16

(* The integer part of a double, or a number beyond every integer.          *)
TruncatedOf(e, x) ==
  LET u == F(e)!CVM_D_EXP(x) - F(e)!Bias
  IN  IF F(e)!cvm_d_iszero(x) \/ u < 0 THEN 0
      ELSE IF u > Bits THEN Mod
      ELSE (Value(F(e)!Significand(x)) * 2 ^ u) \div 2 ^ F(e)!MantBits

(* A significand cut at a place: i is what is before the point.             *)
LEMMA CutAt ==
  ASSUME NEW e \in Formats, NEW x \in Pairs, NEW u \in Nat, u <= Bits
  PROVE  \E i \in Nat : /\ i = (Value(F(e)!Significand(x)) * 2 ^ u) \div 2 ^ F(e)!MantBits
                        /\ i = Value(F(e)!Significand(x)) \div 2 ^ (F(e)!MantBits - u)
                        /\ 2 ^ u <= i /\ i < 2 ^ (u + 1)
<1>1. PICK f \in Nat, N \in Nat : Unit(e, f, N) BY UnitIs
<1>2. f = F(e)!MantBits /\ 2 ^ f = N /\ N > 0 /\ Bits \in Nat BY <1>1, WordFacts DEF Unit
<1>3. PICK m \in Nat : m = Value(F(e)!Significand(x)) /\ N <= m /\ m < 2 * N
  <2>1. F(e)!Significand(x) \in Pairs BY <1>1, UnitSignificand
  <2>2. N <= Value(F(e)!Significand(x)) /\ Value(F(e)!Significand(x)) < 2 * N
    BY <1>1, UnitSignificand
  <2> QED BY <2>1, <2>2, ValueBound
<1>4. PICK n \in Nat : n = f - u /\ n + u = f
  <2>1. PICK t \in Nat : f = t + Bits BY <1>2, FormatIs
  <2> QED BY <1>2, <2>1
<1>5. PICK g \in Nat, h \in Nat : /\ g = 2 ^ u /\ h = 2 ^ n /\ g > 0 /\ h > 0 /\ N = h * g
                                  /\ 2 ^ (u + 1) = 2 * g
  <2>1. 2 ^ (n + u) = 2 ^ n * 2 ^ u BY <1>4, PowerSum
  <2> QED BY <1>2, <1>4, <2>1, Powers
<1>6. PICK i \in Int, r \in Nat : Division(m, h, i, r) BY <1>5, Divided
<1>7. i \in Nat /\ g <= i /\ i < 2 * g
  <2>1. h * g <= m /\ m < 2 * (h * g) BY <1>3, <1>5
  <2> QED BY <1>5, <1>6, <2>1, QuotientBetween
<1>8. m \div h = i BY <1>6, DivisionIs
<1>9. (m * g) \div N = i
  <2>1. Division(g * m, g * h, i, g * r) BY <1>5, <1>6, DivisionScales
  <2>2. (g * m) \div (g * h) = i BY <2>1, DivisionIs
  <2>3. g * m = m * g /\ g * h = h * g OBVIOUS
  <2> QED BY <1>5, <2>2, <2>3
<1> QED BY <1>2, <1>3, <1>4, <1>5, <1>7, <1>8, <1>9

LEMMA IntegerPartIs ==
  ASSUME NEW e \in Formats, NEW x \in Pairs, NEW u \in Nat, u < Bits
  PROVE  \E i \in Nat : /\ i = F(e)!IntegerPart(x, u)
                        /\ i = (Value(F(e)!Significand(x)) * 2 ^ u) \div 2 ^ F(e)!MantBits
                        /\ 2 ^ u <= i /\ i < 2 ^ (u + 1) /\ 2 ^ (u + 1) <= WordMod
<1>1. PICK t, p, q, w \in Nat : Widths(e, t, p, q, w) BY WidthsAre
<1>2. t = F(e)!TopBits /\ t >= 1 /\ Bits \in Nat /\ t + 2 <= Bits
  BY <1>1, WordFacts DEF Widths
<1>3. PICK n \in Nat : /\ n = F(e)!MantBits - u /\ n >= 1 /\ n < 2 * Bits
  <2>1. F(e)!MantBits = t + Bits BY <1>2 DEF F!MantBits
  <2> QED BY <1>2, <2>1
<1>4. PICK s \in Pairs : s = F(e)!Significand(x)
  <2>1. PICK f \in Nat, N \in Nat : Unit(e, f, N) BY UnitIs
  <2> QED BY <2>1, UnitSignificand
<1>5. PICK i \in Nat : /\ i = (Value(s) * 2 ^ u) \div 2 ^ F(e)!MantBits
                       /\ i = Value(s) \div 2 ^ n
                       /\ 2 ^ u <= i /\ i < 2 ^ (u + 1)
  <2>1. u <= Bits BY <1>2
  <2> QED BY <1>3, <1>4, <2>1, CutAt
<1>6. n % (2 * Bits) = n BY <1>3, Within
<1>7. PICK z \in Pairs : z = cvm_u64_shr(s, n) /\ Value(z) = i BY <1>3, <1>5, <1>6, ShrExact
<1>8. 2 ^ (u + 1) <= WordMod
  <2>1. u + 1 \in Nat /\ u + 1 <= Bits BY <1>2
  <2> QED BY <1>2, <2>1, PowerOrder DEF WordMod
<1>9. z.lo = i
  <2>1. PICK l \in Nat, h \in Nat : l = z.lo /\ h = z.hi /\ i = l + WordMod * h
    BY <1>7, PairIs
  <2>2. PICK v \in Nat, k \in Nat : v = WordMod /\ k = 2 ^ (u + 1) BY WordFacts, Powers
  <2>3. i < v BY <1>5, <1>8, <2>2
  <2>4. h = 0
    <3>1. h >= 1 => v * h >= v * 1 BY <2>2
    <3> QED BY <2>1, <2>2, <2>3, <3>1
  <2>5. v * 0 = 0 BY <2>2
  <2> QED BY <2>1, <2>2, <2>4, <2>5
<1>10. F(e)!IntegerPart(x, u) = z.lo
  <2>1. s.hi = F(e)!CVM_D_MHI(x) + 2 ^ F(e)!TopBits /\ s.lo = x.lo
    BY <1>4 DEF F!Significand, F!I64
  <2>2. CASE n >= Bits
    <3>1. n # 0 /\ ~(n < Bits) BY <1>2, <1>3, <2>2
    <3>2. z.lo = Shr(s.hi, n - Bits) BY <1>6, <1>7, <2>2, <3>1 DEF cvm_u64_shr, I64
    <3> QED BY <1>3, <2>1, <2>2, <3>2 DEF F!IntegerPart, F!Shr, Shr
  <2>3. CASE ~(n >= Bits)
    <3>1. n # 0 BY <1>3
    <3>2. z.lo = Shr(s.lo, n) + Shl(s.hi, Bits - n)
      BY <1>6, <1>7, <2>3, <3>1 DEF cvm_u64_shr, I64
    <3>3. Shr(s.lo, n) \in Int /\ Shl(s.hi, Bits - n) \in Int
      <4>1. PICK l \in Nat, h \in Nat : l = s.lo /\ h = s.hi BY <1>4, PairIs
      <4>2. Bits - n \in Nat BY <1>2, <1>3, <2>3
      <4>3. PICK k1 \in Nat, k2 \in Nat : /\ k1 = 2 ^ n /\ k1 > 0 /\ k2 = 2 ^ (Bits - n)
        BY <1>3, <4>2, Powers
      <4>4. l \div k1 \in Int BY <4>3
      <4>5. PICK k3 \in Int : k3 = h * k2 OBVIOUS
      <4>6. k3 % WordMod \in Int BY WordFacts
      <4> QED BY <4>1, <4>3, <4>4, <4>5, <4>6 DEF Shr, Shl
    <3>4. PICK k1 \in Int, k2 \in Int : /\ k1 = Shr(s.lo, n) /\ k2 = Shl(s.hi, Bits - n)
      BY <3>3
    <3>5. k1 + k2 = k2 + k1 OBVIOUS
    <3>6. F(e)!IntegerPart(x, u) = k2 + k1
      BY <1>3, <2>1, <2>3, <3>4 DEF F!IntegerPart, F!Shr, Shr, F!Shl, Shl, F!WordMod, WordMod
    <3> QED BY <3>2, <3>4, <3>5, <3>6
  <2> QED BY <2>2, <2>3
<1> QED BY <1>4, <1>5, <1>8, <1>9, <1>10

(* The integer part T of a double of exponent E, and where it is.           *)
IntegerOf(e, x, E, B, T) ==
  /\ E = F(e)!CVM_D_EXP(x) /\ B = F(e)!Bias /\ B >= 1 /\ T = TruncatedOf(e, x)
  /\ E < B => T = 0
  /\ E >= B /\ E - B < Bits => T = F(e)!IntegerPart(x, E - B) /\ T < WordMod
  /\ E >= B /\ E - B < Bits - 1 => T < 2 ^ (Bits - 1)
  /\ E >= B /\ E - B >= Bits - 1 => T >= 2 ^ (Bits - 1)
  /\ E >= B /\ E - B >= Bits => T >= WordMod

LEMMA IntegerOfIs ==
  ASSUME NEW e \in Formats, F(e)!Bias >= Bits, NEW x \in Pairs
  PROVE  \E E \in Nat, B \in Nat, T \in Nat : IntegerOf(e, x, E, B, T)
<1>1. PICK B \in Nat : B = F(e)!Bias BY BiasIs
<1>2. PICK E \in Nat : E = F(e)!CVM_D_EXP(x)
  <2>1. PICK f \in Nat, N \in Nat : Unit(e, f, N) BY UnitIs
  <2>2. PICK E \in Nat : PartsOf(e, x, N, E) BY <2>1, PartsAre
  <2> QED BY <2>2 DEF PartsOf
<1>3. B >= 1 /\ Bits \in Nat /\ Bits >= 2 BY <1>1, WordFacts
<1>4. PICK w \in Nat, k \in Nat : /\ w = WordMod /\ k = 2 ^ (Bits - 1) /\ w = 2 * k /\ k > 0
                                  /\ Mod = w * w /\ Mod \in Nat /\ w > 1
  BY HalfWord, WordFacts
<1>5. CASE E < B
  <2>1. TruncatedOf(e, x) = 0 BY <1>1, <1>2, <1>5 DEF TruncatedOf
  <2>2. 0 \in Nat /\ ~(E >= B) BY <1>5
  <2>3. IntegerOf(e, x, E, B, 0) BY <1>1, <1>2, <1>3, <2>1, <2>2 DEF IntegerOf
  <2> QED BY <2>2, <2>3
<1>6. CASE ~(E < B)
  <2>1. PICK u \in Nat : u = E - B /\ E # 0 /\ ~(u < 0) BY <1>3, <1>6
  <2>2. ~F(e)!cvm_d_iszero(x) BY <1>2, <2>1 DEF F!cvm_d_iszero
  <2>3. TruncatedOf(e, x) = IF u > Bits THEN Mod
                            ELSE (Value(F(e)!Significand(x)) * 2 ^ u) \div 2 ^ F(e)!MantBits
    BY <1>1, <1>2, <2>1, <2>2 DEF TruncatedOf
  <2>4. CASE u > Bits
    <3>1. TruncatedOf(e, x) = Mod BY <2>3, <2>4
    <3>2. w * w >= w * 1 BY <1>4
    <3>3. Mod >= w /\ Mod >= k BY <1>4, <3>2
    <3>4. ~(u < Bits) /\ ~(u < Bits - 1) BY <1>3, <2>4
    <3>5. IntegerOf(e, x, E, B, Mod)
      BY <1>1, <1>2, <1>3, <1>4, <1>6, <2>1, <3>1, <3>3, <3>4 DEF IntegerOf
    <3> QED BY <1>4, <3>5
  <2>5. CASE u = Bits
    <3>1. PICK i \in Nat : i = TruncatedOf(e, x) /\ w <= i
      <4>1. u <= Bits /\ ~(u > Bits) /\ 2 ^ u = w BY <1>3, <1>4, <2>5 DEF WordMod
      <4> QED BY <2>3, <4>1, CutAt
    <3>2. ~(u < Bits) /\ ~(u < Bits - 1) /\ k <= i BY <1>3, <1>4, <2>5, <3>1
    <3>3. IntegerOf(e, x, E, B, i)
      BY <1>1, <1>2, <1>3, <1>4, <1>6, <2>1, <3>1, <3>2 DEF IntegerOf
    <3> QED BY <3>3
  <2>6. CASE u < Bits
    <3>1. ~(u > Bits) /\ ~(u >= Bits) BY <1>3, <2>6
    <3>2. PICK i \in Nat : /\ i = F(e)!IntegerPart(x, u) /\ i = TruncatedOf(e, x)
                           /\ 2 ^ u <= i /\ i < 2 ^ (u + 1) /\ 2 ^ (u + 1) <= WordMod
      BY <2>3, <2>6, <3>1, IntegerPartIs
    <3>3. PICK g \in Nat, h \in Nat : g = 2 ^ u /\ h = 2 ^ (u + 1) BY <2>1, Powers
    <3>4. g <= i /\ i < h /\ h <= w BY <1>4, <3>2, <3>3
    <3>5. u < Bits - 1 => h <= k
      <4>1. ASSUME u < Bits - 1 PROVE 2 ^ (u + 1) <= 2 ^ (Bits - 1)
        <5>1. u + 1 \in Nat /\ Bits - 1 \in Nat /\ u + 1 <= Bits - 1 BY <1>3, <4>1
        <5> QED BY <5>1, PowerOrder
      <4> QED BY <1>4, <3>3, <4>1
    <3>6. u >= Bits - 1 => g = k
      <4>1. u >= Bits - 1 => u = Bits - 1 BY <1>3, <2>6
      <4> QED BY <1>4, <3>3, <4>1
    <3>7. /\ i < w /\ u < Bits - 1 => i < k
          /\ u >= Bits - 1 => i >= k
      BY <3>4, <3>5, <3>6
    <3>8. i < w BY <3>4
    <3>9. IntegerOf(e, x, E, B, i)
      BY <1>1, <1>2, <1>3, <1>4, <1>6, <2>1, <3>1, <3>2, <3>7, <3>8 DEF IntegerOf
    <3> QED BY <3>9
  <2> QED BY <1>3, <2>4, <2>5, <2>6
<1> QED BY <1>5, <1>6

(* A double as an integer with its sign.                                    *)
SignedInteger(e, x) == IF F(e)!CVM_D_SIGN(x) = 1 THEN -TruncatedOf(e, x) ELSE TruncatedOf(e, x)

ToSigned(e, x, z) ==
  z = IF F(e)!cvm_d_isnan(x) THEN 0
      ELSE Clamped(SignedInteger(e, x), -(2 ^ (Bits - 1)), 2 ^ (Bits - 1) - 1) % WordMod

ToUnsigned(e, x, z) ==
  z = IF F(e)!cvm_d_isnan(x) THEN 0 ELSE Clamped(SignedInteger(e, x), 0, WordMod - 1)

LEMMA Remains ==
  ASSUME NEW v \in Nat, v < WordMod PROVE v % WordMod = v
<1>1. Division(v, WordMod, 0, v) BY WordFacts DEF Division
<1> QED BY <1>1, DivisionIs

LEMMA Wrapped ==
  ASSUME NEW v \in Nat PROVE (WordMod - v) % WordMod = (-v) % WordMod
<1>1. PICK w \in Nat : w = WordMod /\ w > 0 BY WordFacts
<1>2. ((-v) + w * 1) % w = (-v) % w BY <1>1, ModAdds
<1>3. (-v) + w * 1 = w - v OBVIOUS
<1> QED BY <1>1, <1>2, <1>3

LEMMA ToSignedIs ==
  ASSUME NEW e \in Formats, F(e)!Bias >= Bits, NEW x \in Pairs
  PROVE  ToSigned(e, x, F(e)!cvm_d_to_i32(x))
<1> DEFINE z == F(e)!cvm_d_to_i32(x)
<1>1. PICK E \in Nat, B \in Nat, T \in Nat : IntegerOf(e, x, E, B, T) BY IntegerOfIs
<1>2. /\ E = F(e)!CVM_D_EXP(x) /\ B = F(e)!Bias /\ B >= 1 /\ T = TruncatedOf(e, x)
      /\ Bits \in Nat /\ Bits >= 2
  BY <1>1, WordFacts DEF IntegerOf
<1>3. PICK w \in Nat, k \in Nat : w = WordMod /\ k = 2 ^ (Bits - 1) /\ w = 2 * k /\ k > 0
  BY HalfWord
<1>4. PICK s \in {0, 1} : s = F(e)!CVM_D_SIGN(x) BY SignIs
<1>5. PICK v \in Int : v = (IF s = 1 THEN -T ELSE T) /\ v = SignedInteger(e, x)
  BY <1>2, <1>4 DEF SignedInteger
<1>6. CASE F(e)!cvm_d_isnan(x) BY <1>6 DEF ToSigned, F!cvm_d_to_i32
<1> SUFFICES ASSUME ~F(e)!cvm_d_isnan(x) PROVE z = Clamped(v, -k, k - 1) % w
  BY <1>3, <1>5, <1>6 DEF ToSigned
<1>7. CASE E < B
  <2>1. z = 0 BY <1>2, <1>7 DEF F!cvm_d_to_i32
  <2>2. v = 0
    <3>1. T <= 0 BY <1>1, <1>7 DEF IntegerOf
    <3> QED BY <1>5, <3>1
  <2>3. Clamped(v, -k, k - 1) = 0 BY <1>3, <2>2 DEF Clamped
  <2>4. 0 % w = 0 BY <1>3, Remains
  <2> QED BY <2>1, <2>3, <2>4
<1>8. CASE E >= B /\ E - B >= Bits - 1
  <2>1. E # 0 /\ ~(E - B < 0) BY <1>2, <1>8
  <2>2. z = IF s = 1 THEN k ELSE k - 1
    BY <1>2, <1>3, <1>4, <1>8, <2>1 DEF F!cvm_d_to_i32
  <2>3. T >= k BY <1>1, <1>3, <1>8 DEF IntegerOf
  <2>4. CASE s = 1
    <3>1. Clamped(v, -k, k - 1) = -k BY <1>3, <1>5, <2>3, <2>4 DEF Clamped
    <3>2. (w - k) % w = (-k) % w BY <1>3, Wrapped
    <3>3. w - k = k /\ k < w BY <1>3
    <3>4. k % w = k BY <1>3, <3>3, Remains
    <3> QED BY <2>2, <2>4, <3>1, <3>2, <3>3, <3>4
  <2>5. CASE s = 0
    <3>1. Clamped(v, -k, k - 1) = k - 1 BY <1>3, <1>5, <2>3, <2>5 DEF Clamped
    <3>2. k - 1 \in Nat /\ k - 1 < w BY <1>3
    <3>3. (k - 1) % w = k - 1 BY <1>3, <3>2, Remains
    <3> QED BY <2>2, <2>5, <3>1, <3>3
  <2> QED BY <2>4, <2>5
<1>9. CASE E >= B /\ E - B < Bits - 1
  <2>1. E # 0 /\ ~(E - B < 0) /\ ~(E - B >= Bits - 1) /\ E - B < Bits BY <1>2, <1>9
  <2>2. T = F(e)!IntegerPart(x, E - B) /\ T < k BY <1>1, <1>3, <1>9, <2>1 DEF IntegerOf
  <2>3. z = IF s = 1 THEN (w - T) % w ELSE T
    BY <1>2, <1>3, <1>4, <2>1, <2>2 DEF F!cvm_d_to_i32, F!WordMod, WordMod
  <2>4. Clamped(v, -k, k - 1) = v BY <1>3, <1>5, <2>2 DEF Clamped
  <2>5. (w - T) % w = (-T) % w BY <1>3, Wrapped
  <2>6. T % w = T
    <3>1. T < w BY <1>3, <2>2
    <3> QED BY <1>3, <3>1, Remains
  <2>7. CASE s = 1 BY <1>5, <2>3, <2>4, <2>5, <2>7
  <2>8. CASE s = 0 BY <1>5, <2>3, <2>4, <2>6, <2>8
  <2> QED BY <2>7, <2>8
<1> QED BY <1>2, <1>7, <1>8, <1>9

LEMMA ToUnsignedIs ==
  ASSUME NEW e \in Formats, F(e)!Bias >= Bits, NEW x \in Pairs
  PROVE  ToUnsigned(e, x, F(e)!cvm_d_to_u32(x))
<1> DEFINE z == F(e)!cvm_d_to_u32(x)
<1>1. PICK E \in Nat, B \in Nat, T \in Nat : IntegerOf(e, x, E, B, T) BY IntegerOfIs
<1>2. /\ E = F(e)!CVM_D_EXP(x) /\ B = F(e)!Bias /\ B >= 1 /\ T = TruncatedOf(e, x)
      /\ Bits \in Nat /\ Bits >= 2
  BY <1>1, WordFacts DEF IntegerOf
<1>3. PICK w \in Nat : w = WordMod /\ w > 1 BY WordFacts
<1>4. PICK s \in {0, 1} : s = F(e)!CVM_D_SIGN(x) BY SignIs
<1>5. PICK v \in Int : v = (IF s = 1 THEN -T ELSE T) /\ v = SignedInteger(e, x)
  BY <1>2, <1>4 DEF SignedInteger
<1>6. CASE F(e)!cvm_d_isnan(x) BY <1>6 DEF ToUnsigned, F!cvm_d_to_u32
<1> SUFFICES ASSUME ~F(e)!cvm_d_isnan(x) PROVE z = Clamped(v, 0, w - 1)
  BY <1>3, <1>5, <1>6 DEF ToUnsigned
<1>7. CASE s = 1
  <2>1. z = 0 BY <1>4, <1>7 DEF F!cvm_d_to_u32
  <2> QED BY <1>3, <1>5, <1>7, <2>1 DEF Clamped
<1>8. CASE s = 0 /\ E < B
  <2>1. z = 0 BY <1>2, <1>8 DEF F!cvm_d_to_u32
  <2>2. v = 0 BY <1>1, <1>5, <1>8 DEF IntegerOf
  <2> QED BY <1>3, <2>1, <2>2 DEF Clamped
<1>9. CASE s = 0 /\ E >= B /\ E - B >= Bits
  <2>1. E # 0 /\ ~(E - B < 0) BY <1>2, <1>9
  <2>2. z = w - 1 BY <1>2, <1>3, <1>4, <1>9, <2>1 DEF F!cvm_d_to_u32, F!WordMod, WordMod
  <2>3. v >= w BY <1>1, <1>3, <1>5, <1>9 DEF IntegerOf
  <2> QED BY <1>3, <2>2, <2>3 DEF Clamped
<1>10. CASE s = 0 /\ E >= B /\ ~(E - B >= Bits)
  <2>1. E # 0 /\ ~(E - B < 0) /\ E - B < Bits BY <1>2, <1>10
  <2>2. T = F(e)!IntegerPart(x, E - B) /\ T < w BY <1>1, <1>3, <1>10, <2>1 DEF IntegerOf
  <2>3. z = T BY <1>2, <1>4, <1>10, <2>1, <2>2 DEF F!cvm_d_to_u32
  <2> QED BY <1>3, <1>5, <1>10, <2>2, <2>3 DEF Clamped
<1> QED BY <1>2, <1>7, <1>8, <1>9, <1>10

LEMMA ZeroPair ==
  ASSUME NEW e \in Formats, NEW s \in {0, 1} PROVE F(e)!SignedZero(s) \in Pairs
<1>1. 0 \in Nat /\ 0 < WordMod BY WordFacts
<1> QED BY <1>1, PackPair DEF F!SignedZero

(* The double z is the word v.                                              *)
FromUnsigned(e, v, z) ==
  z \in Pairs /\ TruncatedOf(e, z) = v /\ F(e)!CVM_D_SIGN(z) = 0

LEMMA FromUnsignedIs ==
  ASSUME NEW e \in Formats, F(e)!Bias >= Bits, NEW v \in Nat, v < WordMod
  PROVE  FromUnsigned(e, v, F(e)!cvm_d_from_u32(v))
<1> DEFINE z == F(e)!cvm_d_from_u32(v)
<1>1. CASE v = 0
  <2>1. z = F(e)!SignedZero(0) BY <1>1 DEF F!cvm_d_from_u32
  <2>2. 0 \in {0, 1} OBVIOUS
  <2>3. z \in Pairs BY <2>1, <2>2, ZeroPair
  <2>4. F(e)!cvm_d_iszero(z) /\ F(e)!CVM_D_SIGN(z) = 0 BY <2>1, <2>2, SpecialIs
  <2> QED BY <1>1, <2>3, <2>4 DEF FromUnsigned, TruncatedOf
<1>2. CASE v > 0
  <2>1. PICK k \in 0 .. Bits - 1 : Leads(k, v) /\ Scaled(e, z, 0, v, k, 0)
    BY <1>2, FromWordIs
  <2>2. PICK B \in Nat, f \in Nat, N \in Nat :
          /\ B = F(e)!Bias /\ B >= Bits /\ Unit(e, f, N) /\ Bits \in Nat
    BY BiasIs, UnitIs, WordFacts
  <2>3. PICK n \in Nat : /\ n = f - k /\ n + k = f /\ k \in Nat /\ f = F(e)!MantBits
                         /\ 2 ^ f = N
    <3>1. PICK t \in Nat : F(e)!MantBits = t + Bits BY FormatIs
    <3>2. f = t + Bits /\ 2 ^ f = N BY <2>2, <3>1 DEF Unit
    <3> QED BY <2>2, <3>1, <3>2
  <2>4. PICK g \in Nat, h \in Nat : g = 2 ^ k /\ h = 2 ^ n /\ g > 0 /\ h > 0 /\ N = h * g
    <3>1. 2 ^ (n + k) = 2 ^ n * 2 ^ k BY <2>3, PowerSum
    <3> QED BY <2>3, <3>1, Powers
  <2>5. /\ z \in Pairs /\ IsNormal(e, z) /\ F(e)!CVM_D_SIGN(z) = 0
        /\ F(e)!CVM_D_EXP(z) = B + k + 0 /\ Value(F(e)!Significand(z)) = v * h
    BY <2>1, <2>2, <2>3, <2>4 DEF Scaled, IsDouble
  <2>6. ~F(e)!cvm_d_iszero(z) BY <2>5, KindsAre DEF IsNormal
  <2>7. TruncatedOf(e, z) = (v * h * g) \div N
    <3>1. PICK u \in Nat : u = F(e)!CVM_D_EXP(z) - B /\ u = k BY <2>2, <2>3, <2>5
    <3>2. ~(u < 0) /\ ~(u > Bits) BY <2>2, <3>1
    <3>3. TruncatedOf(e, z) = (Value(F(e)!Significand(z)) * 2 ^ u) \div 2 ^ F(e)!MantBits
      BY <2>2, <2>6, <3>1, <3>2 DEF TruncatedOf
    <3> QED BY <2>3, <2>4, <2>5, <3>1, <3>3
  <2>8. (v * h * g) \div N = v
    <3>1. v * h * g = (h * g) * v + 0 OBVIOUS
    <3>2. PICK i \in Nat : i = v * h * g /\ i = N * v + 0 BY <2>4, <3>1
    <3>3. N > 0 BY <2>2 DEF Unit
    <3>4. Division(i, N, v, 0) BY <3>2, <3>3 DEF Division
    <3>5. i \div N = v BY <3>4, DivisionIs
    <3> QED BY <3>2, <3>5
  <2> QED BY <2>5, <2>7, <2>8 DEF FromUnsigned
<1> QED BY <1>1, <1>2

LEMMA TruncatedNeg ==
  ASSUME NEW e \in Formats, NEW x \in Pairs
  PROVE  TruncatedOf(e, F(e)!cvm_d_neg(x)) = TruncatedOf(e, x)
BY NegIs DEF TruncatedOf

FromSigned(e, v, z) ==
  /\ TruncatedOf(e, z) = (IF v >= 2 ^ (Bits - 1) THEN WordMod - v ELSE v)
  /\ F(e)!CVM_D_SIGN(z) = Carry(v >= 2 ^ (Bits - 1))

LEMMA FromSignedIs ==
  ASSUME NEW e \in Formats, F(e)!Bias >= Bits, NEW v \in Nat, v < WordMod
  PROVE  FromSigned(e, v, F(e)!cvm_d_from_i32(v))
<1> DEFINE z == F(e)!cvm_d_from_i32(v)
<1>1. PICK w \in Nat, k \in Nat : /\ w = WordMod /\ k = 2 ^ (Bits - 1) /\ w = 2 * k /\ k > 0
                                  /\ w \div 2 = k
  BY HalfWord
<1>2. F(e)!SignedHalf(v) = IF v < k THEN v ELSE v - w
  BY <1>1 DEF F!SignedHalf, F!WordMod, WordMod
<1>3. CASE v >= k
  <2>1. PICK i \in Nat : i = w - v /\ i < w BY <1>1, <1>3
  <2>2. i % w = i BY <1>1, <2>1, Remains
  <2>3. PICK y \in Pairs : /\ y = F(e)!cvm_d_from_u32(i) /\ TruncatedOf(e, y) = i
                           /\ F(e)!CVM_D_SIGN(y) = 0
    BY <1>1, <2>1, FromUnsignedIs DEF FromUnsigned
  <2>4. z = F(e)!cvm_d_neg(y)
    <3>1. F(e)!SignedHalf(v) < 0 BY <1>1, <1>2, <1>3
    <3>2. z = F(e)!cvm_d_neg(F(e)!cvm_d_from_u32((w - v) % w))
      BY <1>1, <3>1 DEF F!cvm_d_from_i32, F!WordMod, WordMod
    <3> QED BY <2>1, <2>2, <2>3, <3>2
  <2>5. TruncatedOf(e, z) = i BY <2>3, <2>4, TruncatedNeg
  <2>6. F(e)!CVM_D_SIGN(z) = 1
    <3>1. F(e)!CVM_D_SIGN(z) = 1 - F(e)!CVM_D_SIGN(y) BY <2>4, NegIs
    <3>2. 1 - 0 = 1 OBVIOUS
    <3> QED BY <2>3, <3>1, <3>2
  <2> QED BY <1>1, <1>3, <2>1, <2>5, <2>6 DEF FromSigned, Carry
<1>4. CASE ~(v >= k)
  <2>1. ~(F(e)!SignedHalf(v) < 0) BY <1>1, <1>2, <1>4
  <2>2. z = F(e)!cvm_d_from_u32(v) BY <2>1 DEF F!cvm_d_from_i32
  <2>3. TruncatedOf(e, z) = v /\ F(e)!CVM_D_SIGN(z) = 0
    BY <2>2, FromUnsignedIs DEF FromUnsigned
  <2> QED BY <1>1, <1>4, <2>3 DEF FromSigned, Carry
<1> QED BY <1>3, <1>4

(* The widths of a float: 8 * p for its mantissa, 2 * k for its exponent.    *)
Single(e, p, k, n, h) ==
  /\ p = 2 ^ F(e)!TopBits /\ p >= 2 /\ k >= 2 /\ h > 0
  /\ 2 ^ F(e)!F32MantBits = 8 * p /\ 2 ^ F(e)!F32ExpBits = 2 * k
  /\ F(e)!F32Bias = k - 1 /\ F(e)!F32ExpMax = 2 * k - 1
  /\ F(e)!Bias = 8 * k - 1 /\ F(e)!ExpMax = 16 * k - 1
  /\ n = F(e)!MantBits - F(e)!F32MantBits /\ n = Bits - 3 /\ h = 2 ^ n /\ WordMod = 8 * h
  /\ 2 ^ (Bits - 1) = 4 * h /\ 4 * h = (8 * p) * (2 * k)

LEMMA EightTimes ==
  ASSUME NEW n \in Nat, n >= 3
  PROVE  2 ^ n = 8 * 2 ^ (n - 3) /\ 2 ^ (n - 3) \in Nat /\ 2 ^ (n - 3) > 0
<1>1. PICK m \in Nat : m = n - 3 BY Powers
<1>2. PICK i \in Nat : i = 2 ^ m /\ i > 0 /\ 2 ^ (m + 1) = 2 * i BY Powers
<1>3. 2 ^ ((m + 1) + 1) = 2 * 2 ^ (m + 1) BY <1>1, Powers
<1>4. 2 ^ (((m + 1) + 1) + 1) = 2 * 2 ^ ((m + 1) + 1) BY <1>1, Powers
<1>5. ((m + 1) + 1) + 1 = n BY <1>1
<1>6. PICK i1 \in Nat, i2 \in Nat, i3 \in Nat :
        i1 = 2 ^ (m + 1) /\ i2 = 2 ^ ((m + 1) + 1) /\ i3 = 2 ^ n
  BY <1>1, Powers
<1>7. i3 = 2 * i2 /\ i2 = 2 * i1 /\ i1 = 2 * i BY <1>2, <1>3, <1>4, <1>5, <1>6
<1>8. i3 = 8 * i BY <1>7
<1> QED BY <1>1, <1>2, <1>6, <1>8

LEMMA SingleIs ==
  ASSUME NEW e \in Formats, F(e)!F32ExpBits >= 2
  PROVE  \E p \in Nat, k \in Nat, n \in Nat, h \in Nat : Single(e, p, k, n, h)
<1>1. PICK t, p, q, w \in Nat : Widths(e, t, p, q, w) BY WidthsAre
<1>2. /\ t = F(e)!TopBits /\ t >= 1 /\ t + e = Bits - 1 /\ p = 2 ^ t /\ q = 2 ^ e /\ p >= 2
      /\ w = WordMod /\ w = 2 * (p * q) /\ p * q = 2 ^ (Bits - 1) /\ F(e)!ExpMax = q - 1
      /\ e \in Nat /\ Bits \in Nat
  BY <1>1, FormatIs, WordFacts DEF Widths
<1>3. e >= 5 /\ F(e)!F32ExpBits = e - 3 BY <1>2 DEF F!F32ExpBits
<1>4. e - 1 \in Nat /\ (e - 1) - 3 = e - 4 /\ e - 4 \in Nat /\ e - 1 >= 3 BY <1>2, <1>3
<1>5. PICK k \in Nat : k = 2 ^ (e - 4) /\ 2 ^ (e - 1) = 8 * k
  BY <1>4, EightTimes
<1>6. k >= 2 /\ 2 ^ (e - 3) = 2 * k
  <2>1. PICK i \in Nat : i = 2 ^ (e - 5) /\ i > 0 /\ 2 ^ ((e - 5) + 1) = 2 * i
    <3>1. e - 5 \in Nat BY <1>2, <1>3
    <3> QED BY <3>1, Powers
  <2>2. (e - 5) + 1 = e - 4 /\ (e - 4) + 1 = e - 3 BY <1>2
  <2>3. 2 ^ ((e - 4) + 1) = 2 * k BY <1>4, <1>5, Powers
  <2>4. k = 2 * i BY <1>5, <2>1, <2>2
  <2> QED BY <2>1, <2>2, <2>3, <2>4
<1>7. q = 16 * k
  <2>1. 2 ^ ((e - 1) + 1) = 2 * (8 * k) BY <1>4, <1>5, Powers
  <2>2. (e - 1) + 1 = e BY <1>2
  <2> QED BY <1>2, <2>1, <2>2
<1>8. PICK n \in Nat : n = Bits - 3 BY <1>2, <1>3
<1>9. PICK h \in Nat : h = 2 ^ n /\ h > 0 /\ w = 8 * h
  <2>1. Bits >= 3 BY <1>2, <1>3
  <2> QED BY <1>2, <1>8, <2>1, EightTimes DEF WordMod
<1>10. 2 ^ F(e)!F32MantBits = 8 * p /\ n = F(e)!MantBits - F(e)!F32MantBits
  <2>1. F(e)!F32MantBits = t + 3 /\ F(e)!MantBits = t + Bits
    BY <1>2 DEF F!F32MantBits, F!MantBits
  <2>2. (t + 3) - 3 = t /\ t + 3 \in Nat /\ t + 3 >= 3 BY <1>2
  <2>3. 2 ^ (t + 3) = 8 * 2 ^ ((t + 3) - 3) BY <2>2, EightTimes
  <2>4. (t + Bits) - (t + 3) = n BY <1>2, <1>8
  <2> QED BY <1>2, <2>1, <2>2, <2>3, <2>4
<1>11. PICK j \in Nat : j = p * q /\ w = 2 * j BY <1>2
<1>12. j = 4 * h BY <1>9, <1>11
<1>13. p * (16 * k) = (8 * p) * (2 * k) OBVIOUS
<1>14. 4 * h = (8 * p) * (2 * k) /\ 2 ^ (Bits - 1) = 4 * h
  BY <1>2, <1>7, <1>11, <1>12, <1>13
<1>15. F(e)!F32Bias = k - 1
  <2>1. (e - 3) - 1 = e - 4 BY <1>2
  <2>2. F(e)!F32Bias = 2 ^ ((e - 3) - 1) - 1 BY <1>3 DEF F!F32Bias
  <2> QED BY <1>5, <2>1, <2>2
<1>16. F(e)!F32ExpMax = 2 * k - 1 /\ 2 ^ F(e)!F32ExpBits = 2 * k
  BY <1>3, <1>6 DEF F!F32ExpMax
<1>17. F(e)!Bias = 8 * k - 1 BY <1>5 DEF F!Bias
<1>18. F(e)!ExpMax = 16 * k - 1 BY <1>2, <1>7
<1>19. Single(e, p, k, n, h)
  BY <1>2, <1>6, <1>8, <1>9, <1>10, <1>14, <1>15, <1>16, <1>17, <1>18 DEF Single
<1> QED BY <1>19

(* A float: its exponent and its significand.                               *)
SingleExp(e, v) == Shr(v, F(e)!F32MantBits) % 2 ^ F(e)!F32ExpBits
SingleSig(e, v) == 2 ^ F(e)!F32MantBits + (v % 2 ^ F(e)!F32MantBits)
SingleNormal(e, v) == SingleExp(e, v) \in 1 .. F(e)!F32ExpMax - 1

Extended(e, v, z) ==
  SingleNormal(e, v) =>
    NumberOf(e, z, Shr(v, Bits - 1), SingleExp(e, v) - F(e)!F32Bias + F(e)!Bias,
             SingleSig(e, v) * 2 ^ (F(e)!MantBits - F(e)!F32MantBits))

LEMMA ExtendedIs ==
  ASSUME NEW e \in Formats, F(e)!F32ExpBits >= 2, NEW v \in Nat, v < WordMod
  PROVE  Extended(e, v, F(e)!cvm_d_from_f32(v))
<1> SUFFICES ASSUME SingleNormal(e, v) PROVE Extended(e, v, F(e)!cvm_d_from_f32(v))
  BY DEF Extended
<1> DEFINE z == F(e)!cvm_d_from_f32(v)
<1>1. PICK p \in Nat, k \in Nat, n \in Nat, h \in Nat : Single(e, p, k, n, h) BY SingleIs
<1>2. /\ p = 2 ^ F(e)!TopBits /\ p >= 2 /\ k >= 2 /\ h > 0
      /\ 2 ^ F(e)!F32MantBits = 8 * p /\ 2 ^ F(e)!F32ExpBits = 2 * k
      /\ F(e)!F32Bias = k - 1 /\ F(e)!F32ExpMax = 2 * k - 1
      /\ F(e)!Bias = 8 * k - 1 /\ F(e)!ExpMax = 16 * k - 1
      /\ n = F(e)!MantBits - F(e)!F32MantBits /\ n = Bits - 3 /\ h = 2 ^ n /\ WordMod = 8 * h
      /\ 2 ^ (Bits - 1) = 4 * h
  BY <1>1 DEF Single
<1>3. PICK E \in Nat : E = SingleExp(e, v) /\ E >= 1 /\ E <= 2 * k - 2
  BY <1>2 DEF SingleNormal
<1>4. PICK s \in {0, 1} : s = Shr(v, Bits - 1)
  <2>1. PICK s \in Int, r \in Nat : Division(v, 4 * h, s, r)
    <3>1. PICK d \in Nat : d = 4 * h /\ d > 0 BY <1>2
    <3> QED BY <3>1, Divided
  <2>2. v = (4 * h) * s + r /\ r < 4 * h /\ v < 8 * h BY <1>2, <2>1 DEF Division
  <2>3. s \in {0, 1}
    <3>1. PICK d \in Nat : d = 4 * h /\ d > 0 BY <1>2
    <3>2. v = d * s + r /\ r < d /\ v < 2 * d BY <2>2, <3>1
    <3>3. s >= 2 => d * s >= d * 2 BY <3>1
    <3>4. s <= -1 => d * s <= d * (-1) BY <3>1
    <3>5. s < 2 /\ s > -1 BY <3>1, <3>2, <3>3, <3>4
    <3> QED BY <3>5
  <2>4. v \div (4 * h) = s BY <2>1, DivisionIs
  <2> QED BY <1>2, <2>3, <2>4 DEF Shr
<1>5. PICK m \in Nat : m = v % (8 * p) /\ m < 8 * p
  <2>1. PICK d \in Nat : d = 8 * p /\ d > 0 BY <1>2
  <2> QED BY <2>1
<1>6. PICK j \in Nat, i \in Nat : /\ j = m \div 8 /\ i = m % 8 /\ i < 8 /\ m = 8 * j + i
  OBVIOUS
<1>7. PICK l \in Nat : l = i * h /\ l < 8 * h /\ l % WordMod = l
  <2>1. PICK l \in Nat : l = i * h OBVIOUS
  <2>2. i * h < 8 * h BY <1>2, <1>6
  <2> QED BY <1>2, <2>1, <2>2, Remains
<1>8. j < p BY <1>5, <1>6
<1>9. PICK x \in Nat : x = E - (k - 1) + (8 * k - 1) /\ x >= 1 /\ x < F(e)!ExpMax
  BY <1>2, <1>3
<1>10. z = F(e)!cvm_d_pack(s, x, j, l)
  <2>1. E # 0 /\ E # 2 * k - 1 BY <1>3
  <2>2. F(e)!Shr(v, F(e)!F32MantBits) % 2 ^ F(e)!F32ExpBits = E /\ F(e)!Shr(v, Bits - 1) = s
    BY <1>3, <1>4 DEF SingleExp, Shr, F!Shr
  <2>3. 2 ^ 3 = 8
    <3>1. 2 ^ 3 = 8 * 2 ^ (3 - 3) BY EightTimes
    <3>2. 3 - 3 = 0 OBVIOUS
    <3> QED BY <3>1, <3>2, Powers
  <2>4. F(e)!Shr(m, 3) = j BY <1>6, <2>3 DEF F!Shr
  <2>5. F(e)!Shl(m % 8, Bits - 3) = l
    BY <1>2, <1>6, <1>7 DEF F!Shl, F!WordMod, WordMod
  <2> QED BY <1>2, <1>5, <1>9, <2>1, <2>2, <2>4, <2>5 DEF F!cvm_d_from_f32
<1>11. PICK y \in Pairs : y = I64(l, j) /\ Value(y) = l + WordMod * j
  <2>1. j < WordMod
    <3>1. PICK t, q, w \in Nat, p1 \in Nat : Widths(e, t, p1, q, w) BY WidthsAre
    <3>2. p1 = p /\ w = WordMod /\ w = 2 * (p * q) /\ q >= 2 BY <1>2, <3>1 DEF Widths
    <3>3. p * q >= p BY <3>2
    <3>4. PICK r \in Nat : r = p * q OBVIOUS
    <3> QED BY <1>8, <3>2, <3>3, <3>4
  <2>2. I64(l, j) \in Pairs /\ Value(I64(l, j)) = l + WordMod * j BY <1>2, <1>7, <2>1, IsPair
  <2> QED BY <2>2
<1>12. Value(y) = m * h
  <2>1. i * h + (8 * h) * j = (8 * j + i) * h OBVIOUS
  <2> QED BY <1>2, <1>6, <1>7, <1>11, <2>1
<1>13. PICK f \in Nat, N \in Nat : Unit(e, f, N) BY UnitIs
<1>14. N = (8 * p) * h
  <2>1. N = WordMod * p BY <1>2, <1>13 DEF Unit
  <2>2. (8 * h) * p = (8 * p) * h OBVIOUS
  <2> QED BY <1>2, <2>1, <2>2
<1>15. m * h < N
  <2>1. PICK d \in Nat : d = 8 * p OBVIOUS
  <2>2. m * h < d * h BY <1>2, <1>5, <2>1
  <2> QED BY <1>14, <2>1, <2>2
<1>16. IsDouble(e, F(e)!cvm_d_pack(s, x, y.hi, y.lo), s, x, Value(y) + N)
  BY <1>9, <1>12, <1>13, <1>15, <1>11, PackFraction
<1>17. y.hi = j /\ y.lo = l BY <1>11 DEF I64
<1>18. IsDouble(e, z, s, x, m * h + N) BY <1>10, <1>12, <1>16, <1>17
<1> HIDE DEF z
<1>19. NumberOf(e, z, s, x, m * h + N)
  <2>1. ~(x >= F(e)!ExpMax) /\ ~(x <= 0) BY <1>2, <1>9
  <2> QED BY <1>18, <2>1 DEF IsDouble, NumberOf
<1>20. SingleSig(e, v) * h = m * h + N
  <2>1. SingleSig(e, v) = 8 * p + m BY <1>2, <1>5 DEF SingleSig
  <2>2. (8 * p + m) * h = m * h + (8 * p) * h OBVIOUS
  <2> QED BY <1>14, <2>1, <2>2
<1>21. x = SingleExp(e, v) - F(e)!F32Bias + F(e)!Bias BY <1>2, <1>3, <1>9
<1> QED BY <1>2, <1>4, <1>19, <1>20, <1>21 DEF Extended, z

LEMMA SingleParts ==
  ASSUME NEW e \in Formats, NEW p \in Nat, NEW k \in Nat, NEW n \in Nat, NEW h \in Nat,
         Single(e, p, k, n, h), NEW s \in {0, 1}, NEW x \in Nat, x < 2 * k,
         NEW m \in Nat, m < 8 * p
  PROVE  /\ SingleExp(e, F(e)!F32(s, x, m)) = x
         /\ SingleSig(e, F(e)!F32(s, x, m)) = 8 * p + m
         /\ Shr(F(e)!F32(s, x, m), Bits - 1) = s
<1>1. /\ p >= 2 /\ k >= 2 /\ 2 ^ F(e)!F32MantBits = 8 * p /\ 2 ^ F(e)!F32ExpBits = 2 * k
      /\ 2 ^ (Bits - 1) = (8 * p) * (2 * k)
  BY DEF Single
<1>2. PICK d \in Nat, g \in Nat : d = 8 * p /\ g = 2 * k /\ d > 0 /\ g > 0 BY <1>1
<1>3. PICK u \in Nat : u = g * s + x OBVIOUS
<1>4. F(e)!F32(s, x, m) = d * u + m
  <2>1. F(e)!F32(s, x, m) = s * (d * g) + x * d + m BY <1>1, <1>2 DEF F!F32
  <2>2. s \in Nat OBVIOUS
  <2>3. s * (d * g) + x * d + m = d * (g * s + x) + m BY <2>2
  <2> QED BY <1>3, <2>1, <2>3
<1>5. Division(d * u + m, d, u, m) BY <1>2 DEF Division
<1>6. Division(u, g, s, x) BY <1>2, <1>3 DEF Division
<1>7. (d * u + m) \div d = u /\ (d * u + m) % d = m BY <1>5, DivisionIs
<1>8. u % g = x BY <1>6, DivisionIs
<1>9. (d * u + m) \div (d * g) = s
  <2>1. PICK w \in Nat : w = d * x + m BY <1>2
  <2>2. d * (x + 1) <= d * g
    <3>1. x + 1 <= g /\ x + 1 \in Nat BY <1>2
    <3>2. \A y, z \in Nat : y <= z => d * y <= d * z BY <1>2
    <3> QED BY <1>2, <3>1, <3>2
  <2>3. d * (x + 1) = d * x + d BY <1>2
  <2>4. PICK D \in Nat, dx \in Nat : D = d * g /\ dx = d * x BY <1>2
  <2>5. w < D /\ D > 0 BY <1>2, <2>1, <2>2, <2>3, <2>4
  <2>6. d * u + m = D * s + w
    <3>1. d * (g * s + x) = (d * g) * s + d * x BY <1>2
    <3> QED BY <1>2, <1>3, <2>1, <2>4, <3>1
  <2>7. Division(d * u + m, D, s, w) BY <1>2, <2>1, <2>5, <2>6 DEF Division
  <2> QED BY <2>4, <2>5, <2>7, DivisionIs
<1> QED BY <1>1, <1>2, <1>4, <1>7, <1>8, <1>9 DEF SingleExp, SingleSig, Shr

SingleOf(e, v, sign, exp, sig) ==
  /\ Shr(v, Bits - 1) = sign
  /\ IF exp >= F(e)!F32ExpMax
     THEN SingleExp(e, v) = F(e)!F32ExpMax /\ SingleSig(e, v) = 2 ^ F(e)!F32MantBits
     ELSE IF exp <= 0 THEN SingleExp(e, v) = 0 /\ SingleSig(e, v) = 2 ^ F(e)!F32MantBits
     ELSE SingleExp(e, v) = exp /\ SingleSig(e, v) = sig

Narrowed(e, x, v) ==
  IsNormal(e, x) =>
    SingleOf(e, v, F(e)!CVM_D_SIGN(x), F(e)!CVM_D_EXP(x) - F(e)!Bias + F(e)!F32Bias,
             Value(F(e)!Significand(x)) \div 2 ^ (F(e)!MantBits - F(e)!F32MantBits))

LEMMA NarrowedIs ==
  ASSUME NEW e \in Formats, F(e)!F32ExpBits >= 2, NEW x \in Pairs
  PROVE  Narrowed(e, x, F(e)!cvm_d_to_f32(x))
<1> DEFINE v == F(e)!cvm_d_to_f32(x)
<1> SUFFICES ASSUME IsNormal(e, x) PROVE Narrowed(e, x, v)
  BY DEF Narrowed
<1>1. PICK p \in Nat, k \in Nat, n \in Nat, h \in Nat : Single(e, p, k, n, h) BY SingleIs
<1>2. /\ p = 2 ^ F(e)!TopBits /\ p >= 2 /\ k >= 2 /\ h > 0
      /\ 2 ^ F(e)!F32MantBits = 8 * p
      /\ F(e)!F32Bias = k - 1 /\ F(e)!F32ExpMax = 2 * k - 1
      /\ F(e)!Bias = 8 * k - 1 /\ F(e)!ExpMax = 16 * k - 1
      /\ n = F(e)!MantBits - F(e)!F32MantBits /\ n = Bits - 3 /\ h = 2 ^ n /\ WordMod = 8 * h
  BY <1>1 DEF Single
<1>3. PICK s \in {0, 1} : s = F(e)!CVM_D_SIGN(x) BY SignIs
<1>4. PICK E \in Nat : E = F(e)!CVM_D_EXP(x) /\ E >= 1 /\ E < F(e)!ExpMax
  BY <1>2 DEF IsNormal
<1>5. PICK u \in Int : u = E - (8 * k - 1) + (k - 1) BY <1>2
<1>6. PICK l \in Nat, i \in Nat : l = x.lo /\ i = x.hi /\ l < WordMod BY PairIs
<1>7. PICK r \in Nat : r = F(e)!CVM_D_MHI(x) /\ r < p
  BY <1>2, <1>6 DEF F!CVM_D_MHI
<1>8. PICK j \in Int, g \in Nat : Division(l, h, j, g)
  <2>1. l \in Int /\ h \in Nat /\ h > 0 BY <1>2
  <2> QED BY <2>1, Divided
<1>9. j \in Nat /\ j < 8 /\ l \div h = j
  <2>1. l = h * j + g /\ g < h /\ l < 8 * h BY <1>2, <1>6, <1>8 DEF Division
  <2>2. j >= 8 => h * j >= h * 8 BY <1>2
  <2>3. j <= -1 => h * j <= h * (-1) BY <1>2
  <2>4. j < 8 /\ j > -1
    <3>1. PICK hj \in Int : hj = h * j OBVIOUS
    <3> QED BY <2>1, <2>2, <2>3, <3>1
  <2>5. l \div h = j BY <1>8, DivisionIs
  <2> QED BY <2>4, <2>5
<1>10. PICK m \in Nat : m = r * 8 + j /\ m < 8 * p BY <1>7, <1>9
<1>11. m % (8 * p) = m
  <2>1. 8 * p \in Nat /\ 8 * p > 0 BY <1>2
  <2>2. m = (8 * p) * 0 + m OBVIOUS
  <2>3. Division(m, 8 * p, 0, m) BY <1>10, <2>1, <2>2 DEF Division
  <2> QED BY <2>3, DivisionIs
<1>12. v = IF u >= 2 * k - 1 THEN F(e)!F32(s, 2 * k - 1, 0)
           ELSE IF u <= 0 THEN F(e)!F32(s, 0, 0) ELSE F(e)!F32(s, u, m)
  <2>1. E # 0 /\ ~F(e)!cvm_d_isinf(x) /\ ~F(e)!cvm_d_isnan(x)
    BY <1>4, KindsAre DEF IsNormal
  <2>2. F(e)!CVM_D_MHI(x) * 8 + F(e)!Shr(x.lo, Bits - 3) = m
    BY <1>2, <1>6, <1>7, <1>9, <1>10 DEF F!Shr
  <2>3. (F(e)!CVM_D_MHI(x) * 8 + F(e)!Shr(x.lo, Bits - 3)) % 2 ^ F(e)!F32MantBits = m
    BY <1>2, <1>11, <2>2
  <2>4. F(e)!CVM_D_EXP(x) - F(e)!Bias + F(e)!F32Bias = u BY <1>2, <1>4, <1>5
  <2> QED BY <1>2, <1>3, <1>4, <2>1, <2>3, <2>4 DEF F!cvm_d_to_f32
<1> HIDE DEF v
<1>13. F(e)!CVM_D_EXP(x) - F(e)!Bias + F(e)!F32Bias = u BY <1>2, <1>4, <1>5
<1>14. CASE u >= 2 * k - 1
  <2>1. 2 * k - 1 \in Nat /\ 2 * k - 1 < 2 * k /\ 0 < 8 * p BY <1>2
  <2>2. /\ SingleExp(e, F(e)!F32(s, 2 * k - 1, 0)) = 2 * k - 1
        /\ SingleSig(e, F(e)!F32(s, 2 * k - 1, 0)) = 8 * p + 0
        /\ Shr(F(e)!F32(s, 2 * k - 1, 0), Bits - 1) = s
    BY <1>1, <2>1, SingleParts
  <2>3. SingleExp(e, v) = 2 * k - 1 /\ SingleSig(e, v) = 8 * p /\ Shr(v, Bits - 1) = s
    BY <1>2, <1>12, <1>14, <2>2
  <2> QED BY <1>2, <1>3, <1>13, <1>14, <2>3 DEF Narrowed, SingleOf
<1>15. CASE ~(u >= 2 * k - 1) /\ u <= 0
  <2>1. 0 < 2 * k /\ 0 < 8 * p BY <1>2
  <2>2. /\ SingleExp(e, F(e)!F32(s, 0, 0)) = 0 /\ SingleSig(e, F(e)!F32(s, 0, 0)) = 8 * p + 0
        /\ Shr(F(e)!F32(s, 0, 0), Bits - 1) = s
    BY <1>1, <2>1, SingleParts
  <2>3. SingleExp(e, v) = 0 /\ SingleSig(e, v) = 8 * p /\ Shr(v, Bits - 1) = s
    BY <1>2, <1>12, <1>15, <2>2
  <2> QED BY <1>2, <1>3, <1>13, <1>15, <2>3 DEF Narrowed, SingleOf
<1>16. CASE ~(u >= 2 * k - 1) /\ ~(u <= 0)
  <2>1. u \in Nat /\ u < 2 * k BY <1>16
  <2>2. /\ SingleExp(e, F(e)!F32(s, u, m)) = u /\ SingleSig(e, F(e)!F32(s, u, m)) = 8 * p + m
        /\ Shr(F(e)!F32(s, u, m), Bits - 1) = s
    BY <1>1, <1>10, <2>1, SingleParts
  <2>3. SingleExp(e, v) = u /\ SingleSig(e, v) = 8 * p + m /\ Shr(v, Bits - 1) = s
    BY <1>12, <1>16, <2>2
  <2>5. Value(F(e)!Significand(x)) = l + WordMod * (r + p)
    BY <1>2, <1>6, <1>7 DEF F!Significand, F!I64, Value
  <2>6. Division(l + (8 * h) * (r + p), h, 8 * p + m, g)
    <3>1. PICK y \in Int : y = 8 * (r + p) OBVIOUS
    <3>2. Division(l + h * y, h, j + y, g) BY <1>8, DivisionAdds
    <3>3. j + y = 8 * p + m BY <1>9, <1>10, <3>1
    <3>4. h * (8 * (r + p)) = (8 * h) * (r + p) OBVIOUS
    <3> QED BY <3>1, <3>2, <3>3, <3>4
  <2>7. (l + (8 * h) * (r + p)) \div h = 8 * p + m BY <2>6, DivisionIs
  <2> QED BY <1>2, <1>3, <1>13, <1>16, <2>3, <2>5, <2>7 DEF Narrowed, SingleOf
<1> QED BY <1>14, <1>15, <1>16 DEF v

LEMMA InfPair ==
  ASSUME NEW e \in Formats, NEW s \in {0, 1} PROVE F(e)!SignedInf(s) \in Pairs
<1>1. PICK B \in Nat : F(e)!ExpMax = 2 * B + 1 BY BiasIs
<1>2. 0 \in Nat /\ 0 < WordMod /\ F(e)!ExpMax \in Nat BY <1>1, WordFacts
<1> QED BY <1>2, PackPair DEF F!SignedInf

LEMMA PackedPair ==
  ASSUME NEW e \in Formats, NEW s \in {0, 1}, NEW x \in Int, NEW h \in Nat, NEW l \in Nat,
         l < WordMod
  PROVE  F(e)!Packed(s, x, h, l) \in Pairs
<1>1. CASE x >= F(e)!ExpMax BY <1>1, InfPair DEF F!Packed
<1>2. CASE ~(x >= F(e)!ExpMax) /\ x <= 0 BY <1>2, ZeroPair DEF F!Packed
<1>3. CASE ~(x >= F(e)!ExpMax) /\ ~(x <= 0)
  <2>1. x \in Nat BY <1>3
  <2>2. F(e)!cvm_d_pack(s, x, h, l) \in Pairs BY <2>1, PackPair
  <2> QED BY <1>3, <2>2 DEF F!Packed
<1> QED BY <1>1, <1>2, <1>3

LEMMA MulPair ==
  ASSUME NEW e \in Formats, NEW x \in Pairs, NEW y \in Pairs, IsNormal(e, x), IsNormal(e, y)
  PROVE  F(e)!cvm_d_mul(x, y) \in Pairs
<1>1. PICK i \in {0, 1}, h \in Nat, l \in Nat : IsFiniteProduct(e, x, y, i, h, l)
  BY MulFiniteIs
<1>2. F(e)!cvm_d_mul(x, y) = F(e)!MulFinite(x, y) BY KindsAre DEF IsNormal, F!cvm_d_mul
<1>3. PICK s \in {0, 1} : s = F(e)!ProductSign(x, y) BY ProductSignIs
<1>4. PICK u \in Int : u = MulExponent(e, x, y) + i BY ExponentIs
<1>5. F(e)!MulFinite(x, y) = F(e)!Packed(s, u, h, l) /\ l < WordMod
  BY <1>1, <1>3, <1>4 DEF IsFiniteProduct
<1> QED BY <1>2, <1>5, PackedPair

(* Multiplication by a power of two only moves the exponent.                *)
LEMMA MulUnit ==
  ASSUME NEW e \in Formats, NEW f \in Nat, NEW N \in Nat, Unit(e, f, N),
         NEW y, NEW i \in Nat, NEW m \in Nat, IsDouble(e, y, 0, i, m),
         NEW o, NEW j \in Nat, IsDouble(e, o, 0, j, N),
         NEW x \in Nat, x = i + j - F(e)!Bias, x >= 1, x < F(e)!ExpMax
  PROVE  IsDouble(e, F(e)!cvm_d_mul(y, o), 0, x, m)
<1> DEFINE z == F(e)!cvm_d_mul(y, o)
<1>1. /\ y \in Pairs /\ o \in Pairs /\ IsNormal(e, y) /\ IsNormal(e, o)
      /\ F(e)!CVM_D_SIGN(y) = 0 /\ F(e)!CVM_D_SIGN(o) = 0
      /\ F(e)!CVM_D_EXP(y) = i /\ F(e)!CVM_D_EXP(o) = j
      /\ Value(F(e)!Significand(y)) = m /\ Value(F(e)!Significand(o)) = N
  BY DEF IsDouble
<1>2. f = F(e)!MantBits /\ 2 ^ f = N /\ 2 ^ (f + 1) = 2 * N /\ N > 0 BY DEF Unit
<1>3. N <= m /\ m < 2 * N BY <1>1, UnitSignificand
<1>4. z \in Pairs BY <1>1, MulPair
<1>5. MulTruncates(e, y, o, z) BY <1>1, MulIs
<1>6. SigProduct(e, y, o) = m * N /\ MulExponent(e, y, o) = x
  BY <1>1 DEF SigProduct, MulExponent
<1>7. 2 ^ (2 * f + 1) = (2 * N) * N
  <2>1. 2 ^ ((f + 1) + f) = 2 ^ (f + 1) * 2 ^ f BY PowerSum
  <2>2. (f + 1) + f = 2 * f + 1 OBVIOUS
  <2> QED BY <1>2, <2>1, <2>2
<1>8. ~(m * N >= (2 * N) * N)
  <2>1. PICK d \in Nat : d = 2 * N OBVIOUS
  <2>2. m * N < d * N BY <1>2, <1>3, <2>1
  <2>3. m * N \in Int /\ d * N \in Int OBVIOUS
  <2> QED BY <2>1, <2>2, <2>3
<1>9. Carry(SigProduct(e, y, o) >= 2 ^ (2 * F(e)!MantBits + 1)) = 0
  BY <1>2, <1>6, <1>7, <1>8 DEF Carry
<1>10. NumberOf(e, z, 0, x + 0, (m * N) \div 2 ^ (f + 0))
  BY <1>1, <1>2, <1>5, <1>6, <1>9 DEF MulTruncates, IsNormal
<1>11. x + 0 = x /\ f + 0 = f OBVIOUS
<1>12. (m * N) \div N = m
  <2>1. PICK d \in Int : d = m * N OBVIOUS
  <2>2. d = N * m + 0 BY <2>1
  <2>3. Division(d, N, m, 0) BY <1>2, <2>2 DEF Division
  <2> QED BY <2>1, <2>3, DivisionIs
<1>13. NumberOf(e, z, 0, x, m) BY <1>2, <1>10, <1>11, <1>12
<1> HIDE DEF z
<1>14. F(e)!CVM_D_SIGN(z) = 0 /\ F(e)!CVM_D_EXP(z) = x /\ Value(F(e)!Significand(z)) = m
  <2>1. PICK B \in Nat : F(e)!ExpMax = 2 * B + 1 BY BiasIs
  <2>2. ~(x >= F(e)!ExpMax) /\ ~(x <= 0) BY <2>1
  <2> QED BY <1>13, <2>2 DEF NumberOf
<1>15. IsNormal(e, z)
  <2>1. PICK B \in Nat : F(e)!ExpMax = 2 * B + 1 BY BiasIs
  <2>2. x \in 1 .. F(e)!ExpMax - 1 BY <2>1
  <2> QED BY <1>14, <2>2 DEF IsNormal
<1>16. IsDouble(e, z, 0, x, m) BY <1>4, <1>14, <1>15 DEF IsDouble
<1> QED BY <1>16 DEF z

(* The power of two that a word can hold.                                   *)
LEMMA PowerDouble ==
  ASSUME NEW e \in Formats, F(e)!Bias >= Bits, NEW f \in Nat, NEW N \in Nat, Unit(e, f, N),
         NEW m \in Nat, m < Bits, NEW j \in Nat, j = F(e)!Bias + m
  PROVE  IsDouble(e, F(e)!cvm_d_from_u32(2 ^ m), 0, j, N)
<1>1. PICK v \in Nat : v = 2 ^ m /\ v > 0 /\ 2 ^ (m + 1) = 2 * v BY Powers
<1>2. v < WordMod
  <2>1. m + 1 \in Nat /\ Bits \in Nat /\ m + 1 <= Bits BY WordFacts
  <2>2. 2 ^ (m + 1) <= 2 ^ Bits BY <2>1, PowerOrder
  <2>3. 2 * v <= WordMod BY <1>1, <2>2 DEF WordMod
  <2> QED BY <1>1, <2>3, WordFacts
<1>3. PICK k \in 0 .. Bits - 1 : Leads(k, v) /\ Scaled(e, F(e)!cvm_d_from_u32(v), 0, v, k, 0)
  BY <1>1, <1>2, FromWordIs
<1>4. k = m
  <2>1. k \in Nat /\ Bits \in Nat BY WordFacts
  <2>2. k <= m
    <3>1. v < 2 ^ (m + 1) BY <1>1
    <3>2. k < m + 1 BY <1>3, <2>1, <3>1, LeadsUnder
    <3> QED BY <2>1, <3>2
  <2>3. ~(k < m)
    <3>1. ASSUME k < m PROVE FALSE
      <4>1. k + 1 \in Nat /\ k + 1 <= m BY <2>1, <3>1
      <4>2. 2 ^ (k + 1) <= v BY <1>1, <4>1, PowerOrder
      <4>3. PICK g \in Nat : g = 2 ^ (k + 1) BY <4>1, Powers
      <4>4. v < g BY <1>3, <4>3 DEF Leads
      <4> QED BY <4>2, <4>3, <4>4
    <3> QED BY <3>1
  <2> QED BY <2>1, <2>2, <2>3
<1>5. v * 2 ^ (F(e)!MantBits - k) = N
  <2>1. f = F(e)!MantBits /\ 2 ^ f = N BY DEF Unit
  <2>2. PICK t \in Nat : F(e)!MantBits = t + Bits BY FormatIs
  <2>3. PICK n \in Nat : n = f - m /\ m + n = f BY <2>1, <2>2, WordFacts
  <2>4. 2 ^ (m + n) = 2 ^ m * 2 ^ n BY <2>3, PowerSum
  <2> QED BY <1>1, <1>4, <2>1, <2>3, <2>4
<1>6. F(e)!Bias + k + 0 = j
  <2>1. PICK B \in Nat : B = F(e)!Bias BY BiasIs
  <2> QED BY <1>4, <2>1
<1> QED BY <1>1, <1>3, <1>5, <1>6 DEF Scaled

(* The double z is the number v, cut to the mantissa.                       *)
IsWide(e, z, s, v) ==
  LET u == F(e)!CVM_D_EXP(z) - F(e)!Bias
  IN  /\ z \in Pairs /\ IsNormal(e, z) /\ F(e)!CVM_D_SIGN(z) = s /\ u \in 0 .. 2 * Bits - 1
      /\ Value(F(e)!Significand(z)) = IF u > F(e)!MantBits THEN v \div 2 ^ (u - F(e)!MantBits)
                                      ELSE v * 2 ^ (F(e)!MantBits - u)

LEMMA WideIs ==
  ASSUME NEW e \in Formats, NEW z, NEW s, NEW v \in Nat, NEW u \in Nat, u < 2 * Bits,
         NEW i \in Nat, i = F(e)!Bias + u, NEW m, IsDouble(e, z, s, i, m),
         m = (v * 2 ^ F(e)!MantBits) \div 2 ^ u
  PROVE  IsWide(e, z, s, v)
<1>1. PICK f \in Nat, N \in Nat : Unit(e, f, N) BY UnitIs
<1>2. f = F(e)!MantBits /\ Bits \in Nat BY <1>1, WordFacts DEF Unit
<1>3. PICK B \in Nat : B = F(e)!Bias BY BiasIs
<1>4. F(e)!CVM_D_EXP(z) - F(e)!Bias = u BY <1>3 DEF IsDouble
<1>5. (v * 2 ^ f) \div 2 ^ u = IF u > f THEN v \div 2 ^ (u - f) ELSE v * 2 ^ (f - u)
  <2>1. CASE u > f
    <3>1. PICK n \in Nat : n = u - f /\ n + f = u BY <2>1
    <3>2. PICK g \in Nat, h \in Nat : g = 2 ^ f /\ g > 0 /\ h = 2 ^ n /\ h > 0 /\ 2 ^ u = h * g
      <4>1. 2 ^ (n + f) = 2 ^ n * 2 ^ f BY <3>1, PowerSum
      <4> QED BY <3>1, <4>1, Powers
    <3>3. PICK q \in Int, r \in Nat : Division(v, h, q, r)
      <4>1. v \in Int OBVIOUS
      <4> QED BY <3>2, <4>1, Divided
    <3>4. Division(g * v, g * h, q, g * r) BY <3>2, <3>3, DivisionScales
    <3>5. v \div h = q /\ (g * v) \div (g * h) = q BY <3>3, <3>4, DivisionIs
    <3>6. g * v = v * g /\ g * h = h * g OBVIOUS
    <3> QED BY <2>1, <3>1, <3>2, <3>5, <3>6
  <2>2. CASE ~(u > f)
    <3>1. PICK n \in Nat : n = f - u /\ n + u = f BY <2>2
    <3>2. PICK g \in Nat, h \in Nat : g = 2 ^ u /\ g > 0 /\ h = 2 ^ n /\ 2 ^ f = h * g
      <4>1. 2 ^ (n + u) = 2 ^ n * 2 ^ u BY <3>1, PowerSum
      <4> QED BY <3>1, <4>1, Powers
    <3>3. PICK q \in Int : q = v * h OBVIOUS
    <3>4. v * (h * g) = g * (v * h) + 0 OBVIOUS
    <3>5. PICK d \in Int : d = v * (h * g) /\ d = g * q + 0 BY <3>3, <3>4
    <3>6. Division(d, g, q, 0) BY <3>2, <3>5 DEF Division
    <3>7. d \div g = q BY <3>6, DivisionIs
    <3> QED BY <2>2, <3>1, <3>2, <3>3, <3>5, <3>7
  <2> QED BY <2>1, <2>2
<1>6. u \in 0 .. 2 * Bits - 1 BY <1>2
<1> QED BY <1>2, <1>4, <1>5, <1>6 DEF IsWide, IsDouble

(* The upper word times a word: the exponent of the upper word and Bits.    *)
UpperPart(e, h) ==
  F(e)!cvm_d_mul(F(e)!cvm_d_mul(F(e)!cvm_d_from_u32(h), F(e)!cvm_d_from_u32(2 ^ (Bits \div 2))),
                 F(e)!cvm_d_from_u32(2 ^ (Bits - Bits \div 2)))

LEMMA UpperPartIs ==
  ASSUME NEW e \in Formats, F(e)!Bias >= 2 * Bits, NEW h \in Nat, h > 0, h < WordMod
  PROVE  \E k \in 0 .. Bits - 1 : Leads(k, h) /\ Scaled(e, UpperPart(e, h), 0, h, k, Bits)
<1>1. PICK f \in Nat, N \in Nat : Unit(e, f, N) BY UnitIs
<1>2. PICK B \in Nat : B = F(e)!Bias /\ F(e)!ExpMax = 2 * B + 1 BY BiasIs
<1>3. Bits \in Nat /\ Bits >= 2 /\ B >= 2 * Bits /\ B >= Bits BY <1>2, WordFacts
<1>4. PICK n1 \in Nat, n2 \in Nat : /\ n1 = Bits \div 2 /\ n2 = Bits - Bits \div 2
                                    /\ n1 < Bits /\ n2 < Bits /\ n1 + n2 = Bits
  BY <1>3
<1>5. PICK k \in 0 .. Bits - 1 :
        Leads(k, h) /\ Scaled(e, F(e)!cvm_d_from_u32(h), 0, h, k, 0)
  BY <1>2, <1>3, FromWordIs
<1>6. PICK j1 \in Nat, j2 \in Nat : j1 = B + n1 /\ j2 = B + n2
  <2>1. B + n1 \in Nat /\ B + n2 \in Nat OBVIOUS
  <2> QED BY <2>1
<1>7. /\ IsDouble(e, F(e)!cvm_d_from_u32(2 ^ n1), 0, j1, N)
      /\ IsDouble(e, F(e)!cvm_d_from_u32(2 ^ n2), 0, j2, N)
  BY <1>1, <1>2, <1>3, <1>4, <1>6, PowerDouble
<1>8. PICK i \in Nat : i = B + k + 0 BY <1>3
<1>9. PICK m \in Nat : m = h * 2 ^ (F(e)!MantBits - k)
  <2>1. PICK t \in Nat : F(e)!MantBits = t + Bits BY FormatIs
  <2>2. F(e)!MantBits - k \in Nat BY <1>3, <2>1
  <2>3. PICK g \in Nat : g = 2 ^ (F(e)!MantBits - k) BY <2>2, Powers
  <2> QED BY <2>3
<1>10. IsDouble(e, F(e)!cvm_d_from_u32(h), 0, i, m) BY <1>2, <1>5, <1>8, <1>9 DEF Scaled
<1>11. PICK x \in Nat : x = i + j1 - B /\ x >= 1 /\ x < F(e)!ExpMax
  BY <1>2, <1>3, <1>4, <1>6, <1>8
<1>12. PICK z : z = F(e)!cvm_d_mul(F(e)!cvm_d_from_u32(h), F(e)!cvm_d_from_u32(2 ^ n1))
  OBVIOUS
<1>13. IsDouble(e, z, 0, x, m) BY <1>1, <1>2, <1>7, <1>10, <1>11, <1>12, MulUnit
<1>14. PICK y \in Nat : /\ y = x + j2 - B /\ y >= 1 /\ y < F(e)!ExpMax
                        /\ y = B + k + Bits
  BY <1>2, <1>3, <1>4, <1>6, <1>8, <1>11
<1>15. IsDouble(e, F(e)!cvm_d_mul(z, F(e)!cvm_d_from_u32(2 ^ n2)), 0, y, m)
  BY <1>1, <1>2, <1>7, <1>13, <1>14, MulUnit
<1>16. IsDouble(e, UpperPart(e, h), 0, y, m) BY <1>4, <1>12, <1>15 DEF UpperPart
<1>17. Scaled(e, UpperPart(e, h), 0, h, k, Bits) BY <1>2, <1>9, <1>14, <1>16 DEF Scaled
<1> QED BY <1>5, <1>17

(* Adding a zero leaves a normal number as it is.                           *)
LEMMA AddZero ==
  ASSUME NEW e \in Formats, NEW x, IsNormal(e, x), NEW y, F(e)!cvm_d_iszero(y)
  PROVE  F(e)!cvm_d_add(x, y) = x
<1>1. ~F(e)!cvm_d_isnan(x) /\ ~F(e)!cvm_d_isinf(x) /\ ~F(e)!cvm_d_iszero(x)
  BY KindsAre DEF IsNormal
<1>2. ~F(e)!cvm_d_isnan(y) /\ ~F(e)!cvm_d_isinf(y) BY KindsAre
<1> QED BY <1>1, <1>2 DEF F!cvm_d_add

LEMMA AddedPair ==
  ASSUME NEW e \in Formats, NEW s \in {0, 1}, NEW x \in Nat, NEW i \in Pairs, NEW j \in Pairs
  PROVE  F(e)!Added(s, x, i, j) \in Pairs
<1>1. PICK r \in Pairs : r = cvm_i64_add(i, j) BY AddExact
<1>2. F(e)!cvm_i64_add(i, j) = r BY <1>1, SameAdd
<1>3. PICK l \in Nat, h \in Nat : l = r.lo /\ h = r.hi /\ l < WordMod /\ h < WordMod BY PairIs
<1>4. F(e)!cvm_d_pack(s, x, h, l) \in Pairs BY <1>3, PackPair
<1>5. PICK v \in Nat : v = Shr(l, 1) + Shl(h, Bits - 1) /\ v < WordMod
  <2>1. 1 \in 1 .. Bits - 1 BY WordFacts
  <2>2. h \in Int /\ 0 \in Int /\ h = h + WordMod * 0 BY WordFacts
  <2> QED BY <1>3, <2>1, <2>2, ShrBy
<1>6. PICK u \in Nat : u = F(e)!Shr(h, 1)
  <2>1. 2 ^ 1 = 2
    <3>1. 2 ^ (0 + 1) = 2 * 2 ^ 0 BY Powers
    <3> QED BY <3>1, Powers
  <2>2. h \div 2 \in Nat OBVIOUS
  <2> QED BY <2>1, <2>2 DEF F!Shr
<1>7. F(e)!cvm_d_pack(s, x + 1, u, v) \in Pairs
  <2>1. x + 1 \in Nat OBVIOUS
  <2> QED BY <1>5, <2>1, PackPair
<1>8. F(e)!SignedInf(s) \in Pairs BY InfPair
<1>9. F(e)!Shr(l, 1) + F(e)!Shl(h, Bits - 1) = v
  BY <1>5 DEF F!Shr, Shr, F!Shl, Shl, F!WordMod, WordMod
<1> QED BY <1>2, <1>3, <1>4, <1>6, <1>7, <1>8, <1>9 DEF F!Added

(* A number and a smaller one of the same sign, without a carry.            *)
LEMMA AddBelow ==
  ASSUME NEW e \in Formats, NEW f \in Nat, NEW N \in Nat, Unit(e, f, N),
         NEW x, NEW i \in Nat, NEW m \in Nat, IsDouble(e, x, 0, i, m),
         NEW y, NEW j \in Nat, NEW n \in Nat, IsDouble(e, y, 0, j, n),
         NEW D \in Nat, D = i - j, D > 0, NEW g \in Nat, g = 2 ^ D,
         m * g + n < 2 * N * g
  PROVE  IsDouble(e, F(e)!cvm_d_add(x, y), 0, i, (m * g + n) \div g)
<1> DEFINE z == F(e)!cvm_d_add(x, y)
<1>1. /\ x \in Pairs /\ y \in Pairs /\ IsNormal(e, x) /\ IsNormal(e, y)
      /\ F(e)!CVM_D_SIGN(x) = 0 /\ F(e)!CVM_D_SIGN(y) = 0
      /\ F(e)!CVM_D_EXP(x) = i /\ F(e)!CVM_D_EXP(y) = j
      /\ Value(F(e)!Significand(x)) = m /\ Value(F(e)!Significand(y)) = n
  BY DEF IsDouble
<1>2. /\ f = F(e)!MantBits /\ 2 ^ f = N /\ 2 ^ (f + 1) = 2 * N /\ N > 0 /\ f + 1 < 2 * Bits
      /\ Bits \in Nat
  BY WordFacts DEF Unit
<1>3. N <= m /\ m < 2 * N /\ N <= n /\ n < 2 * N BY <1>1, UnitSignificand
<1>4. PICK i1 \in Nat : PartsOf(e, x, N, i1) BY <1>1, PartsAre
<1>5. PICK j1 \in Nat : PartsOf(e, y, N, j1) BY <1>1, PartsAre
<1>6. PICK mx \in Nat, my \in Nat :
        /\ mx = Value(F(e)!Magnitude(x)) /\ my = Value(F(e)!Magnitude(y))
        /\ mx = N * i + (m - N) /\ my = N * j + (n - N)
        /\ F(e)!Magnitude(x) \in Pairs /\ F(e)!Magnitude(y) \in Pairs
  <2>1. /\ F(e)!Magnitude(x) \in Pairs /\ F(e)!Magnitude(y) \in Pairs
        /\ Value(F(e)!Magnitude(x)) = N * i + (m - N)
        /\ Value(F(e)!Magnitude(y)) = N * j + (n - N)
    BY <1>1, <1>4, <1>5 DEF PartsOf
  <2>2. Value(F(e)!Magnitude(x)) \in Nat /\ Value(F(e)!Magnitude(y)) \in Nat
    BY <2>1, ValueBound
  <2> QED BY <2>1, <2>2
<1>7. my < mx
  <2>1. N * (j + D) >= N * (j + 1) BY <1>2
  <2>2. N * (j + 1) = N * j + N OBVIOUS
  <2>3. i = j + D OBVIOUS
  <2>4. PICK v \in Int, u \in Int : v = N * j /\ u = N * i OBVIOUS
  <2>5. u >= v + N BY <2>1, <2>2, <2>3, <2>4
  <2> QED BY <1>3, <1>6, <2>4, <2>5
<1>8. z = F(e)!SumOrdered(x, y)
  <2>1. ~F(e)!cvm_u64_lt(F(e)!Magnitude(x), F(e)!Magnitude(y))
    <3>1. cvm_u64_lt(F(e)!Magnitude(x), F(e)!Magnitude(y))
          <=> Value(F(e)!Magnitude(x)) < Value(F(e)!Magnitude(y))
      BY <1>6, ComparesExact
    <3> QED BY <1>6, <1>7, <3>1, SameCompare
  <2> QED BY <1>1, <2>1, KindsAre DEF F!cvm_d_add, IsNormal
<1>9. z \in Pairs
  <2>1. F(e)!CVM_D_EXP(x) - F(e)!CVM_D_EXP(y) = D BY <1>1
  <2>2. CASE D >= 2 * Bits BY <1>1, <1>8, <2>1, <2>2 DEF F!SumOrdered
  <2>3. CASE ~(D >= 2 * Bits)
    <3>1. F(e)!Significand(x) \in Pairs /\ F(e)!Significand(y) \in Pairs
      BY <1>1, UnitSignificand
    <3>2. D < 2 * Bits BY <1>2, <2>3
    <3>3. F(e)!AlignedBy(F(e)!Significand(y), D) \in Pairs BY <3>1, <3>2, AlignedIs
    <3>4. 0 \in {0, 1} OBVIOUS
    <3>5. F(e)!Added(0, i, F(e)!Significand(x), F(e)!AlignedBy(F(e)!Significand(y), D)) \in Pairs
      BY <3>1, <3>3, <3>4, AddedPair
    <3> QED BY <1>1, <1>8, <2>1, <2>3, <3>5 DEF F!SumOrdered
  <2> QED BY <2>2, <2>3
<1>10. Bounded(e, x, y, z)
  <2>1. Adds(e, x, y, z) BY <1>1, AddIs
  <2> QED BY <1>1, <1>6, <1>7, <2>1 DEF Adds
<1>11. PICK v \in Nat : v = m * g + n OBVIOUS
<1>12. g > 0 BY Powers
<1>13. CASE D > f + 1
  <2>1. z = x BY <1>1, <1>2, <1>10, <1>13 DEF Bounded
  <2>2. v \div g = m
    <3>1. 2 ^ (f + 1) <= 2 ^ D BY <1>13, PowerOrder
    <3>2. n < g BY <1>2, <1>3, <3>1
    <3>3. m * g = g * m OBVIOUS
    <3>4. Division(v, g, m, n) BY <1>11, <1>12, <3>2, <3>3 DEF Division
    <3> QED BY <3>4, DivisionIs
  <2> QED BY <1>11, <2>1, <2>2
<1>14. CASE ~(D > f + 1)
  <2>1. SameSigns(e, z, 0, i, D, m, n) BY <1>1, <1>2, <1>10, <1>14 DEF Bounded
  <2>2. 2 ^ (f + 1 + D) = 2 * N * g
    <3>1. 2 ^ ((f + 1) + D) = 2 ^ (f + 1) * 2 ^ D BY PowerSum
    <3> QED BY <1>2, <3>1
  <2>3. Carry(v >= 2 ^ (f + 1 + D)) = 0
    <3>1. PICK d \in Int : d = 2 * N * g OBVIOUS
    <3> QED BY <1>11, <2>2, <3>1 DEF Carry
  <2>4. NumberOf(e, z, 0, i + 0, v \div 2 ^ (D + 0))
    BY <1>2, <1>11, <2>1, <2>3 DEF SameSigns
  <2>5. i + 0 = i /\ D + 0 = D OBVIOUS
  <2>6. NumberOf(e, z, 0, i, v \div g) BY <2>4, <2>5
  <2>7. i \in 1 .. F(e)!ExpMax - 1 BY <1>1 DEF IsNormal
  <2> HIDE DEF z
  <2>8. F(e)!CVM_D_SIGN(z) = 0 /\ F(e)!CVM_D_EXP(z) = i /\ Value(F(e)!Significand(z)) = v \div g
    <3>1. PICK B \in Nat : F(e)!ExpMax = 2 * B + 1 BY BiasIs
    <3>2. ~(i >= F(e)!ExpMax) /\ ~(i <= 0) BY <2>7, <3>1
    <3> QED BY <2>6, <3>2 DEF NumberOf
  <2>9. IsNormal(e, z) BY <2>7, <2>8 DEF IsNormal
  <2>10. IsDouble(e, z, 0, i, v \div g) BY <1>9, <2>8, <2>9 DEF IsDouble
  <2> QED BY <1>11, <2>10 DEF z
<1> QED BY <1>13, <1>14

LEMMA FromBothIs ==
  ASSUME NEW e \in Formats, F(e)!Bias >= 2 * Bits, NEW l \in Nat, l < WordMod,
         NEW h \in Nat, h > 0, h < WordMod
  PROVE  IsWide(e, F(e)!cvm_d_add(UpperPart(e, h), F(e)!cvm_d_from_u32(l)), 0, l + WordMod * h)
<1>1. PICK f \in Nat, N \in Nat : Unit(e, f, N) BY UnitIs
<1>2. PICK B \in Nat : B = F(e)!Bias BY BiasIs
<1>3. /\ f = F(e)!MantBits /\ 2 ^ f = N /\ N > 0 /\ Bits \in Nat /\ Bits >= 2
      /\ B >= 2 * Bits /\ B >= Bits
  BY <1>1, <1>2, WordFacts DEF Unit
<1>4. f >= Bits
  <2>1. PICK t \in Nat : F(e)!MantBits = t + Bits BY FormatIs
  <2> QED BY <1>3, <2>1
<1>5. PICK k \in 0 .. Bits - 1 : Leads(k, h) /\ Scaled(e, UpperPart(e, h), 0, h, k, Bits)
  BY UpperPartIs
<1>6. PICK u \in Nat, i \in Nat : u = k + Bits /\ u < 2 * Bits /\ i = B + u /\ k \in Nat
  BY <1>3
<1>7. PICK a1 \in Nat : a1 = f - k /\ k + a1 = f BY <1>3, <1>4
<1>8. PICK g \in Nat, c1 \in Nat, w \in Nat :
        /\ g = 2 ^ k /\ c1 = 2 ^ a1 /\ w = WordMod /\ g > 0 /\ c1 > 0 /\ w > 1
        /\ N = g * c1 /\ h < 2 * g /\ 2 ^ u = g * w
  <2>1. 2 ^ (k + a1) = 2 ^ k * 2 ^ a1 BY <1>6, <1>7, PowerSum
  <2>2. 2 ^ (k + Bits) = 2 ^ k * 2 ^ Bits BY <1>3, <1>6, PowerSum
  <2>3. 2 ^ (k + 1) = 2 * 2 ^ k /\ 2 ^ k \in Nat /\ 2 ^ k > 0 BY <1>6, Powers
  <2>4. 2 ^ a1 \in Nat /\ 2 ^ a1 > 0 BY Powers
  <2> QED BY <1>3, <1>5, <1>6, <1>7, <2>1, <2>2, <2>3, <2>4, WordFacts DEF Leads, WordMod
<1>9. PICK m \in Nat : m = h * c1 OBVIOUS
<1>10. PICK x : x = UpperPart(e, h) OBVIOUS
<1>11. IsDouble(e, x, 0, i, m)
  <2>1. i = F(e)!Bias + k + Bits BY <1>2, <1>3, <1>6
  <2> QED BY <1>3, <1>5, <1>7, <1>8, <1>9, <1>10, <2>1 DEF Scaled
<1>12. PICK y : y = F(e)!cvm_d_from_u32(l) OBVIOUS
<1>13. PICK v \in Nat : v = l + w * h BY <1>8
<1>14. CASE l = 0
  <2>1. 0 \in {0, 1} OBVIOUS
  <2>2. F(e)!cvm_d_iszero(y)
    <3>1. y = F(e)!SignedZero(0) BY <1>12, <1>14 DEF F!cvm_d_from_u32
    <3> QED BY <2>1, <3>1, SpecialIs
  <2>3. F(e)!cvm_d_add(x, y) = x BY <1>11, <2>2, AddZero DEF IsDouble
  <2>4. m = (v * N) \div (g * w)
    <3>1. (w * h) * (g * c1) = (g * w) * (h * c1) + 0 OBVIOUS
    <3>2. PICK d \in Int, j \in Nat : d = v * N /\ j = g * w /\ j > 0
      <4>1. g * w > 0 BY <1>8
      <4> QED BY <4>1
    <3>3. v = w * h BY <1>13, <1>14
    <3>4. v * N = (g * w) * m + 0 BY <1>8, <1>9, <3>1, <3>3
    <3>5. d = j * m + 0 BY <3>2, <3>4
    <3>6. Division(d, j, m, 0) BY <3>2, <3>5 DEF Division
    <3>7. d \div j = m BY <3>6, DivisionIs
    <3> QED BY <3>2, <3>7
  <2>5. m = (v * 2 ^ F(e)!MantBits) \div 2 ^ u BY <1>3, <1>8, <2>4
  <2>6. IsWide(e, x, 0, v) BY <1>2, <1>6, <1>11, <2>5, WideIs
  <2> QED BY <1>8, <1>10, <1>12, <1>13, <2>3, <2>6
<1>15. CASE l > 0
  <2>1. PICK q \in 0 .. Bits - 1 : Leads(q, l) /\ Scaled(e, y, 0, l, q, 0)
    BY <1>2, <1>3, <1>12, <1>15, FromWordIs
  <2>2. PICK j \in Nat, D \in Nat : j = B + q /\ D = i - j /\ D > 0 /\ D + q = u /\ q \in Nat
    <3>1. q \in Nat /\ q <= Bits - 1 BY <1>3
    <3>2. B + q \in Nat BY <3>1
    <3>3. i - (B + q) \in Nat /\ i - (B + q) > 0 /\ (i - (B + q)) + q = u
      BY <1>3, <1>6, <3>1
    <3> QED BY <3>1, <3>2, <3>3
  <2>3. PICK a2 \in Nat : a2 = f - q /\ q + a2 = f BY <1>3, <1>4
  <2>4. PICK o \in Nat, c2 \in Nat, G \in Nat :
          /\ o = 2 ^ q /\ c2 = 2 ^ a2 /\ G = 2 ^ D /\ o > 0 /\ c2 > 0 /\ G > 0
          /\ N = o * c2 /\ g * w = G * o
    <3>1. 2 ^ (q + a2) = 2 ^ q * 2 ^ a2 BY <2>2, <2>3, PowerSum
    <3>2. 2 ^ (D + q) = 2 ^ D * 2 ^ q BY <2>2, PowerSum
    <3> QED BY <1>3, <1>8, <2>2, <2>3, <3>1, <3>2, Powers
  <2>5. PICK n \in Nat : n = l * c2 OBVIOUS
  <2>6. IsDouble(e, y, 0, j, n)
    <3>1. j = F(e)!Bias + q + 0 BY <1>2, <2>2
    <3> QED BY <1>3, <2>1, <2>3, <2>4, <2>5, <3>1 DEF Scaled
  (* The exact sum is the number, scaled.                                   *)
  <2>7. c1 * G = w * c2
    <3>1. (c1 * G) * (g * o) = N * (g * w)
      <4>1. (c1 * G) * (g * o) = (g * c1) * (G * o) OBVIOUS
      <4> QED BY <1>8, <2>4, <4>1
    <3>2. (w * c2) * (g * o) = N * (g * w)
      <4>1. (w * c2) * (g * o) = (o * c2) * (g * w) OBVIOUS
      <4> QED BY <2>4, <4>1
    <3>3. PICK s1 \in Nat, s2 \in Nat, s3 \in Nat :
            s1 = c1 * G /\ s2 = w * c2 /\ s3 = g * o /\ s3 > 0
      <4>1. g * o > 0 BY <1>8, <2>4
      <4> QED BY <4>1
    <3>4. s1 * s3 = s2 * s3 BY <3>1, <3>2, <3>3
    <3>5. s1 = s2
      <4>1. s1 < s2 => s1 * s3 < s2 * s3 BY <3>3
      <4>2. s2 < s1 => s2 * s3 < s1 * s3 BY <3>3
      <4>3. PICK r1 \in Int, r2 \in Int : r1 = s1 * s3 /\ r2 = s2 * s3 OBVIOUS
      <4>4. ~(s1 < s2) /\ ~(s2 < s1) BY <3>4, <4>1, <4>2, <4>3
      <4> QED BY <4>4
    <3> QED BY <3>3, <3>5
  <2>8. m * G + n = v * c2
    <3>1. (h * c1) * G = h * (c1 * G) OBVIOUS
    <3>2. h * (w * c2) + l * c2 = (l + w * h) * c2 OBVIOUS
    <3>3. m * G = h * (w * c2) BY <1>9, <2>7, <3>1
    <3> QED BY <1>13, <2>5, <3>2, <3>3
  <2>9. m * G + n < 2 * N * G
    <3>1. v < 2 * (g * w)
      <4>1. w * (h + 1) <= w * (2 * g)
        <5>1. h + 1 <= 2 * g BY <1>8
        <5>2. PICK d \in Nat : d = 2 * g OBVIOUS
        <5>3. h + 1 <= d => w * (h + 1) <= w * d OBVIOUS
        <5> QED BY <5>1, <5>2, <5>3
      <4>2. w * (h + 1) = w * h + w /\ w * (2 * g) = 2 * (g * w) OBVIOUS
      <4>3. PICK r1 \in Int, r2 \in Int : r1 = w * h /\ r2 = g * w OBVIOUS
      <4> QED BY <1>8, <1>13, <4>1, <4>2, <4>3
    <3>2. PICK d \in Nat : d = 2 * (g * w) OBVIOUS
    <3>3. v * c2 < d * c2
      <4>1. v < d BY <3>1, <3>2
      <4> QED BY <2>4, <4>1
    <3>4. (2 * (G * o)) * c2 = 2 * (o * c2) * G OBVIOUS
    <3>5. d * c2 = 2 * N * G BY <2>4, <3>2, <3>4
    <3>6. PICK r1 \in Int, r2 \in Int : r1 = v * c2 /\ r2 = d * c2 OBVIOUS
    <3>7. r1 < r2 /\ m * G + n = r1 /\ 2 * N * G = r2 BY <2>8, <3>3, <3>5, <3>6
    <3> QED BY <3>7
  <2>10. IsDouble(e, F(e)!cvm_d_add(x, y), 0, i, (m * G + n) \div G)
    BY <1>1, <1>11, <2>2, <2>4, <2>6, <2>9, AddBelow
  <2>11. (m * G + n) \div G = (v * N) \div (g * w)
    <3>1. PICK d \in Int : d = v * c2 OBVIOUS
    <3>2. PICK r1 \in Int, r2 \in Nat : Division(d, G, r1, r2) BY <2>4, <3>1, Divided
    <3>3. Division(o * d, o * G, r1, o * r2) BY <2>4, <3>2, DivisionScales
    <3>4. d \div G = r1 /\ (o * d) \div (o * G) = r1 BY <3>2, <3>3, DivisionIs
    <3>5. o * (v * c2) = v * (o * c2) /\ o * G = G * o OBVIOUS
    <3> QED BY <2>4, <2>8, <3>1, <3>4, <3>5
  <2>12. (m * G + n) \div G = (v * 2 ^ F(e)!MantBits) \div 2 ^ u BY <1>3, <1>8, <2>11
  <2>13. IsWide(e, F(e)!cvm_d_add(x, y), 0, v) BY <1>2, <1>6, <2>10, <2>12, WideIs
  <2> QED BY <1>8, <1>10, <1>12, <1>13, <2>13
<1> QED BY <1>14, <1>15

LEMMA FromWideIs ==
  ASSUME NEW e \in Formats, F(e)!Bias >= 2 * Bits, NEW x \in Pairs
  PROVE  LET z == F(e)!__cvm_f_from_u64(x)
         IN  IF Value(x) = 0 THEN z = F(e)!SignedZero(0) ELSE IsWide(e, z, 0, Value(x))
<1> DEFINE z == F(e)!__cvm_f_from_u64(x)
<1>1. PICK l \in Nat, h \in Nat : /\ l = x.lo /\ h = x.hi /\ l < WordMod /\ h < WordMod
                                  /\ Value(x) = l + WordMod * h
  BY PairIs
<1>2. PICK B \in Nat, w \in Nat, k \in Nat : /\ B = F(e)!Bias /\ w = WordMod /\ w > 1
                                             /\ k = Bits /\ B >= 2 * k
  BY BiasIs, WordFacts
<1>3. CASE h = 0
  <2>1. Value(x) = l
    <3>1. w * 0 = 0 OBVIOUS
    <3> QED BY <1>1, <1>2, <1>3, <3>1
  <2>2. z = F(e)!cvm_d_from_u32(l) BY <1>1, <1>3 DEF F!__cvm_f_from_u64
  <2>3. CASE l = 0 BY <2>1, <2>2, <2>3 DEF F!cvm_d_from_u32
  <2>4. CASE l > 0
    <3>1. B >= Bits BY <1>2
    <3>2. PICK u \in 0 .. Bits - 1 : Leads(u, l) /\ Scaled(e, F(e)!cvm_d_from_u32(l), 0, l, u, 0)
      BY <1>1, <1>2, <2>4, <3>1, FromWordIs
    <3>3. PICK f \in Nat, N \in Nat : Unit(e, f, N) BY UnitIs
    <3>4. f = F(e)!MantBits /\ 2 ^ f = N BY <3>3 DEF Unit
    <3>5. PICK n \in Nat : n = f - u /\ n + u = f /\ u \in Nat /\ u < 2 * Bits
      <4>1. PICK t \in Nat : F(e)!MantBits = t + Bits BY FormatIs
      <4> QED BY <1>2, <3>4, <4>1
    <3>6. PICK g \in Nat, i \in Nat : g = 2 ^ u /\ g > 0 /\ i = 2 ^ n /\ N = i * g
      <4>1. 2 ^ (n + u) = 2 ^ n * 2 ^ u BY <3>5, PowerSum
      <4> QED BY <3>4, <3>5, <4>1, Powers
    <3>7. PICK m \in Nat : m = l * i OBVIOUS
    <3>8. PICK j \in Nat : j = B + u BY <3>5
    <3>9. IsDouble(e, z, 0, j, m)
      <4>1. j = F(e)!Bias + u + 0 BY <1>2, <3>5, <3>8
      <4> QED BY <2>2, <3>2, <3>4, <3>5, <3>6, <3>7, <4>1 DEF Scaled
    <3>10. m = (l * N) \div g
      <4>1. l * (i * g) = g * (l * i) + 0 OBVIOUS
      <4>2. PICK d \in Int : d = l * N /\ d = g * m + 0 BY <3>6, <3>7, <4>1
      <4>3. Division(d, g, m, 0) BY <3>6, <4>2 DEF Division
      <4>4. d \div g = m BY <4>3, DivisionIs
      <4> QED BY <4>2, <4>4
    <3>11. m = (l * 2 ^ F(e)!MantBits) \div 2 ^ u BY <3>4, <3>6, <3>10
    <3>12. IsWide(e, z, 0, l) BY <1>2, <3>5, <3>8, <3>9, <3>11, WideIs
    <3> QED BY <2>1, <2>4, <3>12
  <2> QED BY <2>3, <2>4
<1>4. CASE h > 0
  <2>1. z = F(e)!cvm_d_add(UpperPart(e, h), F(e)!cvm_d_from_u32(l))
    BY <1>1, <1>4 DEF F!__cvm_f_from_u64, UpperPart
  <2>2. IsWide(e, z, 0, l + WordMod * h) BY <1>1, <1>4, <2>1, FromBothIs
  <2>3. Value(x) # 0
    <3>1. w * h >= w * 1 BY <1>2, <1>4
    <3>2. PICK d \in Int : d = w * h OBVIOUS
    <3> QED BY <1>1, <1>2, <3>1, <3>2
  <2> QED BY <1>1, <2>2, <2>3
<1> QED BY <1>3, <1>4

LEMMA SameNeg ==
  ASSUME NEW e, NEW x
  PROVE  F(e)!cvm_i64_neg(x) = cvm_i64_neg(x) /\ (F(e)!Negative(x) <=> Negative(x))
<1>1. F(e)!cvm_i64_neg(x) = cvm_i64_neg(x)
  BY DEF F!cvm_i64_neg, cvm_i64_neg, F!I64, I64, F!WordMod, WordMod, F!Carry, Carry
<1>2. F(e)!Negative(x) <=> Negative(x)
  BY DEF F!Negative, Negative, F!Shr, Shr
<1> QED BY <1>1, <1>2

(* The double z is the integer x, taken as signed or not.                   *)
WideOf(e, signed, x, z) ==
  LET s == Carry(signed /\ SignedValue(x) < 0)
      v == IF s = 1 THEN -SignedValue(x) ELSE Value(x)
  IN  IF v = 0 THEN z = F(e)!SignedZero(0) ELSE IsWide(e, z, s, v)

LEMMA UnsignedWide ==
  ASSUME NEW e \in Formats, F(e)!Bias >= 2 * Bits, NEW x \in Pairs
  PROVE  WideOf(e, FALSE, x, F(e)!__cvm_f_from_u64(x))
<1>1. PICK s : s = Carry(FALSE /\ SignedValue(x) < 0) /\ s = 0 BY DEF Carry
<1> QED BY <1>1, FromWideIs DEF WideOf

LEMMA WideNeg ==
  ASSUME NEW e \in Formats, NEW y, NEW v, IsWide(e, y, 0, v)
  PROVE  IsWide(e, F(e)!cvm_d_neg(y), 1, v)
<1> DEFINE z == F(e)!cvm_d_neg(y)
<1>1. y \in Pairs BY DEF IsWide
<1>2. /\ z \in Pairs /\ F(e)!CVM_D_EXP(z) = F(e)!CVM_D_EXP(y)
      /\ F(e)!CVM_D_SIGN(z) = 1 - F(e)!CVM_D_SIGN(y)
      /\ F(e)!Significand(z) = F(e)!Significand(y)
  BY <1>1, NegIs
<1> HIDE DEF z
<1>3. F(e)!CVM_D_SIGN(z) = 1
  <2>1. F(e)!CVM_D_SIGN(z) = 1 - 0 BY <1>2 DEF IsWide
  <2> QED BY <2>1
<1>4. IsNormal(e, z) BY <1>2 DEF IsWide, IsNormal
<1>5. IsWide(e, z, 1, v) BY <1>2, <1>3, <1>4 DEF IsWide
<1> QED BY <1>5 DEF z

LEMMA SignedWide ==
  ASSUME NEW e \in Formats, F(e)!Bias >= 2 * Bits, NEW x \in Pairs
  PROVE  WideOf(e, TRUE, x, F(e)!__cvm_f_from_i64(x))
<1> DEFINE z == F(e)!__cvm_f_from_i64(x)
<1>1. PICK V \in Nat, M \in Nat : /\ V = Value(x) /\ M = Mod /\ M > 0 /\ V < M /\ M \div 2 > 0
  <2>1. PICK k \in Nat, w \in Nat : k > 0 /\ w = WordMod /\ w > 1 /\ Mod \div 2 = w * k
    BY HalfWord, WordFacts
  <2>2. w * k > 0 BY <2>1
  <2>3. Value(x) \in Nat /\ Value(x) < Mod /\ Mod \in Nat /\ Mod > 0 BY ValueBound, WordFacts
  <2> QED BY <2>1, <2>2, <2>3
<1>2. PICK S \in Int : S = SignedValue(x) /\ S = IF V < M \div 2 THEN V ELSE V - M
  BY <1>1 DEF SignedValue
<1>3. F(e)!Negative(x) <=> S < 0 BY <1>2, NegativeIs, SameNeg
<1>4. CASE S < 0
  <2>1. V > 0 /\ S = V - M /\ ~(V < M \div 2) BY <1>1, <1>2, <1>4
  <2>2. PICK y \in Pairs : y = cvm_i64_neg(x) /\ Value(y) = (-V) % M BY <1>1, NegExact
  <2>3. Value(y) = M - V /\ M - V # 0 /\ -S = M - V
    <3>1. PICK r \in Nat : r = M - V /\ r < M BY <1>1, <2>1
    <3>2. -V = M * (-1) + r BY <3>1
    <3>3. Division(-V, M, -1, r) BY <1>1, <3>1, <3>2 DEF Division
    <3>4. (-V) % M = r BY <3>3, DivisionIs
    <3> QED BY <1>1, <2>1, <2>2, <3>1, <3>4
  <2>4. z = F(e)!cvm_d_neg(F(e)!__cvm_f_from_u64(y))
    BY <1>3, <1>4, <2>2, SameNeg DEF F!__cvm_f_from_i64
  <2>5. IsWide(e, F(e)!__cvm_f_from_u64(y), 0, M - V) BY <2>3, FromWideIs
  <2>6. IsWide(e, z, 1, M - V) BY <2>4, <2>5, WideNeg
  <2>7. PICK s : s = Carry(TRUE /\ SignedValue(x) < 0) /\ s = 1 BY <1>2, <1>4 DEF Carry
  <2> QED BY <1>2, <2>3, <2>6, <2>7 DEF WideOf
<1>5. CASE ~(S < 0)
  <2>1. z = F(e)!__cvm_f_from_u64(x) BY <1>3, <1>5 DEF F!__cvm_f_from_i64
  <2>2. PICK s : s = Carry(TRUE /\ SignedValue(x) < 0) /\ s = 0 BY <1>2, <1>5 DEF Carry
  <2> QED BY <2>1, <2>2, FromWideIs DEF WideOf
<1> QED BY <1>4, <1>5

-----------------------------------------------------------------------------
ConversionFns == From64 \cup FromWord \cup ToWord

(* What ConversionsExact says of a call of f with the operand x.             *)
Converts(e, f, x, z) ==
  /\ f = "f_from_u64" => WideOf(e, FALSE, x, z)
  /\ f = "f_from_i64" => WideOf(e, TRUE, x, z)
  /\ f = "f_to_i32" => ToSigned(e, x, z.lo)
  /\ f = "f_to_u32" => ToUnsigned(e, x, z.lo)
  /\ f = "f_from_u32" => FromUnsigned(e, x.lo, z)
  /\ f = "f_from_i32" => FromSigned(e, x.lo, z)
  /\ f = "f_from_f32" => Extended(e, x.lo, z)
  /\ f = "f_to_f32" => Narrowed(e, x, z.lo)

LEMMA ConversionReturned ==
  ASSUME NEW e, fmt' = e, NEW f, fn' = f, NEW x, a' = x, NEW d, ret' = d, Converts(e, f, x, d)
  PROVE  ConversionsExact'
<1>1. /\ Exp(a)' = F(e)!CVM_D_EXP(x) /\ Exp(ret)' = F(e)!CVM_D_EXP(d)
      /\ Sign(a)' = F(e)!CVM_D_SIGN(x) /\ Sign(ret)' = F(e)!CVM_D_SIGN(d)
      /\ Sig(a)' = Value(F(e)!Significand(x)) /\ Sig(ret)' = Value(F(e)!Significand(d))
      /\ NaN(a)' = F(e)!cvm_d_isnan(x) /\ P' = F(e)!MantBits
      /\ Zero(a)' = F(e)!cvm_d_iszero(x) /\ Zero(ret)' = F(e)!cvm_d_iszero(d)
      /\ Normal(a)' = IsNormal(e, x) /\ Normal(ret)' = IsNormal(e, d)
  BY DEF Exp, Sign, Sig, NaN, P, Zero, Normal, IsNormal
<1>2. Truncated(a)' = TruncatedOf(e, x) /\ Truncated(ret)' = TruncatedOf(e, d)
  BY <1>1 DEF Truncated, TruncatedOf
<1>3. ASSUME NEW s, NEW k, NEW sig
      PROVE  IsNumber(ret, s, k, sig)' = NumberOf(e, d, s, k, sig)
  BY DEF IsNumber, NumberOf, Sign, Inf, Zero, Exp, Sig
<1>4. ASSUME NEW v
      PROVE  /\ F32Exp(v)' = SingleExp(e, v) /\ F32Sig(v)' = SingleSig(e, v)
             /\ F32Normal(v)' = SingleNormal(e, v)
  BY DEF F32Exp, F32Sig, F32Normal, SingleExp, SingleSig, SingleNormal
<1>10. ASSUME NEW v, NEW s, NEW k, NEW sig
       PROVE  IsFloat(v, s, k, sig)' = SingleOf(e, v, s, k, sig)
  BY <1>4 DEF IsFloat, SingleOf
<1>5. ASSUME f \in From64 PROVE ConversionsExact'
  <2>1. PICK signed \in BOOLEAN : signed = (f = "f_from_i64") OBVIOUS
  <2>2. WideOf(e, signed, x, d) BY <1>5, <2>1 DEF From64, Converts
  <2>3. PICK s, v : /\ s = Carry(signed /\ SignedValue(x) < 0)
                    /\ v = (IF s = 1 THEN -SignedValue(x) ELSE Value(x))
    OBVIOUS
  <2>4. IF v = 0 THEN d = F(e)!SignedZero(0) ELSE IsWide(e, d, s, v)
    BY <2>2, <2>3 DEF WideOf
  <2>5. /\ s = Carry(fn = "f_from_i64" /\ SignedValue(a) < 0)'
        /\ v = (IF s = 1 THEN -SignedValue(a)' ELSE Value(a)')
    BY <2>1, <2>3
  <2>6. v # 0 =>
          LET u == F(e)!CVM_D_EXP(d) - F(e)!Bias
          IN  /\ IsNormal(e, d) /\ F(e)!CVM_D_SIGN(d) = s /\ u \in 0 .. 2 * Bits - 1
              /\ Value(F(e)!Significand(d)) = IF u > F(e)!MantBits
                                              THEN v \div 2 ^ (u - F(e)!MantBits)
                                              ELSE v * 2 ^ (F(e)!MantBits - u)
    BY <2>4 DEF IsWide
  <2>7. f \notin {"f_to_i32", "f_to_u32", "f_from_u32", "f_from_i32", "f_from_f32", "f_to_f32"}
    BY <1>5 DEF From64
  <2> QED BY <1>1, <2>4, <2>5, <2>6, <2>7 DEF ConversionsExact, Returned, ReturnedOneOf
<1>6. ASSUME f \in {"f_to_i32", "f_to_u32"} PROVE ConversionsExact'
  <2>1. (IF Sign(a) = 1 THEN -Truncated(a) ELSE Truncated(a))' = SignedInteger(e, x)
    BY <1>1, <1>2 DEF SignedInteger
  <2>2. /\ f = "f_to_i32" => ToSigned(e, x, d.lo)
        /\ f = "f_to_u32" => ToUnsigned(e, x, d.lo)
    BY DEF Converts
  <2>3. f \notin From64 \cup {"f_from_u32", "f_from_i32", "f_from_f32", "f_to_f32"}
    BY <1>6 DEF From64
  <2> QED BY <1>1, <2>1, <2>2, <2>3
          DEF ConversionsExact, Returned, ReturnedOneOf, ToSigned, ToUnsigned
<1>7. ASSUME f \in {"f_from_u32", "f_from_i32"} PROVE ConversionsExact'
  <2>1. /\ f = "f_from_u32" => FromUnsigned(e, x.lo, d)
        /\ f = "f_from_i32" => FromSigned(e, x.lo, d)
    BY DEF Converts
  <2>2. f \notin From64 \cup {"f_to_u32", "f_to_i32", "f_from_f32", "f_to_f32"}
    BY <1>7 DEF From64
  <2> QED BY <1>1, <1>2, <2>1, <2>2
          DEF ConversionsExact, Returned, ReturnedOneOf, FromUnsigned, FromSigned
<1>8. ASSUME f \in {"f_from_f32", "f_to_f32"} PROVE ConversionsExact'
  <2>1. /\ f = "f_from_f32" => Extended(e, x.lo, d)
        /\ f = "f_to_f32" => Narrowed(e, x, d.lo)
    BY DEF Converts
  <2>2. f \notin From64 \cup {"f_to_u32", "f_to_i32", "f_from_u32", "f_from_i32"}
    BY <1>8 DEF From64
  <2> QED BY <1>1, <1>3, <1>4, <1>10, <2>1, <2>2
          DEF ConversionsExact, Returned, ReturnedOneOf, Extended, Narrowed
<1>9. ASSUME f \notin ConversionFns PROVE ConversionsExact'
  BY <1>9 DEF ConversionsExact, Returned, ReturnedOneOf, ConversionFns, FromWord, ToWord, From64
<1> QED BY <1>5, <1>6, <1>7, <1>8, <1>9 DEF ConversionFns, FromWord, ToWord, From64

LEMMA WordReturned ==
  ASSUME fmt \in Formats, CallFromWord PROVE ConversionsExact'
<1>1. PICK f \in FromWord, x \in Half :
        /\ Supports(fmt, f)
        /\ Called(f, I64(x, 0), CVM_I64_ZERO, CVM_I64_ZERO)
        /\ Returns(Converted(f, x))
  BY DEF CallFromWord
<1>2. PICK e \in Formats : e = fmt OBVIOUS
<1>3. x \in Nat /\ x < WordMod BY WordFacts DEF Half
<1>4. fmt' = e /\ fn' = f /\ a' = I64(x, 0) /\ ret' = Converted(f, x)
  BY <1>1, <1>2 DEF Called, Returns
<1>5. I64(x, 0).lo = x BY DEF I64
<1>6. CASE f = "f_from_i32"
  <2>1. F(e)!Bias >= Bits BY <1>1, <1>2, <1>6 DEF Supports, From64
  <2>2. Converted(f, x) = F(e)!cvm_d_from_i32(x) BY <1>2, <1>6 DEF Converted
  <2>3. Converts(e, f, I64(x, 0), Converted(f, x))
    BY <1>3, <1>5, <1>6, <2>1, <2>2, FromSignedIs DEF Converts
  <2> QED BY <1>4, <2>3, ConversionReturned
<1>7. CASE f = "f_from_u32"
  <2>1. F(e)!Bias >= Bits BY <1>1, <1>2, <1>7 DEF Supports, From64
  <2>2. Converted(f, x) = F(e)!cvm_d_from_u32(x) BY <1>2, <1>7 DEF Converted
  <2>3. Converts(e, f, I64(x, 0), Converted(f, x))
    BY <1>3, <1>5, <1>7, <2>1, <2>2, FromUnsignedIs DEF Converts
  <2> QED BY <1>4, <2>3, ConversionReturned
<1>8. CASE f = "f_from_f32"
  <2>1. F(e)!F32ExpBits >= 2 BY <1>1, <1>2, <1>8 DEF Supports, From64
  <2>2. Converted(f, x) = F(e)!cvm_d_from_f32(x) BY <1>2, <1>8 DEF Converted
  <2>3. Converts(e, f, I64(x, 0), Converted(f, x))
    BY <1>3, <1>5, <1>8, <2>1, <2>2, ExtendedIs DEF Converts
  <2> QED BY <1>4, <2>3, ConversionReturned
<1> QED BY <1>6, <1>7, <1>8 DEF FromWord

LEMMA WideReturned ==
  ASSUME fmt \in Formats, CallFrom64 PROVE ConversionsExact'
<1>1. PICK f \in From64, lo \in Half, hi \in Half :
        /\ Supports(fmt, f)
        /\ Called(f, I64(lo, hi), CVM_I64_ZERO, CVM_I64_ZERO)
        /\ Returns(IF f = "f_from_u64" THEN F(fmt)!__cvm_f_from_u64(I64(lo, hi))
                   ELSE F(fmt)!__cvm_f_from_i64(I64(lo, hi)))
  BY DEF CallFrom64
<1>2. PICK e \in Formats : e = fmt OBVIOUS
<1>3. PICK x \in Pairs : x = I64(lo, hi)
  <2>1. lo \in Nat /\ lo < WordMod /\ hi \in Nat /\ hi < WordMod BY WordFacts DEF Half
  <2> QED BY <2>1, IsPair
<1>4. PICK d : d = IF f = "f_from_u64" THEN F(e)!__cvm_f_from_u64(x)
                   ELSE F(e)!__cvm_f_from_i64(x)
  OBVIOUS
<1>5. fmt' = e /\ fn' = f /\ a' = x /\ ret' = d BY <1>1, <1>2, <1>3, <1>4 DEF Called, Returns
<1>6. F(e)!Bias >= 2 * Bits BY <1>1, <1>2 DEF Supports, From64
<1>7. Converts(e, f, x, d) BY <1>4, <1>6, UnsignedWide, SignedWide DEF Converts, From64
<1> QED BY <1>5, <1>7, ConversionReturned

LEMMA CutReturned ==
  ASSUME fmt \in Formats, CallToWord PROVE ConversionsExact'
<1>1. PICK f \in ToWord, x \in Floats(fmt) :
        /\ Supports(fmt, f)
        /\ Called(f, x, CVM_I64_ZERO, CVM_I64_ZERO)
        /\ Returns(Converted(f, x))
  BY DEF CallToWord
<1>2. PICK e \in Formats : e = fmt OBVIOUS
<1>3. x \in Pairs BY OperandsAssumption
<1>4. fmt' = e /\ fn' = f /\ a' = x /\ ret' = Converted(f, x)
  BY <1>1, <1>2 DEF Called, Returns
<1>5. CASE f = "f_to_i32"
  <2>1. F(e)!Bias >= Bits BY <1>1, <1>2, <1>5 DEF Supports, From64
  <2>2. Converted(f, x).lo = F(e)!cvm_d_to_i32(x) BY <1>2, <1>5 DEF Converted, I64
  <2>3. Converts(e, f, x, Converted(f, x))
    BY <1>3, <1>5, <2>1, <2>2, ToSignedIs DEF Converts
  <2> QED BY <1>4, <2>3, ConversionReturned
<1>6. CASE f = "f_to_u32"
  <2>1. F(e)!Bias >= Bits BY <1>1, <1>2, <1>6 DEF Supports, From64
  <2>2. Converted(f, x).lo = F(e)!cvm_d_to_u32(x) BY <1>2, <1>6 DEF Converted, I64
  <2>3. Converts(e, f, x, Converted(f, x))
    BY <1>3, <1>6, <2>1, <2>2, ToUnsignedIs DEF Converts
  <2> QED BY <1>4, <2>3, ConversionReturned
<1>7. CASE f = "f_to_f32"
  <2>1. F(e)!F32ExpBits >= 2 BY <1>1, <1>2, <1>7 DEF Supports, From64
  <2>2. Converted(f, x).lo = F(e)!cvm_d_to_f32(x) BY <1>2, <1>7 DEF Converted, I64
  <2>3. Converts(e, f, x, Converted(f, x))
    BY <1>3, <1>7, <2>1, <2>2, NarrowedIs DEF Converts
  <2> QED BY <1>4, <2>3, ConversionReturned
<1> QED BY <1>5, <1>6, <1>7 DEF ToWord

LEMMA ConversionReturns ==
  ASSUME SoftInv, Next
  PROVE  \/ CallFromWord \/ CallFrom64 \/ CallToWord
         \/ at' # "returned" \/ fn' \notin ConversionFns
<1>a. Dividing /\ FloatLoops BY DEF SoftInv
<1>b. ConversionFns = {"f_from_u64", "f_from_i64", "f_from_i32", "f_from_u32", "f_from_f32",
                       "f_to_i32", "f_to_u32", "f_to_f32"}
  BY DEF ConversionFns, From64, FromWord, ToWord
<1>1. CASE Resume BY <1>1 DEF Resume
<1>2. CASE CallInt BY <1>b, <1>2 DEF CallInt, Called, IntFns
<1>3. CASE CallFunnel BY <1>b, <1>3 DEF CallFunnel, Called, FunnelFns
<1>4. CASE CallFixed BY <1>b, <1>4 DEF CallFixed, Called
<1>5. CASE CallDiv \/ DivIteration
  <2>1. at' = "udivmod64" BY <1>5 DEF CallDiv, DivIteration, Enters
  <2> QED BY <2>1
<1>6. CASE DivReturn BY <1>a, <1>b, <1>6 DEF DivReturn, Dividing, call, DivFns
<1>7. CASE CallFloat BY <1>b, <1>7 DEF CallFloat, Called, FloatFns
<1>8. CASE CallFDiv \/ FDivIteration \/ FDivReturn
  <2>1. fn' = "fdiv"
    BY <1>8, <1>a DEF CallFDiv, FDivIteration, FDivReturn, FloatLoops, Called, call
  <2> QED BY <1>b, <2>1
<1>9. CASE CallSqrt \/ SqrtIteration \/ SqrtReturn
  <2>1. fn' = "fsqrt"
    BY <1>9, <1>a DEF CallSqrt, SqrtIteration, SqrtReturn, FloatLoops, Called, call
  <2> QED BY <1>b, <2>1
<1> QED BY <1>1, <1>2, <1>3, <1>4, <1>5, <1>6, <1>7, <1>8, <1>9 DEF Next

LEMMA NoConversion ==
  ASSUME at # "returned" \/ fn \notin ConversionFns PROVE ConversionsExact
BY DEF ConversionsExact, Returned, ReturnedOneOf, ConversionFns, From64, FromWord, ToWord

LEMMA ConversionStep ==
  ConversionsExact /\ SoftInv /\ LoopsInv /\ [Next]_vars => ConversionsExact'
<1> SUFFICES ASSUME ConversionsExact, SoftInv, LoopsInv, [Next]_vars PROVE ConversionsExact'
  OBVIOUS
<1>1. fmt \in Formats BY DEF LoopsInv
<1>2. CASE CallFromWord BY <1>1, <1>2, WordReturned
<1>3. CASE CallFrom64 BY <1>1, <1>3, WideReturned
<1>4. CASE CallToWord BY <1>1, <1>4, CutReturned
<1>5. CASE at' # "returned" \/ fn' \notin ConversionFns
  BY <1>5 DEF ConversionsExact, Returned, ReturnedOneOf, ConversionFns, From64, FromWord, ToWord
<1>6. CASE UNCHANGED vars
  <2>1. at' = at /\ fn' = fn /\ a' = a /\ ret' = ret /\ fmt' = fmt BY <1>6 DEF vars
  <2>2. /\ Exp(a)' = Exp(a) /\ Exp(ret)' = Exp(ret) /\ Sign(a)' = Sign(a) /\ P' = P
        /\ Sign(ret)' = Sign(ret) /\ Sig(a)' = Sig(a) /\ Sig(ret)' = Sig(ret)
        /\ NaN(a)' = NaN(a) /\ Normal(a)' = Normal(a) /\ Normal(ret)' = Normal(ret)
        /\ Truncated(a)' = Truncated(a) /\ Truncated(ret)' = Truncated(ret)
    BY <2>1 DEF Exp, Sign, Sig, NaN, P, Zero, Normal, Truncated
  <2>3. ASSUME NEW s, NEW k, NEW sig
        PROVE  IsNumber(ret, s, k, sig)' = IsNumber(ret, s, k, sig)
    BY <2>1 DEF IsNumber, Sign, Inf, Zero, Exp, Sig
  <2>4. ASSUME NEW v
        PROVE  F32Exp(v)' = F32Exp(v) /\ F32Sig(v)' = F32Sig(v) /\ F32Normal(v)' = F32Normal(v)
    BY <2>1 DEF F32Exp, F32Sig, F32Normal
  <2>5. ASSUME NEW v, NEW s, NEW k, NEW sig
        PROVE  IsFloat(v, s, k, sig)' = IsFloat(v, s, k, sig)
    BY <2>1, <2>4 DEF IsFloat
  <2> QED BY <2>1, <2>2, <2>3, <2>4, <2>5 DEF ConversionsExact, Returned, ReturnedOneOf
<1> QED BY <1>2, <1>3, <1>4, <1>5, <1>6, ConversionReturns

(***************************************************************************)
(* The conversions of cvm_float64_rt.c, for every format and all operands: *)
(* to an integer they truncate and saturate at the limits of both signs; a  *)
(* word or a float is converted to a double exactly, a 64-bit integer and a *)
(* double to a float by truncation, although the 64-bit one is a product     *)
(* and a sum of doubles.                                                   *)
(***************************************************************************)
THEOREM ConversionsAreExact == Spec => []ConversionsExact
<1>1. Init => ConversionsExact /\ SoftInv /\ LoopsInv
  <2>1. Init => ConversionsExact
    <3>1. ASSUME Init PROVE at # "returned" BY <3>1 DEF Init
    <3> QED BY <3>1, NoConversion
  <2> QED BY <2>1, SoftStart, LoopsStart
<1>2. (ConversionsExact /\ SoftInv /\ LoopsInv) /\ [Next]_vars
      => (ConversionsExact /\ SoftInv /\ LoopsInv)'
  BY ConversionStep, SoftStep, LoopsStep
<1> QED BY <1>1, <1>2, PTL DEF Spec
=============================================================================
