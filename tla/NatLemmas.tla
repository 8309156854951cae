----------------------------- MODULE NatLemmas -----------------------------
(***************************************************************************)
(* Induction on the natural numbers for sets, from the well-foundedness of *)
(* strict inclusion on finite sets, and what follows from it for functions *)
(* defined by iteration.  A set takes the place of the predicate of an     *)
(* induction: the library's own theorems take an operator as parameter.    *)
(***************************************************************************)
EXTENDS Integers, FiniteSetTheorems, FunctionTheorems, WellFoundedInduction, TLAPS

(* A set of natural numbers that is not empty has a least element.         *)
LEMMA Least ==
  ASSUME NEW T, T \subseteq Nat, T # {}
  PROVE  \E x \in T : \A y \in T : x <= y
<1> DEFINE I(n) == 0 .. n
           TT == {I(n) : n \in T}
<1>1. TT \subseteq FiniteSubsetsOf(Nat) /\ TT # {}
  <2>1. ASSUME NEW n \in T PROVE I(n) \in FiniteSubsetsOf(Nat)
    <3>1. n \in Int /\ 0 \in Int OBVIOUS
    <3>2. IsFiniteSet(0 .. n) BY <3>1, FS_Interval
    <3>3. I(n) \in SUBSET Nat OBVIOUS
    <3> QED BY <3>2, <3>3 DEF FiniteSubsetsOf
  <2> QED BY <2>1
<1>2. PICK X \in TT : \A Y \in TT : ~(<<Y, X>> \in StrictSubsetOrdering(Nat))
  <2> HIDE DEF TT
  <2> QED BY <1>1, FS_StrictSubsetOrderingWellFounded, WFMin, Zenon
<1>3. PICK x \in T : X = I(x)
  BY <1>2
<1>4. ASSUME NEW y \in T, y < x PROVE FALSE
  <2>1. I(y) \subseteq I(x) /\ I(y) # I(x) /\ I(y) \in SUBSET Nat /\ I(x) \in SUBSET Nat
    <3>1. x \in I(x) /\ x \notin I(y) BY <1>4
    <3> QED BY <3>1, <1>4
  <2>2. <<I(y), I(x)>> \in StrictSubsetOrdering(Nat)
    BY <2>1 DEF StrictSubsetOrdering
  <2> QED BY <2>2, <1>2, <1>3
<1> QED BY <1>4

(* Induction.                                                              *)
LEMMA NatInd ==
  ASSUME NEW S, 0 \in S, \A n \in Nat : n \in S => n + 1 \in S
  PROVE  Nat \subseteq S
<1> SUFFICES ASSUME Nat \ S # {} PROVE FALSE OBVIOUS
<1>1. PICK x \in Nat \ S : \A y \in Nat \ S : x <= y
  <2> DEFINE D == Nat \ S
  <2>1. D \subseteq Nat /\ D # {} OBVIOUS
  <2> HIDE DEF D
  <2>2. \E x \in D : \A y \in D : x <= y BY <2>1, Least, Zenon
  <2> QED BY <2>2 DEF D
<1>2. x - 1 \in Nat /\ x - 1 \in S
  BY <1>1
<1> QED BY <1>1, <1>2

(* Induction up to a bound.                                                *)
LEMMA UpTo ==
  ASSUME NEW N \in Nat, NEW S, 0 \in S, \A n \in 1 .. N : n - 1 \in S => n \in S
  PROVE  \A n \in 0 .. N : n \in S
<1> DEFINE T == {n \in Nat : n <= N => n \in S}
<1>1. 0 \in T OBVIOUS
<1>2. \A n \in Nat : n \in T => n + 1 \in T
  <2> SUFFICES ASSUME NEW n \in Nat, n \in T, n + 1 <= N PROVE n + 1 \in S
    OBVIOUS
  <2>1. n \in S /\ n + 1 \in 1 .. N /\ (n + 1) - 1 = n OBVIOUS
  <2> QED BY <2>1
<1>3. Nat \subseteq T
  <2> HIDE DEF T
  <2> QED BY <1>1, <1>2, NatInd, Zenon
<1> QED BY <1>3

(* f is the first N iterates of g on D, from x on.                         *)
Iterated(f, D, x, g, N) ==
  /\ f \in [0 .. N -> D] /\ f[0] = x
  /\ \A i \in 1 .. N : f[i] = g[f[i - 1]]

(* A function on a set can be iterated any number of times.                *)
LEMMA Iterates ==
  ASSUME NEW D, NEW x \in D, NEW g \in [D -> D], NEW N \in Nat
  PROVE  \E f : Iterated(f, D, x, g, N)
<1> DEFINE Good(f, n) == f[0] = x /\ \A i \in 1 .. n : f[i] = g[f[i - 1]]
           S == {n \in Nat : \E f \in [0 .. n -> D] : Good(f, n)}
<1>1. 0 \in S
  <2>1. [i \in 0 .. 0 |-> x] \in [0 .. 0 -> D] /\ Good([i \in 0 .. 0 |-> x], 0)
    OBVIOUS
  <2> QED BY <2>1
<1>2. \A n \in Nat : n \in S => n + 1 \in S
  <2> SUFFICES ASSUME NEW n \in Nat, n \in S PROVE n + 1 \in S OBVIOUS
  <2>1. PICK f \in [0 .. n -> D] : Good(f, n) OBVIOUS
  <2> DEFINE e == [i \in 0 .. n + 1 |-> IF i <= n THEN f[i] ELSE g[f[n]]]
  <2>2. f[n] \in D /\ g[f[n]] \in D OBVIOUS
  <2>3. e \in [0 .. n + 1 -> D] BY <2>2
  <2>4. e[0] = x BY <2>1
  <2>5. ASSUME NEW i \in 1 .. n + 1 PROVE e[i] = g[e[i - 1]]
    <3>1. CASE i <= n
      <4>1. i \in 1 .. n /\ i - 1 \in 0 .. n BY <3>1
      <4> QED BY <4>1, <2>1
    <3>2. CASE i = n + 1
      <4>1. i - 1 = n /\ n \in 0 .. n + 1 /\ ~(i <= n) /\ i \in 0 .. n + 1 BY <3>2
      <4> QED BY <4>1
    <3> QED BY <3>1, <3>2
  <2> HIDE DEF e
  <2>6. Good(e, n + 1) BY <2>4, <2>5
  <2> QED BY <2>3, <2>6
<1>3. N \in S
  <2> HIDE DEF S
  <2> QED BY <1>1, <1>2, NatInd
<1> QED BY <1>3 DEF Iterated

(* The same with a step that depends on the number: a recursion over the   *)
(* numbers up to N has a solution.                                         *)
Recursive(f, D, x, g, N) ==
  /\ f \in [0 .. N -> D] /\ f[0] = x
  /\ \A i \in 1 .. N : f[i] = g[<<i, f[i - 1]>>]

LEMMA Recursion ==
  ASSUME NEW D, NEW x \in D, NEW g \in [Nat \X D -> D], NEW N \in Nat
  PROVE  \E f : Recursive(f, D, x, g, N)
<1> DEFINE Good(f, n) == f[0] = x /\ \A i \in 1 .. n : f[i] = g[<<i, f[i - 1]>>]
           S == {n \in Nat : \E f \in [0 .. n -> D] : Good(f, n)}
<1>1. 0 \in S
  <2>1. [i \in 0 .. 0 |-> x] \in [0 .. 0 -> D] /\ Good([i \in 0 .. 0 |-> x], 0)
    OBVIOUS
  <2> QED BY <2>1
<1>2. \A n \in Nat : n \in S => n + 1 \in S
  <2> SUFFICES ASSUME NEW n \in Nat, n \in S PROVE n + 1 \in S OBVIOUS
  <2>1. PICK f \in [0 .. n -> D] : Good(f, n) OBVIOUS
  <2> DEFINE e == [i \in 0 .. n + 1 |-> IF i <= n THEN f[i] ELSE g[<<i, f[n]>>]]
  <2>2. f[n] \in D /\ \A i \in Nat : g[<<i, f[n]>>] \in D OBVIOUS
  <2>3. e \in [0 .. n + 1 -> D]
    <3> SUFFICES ASSUME NEW i \in 0 .. n + 1 PROVE e[i] \in D OBVIOUS
    <3>1. CASE i <= n
      <4>1. i \in 0 .. n BY <3>1
      <4> QED BY <3>1, <4>1
    <3>2. CASE ~(i <= n) BY <3>2, <2>2
    <3> QED BY <3>1, <3>2
  <2>4. e[0] = x BY <2>1
  <2>5. ASSUME NEW i \in 1 .. n + 1 PROVE e[i] = g[<<i, e[i - 1]>>]
    <3>1. CASE i <= n
      <4>1. i \in 1 .. n /\ i - 1 \in 0 .. n BY <3>1
      <4> QED BY <4>1, <2>1
    <3>2. CASE i = n + 1
      <4>1. i - 1 = n /\ n \in 0 .. n + 1 /\ ~(i <= n) /\ i \in 0 .. n + 1 BY <3>2
      <4> QED BY <4>1
    <3> QED BY <3>1, <3>2
  <2> HIDE DEF e
  <2>6. Good(e, n + 1) BY <2>4, <2>5
  <2> QED BY <2>3, <2>6
<1>3. N \in S
  <2> HIDE DEF S
  <2> QED BY <1>1, <1>2, NatInd
<1> QED BY <1>3 DEF Recursive

-----------------------------------------------------------------------------
LEMMA PowerStep ==
  ASSUME NEW n \in Nat
  PROVE  2 ^ n \in Nat /\ 2 ^ (n + 1) = 2 ^ n + 2 ^ n
<1> DEFINE S == SUBSET (1 .. n)
           T == SUBSET (1 .. n + 1)
           U == T \ S
           f == [A \in S |-> A \cup {n + 1}]
<1>1. /\ IsFiniteSet(S) /\ Cardinality(S) = 2 ^ n
      /\ IsFiniteSet(T) /\ Cardinality(T) = 2 ^ (n + 1)
  <2>1. \A m \in Nat : IsFiniteSet(1 .. m) /\ Cardinality(1 .. m) = m BY FS_Interval
  <2>2. n \in Nat /\ n + 1 \in Nat OBVIOUS
  <2> HIDE DEF S, T
  <2>3. IsFiniteSet(SUBSET (1 .. n)) /\ Cardinality(SUBSET (1 .. n)) = 2 ^ n
    <3>1. IsFiniteSet(1 .. n) /\ Cardinality(1 .. n) = n BY <2>1
    <3>2. Cardinality(SUBSET (1 .. n)) = 2 ^ Cardinality(1 .. n) /\ IsFiniteSet(SUBSET (1 .. n))
      BY <3>1, FS_SUBSET, Zenon
    <3> QED BY <3>1, <3>2, Zenon
  <2>4. IsFiniteSet(SUBSET (1 .. n + 1)) /\ Cardinality(SUBSET (1 .. n + 1)) = 2 ^ (n + 1)
    <3>1. IsFiniteSet(1 .. n + 1) /\ Cardinality(1 .. n + 1) = n + 1 BY <2>1, <2>2
    <3>2. Cardinality(SUBSET (1 .. n + 1)) = 2 ^ Cardinality(1 .. n + 1) /\ IsFiniteSet(SUBSET (1 .. n + 1))
      BY <3>1, FS_SUBSET, Zenon
    <3> QED BY <3>1, <3>2, Zenon
  <2> QED BY <2>3, <2>4 DEF S, T
<1>2. S \cup U = T /\ S \cap U = {}
  <2>1. 1 .. n \subseteq 1 .. n + 1 OBVIOUS
  <2> QED BY <2>1
<1>3. f \in Bijection(S, U)
  <2>1. n + 1 \notin 1 .. n /\ n + 1 \in 1 .. n + 1 OBVIOUS
  <2>2. \A k \in 1 .. n + 1 : k \in 1 .. n \/ k = n + 1 OBVIOUS
  <2>3. \A k \in 1 .. n : k \in 1 .. n + 1 OBVIOUS
  <2>4. f \in [S -> U]
    <3> SUFFICES ASSUME NEW A \in S PROVE A \cup {n + 1} \in U OBVIOUS
    <3> QED BY <2>1, <2>3
  <2>5. \A A, B \in S : f[A] = f[B] => A = B
    <3> SUFFICES ASSUME NEW A \in S, NEW B \in S, A \cup {n + 1} = B \cup {n + 1} PROVE A = B
      OBVIOUS
    <3> QED BY <2>1
  <2>6. \A B \in U : \E A \in S : f[A] = B
    <3> SUFFICES ASSUME NEW B \in U PROVE \E A \in S : f[A] = B OBVIOUS
    <3>1. B \ {n + 1} \in S BY <2>2
    <3>2. n + 1 \in B BY <2>2
    <3>3. (B \ {n + 1}) \cup {n + 1} = B BY <3>2
    <3> QED BY <3>1, <3>3
  <2> HIDE DEF f, S, U
  <2> QED BY <2>4, <2>5, <2>6, Fun_IsBij
<1>4. IsFiniteSet(U) /\ Cardinality(U) = Cardinality(S)
  <2> HIDE DEF S, U, f
  <2>1. ExistsBijection(S, U) BY <1>3 DEF ExistsBijection
  <2> QED BY <1>1, <2>1, FS_Bijection
<1>5. Cardinality(T) = Cardinality(S) + Cardinality(U) - Cardinality({})
  <2> HIDE DEF S, U, T
  <2> QED BY <1>1, <1>2, <1>4, FS_Union
<1>6. Cardinality(S) \in Nat
  <2> HIDE DEF S
  <2> QED BY <1>1, FS_CardinalityType
<1> HIDE DEF S, T, U
<1>7. Cardinality({}) = 0 BY FS_EmptySet
<1>8. PICK c \in Nat : c = Cardinality(S) BY <1>6
<1> QED BY <1>1, <1>4, <1>5, <1>7, <1>8


LEMMA Powers == 2 ^ 0 = 1 /\ \A n \in Nat : 2 ^ n \in Nat /\ 2 ^ n > 0 /\ 2 ^ (n + 1) = 2 * 2 ^ n
<1>1. \A n \in Nat : 2 ^ n \in Nat /\ 2 ^ (n + 1) = 2 * 2 ^ n
  <2> SUFFICES ASSUME NEW n \in Nat PROVE 2 ^ n \in Nat /\ 2 ^ (n + 1) = 2 * 2 ^ n OBVIOUS
  <2>1. PICK p \in Nat : p = 2 ^ n BY PowerStep
  <2> QED BY <2>1, PowerStep
<1>2. 2 ^ 0 = 1 OBVIOUS
<1> DEFINE S == {n \in Nat : 2 ^ n > 0}
<1>3. 0 \in S BY <1>2
<1>4. \A n \in Nat : n \in S => n + 1 \in S
  <2> SUFFICES ASSUME NEW n \in Nat, 2 ^ n > 0 PROVE 2 ^ (n + 1) > 0 OBVIOUS
  <2>1. PICK p \in Nat : p = 2 ^ n BY <1>1
  <2> QED BY <2>1, <1>1
<1>5. Nat \subseteq S
  <2> HIDE DEF S
  <2> QED BY <1>3, <1>4, NatInd
<1> QED BY <1>1, <1>2, <1>5

LEMMA PowerSum ==
  ASSUME NEW m \in Nat, NEW n \in Nat
  PROVE  2 ^ (m + n) = 2 ^ m * 2 ^ n
<1> DEFINE S == {k \in Nat : 2 ^ (m + k) = 2 ^ m * 2 ^ k}
<1>1. 0 \in S
  <2>1. PICK p \in Nat : p = 2 ^ m BY Powers
  <2>2. m + 0 = m OBVIOUS
  <2> QED BY <2>1, <2>2, Powers
<1>2. \A k \in Nat : k \in S => k + 1 \in S
  <2> SUFFICES ASSUME NEW k \in Nat, 2 ^ (m + k) = 2 ^ m * 2 ^ k
               PROVE  2 ^ (m + (k + 1)) = 2 ^ m * 2 ^ (k + 1)
    OBVIOUS
  <2>1. PICK p \in Nat, r \in Nat : p = 2 ^ m /\ r = 2 ^ k BY Powers
  <2>2. m + k \in Nat /\ m + (k + 1) = (m + k) + 1 OBVIOUS
  <2>3. 2 ^ ((m + k) + 1) = 2 * 2 ^ (m + k) BY <2>2, Powers
  <2>4. 2 ^ (k + 1) = 2 * r BY <2>1, Powers
  <2>5. 2 ^ (m + (k + 1)) = 2 * (p * r) BY <2>1, <2>2, <2>3
  <2>6. 2 * (p * r) = p * (2 * r) OBVIOUS
  <2> QED BY <2>1, <2>4, <2>5, <2>6
<1>3. n \in S
  <2> HIDE DEF S
  <2> QED BY <1>1, <1>2, NatInd
<1> QED BY <1>3

-----------------------------------------------------------------------------
(* Division with a remainder.                                              *)
Division(a, b, q, r) ==
  /\ a \in Int /\ b \in Nat /\ b > 0 /\ q \in Int /\ r \in Nat /\ r < b
  /\ a = b * q + r

LEMMA Divided ==
  ASSUME NEW a \in Int, NEW b \in Nat, b > 0
  PROVE  \E q \in Int, r \in Nat : Division(a, b, q, r)
<1>1. /\ a \div b \in Int /\ a % b \in Nat /\ a % b < b
      /\ a = b * (a \div b) + (a % b)
  OBVIOUS
<1> QED BY <1>1 DEF Division

(* Quotient and remainder are the only ones.                               *)
LEMMA DivisionIs ==
  ASSUME NEW a, NEW b, NEW q, NEW r, Division(a, b, q, r)
  PROVE  a \div b = q /\ a % b = r
<1>0. /\ a \in Int /\ b \in Nat /\ b > 0 /\ q \in Int /\ r \in Nat /\ r < b
      /\ a = b * q + r
  BY DEF Division
<1>1. PICK p \in Int, s \in Nat : p = a \div b /\ s = a % b /\ s < b /\ a = b * p + s
  BY <1>0
<1>2. b * (p - q) = r - s /\ r - s < b /\ s - r < b BY <1>0, <1>1
<1>3. ~(p - q >= 1)
  <2>1. ASSUME NEW d \in Int, d >= 1 PROVE b * d >= b BY <1>0, <2>1
  <2> QED BY <1>0, <1>1, <1>2, <2>1
<1>4. ~(p - q <= -1)
  <2>1. ASSUME NEW d \in Int, d <= -1 PROVE b * d <= -b BY <1>0, <2>1
  <2> QED BY <1>0, <1>1, <1>2, <2>1
<1>5. p = q BY <1>0, <1>1, <1>3, <1>4
<1> QED BY <1>0, <1>1, <1>5

(* A multiple of the divisor is added to the quotient alone.               *)
LEMMA DivisionAdds ==
  ASSUME NEW a, NEW b, NEW q, NEW r, Division(a, b, q, r), NEW k \in Int
  PROVE  Division(a + b * k, b, q + k, r)
<1>1. b * (q + k) = b * q + b * k BY DEF Division
<1> QED BY <1>1 DEF Division

LEMMA ModAdds ==
  ASSUME NEW a \in Int, NEW b \in Nat, b > 0, NEW k \in Int
  PROVE  (a + b * k) % b = a % b
<1>1. PICK q \in Int, r \in Nat : Division(a, b, q, r) BY Divided
<1>2. Division(a + b * k, b, q + k, r) BY <1>1, DivisionAdds
<1> QED BY <1>1, <1>2, DivisionIs

(* Dividing twice divides by the product.                                  *)
LEMMA DivisionTwice ==
  ASSUME NEW a, NEW b, NEW p, NEW s, Division(a, b, p, s),
         NEW c, NEW q, NEW t, Division(p, c, q, t)
  PROVE  Division(a, b * c, q, b * t + s)
<1>1. /\ b \in Nat /\ b > 0 /\ p \in Int /\ s \in Nat /\ s < b /\ a = b * p + s
      /\ c \in Nat /\ c > 0 /\ q \in Int /\ t \in Nat /\ t < c /\ p = c * q + t
  BY DEF Division
<1>2. PICK m \in Nat : m = b * c BY <1>1
<1>3. m > 0 BY <1>1, <1>2
<1>4. a = m * q + (b * t + s)
  <2>1. a = b * (c * q + t) + s BY <1>1
  <2>2. b * (c * q + t) = (b * c) * q + b * t BY <1>1
  <2> QED BY <1>1, <1>2, <2>1, <2>2
<1>5. b * t + s \in Nat /\ b * t + s < m
  <2>1. t <= c - 1 BY <1>1
  <2>2. b * t <= b * (c - 1) BY <1>1, <2>1
  <2>3. b * (c - 1) = m - b BY <1>1, <1>2
  <2> QED BY <1>1, <2>2, <2>3
<1>6. a \in Int BY DEF Division
<1> QED BY <1>1, <1>2, <1>3, <1>4, <1>5, <1>6 DEF Division

(* Dividend and divisor may be multiplied by the same number.              *)
LEMMA DivisionScales ==
  ASSUME NEW a, NEW b, NEW q, NEW r, Division(a, b, q, r), NEW p \in Nat, p > 0
  PROVE  Division(p * a, p * b, q, p * r)
<1>1. /\ a \in Int /\ b \in Nat /\ b > 0 /\ q \in Int /\ r \in Nat /\ r < b /\ a = b * q + r
  BY DEF Division
<1>2. p * a \in Int /\ p * b \in Nat /\ p * r \in Nat BY <1>1
<1>3. p * b > 0 BY <1>1
<1>4. p * r < p * b BY <1>1
<1>5. p * (b * q + r) = (p * b) * q + p * r BY <1>1
<1> QED BY <1>1, <1>2, <1>3, <1>4, <1>5 DEF Division
=============================================================================
