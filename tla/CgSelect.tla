------------------------------ MODULE CgSelect ------------------------------
(***************************************************************************)
(* Instruction selection: what the translator emits for one LLVM           *)
(* instruction on integers (src/tools/translator/translator.c), run by the *)
(* arithmetic of the VM (CvmAlu).                                          *)
(*                                                                         *)
(* LLVM computes with integers of any width, the VM with words.  A value   *)
(* narrower than a word lies in a register whose bits above its width mean *)
(* nothing, a boolean is the word 0 or 1, a value of 33 to 64 bits is two  *)
(* words with its sign extended over them, one of 65 bits three.  Every    *)
(* instruction has to repair what it reads where the bits above the width  *)
(* would matter, and to leave its result in that form.                     *)
(*                                                                         *)
(* val is the value the last instruction defined: its width w, the number  *)
(* n it stands for in LLVM, and the words r the emitted code left.  Each   *)
(* action applies one instruction to val and to operands of any form such  *)
(* values can have (Held), with the emitted sequence for r and the meaning *)
(* LLVM gives the instruction for n.  Instructions whose result LLVM       *)
(* leaves undefined (a division by zero, a shift by the width) are not     *)
(* taken.  Divisions and variable shifts of two words are calls of the     *)
(* functions of CvmInt64; rounding to a float is left out.                 *)
(***************************************************************************)
EXTENDS CvmAlu, FiniteSetsExt, Sequences

CONSTANTS
  WideWords,   \* the words of two- and three-word operands
  SmallWords,  \* the words of the second operand of a narrow instruction
  Granted      \* instructions whose narrow operands are taken to have 0s on top

ASSUME SelectAssumption ==
  /\ WideWords \subseteq Word
  /\ SmallWords \subseteq Word
  /\ 0 \in WideWords /\ MINUS_1 \in WideWords

VARIABLE val
vars == val

I1 == 1
I16 == WordBits \div 2         \* the narrow widths, of 8 and 16 bits
I32 == WordBits
I48 == I32 + I16               \* the odd widths of two words, 33 .. 63
I64 == 2 * I32
I65 == 2 * I32 + 1             \* the one width of three words
F32 == 0                       \* a float, which the model keeps as its number

OneWord == {I1, I16, I32}
TwoWords == {I48, I64}
Wide(w) == w > I32
WordsOf(w) == CASE w = I65 -> 3 [] w \in TwoWords -> 2 [] OTHER -> 1

SignedN(w, n) == SignExtend(n, 2^w)
OfWidth(w, k) == k % 2^w

Joined(r) == r[1] + WordMod * (IF Len(r) > 1 THEN r[2] ELSE 0)
                  + WordMod^2 * (IF Len(r) > 2 THEN r[3] ELSE 0)
Canonical(w, n) ==
  LET k == SignedN(w, n) IN
  [i \in 1 .. WordsOf(w) |-> (k \div WordMod^(i - 1)) % WordMod]

(* The words r may stand for the number n in a value of width w.            *)
Stands(w, n, r) ==
  CASE w = F32 -> r = <<n>>
    [] w = I1  -> r = <<n>>
    [] Wide(w) -> r = Canonical(w, n)
    [] OTHER   -> r \in Seq(Word) /\ Len(r) = 1 /\ OfWidth(w, r[1]) = n

Value(w, n, r) == [w |-> w, n |-> n, r |-> r]
Held(w) ==
  IF w = I1 THEN {Value(w, n, <<n>>) : n \in {0, 1}}
  ELSE IF ~Wide(w) THEN {Value(w, OfWidth(w, x), <<x>>) : x \in SmallWords}
  ELSE {Value(w, OfWidth(w, Joined(r)), r) :
          r \in {s \in [1 .. WordsOf(w) -> WideWords] :
                   s = Canonical(w, OfWidth(w, Joined(s)))}}

(* A bound: a value of several words with other words than WideWords is not *)
(* computed with any further, only converted and compared with 0.           *)
InBound == Wide(val.w) => val \in Held(val.w)

(* Two operands, one of which is the value at hand.                         *)
Pairs ==
  IF InBound THEN UNION {{<<val, b>>, <<b, val>>} : b \in Held(val.w)} ELSE {}

Clean(v) == v.r = <<v.n>>
Allowed(instr, vs) == instr \in Granted => \A v \in vs : Clean(v)

Result(w, n, r) == val' = Value(w, n, r)

-----------------------------------------------------------------------------
(* Shorthands for the VM's instructions, and the sequences shared by many.  *)
Op(op, x, y) == AluValue(op, x, y)
OrOf(x, y) == Op("OR", x, y)
MaskOf(w) == 2^w - 1

(* Faulty, for comparison: a signed operand is masked like an unsigned one. *)
NormMasksAll(x, w, signed) == IF w >= I32 THEN x ELSE Op("AND", x, MaskOf(w))

cg_norm_reg_width(x, w, signed) ==
  IF w >= I32 THEN x
  ELSE IF signed THEN Op("SAR", Op("SHL", x, I32 - w), I32 - w)
  ELSE Op("AND", x, MaskOf(w))

(* Bits behind the sum are carried by an unsigned comparison.               *)
AddWords(a, b) ==
  LET lo == Op("ADD", a[1], b[1])
      carry == Op("CMP_LTU", lo, a[1])
  IN  <<lo, Op("ADD", Op("ADD", a[2], b[2]), carry)>>
SubWords(a, b) ==
  <<Op("SUB", a[1], b[1]),
    Op("SUB", Op("SUB", a[2], b[2]), Op("CMP_LTU", a[1], b[1]))>>
MulWords(a, b) ==
  <<Op("MUL", a[1], b[1]),
    Op("ADD", Op("ADD", Op("MULHU", a[1], b[1]), Op("MUL", a[1], b[2])),
       Op("MUL", a[2], b[1]))>>

-----------------------------------------------------------------------------
(* What LLVM means by the binary instructions.                              *)
BinaryMeaning(op, w, x, y) ==
  LET sx == SignedN(w, x)
      sy == SignedN(w, y) IN
  OfWidth(w,
    CASE op = "add"  -> x + y
      [] op = "sub"  -> x - y
      [] op = "mul"  -> sx * sy
      [] op = "and"  -> x & y
      [] op = "or"   -> x | y
      [] op = "xor"  -> x ^^ y
      [] op = "udiv" -> x \div y
      [] op = "urem" -> x % y
      [] op = "sdiv" -> TruncDiv(sx, sy)
      [] op = "srem" -> TruncMod(sx, sy)
      [] op = "shl"  -> x * 2^y
      [] op = "lshr" -> x \div 2^y
      [] op = "ashr" -> sx \div 2^y)

Logical == {"and", "or", "xor"}
Divisions == {"udiv", "urem", "sdiv", "srem"}
Shifts == {"shl", "lshr", "ashr"}
BinaryOps == {"add", "sub", "mul"} \cup Logical \cup Divisions \cup Shifts

Defined(op, w, x, y) ==
  CASE op \in Shifts           -> y < w
    [] op \in {"udiv", "urem"} -> y # 0
    [] op \in {"sdiv", "srem"} ->
         y # 0 /\ ~(SignedN(w, x) = -(2^(w - 1)) /\ SignedN(w, y) = -1)
    [] OTHER                   -> TRUE

OpcodeOf == [add |-> "ADD", sub |-> "SUB", mul |-> "MUL", and |-> "AND", or |-> "OR",
             xor |-> "XOR", udiv |-> "DIVU", urem |-> "MODU", sdiv |-> "DIV",
             srem |-> "MOD", shl |-> "SHL", lshr |-> "SHR", ashr |-> "SAR"]

NarrowBinary(op, w, x, y) ==
  LET signed == op \in {"ashr", "sdiv", "srem"}
      lhs == IF op \in Divisions \cup {"lshr", "ashr"}
             THEN cg_norm_reg_width(x, w, signed) ELSE x
      rhs == IF op \in Divisions THEN cg_norm_reg_width(y, w, signed) ELSE y
  IN  <<Op(OpcodeOf[op], lhs, rhs)>>

(* Shifts of two words, by a constant.                                      *)
ShlWords(a, k) ==
  CASE k = 0   -> a
    [] k < I32 -> <<Op("SHL", a[1], k), OrOf(Op("SHL", a[2], k), Op("SHR", a[1], I32 - k))>>
    [] k = I32 -> <<0, a[1]>>
    [] OTHER   -> <<0, Op("SHL", a[1], k - I32)>>
ShrWords(a, k, fill) ==
  LET top == IF fill = "SAR" THEN Op("SAR", a[2], I32 - 1) ELSE 0 IN
  CASE k = 0   -> a
    [] k < I32 -> <<OrOf(Op("SHR", a[1], k), Op("SHL", a[2], I32 - k)), Op(fill, a[2], k)>>
    [] k = I32 -> <<a[2], top>>
    [] OTHER   -> <<Op(fill, a[2], k - I32), top>>

WideBinary(op, a, b, k) ==
  CASE op = "add"      -> AddWords(a, b)
    [] op = "sub"      -> SubWords(a, b)
    [] op = "mul"      -> MulWords(a, b)
    [] op \in Logical  -> <<Op(OpcodeOf[op], a[1], b[1]), Op(OpcodeOf[op], a[2], b[2])>>
    [] op = "shl"      -> ShlWords(a, k)
    [] op = "lshr"     -> ShrWords(a, k, "SHR")
    [] op = "ashr"     -> ShrWords(a, k, "SAR")

(* A boolean takes part in logic only: clang folds the rest.                *)
Binary ==
  \E op \in BinaryOps, p \in Pairs :
    LET w == p[1].w IN
    /\ w \in OneWord /\ (w = I1 => op \in Logical)
    /\ Defined(op, w, p[1].n, p[2].n)
    /\ Result(w, BinaryMeaning(op, w, p[1].n, p[2].n),
              NarrowBinary(op, w, p[1].r[1], p[2].r[1]))

Binary64 ==
  /\ val.w = I64 /\ InBound
  /\ \/ \E op \in BinaryOps \ (Divisions \cup Shifts), p \in Pairs :
          Result(I64, BinaryMeaning(op, I64, p[1].n, p[2].n),
                 WideBinary(op, p[1].r, p[2].r, 0))
     \/ \E op \in Shifts, k \in 0 .. I64 - 1 :
          Result(I64, BinaryMeaning(op, I64, val.n, k), WideBinary(op, val.r, val.r, k))

-----------------------------------------------------------------------------
(* Comparisons.                                                             *)
Predicates == {"eq", "ne", "slt", "sle", "sgt", "sge", "ult", "ule", "ugt", "uge"}
SignedPredicates == {"slt", "sle", "sgt", "sge"}
Swapped == {"sgt", "sge", "ugt", "uge"}
OrEqual == {"sle", "sge", "ule", "uge"}

Holds(p, w, x, y) ==
  LET a == IF p \in SignedPredicates THEN SignedN(w, x) ELSE x
      b == IF p \in SignedPredicates THEN SignedN(w, y) ELSE y IN
  CASE p = "eq" -> a = b
    [] p = "ne" -> a # b
    [] p \in {"slt", "ult"} -> a < b
    [] p \in {"sle", "ule"} -> a <= b
    [] p \in {"sgt", "ugt"} -> a > b
    [] p \in {"sge", "uge"} -> a >= b

icmp_to_op(p) ==
  CASE p = "eq" -> "CMP_EQ"
    [] p = "ne" -> "CMP_NE"
    [] p \in {"slt", "sgt"} -> "CMP_LT"
    [] p \in {"sle", "sge"} -> "CMP_LE"
    [] p \in {"ult", "ugt"} -> "CMP_LTU"
    [] p \in {"ule", "uge"} -> "CMP_LEU"

NarrowCompare(p, w, x, y) ==
  LET a == cg_norm_reg_width(x, w, p \in SignedPredicates)
      b == cg_norm_reg_width(y, w, p \in SignedPredicates)
  IN  IF p \in Swapped THEN Op(icmp_to_op(p), b, a) ELSE Op(icmp_to_op(p), a, b)

WideCompare(p, x, y) ==
  LET a == IF p \in Swapped THEN y ELSE x
      b == IF p \in Swapped THEN x ELSE y
      high == IF p \in SignedPredicates THEN "CMP_LT" ELSE "CMP_LTU"
      low == IF p \in OrEqual THEN "CMP_LEU" ELSE "CMP_LTU" IN
  CASE p = "eq" -> Op("AND", Op("CMP_EQ", a[1], b[1]), Op("CMP_EQ", a[2], b[2]))
    [] p = "ne" -> OrOf(Op("CMP_NE", a[1], b[1]), Op("CMP_NE", a[2], b[2]))
    [] OTHER    -> OrOf(Op(high, a[2], b[2]),
                      Op("AND", Op("CMP_EQ", a[2], b[2]), Op(low, a[1], b[1])))

(* A value of 65 bits is compared with 0 only.                              *)
CompareZero(p, r) ==
  CASE p = "slt" -> Op("CMP_NE", r[3], 0)
    [] p = "sge" -> Op("CMP_EQ", r[3], 0)
    [] p = "eq"  -> Op("AND", Op("AND", Op("CMP_EQ", r[1], 0), Op("CMP_EQ", r[2], 0)),
                       Op("CMP_EQ", r[3], 0))
    [] p = "ne"  -> OrOf(OrOf(Op("CMP_NE", r[1], 0), Op("CMP_NE", r[2], 0)),
                       Op("CMP_NE", r[3], 0))

ICmp ==
  \E p \in Predicates :
    \/ \E q \in Pairs :
         /\ val.w \in OneWord \cup TwoWords
         /\ Result(I1, Flag(Holds(p, val.w, q[1].n, q[2].n)),
                   <<IF Wide(val.w) THEN WideCompare(p, q[1].r, q[2].r)
                     ELSE NarrowCompare(p, val.w, q[1].r[1], q[2].r[1])>>)
    \/ /\ val.w = I65 /\ p \in {"slt", "sge", "eq", "ne"}
       /\ Result(I1, Flag(Holds(p, I65, val.n, 0)), <<CompareZero(p, val.r)>>)

-----------------------------------------------------------------------------
(* Conversions between widths.                                              *)
SExt ==
  /\ val.w \in OneWord
  /\ \E w \in {I16, I32, I48, I64, I65} :
       LET x == cg_norm_reg_width(val.r[1], val.w, TRUE)
           sign == Op("SAR", x, I32 - 1)
       IN  /\ w > val.w
           /\ Result(w, OfWidth(w, SignedN(val.w, val.n)),
                     CASE w \in TwoWords -> <<x, sign>>
                       [] w = I65        -> <<x, sign, sign>>
                       [] OTHER          -> <<x>>)

ZExt ==
  \/ /\ val.w \in OneWord
     /\ \E w \in {I16, I32, I48, I64} :
          LET x == cg_norm_reg_width(val.r[1], val.w, FALSE)
          IN  /\ w > val.w
              /\ Result(w, val.n, IF Wide(w) THEN <<x, 0>> ELSE <<x>>)
  \/ /\ val.w \in OneWord /\ Allowed("zext i65", {val})
     /\ Result(I65, val.n, <<val.r[1], 0, 0>>)
  \/ /\ val.w = I64
     /\ Result(I65, val.n, <<val.r[1], val.r[2], 0>>)

Trunc ==
  \/ /\ val.w \in {I16, I32} \cup TwoWords
     /\ \E w \in OneWord :
          /\ w < val.w
          /\ Result(w, OfWidth(w, val.n), <<cg_norm_reg_width(val.r[1], w, FALSE)>>)
  \/ /\ val.w = I65
     /\ Result(I64, OfWidth(I64, val.n), <<val.r[1], val.r[2]>>)

(* To and from a float.  The result of a conversion the width cannot hold   *)
(* is undefined.                                                            *)
IntToFloat ==
  /\ val.w \in OneWord
  /\ \/ Result(F32, SignedN(val.w, val.n),
               <<Signed(cg_norm_reg_width(val.r[1], val.w, TRUE))>>)
     \/ /\ Allowed("uitofp", {val})
        /\ Result(F32, val.n, val.r)

FloatToInt ==
  /\ val.w = F32
  /\ \E w \in OneWord :
       /\ \/ val.n \in 0 .. 2^w - 1
          \/ val.n \in -(2^(w - 1)) .. 2^(w - 1) - 1 /\ w # I1
       /\ Result(w, OfWidth(w, val.n), <<ToWord(val.r[1])>>)

Select ==
  /\ val.w = I1
  /\ \E w \in OneWord \cup {I64} : \E a, b \in Held(w) :
       Result(w, IF val.n = 1 THEN a.n ELSE b.n, IF val.r[1] = 0 THEN b.r ELSE a.r)

-----------------------------------------------------------------------------
(* The intrinsics on one operand.                                           *)
BitsOf(n) == {i \in 0 .. I32 - 1 : (n \div 2^i) % 2 = 1}
MaskWith(bits) == MapThenSumSet(LAMBDA i : 2^i, bits)
Least(S) == CHOOSE k \in S : \A j \in S : k <= j

UnaryMeaning(f, w, n) ==
  CASE f = "abs"        -> OfWidth(w, Abs(SignedN(w, n)))
    [] f = "ctpop"      -> Cardinality(BitsOf(n))
    [] f = "cttz"       -> Least({i \in 0 .. w : i = w \/ i \in BitsOf(n)})
    [] f = "bitreverse" -> MaskWith({w - 1 - i : i \in BitsOf(n)})
    [] f = "bswap"      ->
         LET bytes == w \div (I32 \div 4)
             base == 2^(I32 \div 4)
         IN  MapThenSumSet(LAMBDA i : ((n \div base^i) % base) * base^(bytes - 1 - i),
                           0 .. bytes - 1)

AbsWord(x, w) ==
  LET s == cg_norm_reg_width(x, w, TRUE)
  IN  IF Op("CMP_LT", s, 0) = 1 THEN Op("SUB", 0, s) ELSE s

(* x loses its lowest 1 in every round.                                     *)
Rounds[x \in Word] == IF x = 0 THEN 0 ELSE 1 + Rounds[Op("AND", x, Op("SUB", x, 1))]

TrailingZeros(x, w) ==
  IF x = 0 THEN w ELSE Least({i \in 0 .. I32 - 1 : Op("AND", Op("SHR", x, i), 1) = 1})
LeadingZeros(x) == Op("SUB", I32, Least({i \in 0 .. I32 : x \div 2^i = 0}))

SwapGroups(x, w, s) ==
  LET low == MaskWith({i \in 0 .. w - 1 : i % (2 * s) < s})
      high == Op("AND", ToWord(low * 2^s), MaskOf(w))
  IN  OrOf(Op("SHL", Op("AND", x, low), s), Op("SHR", Op("AND", x, high), s))
ReverseBits(x, w) ==
  LET steps[k \in 0 .. I32] ==
        IF k = 0 THEN Op("AND", x, MaskOf(w)) ELSE SwapGroups(steps[k - 1], w, 2^(k - 1))
  IN  steps[CHOOSE k \in 0 .. I32 : 2^k = w]

SwapBytes(x, w) ==
  LET b == I32 \div 4                \* the 8 bits of a byte
      m == 2^b - 1
  IN  IF w = I16
      THEN OrOf(Op("SHL", Op("AND", x, m), b), Op("AND", Op("SHR", x, b), m))
      ELSE OrOf(OrOf(OrOf(Op("SHR", x, 3 * b), Op("AND", Op("SHR", x, b), m * 2^b)),
                 Op("AND", Op("SHL", x, b), m * 2^(2 * b))),
              Op("SHL", x, 3 * b))

Unary ==
  /\ val.w \in {I16, I32}
  /\ \E f \in {"abs", "ctpop", "cttz", "bitreverse", "bswap"} :
       LET x == val.r[1]
           masked == cg_norm_reg_width(x, val.w, FALSE)
       IN  Result(val.w, UnaryMeaning(f, val.w, val.n),
             <<CASE f = "abs"        -> AbsWord(x, val.w)
                 [] f = "ctpop"      -> Rounds[masked]
                 [] f = "cttz"       -> TrailingZeros(masked, val.w)
                 [] f = "bitreverse" -> ReverseBits(x, val.w)
                 [] f = "bswap"      -> SwapBytes(x, val.w)>>)

LeadingZeroCount ==
  \/ /\ val.w = I32
     /\ Result(I32, I32 - Least({i \in 0 .. I32 : val.n \div 2^i = 0}),
               <<LeadingZeros(val.r[1])>>)
  \/ /\ val.w = I64
     /\ Result(I64, I64 - Least({i \in 0 .. I64 : val.n \div 2^i = 0}),
               <<IF val.r[2] # 0 THEN LeadingZeros(val.r[2])
                 ELSE Op("ADD", I32, LeadingZeros(val.r[1])), 0>>)

(* abs.i64: (x ^ m) - m, m the sign of x in every bit.                      *)
Abs64 ==
  /\ val.w = I64
  /\ LET m == Op("SAR", val.r[2], I32 - 1)
     IN  Result(I64, UnaryMeaning("abs", I64, val.n),
                SubWords(<<Op("XOR", val.r[1], m), Op("XOR", val.r[2], m)>>, <<m, m>>))

-----------------------------------------------------------------------------
(* The intrinsics on two operands.  min and max compare the repaired words  *)
(* and give the operand as it was.                                          *)
MinMax ==
  /\ val.w \in {I16, I32}
  /\ \E signed, min \in BOOLEAN, p \in Pairs :
       LET w == val.w
           a == p[1]
           b == p[2]
           N(v) == IF signed THEN SignedN(w, v.n) ELSE v.n
           less == Op(IF signed THEN "CMP_LT" ELSE "CMP_LTU",
                      cg_norm_reg_width(a.r[1], w, signed),
                      cg_norm_reg_width(b.r[1], w, signed))
       IN  Result(w, IF (N(a) <= N(b)) = min THEN a.n ELSE b.n,
                  IF (less = 1) = min THEN a.r ELSE b.r)

(* scmp and ucmp: -1, 0 or 1.                                               *)
ThreeWay ==
  /\ val.w \in {I16, I32}
  /\ \E signed \in BOOLEAN, w \in {I16, I32}, p \in Pairs :
       LET N(v) == IF signed THEN SignedN(val.w, v.n) ELSE v.n
           X(v) == cg_norm_reg_width(v.r[1], val.w, signed)
           less == IF signed THEN "CMP_LT" ELSE "CMP_LTU"
       IN  Result(w,
             OfWidth(w, CASE N(p[1]) < N(p[2]) -> -1 [] N(p[1]) = N(p[2]) -> 0 [] OTHER -> 1),
             <<Op("SUB", Op(less, X(p[2]), X(p[1])), Op(less, X(p[1]), X(p[2])))>>)

SaturatingSub(x, y) == IF Op("CMP_LTU", x, y) = 1 THEN 0 ELSE Op("SUB", x, y)
SaturatingAdd(x, y, w) ==
  LET sum == Op("ADD", x, y)
      over == IF w < I32 THEN Op("CMP_LTU", MaskOf(w), sum) ELSE Op("CMP_LTU", sum, x)
  IN  IF over = 1 THEN MaskOf(w) ELSE sum

(* usub.sat and uadd.sat, which do not repair their operands.               *)
Saturating ==
  /\ val.w \in {I16, I32}
  /\ \E p \in Pairs :
       LET a == p[1]
           b == p[2]
           most == MaskOf(val.w) IN
       \/ /\ Allowed("usub.sat", {a, b})
          /\ Result(val.w, IF a.n < b.n THEN 0 ELSE a.n - b.n,
                    <<SaturatingSub(a.r[1], b.r[1])>>)
       \/ /\ Allowed("uadd.sat", {a, b})
          /\ Result(val.w, IF a.n + b.n > most THEN most ELSE a.n + b.n,
                    <<SaturatingAdd(a.r[1], b.r[1], val.w)>>)

(* fshl and fshr: one end of a:b shifted by c modulo the width.             *)
Funnel(right, w, a, b, c) ==
  LET s == IF w < I32 THEN Op("AND", c, w - 1) ELSE c
      inv == Op("SUB", w, s)
      joined == IF right THEN OrOf(Op("SHL", a, inv), Op("SHR", b, s))
                ELSE OrOf(Op("SHL", a, s), Op("SHR", cg_norm_reg_width(b, w, FALSE), inv))
  IN  CASE s = 0 -> IF right THEN b ELSE a
        [] OTHER -> cg_norm_reg_width(joined, w, FALSE)

FunnelMeaning(right, w, x, y, c) ==
  LET s == c % w
      left == IF right THEN w - s ELSE s
  IN  OfWidth(w, x * 2^left + y \div 2^(w - left))

FunnelShift ==
  /\ val.w \in {I16, I32}
  /\ \E right \in BOOLEAN, p \in Pairs, c \in Held(val.w) :
       /\ right => Allowed("fshr", {p[2]})
       /\ "fsh amount" \in Granted /\ val.w = I32 => c.n < I32
       /\ Result(val.w, FunnelMeaning(right, val.w, p[1].n, p[2].n, c.n),
                 <<Funnel(right, val.w, p[1].r[1], p[2].r[1], c.r[1])>>)

-----------------------------------------------------------------------------
(* The arithmetic with an overflow flag gives two values; the instruction   *)
(* that uses one takes it from the slots of the frame.                      *)
EitherField(w, n, r, overflow, flag) ==
  \/ Result(w, n, r)
  \/ Result(I1, Flag(overflow), <<flag>>)

AddCarry(a, b) ==
  LET lo == Op("ADD", a[1], b[1])
      t == Op("ADD", a[2], b[2])
      hi == Op("ADD", t, Op("CMP_LTU", lo, a[1]))
  IN  [r |-> <<lo, hi>>, flag |-> OrOf(Op("CMP_LTU", t, a[2]), Op("CMP_LTU", hi, t))]

MulCarry(a, b) ==
  LET s == Op("ADD", Op("MULHU", a[1], b[1]), Op("MUL", a[1], b[2]))
      hi == Op("ADD", s, Op("MUL", a[2], b[1]))
      NonZero(x) == Op("CMP_LTU", 0, x)
      column == OrOf(Op("CMP_LTU", s, Op("MULHU", a[1], b[1])), Op("CMP_LTU", hi, s))
  IN  [r |-> <<Op("MUL", a[1], b[1]), hi>>,
       flag |-> OrOf(OrOf(OrOf(NonZero(Op("MULHU", a[1], b[2])), NonZero(Op("MULHU", a[2], b[1]))),
                      column),
                   Op("AND", NonZero(a[2]), NonZero(b[2])))]

UnsignedOverflow ==
  \E p \in Pairs :
    LET a == p[1]
        b == p[2]
        x == a.r[1]
        y == b.r[1]
        addsOver == a.n + b.n > MaskOf(val.w)
        mulsOver == a.n # 0 /\ b.n > MaskOf(val.w) \div a.n
        sum == BinaryMeaning("add", val.w, a.n, b.n)
        product == BinaryMeaning("mul", val.w, a.n, b.n) IN
    \/ /\ val.w = I32
       /\ \/ EitherField(I32, sum, <<Op("ADD", x, y)>>, addsOver,
                         Op("CMP_LTU", Op("ADD", x, y), x))
          \/ EitherField(I32, product, <<Op("MUL", x, y)>>, mulsOver,
                         Op("CMP_LTU", 0, Op("MULHU", x, y)))
    \/ /\ val.w = I64
       /\ \/ LET s == AddCarry(a.r, b.r) IN EitherField(I64, sum, s.r, addsOver, s.flag)
          \/ LET m == MulCarry(a.r, b.r) IN EitherField(I64, product, m.r, mulsOver, m.flag)

(* sadd.with.overflow at the odd widths: the last word is brought back into *)
(* its width, and overflow is what that changes.                            *)
SignedOverflow ==
  \E p \in Pairs :
    LET w == val.w
        a == p[1].r
        b == p[2].r
        total == SignedN(w, p[1].n) + SignedN(w, p[2].n)
        two == AddWords(a, b)
        low == AddCarry(a, b)
        last == IF w = I48 THEN two[2] ELSE Op("ADD", Op("ADD", a[3], b[3]), low.flag)
        s == IF w = I48 THEN I64 - I48 ELSE I32 - 1
        canon == Op("SAR", Op("SHL", last, s), s)
    IN  /\ w \in {I48, I65}
        /\ EitherField(w, OfWidth(w, total),
                       IF w = I48 THEN <<two[1], canon>> ELSE low.r \o <<canon>>,
                       total \notin -(2^(w - 1)) .. 2^(w - 1) - 1,
                       Op("CMP_NE", last, canon))

(* cmpxchg: the old value, the success and what the memory holds after it.  *)
(* A load gives a narrow value with 0s on top.                              *)
CmpXchg ==
  /\ val.w \in {I16, I32, I64} /\ InBound
  /\ \E old, new \in Held(val.w) :
       LET w == val.w
           eq == IF Wide(w) THEN WideCompare("eq", old.r, val.r)
                 ELSE NarrowCompare("eq", w, old.r[1], val.r[1])
           mask == Op("SUB", 0, eq)
           stored == [i \in DOMAIN old.r |->
                        Op("XOR", old.r[i], Op("AND", Op("XOR", old.r[i], new.r[i]), mask))]
           reloaded == IF Wide(w) THEN stored ELSE <<cg_norm_reg_width(stored[1], w, FALSE)>>
       IN  /\ ~Wide(w) => Clean(old)
           /\ \/ Result(w, old.n, old.r)
              \/ Result(I1, Flag(old.n = val.n), <<eq>>)
              \/ Result(w, IF old.n = val.n THEN new.n ELSE old.n, reloaded)

-----------------------------------------------------------------------------
(* A load leaves 0s on top of a narrow value; a constant has its sign there, *)
(* except that a boolean constant is 0 or 1.                                *)
Loads == {Value(w, n, <<n>>) : w \in {I1}, n \in {0, 1}}
           \cup {Value(I16, n, <<n>>) : n \in 0 .. MaskOf(I16)}
           \cup {Value(I32, n, <<n>>) : n \in Word} \cup Held(I64)
Constants == {Value(I16, n, <<ToWord(SignedN(I16, n))>>) : n \in 0 .. MaskOf(I16)}

Init == val \in Loads \cup Constants

Next ==
  \/ Binary \/ Binary64 \/ ICmp \/ SExt \/ ZExt \/ Trunc \/ IntToFloat \/ FloatToInt
  \/ Select \/ Unary \/ LeadingZeroCount \/ Abs64 \/ MinMax \/ ThreeWay \/ Saturating
  \/ FunnelShift \/ UnsignedOverflow \/ SignedOverflow \/ CmpXchg

Spec == Init /\ [][Next]_vars

-----------------------------------------------------------------------------
(* The words an instruction leaves stand for the number LLVM says it gives, *)
(* whatever the bits above the width of its operands were.                  *)
Represented == Stands(val.w, val.n, val.r)
=============================================================================
