------------------------------- MODULE CvmAlu -------------------------------
(***************************************************************************)
(* The integer instructions of the CronoVM as functions of two words.      *)
(*                                                                         *)
(* Registers hold int32_t; the code casts to uint32_t where C would make   *)
(* signed overflow undefined.  Words are unsigned values here, so ADD, SUB *)
(* and MUL are taken modulo 2^w and the signed operations read their       *)
(* operands through Signed.                                                *)
(***************************************************************************)
EXTENDS CvmWord, Bitwise

WordBits == CHOOSE n \in 1 .. 32 : 2^n = WordMod

INT_MIN == WordMod \div 2      \* the word whose signed value is the least
MINUS_1 == WordMod - 1

Flag(b) == IF b THEN 1 ELSE 0

(* C division truncates towards zero; \div rounds down.                    *)
Abs(x) == IF x < 0 THEN -x ELSE x
TruncDiv(x, y) == LET q == Abs(x) \div Abs(y) IN
  IF (x < 0) = (y < 0) THEN q ELSE -q
TruncMod(x, y) == x - y * TruncDiv(x, y)

(* The shift count is masked to the width of a word.                       *)
ShiftBy(y) == 2 ^ (y % WordBits)

AluValue(op, x, y) ==
  LET sx == Signed(x)
      sy == Signed(y) IN
  CASE op = "ADD"     -> ToWord(x + y)
    [] op = "SUB"     -> ToWord(x - y)
    [] op = "MUL"     -> ToWord(x * y)
    [] op = "MULH"    -> ToWord((sx * sy) \div WordMod)
    [] op = "MULHU"   -> (x * y) \div WordMod
    [] op = "CMP_EQ"  -> Flag(x = y)
    [] op = "CMP_NE"  -> Flag(x # y)
    [] op = "CMP_LT"  -> Flag(sx < sy)
    [] op = "CMP_LE"  -> Flag(sx <= sy)
    [] op = "CMP_LTU" -> Flag(x < y)
    [] op = "CMP_LEU" -> Flag(x <= y)
    [] op = "SHL"     -> ToWord(x * ShiftBy(y))
    [] op = "SHR"     -> x \div ShiftBy(y)
    [] op = "SAR"     -> ToWord(sx \div ShiftBy(y))
    [] op = "AND"     -> x & y
    [] op = "OR"      -> x | y
    [] op = "XOR"     -> x ^^ y
    [] op = "DIVU"    -> x \div y
    [] op = "MODU"    -> x % y
    [] op = "DIV"     -> IF x = INT_MIN /\ y = MINUS_1 THEN INT_MIN
                         ELSE ToWord(TruncDiv(sx, sy))
    [] op = "MOD"     -> IF x = INT_MIN /\ y = MINUS_1 THEN 0
                         ELSE ToWord(TruncMod(sx, sy))
    [] op = "QDIV1616" -> ToWord((x * HalfMod) \div y)
=============================================================================
