------------------------------ MODULE CvmWord ------------------------------
(***************************************************************************)
(* Machine words of the CronoVM.                                           *)
(*                                                                         *)
(* The VM works on 32-bit words made of four little-endian bytes.  Every   *)
(* width in the interpreter is a power of the byte: 2^8 values of a byte,  *)
(* 2^8 registers (CVM_REG_COUNT), 2^16 values of a half word and of an     *)
(* imm16, 2^24 of an imm24 and 2^32 of a word.  ByteBase stands for that   *)
(* 2^8, so that a small ByteBase gives a machine with exactly the same     *)
(* wrap-around structure.  A register or a memory word is represented by   *)
(* its unsigned value; Signed gives the int32_t reading of the same bits.  *)
(***************************************************************************)
EXTENDS Integers

CONSTANT ByteBase       \* 256 in the code

ASSUME ByteBaseAssumption == ByteBase \in Nat /\ ByteBase >= 4

Byte == 0 .. ByteBase - 1

HalfMod == ByteBase * ByteBase
TriMod  == ByteBase * HalfMod
WordMod == ByteBase * TriMod

Word == 0 .. WordMod - 1

(* uint32_t arithmetic wraps.                                              *)
ToWord(n) == n % WordMod

Signed(w) == IF w < WordMod \div 2 THEN w ELSE w - WordMod

(* Sign extension of a field with m values to an integer.                  *)
SignExtend(v, m) == IF v < m \div 2 THEN v ELSE v - m

(***************************************************************************)
(* Byte strings.  A memory is a function from byte addresses to bytes.     *)
(* Reading a byte that is not there has no defined value in C; it reads    *)
(* as 0 here, and a write to such a byte is lost, so that a missing bounds *)
(* check shows up as a violation of a property and not as a stuck model.   *)
(***************************************************************************)
Peek(h, i) == IF i \in DOMAIN h THEN h[i] ELSE 0

(* The value of n bytes (n = 1, 2 or 4) at address a, least significant    *)
(* byte first: the memcpy of a little-endian host, and read_u32_le.        *)
ReadLE(h, a, n) ==
  LET d(k) == IF k < n THEN Peek(h, a + k) ELSE 0
  IN  d(0) + ByteBase * (d(1) + ByteBase * (d(2) + ByteBase * d(3)))

(* Digit k (0..3) of the word v in base ByteBase.                          *)
Digit(v, k) ==
  LET q == v \div ByteBase
      r == q \div ByteBase
  IN  <<v, q, r, r \div ByteBase>>[k + 1] % ByteBase

WriteLE(h, a, n, v) ==
  [i \in DOMAIN h |-> IF i \in a .. a + n - 1 THEN Digit(v, i - a) ELSE h[i]]

(* The addresses an access of n bytes at a touches.                        *)
Span(a, n) == a .. a + n - 1
=============================================================================
