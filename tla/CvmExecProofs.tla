--------------------------- MODULE CvmExecProofs ---------------------------
(***************************************************************************)
(* Proofs about the interpreter: it keeps its types and stays in its       *)
(* sandbox for every program, memory, argument vector and word size.       *)
(***************************************************************************)
EXTENDS CvmExec, TLAPS

-----------------------------------------------------------------------------
(* Words.                                                                  *)

LEMMA ScaleUp ==
  ASSUME NEW m \in Nat, m >= 1, NEW d \in Byte, NEW x \in 0 .. m - 1
  PROVE  d + ByteBase * x \in 0 .. ByteBase * m - 1
<1>1. ByteBase \in Nat /\ x <= m - 1 /\ d <= ByteBase - 1
  BY ByteBaseAssumption DEF Byte
<1>2. ByteBase * x <= ByteBase * (m - 1)
  BY <1>1
<1>3. ByteBase * (m - 1) = ByteBase * m - ByteBase
  BY <1>1
<1> QED
  BY <1>1, <1>2, <1>3 DEF Byte

LEMMA ModFacts ==
  /\ ByteBase \in Nat /\ HalfMod \in Nat /\ TriMod \in Nat /\ WordMod \in Nat
  /\ ByteBase >= 4 /\ HalfMod >= 4 * ByteBase /\ TriMod >= 4 * HalfMod
  /\ WordMod >= 4 * TriMod
  /\ WordMod >= 256
<1>1. \A m \in Nat : ByteBase * m \in Nat /\ ByteBase * m >= 4 * m
  BY ByteBaseAssumption
<1>2. ByteBase \in Nat /\ HalfMod \in Nat /\ TriMod \in Nat /\ WordMod \in Nat
  BY ByteBaseAssumption, <1>1 DEF HalfMod, TriMod, WordMod
<1> QED
  BY <1>1, <1>2, ByteBaseAssumption DEF HalfMod, TriMod, WordMod

LEMMA TwoHalves ==
  ASSUME NEW hi \in 0 .. HalfMod - 1, NEW lo \in 0 .. HalfMod - 1
  PROVE  hi * HalfMod + lo \in Word
<1>1. HalfMod \in Nat /\ hi <= HalfMod - 1
  BY ModFacts
<1>2. hi * HalfMod <= (HalfMod - 1) * HalfMod
  BY <1>1
<1>3. (HalfMod - 1) * HalfMod = HalfMod * HalfMod - HalfMod
  BY <1>1
<1>4. WordMod = HalfMod * HalfMod
  BY ByteBaseAssumption DEF WordMod, TriMod, HalfMod
<1> QED
  BY <1>1, <1>2, <1>3, <1>4, hi * HalfMod \in Nat DEF Word

LEMMA ByteIsWord == Byte \subseteq Word
BY ModFacts DEF Byte, Word

LEMMA ToWordType == \A n \in Int : ToWord(n) \in Word
BY ModFacts DEF ToWord, Word

LEMMA PeekType ==
  ASSUME NEW n \in Int, NEW h \in [0 .. n - 1 -> Byte], NEW i
  PROVE  Peek(h, i) \in Byte
BY ModFacts DEF Peek, Byte

LEMMA ReadLEType ==
  ASSUME NEW m \in Int, NEW h \in [0 .. m - 1 -> Byte], NEW a, NEW n
  PROVE  ReadLE(h, a, n) \in Word
<1> DEFINE d(k) == IF k < n THEN Peek(h, a + k) ELSE 0
<1>1. d(0) \in Byte /\ d(1) \in Byte /\ d(2) \in Byte /\ d(3) \in Byte
  <2>1. 0 \in Byte
    BY ModFacts DEF Byte
  <2> QED
    BY <2>1, PeekType
<1> HIDE DEF d
<1>2. d(3) \in 0 .. ByteBase - 1
  BY <1>1 DEF Byte
<1>3. /\ ByteBase \in Nat /\ HalfMod \in Nat /\ TriMod \in Nat
      /\ ByteBase >= 1 /\ HalfMod >= 1 /\ TriMod >= 1
  BY ModFacts
<1>4. \A m1 \in Nat : m1 >= 1 =>
        \A d1 \in Byte : \A x \in 0 .. m1 - 1 :
          d1 + ByteBase * x \in 0 .. ByteBase * m1 - 1
  BY ScaleUp
<1>5. d(2) + ByteBase * d(3) \in 0 .. HalfMod - 1
  BY <1>1, <1>2, <1>3, <1>4, Zenon DEF HalfMod
<1>6. d(1) + ByteBase * (d(2) + ByteBase * d(3)) \in 0 .. TriMod - 1
  BY <1>1, <1>3, <1>4, <1>5, Zenon DEF TriMod
<1>7. d(0) + ByteBase * (d(1) + ByteBase * (d(2) + ByteBase * d(3)))
        \in 0 .. WordMod - 1
  BY <1>1, <1>3, <1>4, <1>6, Zenon DEF WordMod
<1> QED
  BY <1>7 DEF ReadLE, Word, d

LEMMA DigitType == ASSUME NEW v \in Nat, NEW k \in 0 .. 3 PROVE Digit(v, k) \in Byte
<1> DEFINE q == v \div ByteBase
<1> DEFINE r == q \div ByteBase
<1> DEFINE s == r \div ByteBase
<1>1. \A x \in Nat : x \div ByteBase \in Nat /\ x % ByteBase \in Byte
  BY ModFacts DEF Byte
<1>2. q \in Nat /\ r \in Nat /\ s \in Nat
  BY <1>1
<1> HIDE DEF q, r, s
<1>3. <<v, q, r, s>>[k + 1] \in Nat
  BY <1>2
<1>4. <<v, q, r, s>>[k + 1] % ByteBase \in Byte
  BY <1>1, <1>3
<1> QED
  BY <1>4 DEF Digit, q, r, s

LEMMA WriteLEType ==
  ASSUME NEW m \in Int, NEW h \in [0 .. m - 1 -> Byte], NEW a \in Int,
         NEW n \in 0 .. 4, NEW v \in Nat
  PROVE  WriteLE(h, a, n, v) \in [0 .. m - 1 -> Byte]
<1>1. \A i \in a .. a + n - 1 : i - a \in 0 .. 3
  OBVIOUS
<1> QED
  BY <1>1, DigitType DEF WriteLE

-----------------------------------------------------------------------------
(* What the type invariant says of the image and of a fetch.               *)

Memories == [0 .. img.memSize - 1 -> Byte]
Files == [Byte -> Word]

LEMMA ImageFacts ==
  ASSUME TypeOK
  PROVE  /\ IsCart(img)
         /\ code_count \in Nat /\ 1 <= code_count /\ 4 * code_count <= WordMod
         /\ func_count \in Nat
         /\ img.memSize \in Word /\ img.memSize \in Nat
         /\ Len(img.imports) \in Nat
         /\ \A fid \in Nat : func_offsets(fid) \in Word
<1>1. IsCart(img)
  BY CartsAssumption DEF TypeOK
<1>2. /\ code_count \in Nat /\ 1 <= code_count /\ 4 * code_count <= WordMod
      /\ func_count \in Nat
      /\ img.memSize \in Word /\ img.memSize \in Nat
      /\ Len(img.imports) \in Nat
  <2>1. /\ img.code \in Seq(Instruction) /\ Len(img.code) \in 1 .. WordMod \div 4
        /\ img.funcs \in Seq(Nat) /\ img.imports \in Seq(ImportKinds)
        /\ img.memSize \in Word
    BY <1>1 DEF IsCart
  <2> QED
    BY <2>1, ModFacts DEF code_count, func_count, Word
<1>3. ASSUME NEW fid \in Nat PROVE func_offsets(fid) \in Word
  <2>1. CASE fid < func_count
    <3>1. fid + 1 \in DOMAIN img.funcs /\ img.funcs[fid + 1] \in Nat
      BY <1>1, <2>1 DEF IsCart, func_count
    <3>2. img.funcs[fid + 1] < code_count
      BY <1>1, <3>1 DEF IsCart, code_count
    <3> QED
      BY <1>2, <2>1, <3>1, <3>2, ModFacts DEF func_offsets, Word
  <2>2. CASE ~(fid < func_count)
    BY <2>2, ModFacts DEF func_offsets, Word
  <2> QED
    BY <2>1, <2>2
<1> QED
  BY <1>1, <1>2, <1>3

LEMMA FetchType == ASSUME TypeOK PROVE Fetch \in Instruction
<1>1. CASE pc < code_count
  <2>1. img.code \in Seq(Instruction)
    BY ImageFacts DEF IsCart
  <2>2. pc \in Nat
    BY ModFacts DEF TypeOK, Word
  <2>3. pc + 1 \in 1 .. Len(img.code)
    BY <1>1, <2>1, <2>2 DEF code_count
  <2> QED
    BY <1>1, <2>1, <2>3 DEF Fetch
<1>2. CASE ~(pc < code_count)
  BY <1>2, ModFacts DEF Fetch, Instruction, Byte
<1> QED
  BY <1>1, <1>2

LEMMA Operands ==
  ASSUME TypeOK
  PROVE  /\ Fetch.a \in Byte /\ Fetch.b \in Byte /\ Fetch.c \in Byte
         /\ R[Fetch.a] \in Word /\ R[Fetch.b] \in Word /\ R[Fetch.c] \in Word
         /\ REG_SP \in Byte /\ R[REG_SP] \in Word
         /\ 0 \in Byte /\ R[0] \in Word /\ 1 \in Byte /\ R[1] \in Word
         /\ Imm16(Fetch) \in Nat /\ Imm24(Fetch) \in Nat
<1>1. Fetch.a \in Byte /\ Fetch.b \in Byte /\ Fetch.c \in Byte
  BY FetchType DEF Instruction
<1>2. REG_SP \in Byte /\ 0 \in Byte /\ 1 \in Byte
  BY ModFacts DEF REG_SP, Byte
<1>3. \A x, y \in Nat : x + ByteBase * y \in Nat
  BY ModFacts
<1>4. Byte \subseteq Nat
  BY DEF Byte
<1>5. Imm16(Fetch) \in Nat /\ Imm24(Fetch) \in Nat
  BY <1>1, <1>3, <1>4 DEF Imm16, Imm24
<1> QED
  BY <1>1, <1>2, <1>5 DEF TypeOK

-----------------------------------------------------------------------------
(* The ways a step can end keep the invariant.                             *)

Inv == TypeOK /\ Sandboxed

LEMMA InsideParts ==
  ASSUME TypeOK, pc < code_count
  PROVE  /\ Inside(NoUse) /\ Inside(Used)
         /\ \A s : s \subseteq 0 .. img.memSize - 1 => Inside(UsedMem(s))
BY ImageFacts DEF Inside, NoUse, Used, UsedMem, TypeOK, Word

LEMMA GoKeepsInv ==
  ASSUME TypeOK, NEW newR \in Files, NEW newHeap \in Memories,
         NEW newPc \in Word, NEW used, Inside(used),
         Go(newR, newHeap, newPc, used)
  PROVE  Inv'
BY DEF TypeOK, Inv, Sandboxed, Inside, Go, Files, Memories, code_count, func_count

LEMMA LeaveKeepsInv ==
  ASSUME TypeOK, NEW outcome \in Statuses, NEW used, Inside(used),
         Leave(outcome, used), result' \in Word
  PROVE  Inv'
<1>1. Zeros \in Files /\ 0 \in Word
  BY ModFacts DEF Zeros, Files, Word
<1> QED
  BY <1>1 DEF TypeOK, Inv, Sandboxed, Inside, Leave, Files, code_count, func_count

LEMMA TrapKeepsInv ==
  ASSUME TypeOK, NEW e \in Errors, NEW used, Inside(used), TrapUsing(e, used)
  PROVE  Inv'
<1>1. e \in Statuses /\ result' \in Word /\ Leave(e, used)
  BY DEF Statuses, TrapUsing, TypeOK
<1> QED
  BY <1>1, LeaveKeepsInv

LEMMA SetRegKeepsInv ==
  ASSUME TypeOK, pc < code_count, NEW r \in Byte, NEW v \in Word, SetReg(r, v)
  PROVE  Inv'
<1>1. [R EXCEPT ![r] = v] \in Files
  BY DEF TypeOK, Files
<1>2. pc + 1 \in Word
  BY ImageFacts, ModFacts DEF TypeOK, Word
<1>3. heap \in Memories
  BY DEF TypeOK, Memories
<1> QED
  BY <1>1, <1>2, <1>3, InsideParts, GoKeepsInv DEF SetReg

LEMMA JumpKeepsInv ==
  ASSUME TypeOK, pc < code_count, NEW target \in Word, Jump(target)
  PROVE  Inv'
<1>1. R \in Files /\ heap \in Memories
  BY DEF TypeOK, Files, Memories
<1> QED
  BY <1>1, InsideParts, GoKeepsInv DEF Jump

(* A check that passed puts the whole access inside the memory.            *)
LEMMA BoundsCheck ==
  ASSUME TypeOK, NEW addr \in Word, NEW n \in Nat, InBounds(addr, n)
  PROVE  Span(addr, n) \subseteq 0 .. img.memSize - 1
<1>1. addr \in Nat /\ img.memSize \in Nat
  BY ImageFacts, ModFacts DEF Word
<1>2. addr + n <= img.memSize
  BY <1>1 DEF InBounds
<1> QED
  BY <1>1, <1>2 DEF Span

LEMMA NextPc == ASSUME TypeOK, pc < code_count PROVE pc + 1 \in Word /\ pc \in Nat
BY ImageFacts, ModFacts DEF TypeOK, Word

-----------------------------------------------------------------------------
(* One lemma per group of actions.                                         *)

LEMMA MovesKeepInv ==
  ASSUME TypeOK,
         Movi \/ Movhi \/ Mov \/ Fneg \/ Qdiv6432 \/ (\E op \in AluOps : Binary(op))
           \/ (\E op \in DivOps : Divide(op)) \/ (\E op \in FloatOps : Float(op))
  PROVE  Inv'
<1> USE Operands
<1>0. pc < code_count
  BY DEF Movi, Movhi, Mov, Fneg, Qdiv6432, Binary, Divide, Float, Executes
<1>1. \A r \in Byte, v \in Word : SetReg(r, v) => Inv'
  BY <1>0, SetRegKeepsInv
<1>2. Trap("DIV_BY_ZERO") => Inv'
  BY <1>0, TrapKeepsInv, InsideParts DEF Trap, Errors
<1>3. CASE Movi
  <2>1. SignExtend(Imm16(Fetch), HalfMod) \in Int
    BY ModFacts DEF SignExtend
  <2> QED
    BY <1>1, <1>3, <2>1, ToWordType DEF Movi
<1>4. CASE Movhi
  <2>1. R[Fetch.a] % HalfMod \in 0 .. HalfMod - 1
    BY ModFacts DEF Word
  <2>2. Imm16(Fetch) \in 0 .. HalfMod - 1
    <3>1. ByteBase \in Nat /\ ByteBase >= 1 /\ Fetch.c \in 0 .. ByteBase - 1
      BY ModFacts DEF Byte
    <3> QED
      BY <3>1, ScaleUp, Zenon DEF Imm16, HalfMod
  <2>3. Imm16(Fetch) * HalfMod + (R[Fetch.a] % HalfMod) \in Word
    BY <2>1, <2>2, TwoHalves
  <2> QED
    BY <1>1, <1>4, <2>3 DEF Movhi
<1>5. CASE Mov
  BY <1>1, <1>5 DEF Mov
<1>6. CASE Fneg
  <2>1. R[Fetch.b] + WordMod \div 2 \in Int
    BY ModFacts DEF Word
  <2> QED
    BY <1>1, <1>6, <2>1, ToWordType DEF Fneg
<1>7. CASE Qdiv6432
  <2>1. ASSUME R[Fetch.c] # 0
        PROVE  (R[Fetch.a] * WordMod + R[Fetch.b]) \div R[Fetch.c] \in Int
    BY <2>1, ModFacts DEF Word
  <2> QED
    BY <1>1, <1>2, <1>7, <2>1, ToWordType DEF Qdiv6432
<1>8. ASSUME NEW op \in AluOps, Binary(op) PROVE Inv'
  <2>1. op \notin DivOps
    BY DEF AluOps, CmpOps, DivOps
  <2> QED
    BY <1>1, <1>8, <2>1, AluAssumption DEF Binary
<1>9. ASSUME NEW op \in DivOps, Divide(op) PROVE Inv'
  BY <1>1, <1>2, <1>9, AluAssumption DEF Divide
<1>10. ASSUME NEW op \in FloatOps, Float(op) PROVE Inv'
  <2>1. {0, 1} \subseteq Word /\ FloatWords \subseteq Word
    BY InputsAssumption, ModFacts DEF Word
  <2> QED
    BY <1>1, <1>10, <2>1 DEF Float
<1> QED
  BY <1>3, <1>4, <1>5, <1>6, <1>7, <1>8, <1>9, <1>10

LEMMA OverlayType ==
  ASSUME NEW m \in Int, NEW h \in [0 .. m - 1 -> Byte],
         NEW new, \A k \in DOMAIN new : new[k] \in Byte
  PROVE  Overlay(h, new) \in [0 .. m - 1 -> Byte]
BY DEF Overlay

LEMMA MemoryKeepsInv ==
  ASSUME TypeOK,
         (\E op \in LoadOps : Load(op)) \/ (\E op \in StoreOps : Store(op))
           \/ (\E op \in CopyOps : Copy(op)) \/ Memset
  PROVE  Inv'
<1> USE Operands
<1>0. pc < code_count
  BY DEF Load, Store, Copy, Memset, Executes
<1>1. Trap("BAD_ADDR") => Inv'
  BY <1>0, TrapKeepsInv, InsideParts DEF Trap, Errors
<1>2. pc + 1 \in Word
  BY <1>0, NextPc
<1>3. Jump(pc + 1) => Inv'
  BY <1>0, <1>2, JumpKeepsInv
<1>4. R \in Files /\ heap \in Memories /\ img.memSize \in Int
  BY ImageFacts DEF TypeOK, Files, Memories
<1>5. \A r \in Files, h \in Memories : \A s :
        s \subseteq 0 .. img.memSize - 1 /\ Go(r, h, pc + 1, UsedMem(s)) => Inv'
  BY <1>0, <1>2, GoKeepsInv, InsideParts
<1>6. Word \subseteq Nat
  BY ModFacts DEF Word
<1>7. ASSUME NEW op \in LoadOps, Load(op) PROVE Inv'
  <2>1. Width(op) \in 0 .. 4
    BY DEF Width
  <2>2. [R EXCEPT ![Fetch.a] = ReadLE(heap, R[Fetch.b], Width(op))] \in Files
    BY <1>4, ReadLEType DEF Files, Memories
  <2>3. InBounds(R[Fetch.b], Width(op)) =>
          Span(R[Fetch.b], Width(op)) \subseteq 0 .. img.memSize - 1
    BY <2>1, BoundsCheck
  <2> QED
    BY <1>1, <1>4, <1>5, <1>7, <2>2, <2>3 DEF Load
<1>8. ASSUME NEW op \in StoreOps, Store(op) PROVE Inv'
  <2>1. Width(op) \in 0 .. 4
    BY DEF Width
  <2>2. WriteLE(heap, R[Fetch.b], Width(op), R[Fetch.c]) \in Memories
    <3>1. R[Fetch.b] \in Nat /\ R[Fetch.c] \in Nat
      BY <1>6
    <3>2. R[Fetch.b] \in Int
      BY <3>1
    <3> QED
      BY <1>4, <2>1, <3>1, <3>2, WriteLEType, Zenon DEF Memories
  <2>3. InBounds(R[Fetch.b], Width(op)) =>
          Span(R[Fetch.b], Width(op)) \subseteq 0 .. img.memSize - 1
    BY <2>1, BoundsCheck
  <2> QED
    BY <1>1, <1>4, <1>5, <1>8, <2>2, <2>3 DEF Store
<1>9. ASSUME NEW op \in CopyOps, Copy(op) PROVE Inv'
  <2> DEFINE dst == R[Fetch.a]
  <2> DEFINE src == R[Fetch.b]
  <2> DEFINE len == R[Fetch.c]
  <2>1. ASSUME NEW new \in CopyOutcomes(op, src, dst, len)
        PROVE  Overlay(heap, new) \in Memories
    <3>1. \A i : Peek(heap, i) \in Byte
      BY <1>4, PeekType DEF Memories
    <3>2. \A k \in DOMAIN new : new[k] \in Byte
      BY <2>1, <3>1 DEF CopyOutcomes, Moved, Upwards, Downwards
    <3> QED
      BY <1>4, <3>2, OverlayType DEF Memories
  <2>2. InBounds(dst, len) /\ InBounds(src, len) =>
          Span(dst, len) \cup Span(src, len) \subseteq 0 .. img.memSize - 1
    BY <1>6, BoundsCheck
  <2> QED
    BY <1>1, <1>3, <1>4, <1>5, <1>9, <2>1, <2>2 DEF Copy
<1>10. CASE Memset
  <2> DEFINE dst == R[Fetch.a]
  <2> DEFINE len == R[Fetch.c]
  <2> DEFINE new == [k \in Span(dst, len) |-> R[Fetch.b] % ByteBase]
  <2>1. R[Fetch.b] % ByteBase \in Byte
    <3>1. \A x \in Nat : x % ByteBase \in Byte
      BY ModFacts DEF Byte
    <3> QED
      BY <1>6, <3>1
  <2>2. Overlay(heap, new) \in Memories
    BY <1>4, <2>1, OverlayType DEF Memories
  <2>3. InBounds(dst, len) => Span(dst, len) \subseteq 0 .. img.memSize - 1
    BY <1>6, BoundsCheck
  <2> QED
    BY <1>1, <1>3, <1>4, <1>5, <1>10, <2>2, <2>3 DEF Memset
<1> QED
  BY <1>7, <1>8, <1>9, <1>10

LEMMA ControlKeepsInv ==
  ASSUME TypeOK,
         DispatchBadPc \/ DispatchBadOpcode \/ Halt \/ Jmp \/ Jmpr
           \/ (\E op \in {"BEQ", "BNE"} : Branch(op))
  PROVE  Inv'
<1> USE Operands
<1>1. CASE DispatchBadPc
  <2>1. Inside(NoUse)
    BY DEF Inside, NoUse
  <2> QED
    BY <1>1, <2>1, TrapKeepsInv DEF DispatchBadPc, Errors
<1>2. CASE ~DispatchBadPc
  <2>0. pc < code_count
    BY <1>2 DEF DispatchBadOpcode, Halt, Jmp, Jmpr, Branch, Executes
  <2>1. \A e \in Errors : Trap(e) => Inv'
    BY <2>0, TrapKeepsInv, InsideParts DEF Trap
  <2>2. \A target \in Word : Jump(target) => Inv'
    BY <2>0, JumpKeepsInv
  <2>3. pc + 1 \in Word /\ pc \in Nat
    BY <2>0, NextPc
  <2>4. CASE DispatchBadOpcode
    BY <2>1, <2>4 DEF DispatchBadOpcode, Errors
  <2>5. CASE Halt
    BY <2>0, <2>5, InsideParts, LeaveKeepsInv DEF Halt, Finish, Statuses
  <2>6. CASE Jmp
    <3>1. pc + 1 + SignExtend(Imm24(Fetch), TriMod) \in Int
      BY <2>3, ModFacts DEF SignExtend
    <3> QED
      BY <2>2, <2>6, <3>1, ToWordType DEF Jmp
  <2>7. CASE Jmpr
    BY <2>1, <2>2, <2>7 DEF Jmpr, Errors
  <2>8. ASSUME NEW op \in {"BEQ", "BNE"}, Branch(op) PROVE Inv'
    <3>1. pc + 1 + SignExtend(Fetch.c, ByteBase) \in Int
      BY <2>3, ModFacts DEF SignExtend, Byte
    <3> QED
      BY <2>2, <2>3, <2>8, <3>1, ToWordType DEF Branch
  <2> QED
    BY <1>2, <2>4, <2>5, <2>6, <2>7, <2>8
<1> QED
  BY <1>1, <1>2

LEMMA EnterKeepsInv ==
  ASSUME TypeOK, pc < code_count, NEW fid \in Nat, Enter(fid)
  PROVE  Inv'
<1> DEFINE sp == R[REG_SP]
<1>1. \A e \in Errors : Trap(e) => Inv'
  BY TrapKeepsInv, InsideParts DEF Trap
<1>2. sp \in Word /\ sp \in Int /\ img.memSize \in Nat /\ func_count \in Nat
  <2>1. sp \in Word /\ img.memSize \in Nat /\ func_count \in Nat
    BY ImageFacts, Operands
  <2> QED
    BY <2>1 DEF Word
<1>3. CASE fid = 0 \/ fid >= func_count \/ sp < 4 \/ sp > img.memSize
  <2>1. Trap("NULL_FUNC_PTR") \/ Trap("BAD_FUNC_INDEX") \/ Trap("STACK_OVERFLOW")
    BY <1>2, <1>3 DEF Enter
  <2> QED
    BY <1>1, <2>1 DEF Errors
<1>4. CASE fid # 0 /\ fid < func_count /\ sp >= 4 /\ sp <= img.memSize
  <2> DEFINE used == [UsedMem(Span(sp - 4, 4)) EXCEPT !.func = {fid}]
  <2>0. sp \in Word /\ img.memSize \in Nat
    BY ImageFacts, Operands
  <2>1. sp \in Nat /\ img.memSize \in Nat /\ sp - 4 \in Word /\ sp - 4 \in Int
    BY <1>4, <2>0, ModFacts DEF Word
  <2>2. [R EXCEPT ![REG_SP] = sp - 4] \in Files
    BY <2>1, Operands DEF TypeOK, Files
  <2>3. WriteLE(heap, sp - 4, 4, pc + 1) \in Memories
    <3>1. pc + 1 \in Nat /\ 4 \in 0 .. 4 /\ heap \in Memories /\ img.memSize \in Int
      BY <2>1, NextPc DEF TypeOK, Memories
    <3> QED
      BY <2>1, <3>1, WriteLEType DEF Memories
  <2>4. Span(sp - 4, 4) \subseteq 0 .. img.memSize - 1
    BY <1>4, <2>1 DEF Span
  <2>5. Inside(UsedMem(Span(sp - 4, 4)))
    BY <2>4, InsideParts
  <2>6. {fid} \subseteq 1 .. func_count - 1
    BY <1>4, ImageFacts
  <2>7. Inside(used)
    BY <2>5, <2>6 DEF Inside, UsedMem, Used, NoUse
  <2>8. func_offsets(fid) \in Word
    BY ImageFacts
  <2>9. Go([R EXCEPT ![REG_SP] = sp - 4], WriteLE(heap, sp - 4, 4, pc + 1),
           func_offsets(fid), used)
    BY <1>4, <2>1, ImageFacts DEF Enter
  <2> HIDE DEF used
  <2> QED
    BY <2>2, <2>3, <2>7, <2>8, <2>9, GoKeepsInv
<1> QED
  BY <1>2, <1>3, <1>4

LEMMA RetKeepsInv == ASSUME TypeOK, Ret PROVE Inv'
<1> DEFINE sp == R[REG_SP]
<1> DEFINE ret_pc == ReadLE(heap, sp, 4)
<1> DEFINE popped == [R EXCEPT ![REG_SP] = ToWord(sp + 4)]
<1> DEFINE used == UsedMem(Span(sp, 4))
<1>0. pc < code_count
  BY DEF Ret, Executes
<1>1. sp \in Word /\ sp + 4 \in Int
  BY Operands, ModFacts DEF Word
<1>2. heap \in Memories /\ R \in Files /\ img.memSize \in Int
  BY ImageFacts DEF TypeOK, Memories, Files
<1>3. ret_pc \in Word
  BY <1>2, ReadLEType DEF Memories
<1>4. popped \in Files
  BY <1>1, <1>2, ToWordType, Operands DEF Files
<1>5. popped[0] \in Word
  BY <1>4, Operands DEF Files
<1>6. InBounds(sp, 4) => Inside(used)
  BY <1>0, <1>1, BoundsCheck, InsideParts
<1>7. CASE ~InBounds(sp, 4)
  BY <1>0, <1>7, TrapKeepsInv, InsideParts DEF Ret, Trap, Errors
<1>8. CASE InBounds(sp, 4) /\ ret_pc = RET_SENTINEL
  <2>1. Finish(popped[0], used)
    BY <1>8 DEF Ret
  <2> QED
    BY <1>5, <1>6, <1>8, <2>1, LeaveKeepsInv DEF Finish, Statuses
<1>9. CASE InBounds(sp, 4) /\ ret_pc # RET_SENTINEL
  <2>1. Go(popped, heap, ret_pc, used)
    BY <1>9 DEF Ret
  <2> HIDE DEF popped, used, ret_pc
  <2> QED
    BY <1>2, <1>3, <1>4, <1>6, <1>9, <2>1, GoKeepsInv
<1> QED
  BY <1>7, <1>8, <1>9

LEMMA BuiltinType == ASSUME TypeOK, NEW kind PROVE Builtin(kind) \in Word
<1>1. /\ img.heapSize \in Word /\ img.reserve \in Word /\ img.romOffset \in Word
      /\ img.romSize \in Word /\ img.reserve <= img.heapSize
  BY ImageFacts DEF IsCart
<1>2. img.heapSize - img.reserve \in Word
  BY <1>1, ModFacts DEF Word
<1> QED
  BY <1>1, <1>2 DEF Builtin

LEMMA SyscallKeepsInv == ASSUME TypeOK, Syscall PROVE Inv'
<1> DEFINE id == Imm16(Fetch)
<1> DEFINE kind == import_fn(id)
<1>0. pc < code_count
  BY DEF Syscall, Executes
<1>1. \A e \in Errors : Trap(e) => Inv'
  BY <1>0, TrapKeepsInv, InsideParts DEF Trap
<1>2. pc + 1 \in Word
  BY <1>0, NextPc
<1>3. heap \in Memories /\ R \in Files /\ img.memSize \in Int
  BY ImageFacts DEF TypeOK, Memories, Files
<1>4. id \in Nat /\ R[0] \in Word /\ R[1] \in Word /\ 0 \in Byte
  BY Operands
<1>5. R[0] \in Nat /\ R[1] \in Nat /\ R[0] \in Int
  BY <1>4, ModFacts DEF Word
<1>6. ASSUME id < Len(img.imports), NEW s, s \subseteq 0 .. img.memSize - 1
      PROVE  Inside([UsedMem(s) EXCEPT !.imp = {id}])
  <2>1. {id} \subseteq 0 .. Len(img.imports) - 1
    BY <1>4, <1>6, ImageFacts
  <2>2. Inside(UsedMem(s))
    BY <1>0, <1>6, InsideParts
  <2> QED
    BY <2>1, <2>2 DEF Inside, UsedMem, Used, NoUse
<1>7. ASSUME id < Len(img.imports) PROVE Inside([Used EXCEPT !.imp = {id}])
  <2>1. Inside(Used) /\ {id} \subseteq 0 .. Len(img.imports) - 1
    BY <1>0, <1>4, <1>7, InsideParts, ImageFacts
  <2> QED
    BY <2>1 DEF Inside, Used, NoUse
<1>8. ASSUME NEW v \in Word PROVE [R EXCEPT ![0] = v] \in Files
  BY <1>3, <1>4 DEF Files
<1>9. Invoke(id, kind)
  BY DEF Syscall
<1>10. kind # "unlinked" => id < Len(img.imports)
  BY DEF import_fn
<1> HIDE DEF id, kind
<1>11. CASE Trap("BAD_SYSCALL") \/ Trap("UNLINKED_SYSCALL")
  BY <1>1, <1>11 DEF Errors
<1>12. CASE id < Len(img.imports) /\ get_region(id, R[0])
  <2>1. img.regions \subseteq [name : Seq(Byte \ {0}), offset : Word]
    BY CartsAssumption DEF TypeOK, IsCart
  <2>2. ToWord(-1) \in Word
    BY ToWordType
  <2>3. NameReach(R[0]) \subseteq 0 .. img.memSize - 1
    <3>1. img.heapSize \in Word /\ img.stackSize \in Word
          /\ img.memSize = img.heapSize + img.stackSize
      BY CartsAssumption DEF TypeOK, IsCart
    <3> QED
      BY <1>5, <3>1, ModFacts DEF NameReach, Span, Word
  <2> QED
    BY <1>2, <1>3, <1>6, <1>8, <1>12, <2>1, <2>2, <2>3, GoKeepsInv
    DEF get_region
<1>13. CASE id < Len(img.imports) /\ HostHandler(id)
  <2>2. HostWords \subseteq Word
    BY InputsAssumption
  <2> QED
    BY <1>1, <1>2, <1>3, <1>7, <1>8, <1>13, <2>2, GoKeepsInv
    DEF HostHandler, Errors
<1>14. CASE id < Len(img.imports) /\ cvm_heap_read(id, R[0], 4)
  <2>2. ReadLE(heap, R[0], 4) \in Word
    BY <1>3, ReadLEType DEF Memories
  <2>3. InBounds(R[0], 4) => Span(R[0], 4) \subseteq 0 .. img.memSize - 1
    BY <1>4, BoundsCheck
  <2> QED
    BY <1>1, <1>2, <1>3, <1>6, <1>8, <1>14, <2>2, <2>3, GoKeepsInv
    DEF cvm_heap_read, Errors
<1>15. CASE id < Len(img.imports) /\ cvm_heap_write(id, R[0], 4, R[1])
  <2>2. WriteLE(heap, R[0], 4, R[1]) \in Memories
    BY <1>3, <1>5, WriteLEType, 4 \in 0 .. 4 DEF Memories
  <2>3. InBounds(R[0], 4) => Span(R[0], 4) \subseteq 0 .. img.memSize - 1
    BY <1>4, BoundsCheck
  <2> QED
    BY <1>1, <1>2, <1>3, <1>6, <1>15, <2>2, <2>3, GoKeepsInv
    DEF cvm_heap_write, Errors
<1>16. CASE /\ id < Len(img.imports)
            /\ Go([R EXCEPT ![0] = Builtin(kind)], heap, pc + 1,
                  [Used EXCEPT !.imp = {id}])
  <2>2. [R EXCEPT ![0] = Builtin(kind)] \in Files
    BY <1>8, BuiltinType
  <2> QED
    BY <1>2, <1>3, <1>7, <1>16, <2>2, GoKeepsInv
<1> QED
  BY <1>9, <1>10, <1>11, <1>12, <1>13, <1>14, <1>15, <1>16 DEF Invoke

LEMMA Save3Type ==
  ASSUME NEW m \in Int, NEW h \in [0 .. m - 1 -> Byte], NEW base \in Int,
         NEW w0 \in Nat, NEW w1 \in Nat, NEW w2 \in Nat
  PROVE  Save3(h, base, w0, w1, w2) \in [0 .. m - 1 -> Byte]
<1>1. 4 \in 0 .. 4 /\ base + 4 \in Int /\ base + 8 \in Int
  OBVIOUS
<1> DEFINE h1 == WriteLE(h, base, 4, w0)
<1> DEFINE h2 == WriteLE(h1, base + 4, 4, w1)
<1>2. h1 \in [0 .. m - 1 -> Byte]
  BY <1>1, WriteLEType
<1> HIDE DEF h1
<1>3. h2 \in [0 .. m - 1 -> Byte]
  BY <1>1, <1>2, WriteLEType
<1> HIDE DEF h2
<1>4. WriteLE(h2, base + 8, 4, w2) \in [0 .. m - 1 -> Byte]
  BY <1>1, <1>3, WriteLEType
<1> QED
  BY <1>4 DEF Save3, h1, h2

LEMMA SetjmpKeepsInv == ASSUME TypeOK, Setjmp PROVE Inv'
<1> DEFINE env == R[Fetch.b]
<1> DEFINE newHeap == Save3(heap, env, pc + 1, R[REG_SP], Fetch.a)
<1>0. pc < code_count
  BY DEF Setjmp, Executes
<1>1. heap \in Memories /\ R \in Files /\ img.memSize \in Int
  BY ImageFacts DEF TypeOK, Memories, Files
<1>2. env \in Word /\ R[REG_SP] \in Word /\ Fetch.a \in Byte /\ 0 \in Word
  BY Operands, ModFacts DEF Word
<1>3. pc + 1 \in Word
  BY <1>0, NextPc
<1>4. Word \subseteq Nat /\ Byte \subseteq Nat /\ Word \subseteq Int
  BY ModFacts DEF Word, Byte
<1>5. newHeap \in Memories
  <2>1. env \in Int /\ pc + 1 \in Nat /\ R[REG_SP] \in Nat /\ Fetch.a \in Nat
    BY <1>2, <1>3, <1>4
  <2> QED
    BY <1>1, <2>1, Save3Type, Zenon DEF Memories
<1>6. [R EXCEPT ![Fetch.a] = 0] \in Files
  BY <1>1, <1>2 DEF Files
<1>7. CASE ~InBounds(env, 12)
  BY <1>0, <1>7, TrapKeepsInv, InsideParts DEF Setjmp, Trap, Errors
<1>8. CASE InBounds(env, 12)
  <2>1. Inside(UsedMem(Span(env, 12)))
    BY <1>0, <1>2, <1>8, BoundsCheck, InsideParts, 12 \in Nat
  <2>2. Go([R EXCEPT ![Fetch.a] = 0], newHeap, pc + 1, UsedMem(Span(env, 12)))
    BY <1>8 DEF Setjmp
  <2> QED
    BY <1>3, <1>5, <1>6, <2>1, <2>2, GoKeepsInv
<1> QED
  BY <1>7, <1>8

LEMMA WordsType ==
  ASSUME TypeOK, NEW base, NEW n \in Nat, NEW k \in 0 .. n - 1
  PROVE  Words(heap, base, n)[k] \in Word
<1>1. heap \in [0 .. img.memSize - 1 -> Byte] /\ img.memSize \in Int
  BY ImageFacts DEF TypeOK
<1> QED
  BY <1>1, ReadLEType DEF Words

LEMMA LongjmpKeepsInv == ASSUME TypeOK, Longjmp PROVE Inv'
<1> DEFINE env == R[Fetch.a]
<1> DEFINE j == Words(heap, env, 3)
<1> DEFINE v == IF R[Fetch.b] # 0 THEN R[Fetch.b] ELSE 1
<1> DEFINE used == UsedMem(Span(env, 12))
<1>0. pc < code_count
  BY DEF Longjmp, Executes
<1>1. heap \in Memories /\ R \in Files
  BY DEF TypeOK, Memories, Files
<1>2. env \in Word /\ v \in Word /\ REG_SP \in Byte
  BY Operands, ModFacts DEF Word
<1>3. j[0] \in Word /\ j[1] \in Word /\ j[2] \in Word
  BY WordsType, 0 \in 0 .. 3 - 1, 1 \in 0 .. 3 - 1, 2 \in 0 .. 3 - 1, 3 \in Nat, Zenon
<1>4. InBounds(env, 12) => Inside(used)
  BY <1>0, <1>2, BoundsCheck, InsideParts, 12 \in Nat
<1>5. \/ ~InBounds(env, 12) /\ Trap("BAD_ADDR")
      \/ InBounds(env, 12) /\ TrapUsing("BAD_PC", used)
      \/ InBounds(env, 12) /\ TrapUsing("BAD_ADDR", used)
      \/ /\ InBounds(env, 12) /\ j[0] < code_count /\ j[2] < ByteBase
         /\ Go([R EXCEPT ![j[2]] = v, ![REG_SP] = j[1]], heap, j[0],
               [used EXCEPT !.reg = {j[2]}])
  BY DEF Longjmp
<1> HIDE DEF env, j, v
<1>6. CASE Trap("BAD_ADDR")
  BY <1>0, <1>6, TrapKeepsInv, InsideParts DEF Trap, Errors
<1>7. CASE InBounds(env, 12) /\ (TrapUsing("BAD_PC", used) \/ TrapUsing("BAD_ADDR", used))
  BY <1>4, <1>7, TrapKeepsInv DEF Errors
<1>8. CASE /\ InBounds(env, 12) /\ j[0] < code_count /\ j[2] < ByteBase
           /\ Go([R EXCEPT ![j[2]] = v, ![REG_SP] = j[1]], heap, j[0],
                 [used EXCEPT !.reg = {j[2]}])
  <2>1. j[2] \in Byte
    BY <1>3, <1>8, ModFacts DEF Word, Byte
  <2>2. [R EXCEPT ![j[2]] = v, ![REG_SP] = j[1]] \in Files
    BY <1>1, <1>2, <1>3, <2>1 DEF Files
  <2>3. Inside([used EXCEPT !.reg = {j[2]}])
    BY <1>4, <1>8, <2>1 DEF Inside, UsedMem, Used, NoUse
  <2> QED
    BY <1>1, <1>3, <1>8, <2>2, <2>3, GoKeepsInv
<1> QED
  BY <1>5, <1>6, <1>7, <1>8

LEMMA CoroSwapKeepsInv == ASSUME TypeOK, CoroSwap PROVE Inv'
<1> DEFINE from == R[Fetch.a]
<1> DEFINE to == R[Fetch.b]
<1> DEFINE ok == InBounds(from, 16) /\ InBounds(to, 16) /\ from # to
<1> DEFINE j == Words(heap, to, 4)
<1> DEFINE fresh == ok /\ j[3] = CORO_FRESH
<1> DEFINE known == fresh /\ j[0] # 0 /\ j[0] < func_count
<1> DEFINE target == IF fresh THEN func_offsets(j[0]) ELSE j[0]
<1> DEFINE read == UsedMem(Span(to, 16))
<1> DEFINE used == UsedMem(Span(from, 16) \cup Span(to, 16))
<1> DEFINE saved == CoroSaved(from, to, Fetch.a)
<1>0. pc < code_count
  BY DEF CoroSwap, Executes
<1>1. heap \in Memories /\ R \in Files /\ img.memSize \in Int
  BY ImageFacts DEF TypeOK, Memories, Files
<1>2. from \in Word /\ to \in Word /\ REG_SP \in Byte /\ R[REG_SP] \in Word
      /\ Fetch.a \in Byte
  BY Operands
<1>3. j[0] \in Word /\ j[1] \in Word /\ j[2] \in Word /\ j[3] \in Word
  BY WordsType, 0 \in 0 .. 4 - 1, 1 \in 0 .. 4 - 1, 2 \in 0 .. 4 - 1,
     3 \in 0 .. 4 - 1, 4 \in Nat, Zenon
<1>4. Word \subseteq Nat /\ Byte \subseteq Nat /\ Word \subseteq Int
  BY ModFacts DEF Word, Byte
<1>5. saved \in Memories
  <2>1. /\ from \in Int /\ to \in Int /\ from + 12 \in Int /\ to + 12 \in Int
        /\ pc + 1 \in Nat /\ R[REG_SP] \in Nat /\ Fetch.a \in Nat
        /\ 4 \in 0 .. 4 /\ CORO_SUSPENDED \in Nat /\ CORO_RUNNING \in Nat
    <3>1. from \in Int /\ to \in Int /\ R[REG_SP] \in Nat /\ Fetch.a \in Nat
      BY <1>2, <1>4
    <3>2. pc + 1 \in Nat
      BY <1>0, NextPc
    <3> HIDE DEF from, to
    <3> QED
      BY <3>1, <3>2 DEF CORO_SUSPENDED, CORO_RUNNING
  <2> DEFINE h1 == Save3(heap, from, pc + 1, R[REG_SP], Fetch.a)
  <2> DEFINE h2 == WriteLE(h1, from + 12, 4, CORO_SUSPENDED)
  <2>2. h1 \in Memories
    BY <1>1, <2>1, Save3Type, Zenon DEF Memories
  <2> HIDE DEF h1
  <2>3. h2 \in Memories
    BY <1>1, <2>1, <2>2, WriteLEType, Zenon DEF Memories
  <2> HIDE DEF h2
  <2>4. WriteLE(h2, to + 12, 4, CORO_RUNNING) \in Memories
    BY <1>1, <2>1, <2>3, WriteLEType, Zenon DEF Memories
  <2> QED
    BY <2>4 DEF CoroSaved, h1, h2
<1>6. target \in Word
  BY <1>3, <1>4, ImageFacts
<1>7. ok => Inside(read) /\ Inside(used)
  <2>1. ok => /\ Span(from, 16) \subseteq 0 .. img.memSize - 1
              /\ Span(to, 16) \subseteq 0 .. img.memSize - 1
    BY <1>2, BoundsCheck, 16 \in Nat
  <2> QED
    BY <1>0, <2>1, InsideParts
<1>8. \/ Trap("BAD_ADDR")
      \/ ok /\ (\E e \in Errors : TrapUsing(e, read))
      \/ /\ known /\ j[2] < ByteBase
         /\ Go([R EXCEPT ![j[2]] = to, ![REG_SP] = j[1]], saved, target,
               [used EXCEPT !.func = {j[0]}, !.reg = {j[2]}])
      \/ ok /\ Go([R EXCEPT ![REG_SP] = j[1]], saved, target, used)
  BY DEF CoroSwap, Errors
<1> HIDE DEF from, to, j, target, saved
<1>9. CASE Trap("BAD_ADDR")
  BY <1>0, <1>9, TrapKeepsInv, InsideParts DEF Trap, Errors
<1>10. CASE ok /\ (\E e \in Errors : TrapUsing(e, read))
  BY <1>7, <1>10, TrapKeepsInv
<1>11. CASE ok /\ Go([R EXCEPT ![REG_SP] = j[1]], saved, target, used)
  <2>1. [R EXCEPT ![REG_SP] = j[1]] \in Files
    BY <1>1, <1>2, <1>3 DEF Files
  <2> QED
    BY <1>5, <1>6, <1>7, <1>11, <2>1, GoKeepsInv
<1>12. CASE /\ known /\ j[2] < ByteBase
            /\ Go([R EXCEPT ![j[2]] = to, ![REG_SP] = j[1]], saved, target,
                  [used EXCEPT !.func = {j[0]}, !.reg = {j[2]}])
  <2>1. j[2] \in Byte
    BY <1>3, <1>12, ModFacts DEF Word, Byte
  <2>2. {j[0]} \subseteq 1 .. func_count - 1
    <3>1. j[0] \in Nat /\ func_count \in Nat /\ j[0] # 0 /\ j[0] < func_count
      BY <1>3, <1>4, <1>12, ImageFacts
    <3> QED
      BY <3>1
  <2>3. [R EXCEPT ![j[2]] = to, ![REG_SP] = j[1]] \in Files
    BY <1>1, <1>2, <1>3, <2>1 DEF Files
  <2>4. Inside([used EXCEPT !.func = {j[0]}, !.reg = {j[2]}])
    BY <1>7, <1>12, <2>1, <2>2 DEF Inside, UsedMem, Used, NoUse
  <2> QED
    BY <1>5, <1>6, <1>12, <2>3, <2>4, GoKeepsInv
<1> QED
  BY <1>8, <1>9, <1>10, <1>11, <1>12

LEMMA StartKeepsInv ==
  ASSUME TypeOK, MayStart, NEW start_pc \in Nat, NEW args \in ArgVectors,
         Start(start_pc, args)
  PROVE  Inv'
<1> DEFINE sp == img.memSize - 4
<1> DEFINE seeded == [r \in Byte |-> IF r < Len(args) THEN args[r + 1] ELSE 0]
<1>1. Inside(NoUse)
  BY DEF Inside, NoUse
<1>2. runs' \in 0 .. MaxRuns
  BY InputsAssumption DEF MayStart, TypeOK
<1>3. args \in Seq(Word)
  BY InputsAssumption
<1>4. seeded \in Files
  <2>1. ASSUME NEW r \in Byte PROVE seeded[r] \in Word
    <3>1. r \in Nat /\ 0 \in Word
      BY ModFacts DEF Byte, Word
    <3> QED
      BY <1>3, <3>1
  <2> QED
    BY <2>1 DEF Files
<1>5. img.memSize \in Word /\ REG_SP \in Byte
  BY ImageFacts, Operands
<1>6. CASE Len(args) > ByteBase /\ status' = "BAD_ADDR"
  <2>1. uses' = NoUse /\ UNCHANGED <<img, heap, R, pc, result>>
    BY <1>3, <1>6, ModFacts DEF Start
  <2> QED
    BY <1>1, <1>2, <1>6, <2>1
    DEF Inv, TypeOK, Sandboxed, Inside, Statuses, Errors, code_count, func_count
<1>7. CASE start_pc < code_count /\ pc' = start_pc /\ status' = "running"
  <2>1. pc' \in Word
    BY <1>7, ImageFacts, ModFacts DEF Word
  <2>2. UNCHANGED <<img, result>>
    BY DEF Start
  <2>3. CASE img.stackSize >= 4
    <3>0. /\ img.heapSize \in Word /\ img.stackSize \in Word
          /\ img.memSize = img.heapSize + img.stackSize
      BY ImageFacts DEF IsCart
    <3>1. sp \in Word /\ sp \in Int /\ sp \in Nat
      BY <1>5, <2>3, <3>0, ModFacts DEF Word
    <3>2. [seeded EXCEPT ![REG_SP] = sp] \in Files
      BY <1>4, <1>5, <3>1 DEF Files
    <3>3. WriteLE(heap, sp, 4, RET_SENTINEL) \in Memories
      <4>1. /\ heap \in Memories /\ img.memSize \in Int
            /\ RET_SENTINEL \in Nat /\ 4 \in 0 .. 4
        BY ImageFacts, ModFacts DEF TypeOK, Memories, RET_SENTINEL
      <4> QED
        BY <3>1, <4>1, WriteLEType, Zenon DEF Memories
    <3>4. Span(sp, 4) \subseteq 0 .. img.memSize - 1
      BY <3>1, ImageFacts DEF Span
    <3>5. Inside([NoUse EXCEPT !.mem = Span(sp, 4)])
      BY <3>4 DEF Inside, NoUse
    <3>6. /\ heap' = WriteLE(heap, sp, 4, RET_SENTINEL)
          /\ R' = [seeded EXCEPT ![REG_SP] = sp]
          /\ uses' = [NoUse EXCEPT !.mem = Span(sp, 4)]
      BY <1>7, <2>3 DEF Start
    <3> QED
      BY <1>2, <1>7, <2>1, <2>2, <3>2, <3>3, <3>5, <3>6
      DEF Inv, TypeOK, Sandboxed, Inside, Statuses, code_count, func_count,
          Files, Memories
  <2>4. CASE ~(img.stackSize >= 4)
    <3>1. [seeded EXCEPT ![REG_SP] = img.memSize] \in Files
      BY <1>4, <1>5 DEF Files
    <3>2. /\ R' = [seeded EXCEPT ![REG_SP] = img.memSize]
          /\ uses' = NoUse /\ heap' = heap
      BY <1>7, <2>4 DEF Start
    <3> QED
      BY <1>1, <1>2, <1>7, <2>1, <2>2, <3>1, <3>2
      DEF Inv, TypeOK, Sandboxed, Inside, Statuses, code_count, func_count, Files
  <2> QED
    BY <2>3, <2>4
<1> QED
  BY <1>6, <1>7 DEF Start

LEMMA HostKeepsInv == ASSUME TypeOK, Host PROVE Inv'
<1>1. ASSUME NEW e \in Errors, MayStart, Refuse(e) PROVE Inv'
  <2>1. Inside(NoUse)
    BY DEF Inside, NoUse
  <2>2. runs' \in 0 .. MaxRuns
    BY <1>1, InputsAssumption DEF MayStart, TypeOK
  <2> QED
    BY <1>1, <2>1, <2>2
    DEF Refuse, Inv, TypeOK, Sandboxed, Inside, Statuses, code_count, func_count
<1>2. ASSUME NEW args \in ArgVectors, cvm_run_args(args) PROVE Inv'
  <2>1. img.entry \in Nat
    BY ImageFacts DEF IsCart
  <2> QED
    BY <1>2, <2>1, StartKeepsInv DEF cvm_run_args
<1>3. ASSUME NEW fn \in FnIndexes, NEW args \in ArgVectors, cvm_call(fn, args)
      PROVE  Inv'
  <2>1. fn \in Nat
    BY InputsAssumption, ModFacts DEF Word
  <2>2. func_offsets(fn) \in Nat
    BY <2>1, ImageFacts, ModFacts DEF Word
  <2>3. {"BAD_FUNCS", "NULL_FUNC_PTR", "BAD_FUNC_INDEX"} \subseteq Errors
    BY DEF Errors
  <2> QED
    BY <1>1, <1>3, <2>2, <2>3, StartKeepsInv DEF cvm_call
<1> QED
  BY <1>2, <1>3 DEF Host

-----------------------------------------------------------------------------
(* Inv is inductive: its type half carries the induction, the sandbox half *)
(* follows from it at every step.                                          *)
LEMMA InvInit == Init => Inv
<1> SUFFICES ASSUME Init PROVE Inv
  OBVIOUS
<1>1. IsCart(img)
  BY CartsAssumption DEF Init
<1>2. heap \in [0 .. img.memSize - 1 -> Byte]
  BY <1>1 DEF Init, IsCart
<1>3. R \in [Byte -> Word] /\ pc \in Word /\ result \in Word
  BY ModFacts DEF Init, Zeros, Word
<1>4. runs \in 0 .. MaxRuns
  BY InputsAssumption DEF Init
<1> QED
  BY <1>2, <1>3, <1>4 DEF Init, Inv, TypeOK, Sandboxed, Inside, NoUse, Statuses

LEMMA InvNext == Inv /\ [Next]_vars => Inv'
<1> SUFFICES ASSUME Inv, [Next]_vars PROVE Inv'
  OBVIOUS
<1>0. TypeOK
  BY DEF Inv
<1>1. CASE UNCHANGED vars
  BY <1>1 DEF vars, Inv, TypeOK, Sandboxed, Inside, code_count, func_count
<1>2. CASE Done
  BY <1>1, <1>2 DEF Done
<1>3. CASE Host
  BY <1>0, <1>3, HostKeepsInv
<1>4. CASE Step
  <2>1. \A fid \in Nat : pc < code_count /\ Enter(fid) => Inv'
    BY <1>0, EnterKeepsInv
  <2>2. CASE Call
    BY <1>0, <2>1, <2>2, Operands DEF Call, Executes
  <2>3. CASE Callr
    <3>1. R[Fetch.a] \in Nat
      BY <1>0, Operands, ModFacts DEF Word
    <3> QED
      BY <2>1, <2>3, <3>1 DEF Callr, Executes
  <2> QED
    BY <1>0, <1>4, <2>2, <2>3, MovesKeepInv, MemoryKeepsInv, ControlKeepsInv,
       RetKeepsInv, SyscallKeepsInv, SetjmpKeepsInv, LongjmpKeepsInv,
       CoroSwapKeepsInv DEF Step
<1> QED
  BY <1>1, <1>2, <1>3, <1>4 DEF Next

(* Every run of every loaded image, from any entry point and with any      *)
(* arguments, keeps its registers, memory and outcome well-typed           *)
(* (cvm_exec_at).                                                          *)
THEOREM TypeCorrect == Spec => []TypeOK
<1>1. Inv => TypeOK
  BY DEF Inv
<1> QED
  BY <1>1, InvInit, InvNext, PTL DEF Spec

(* No instruction of any program indexes outside the code, the memory, the *)
(* FUNCS table, the import table or the register file: the bounds checks   *)
(* of cvm_exec_at are sufficient, at every word size.                      *)
THEOREM SandboxHolds == Spec => []Sandboxed
<1>1. Inv => Sandboxed
  BY DEF Inv
<1> QED
  BY <1>1, InvInit, InvNext, PTL DEF Spec
=============================================================================
