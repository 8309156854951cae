-------------------------- MODULE CvmControlProofs --------------------------
(***************************************************************************)
(* Proofs about control: CALL and RET implement CallStack for every cart   *)
(* that leaves the stack to them, and CORO_SWAP implements Coroutines for  *)
(* every cart whose coroutines keep to their records and stacks.           *)
(***************************************************************************)
EXTENDS CvmCalls, CvmCoro, CvmExecProofs, SequenceTheorems

-----------------------------------------------------------------------------
(* A word written to memory is read back, and not changed by a write       *)
(* elsewhere.                                                              *)

LEMMA DivideByBase ==
  ASSUME NEW n \in Nat, NEW m \in Nat, n < ByteBase * m
  PROVE  /\ n \div ByteBase \in 0 .. m - 1
         /\ n = (n % ByteBase) + ByteBase * (n \div ByteBase)
<1>1. PICK b \in Nat : b = ByteBase /\ b >= 4 BY ModFacts
<1>2. PICK q \in Nat, r \in Nat : q = n \div b /\ r = n % b /\ r < b
  BY <1>1
<1>3. n = b * q + r BY <1>1, <1>2
<1>4. q < m
  <2> SUFFICES ASSUME q >= m PROVE FALSE OBVIOUS
  <2>1. PICK k \in Nat : q = m + k /\ k = q - m BY <1>2
  <2>2. b * q = b * m + b * k /\ b * k \in Nat BY <1>1, <2>1
  <2> QED BY <1>1, <1>2, <1>3, <2>2
<1> QED BY <1>1, <1>2, <1>3, <1>4

LEMMA WordOfDigits ==
  ASSUME NEW v \in Word
  PROVE  Digit(v, 0) + ByteBase * (Digit(v, 1) + ByteBase *
           (Digit(v, 2) + ByteBase * Digit(v, 3))) = v
<1>1. v \in Nat /\ v < ByteBase * TriMod BY ModFacts DEF Word, WordMod
<1>2. PICK q \in Nat : q = v \div ByteBase /\ q < ByteBase * HalfMod
                       /\ v = (v % ByteBase) + ByteBase * q
  <2>1. TriMod \in Nat /\ TriMod = ByteBase * HalfMod BY ModFacts DEF TriMod
  <2>2. /\ v \div ByteBase \in 0 .. TriMod - 1
        /\ v = (v % ByteBase) + ByteBase * (v \div ByteBase)
    BY <1>1, <2>1, DivideByBase, Zenon
  <2> QED BY <2>1, <2>2
<1>3. PICK r \in Nat : r = q \div ByteBase /\ r < ByteBase * ByteBase
                       /\ q = (q % ByteBase) + ByteBase * r
  <2>1. HalfMod \in Nat /\ HalfMod = ByteBase * ByteBase BY ModFacts DEF HalfMod
  <2>2. /\ q \div ByteBase \in 0 .. HalfMod - 1
        /\ q = (q % ByteBase) + ByteBase * (q \div ByteBase)
    BY <1>2, <2>1, DivideByBase, Zenon
  <2> QED BY <2>1, <2>2
<1>4. PICK s \in Nat : s = r \div ByteBase /\ s < ByteBase
                       /\ r = (r % ByteBase) + ByteBase * s
  <2>1. /\ r \div ByteBase \in 0 .. ByteBase - 1
        /\ r = (r % ByteBase) + ByteBase * (r \div ByteBase)
    BY <1>3, ModFacts, DivideByBase, Zenon
  <2> QED BY <2>1, ModFacts
<1>5. s % ByteBase = s BY <1>4, ModFacts
<1>6. /\ Digit(v, 0) = v % ByteBase /\ Digit(v, 1) = q % ByteBase
      /\ Digit(v, 2) = r % ByteBase /\ Digit(v, 3) = s
  BY <1>2, <1>3, <1>4, <1>5 DEF Digit
<1> HIDE DEF Digit
<1> QED BY <1>2, <1>3, <1>4, <1>6

LEMMA ReadsWritten ==
  ASSUME NEW m \in Nat, NEW h \in [0 .. m - 1 -> Byte], NEW a \in Nat,
         a + 4 <= m, NEW v \in Word
  PROVE  ReadLE(WriteLE(h, a, 4, v), a, 4) = v
<1>0. 0 \in 0 .. 3 /\ 1 \in 0 .. 3 /\ 2 \in 0 .. 3 /\ 3 \in 0 .. 3 OBVIOUS
<1>1. ASSUME NEW k \in 0 .. 3 PROVE Peek(WriteLE(h, a, 4, v), a + k) = Digit(v, k)
  <2>1. a + k \in DOMAIN h /\ a + k \in a .. a + 4 - 1 /\ a + k - a = k OBVIOUS
  <2> HIDE DEF Digit
  <2> QED BY <2>1 DEF Peek, WriteLE
<1>2. /\ Peek(WriteLE(h, a, 4, v), a + 0) = Digit(v, 0)
      /\ Peek(WriteLE(h, a, 4, v), a + 1) = Digit(v, 1)
      /\ Peek(WriteLE(h, a, 4, v), a + 2) = Digit(v, 2)
      /\ Peek(WriteLE(h, a, 4, v), a + 3) = Digit(v, 3)
  BY <1>0, <1>1, Zenon
<1> HIDE DEF Digit, WriteLE
<1> QED BY <1>2, WordOfDigits DEF ReadLE

LEMMA ReadsSame ==
  ASSUME NEW g, NEW h, NEW a \in Int, DOMAIN g = DOMAIN h,
         \A k \in Span(a, 4) : k \in DOMAIN h => g[k] = h[k]
  PROVE  ReadLE(g, a, 4) = ReadLE(h, a, 4)
<1>0. 0 \in 0 .. 3 /\ 1 \in 0 .. 3 /\ 2 \in 0 .. 3 /\ 3 \in 0 .. 3 OBVIOUS
<1>1. ASSUME NEW k \in 0 .. 3 PROVE Peek(g, a + k) = Peek(h, a + k)
  <2>1. a + k \in Span(a, 4) BY DEF Span
  <2> QED BY <2>1 DEF Peek
<1>2. /\ Peek(g, a + 0) = Peek(h, a + 0) /\ Peek(g, a + 1) = Peek(h, a + 1)
      /\ Peek(g, a + 2) = Peek(h, a + 2) /\ Peek(g, a + 3) = Peek(h, a + 3)
  BY <1>0, <1>1, Zenon
<1> QED BY <1>2 DEF ReadLE

LEMMA WritesElsewhere ==
  ASSUME NEW m \in Nat, NEW h \in [0 .. m - 1 -> Byte], NEW a \in Int, NEW b \in Int,
         NEW v, Span(a, 4) \cap Span(b, 4) = {}
  PROVE  ReadLE(WriteLE(h, b, 4, v), a, 4) = ReadLE(h, a, 4)
<1>1. DOMAIN WriteLE(h, b, 4, v) = DOMAIN h BY DEF WriteLE
<1>2. ASSUME NEW k \in Span(a, 4), k \in DOMAIN h
      PROVE  WriteLE(h, b, 4, v)[k] = h[k]
  <2>1. k \notin b .. b + 4 - 1 BY <1>2 DEF Span
  <2> QED BY <1>2, <2>1 DEF WriteLE
<1> QED BY <1>1, <1>2, ReadsSame, Zenon

-----------------------------------------------------------------------------
(* What a step does, as far as control is concerned.                       *)

Leaves == {"LONGJMP", "CORO_SWAP"}
CallOps == {"CALL", "CALLR", "RET"}

LEMMA FlowIs ==
  ASSUME TypeOK, pc < code_count
  PROVE  /\ pc \in 0 .. Len(img.code) - 1 /\ img.code[pc + 1] = Fetch
         /\ Fetch.op \notin {"JMPR", "JMP", "HALT"} \cup CallOps =>
              <<pc, pc + 1>> \in Flow(img)
         /\ Fetch.op = "JMPR" => \A q \in 0 .. Len(img.code) - 1 : <<pc, q>> \in Flow(img)
         /\ Fetch.op = "JMP" =>
              <<pc, ToWord(pc + 1 + SignExtend(Imm24(Fetch), TriMod))>> \in Flow(img)
         /\ Fetch.op \in {"BEQ", "BNE"} =>
              <<pc, ToWord(pc + 1 + SignExtend(Fetch.c, ByteBase))>> \in Flow(img)
<1>1. pc \in Nat /\ code_count \in Nat BY NextPc, ImageFacts
<1>2. pc \in 0 .. Len(img.code) - 1 BY <1>1 DEF code_count
<1>3. img.code[pc + 1] = Fetch BY DEF Fetch
<1> DEFINE point == 0 .. Len(img.code) - 1
           after(p) == LET i == img.code[p + 1] IN
             CASE i.op = "JMPR" -> point
               [] i.op = "JMP" -> {ToWord(p + 1 + SignExtend(Imm24(i), TriMod))}
               [] i.op \in {"BEQ", "BNE"} ->
                    {p + 1, ToWord(p + 1 + SignExtend(i.c, ByteBase))}
               [] i.op \in {"CALL", "CALLR", "RET", "HALT"} -> {}
               [] OTHER -> {p + 1}
<1>4. \A x : x \in after(pc) => <<pc, x>> \in Flow(img)
  <2>1. Flow(img) = UNION {{p} \X after(p) : p \in point} BY DEF Flow
  <2> HIDE DEF after
  <2> QED BY <1>2, <2>1
<1>5. /\ Fetch.op \notin {"JMPR", "JMP", "HALT"} \cup CallOps => pc + 1 \in after(pc)
      /\ Fetch.op = "JMPR" => point \subseteq after(pc)
      /\ Fetch.op = "JMP" =>
           ToWord(pc + 1 + SignExtend(Imm24(Fetch), TriMod)) \in after(pc)
      /\ Fetch.op \in {"BEQ", "BNE"} =>
           ToWord(pc + 1 + SignExtend(Fetch.c, ByteBase)) \in after(pc)
  BY <1>3 DEF CallOps
<1> HIDE DEF after
<1> QED BY <1>2, <1>3, <1>4, <1>5

(* A step of the program that is neither a call nor a return: on to where  *)
(* the text says, or the end of the run.                                   *)
StaysLocal ==
  /\ Fetch.op \notin CallOps \cup Leaves
  /\ status' = "running" /\ <<pc, pc'>> \in Flow(img)

Fails  == Fetch.op \notin NeverFails /\ status' \in Errors \ {"STACK_OVERFLOW"}
Halts  == Fetch.op = "HALT" /\ status' = "OK"

Shape ==
  /\ status = "running" /\ img' = img
  /\ \/ pc >= code_count /\ status' = "BAD_PC"
     \/ pc < code_count /\ (StaysLocal \/ Fails \/ Halts \/ Fetch.op \in Leaves)
     \/ Call \/ Callr \/ Ret

Plain == Opcodes \ ({"JMPR", "JMP", "HALT"} \cup CallOps \cup Leaves)

LEMMA Shapes == ASSUME TypeOK, Step PROVE Shape
<1>1. ASSUME NEW op \in Plain, Executes(op), NEW r, NEW h, NEW u, Go(r, h, pc + 1, u)
      PROVE  Shape
  BY <1>1, FlowIs DEF Plain, Executes, Go, Shape, StaysLocal
<1>2. ASSUME NEW op \in Opcodes \cup {"BAD"}, op \notin NeverFails, Executes(op),
             NEW e \in Errors \ {"STACK_OVERFLOW"}, NEW u, TrapUsing(e, u)
      PROVE  Shape
  BY <1>2 DEF Executes, TrapUsing, Leave, Shape, Fails
<1> USE DEF SetReg, Trap, Jump
<1>3. CASE DispatchBadPc
  BY <1>3 DEF DispatchBadPc, TrapUsing, Leave, Shape
<1>4. CASE DispatchBadOpcode
  <2>1. "BAD" \notin NeverFails /\ "BAD_OPCODE" \in Errors \ {"STACK_OVERFLOW"}
    BY DEF NeverFails, AluOps, CmpOps, FloatOps, FloatCmpOps, Errors
  <2> QED BY <1>2, <1>4, <2>1 DEF DispatchBadOpcode
<1>5. CASE Halt
  BY <1>5 DEF Halt, Executes, Finish, Leave, Shape, Halts
<1>6. CASE Movi \/ Movhi \/ Mov \/ Fneg
  <2>1. {"MOVI", "MOVHI", "MOV", "FNEG"} \subseteq Plain
    BY DEF Plain, Opcodes, CallOps, Leaves
  <2> QED BY <1>1, <1>6, <2>1 DEF Movi, Movhi, Mov, Fneg
<1>7. CASE \E op \in AluOps : Binary(op)
  <2>1. AluOps \subseteq Plain
    BY DEF Plain, Opcodes, AluOps, CmpOps, CallOps, Leaves
  <2> QED BY <1>1, <1>7, <2>1 DEF Binary
<1>8. CASE \E op \in FloatOps : Float(op)
  <2>1. FloatOps \subseteq Plain
    BY DEF Plain, Opcodes, FloatOps, FloatCmpOps, CallOps, Leaves
  <2>2. PICK op \in FloatOps : Float(op) BY <1>8
  <2>3. PICK v : SetReg(Fetch.a, v) BY <2>2 DEF Float
  <2> QED BY <1>1, <2>1, <2>2, <2>3 DEF Float
<1>9. CASE Qdiv6432 \/ (\E op \in DivOps : Divide(op))
  <2>1. /\ DivOps \cup {"QDIV6432"} \subseteq Plain \ NeverFails
        /\ "DIV_BY_ZERO" \in Errors \ {"STACK_OVERFLOW"}
    BY DEF Plain, Opcodes, DivOps, CallOps, Leaves, NeverFails, AluOps, CmpOps,
           FloatOps, FloatCmpOps, Errors
  <2>2. Plain \subseteq Opcodes BY DEF Plain
  <2> QED BY <1>1, <1>2, <1>9, <2>1, <2>2 DEF Qdiv6432, Divide
<1>10. CASE \/ \E op \in LoadOps : Load(op)
            \/ \E op \in StoreOps : Store(op)
            \/ \E op \in CopyOps : Copy(op)
            \/ Memset
  <2>1. /\ LoadOps \cup StoreOps \cup CopyOps \cup {"MEMSET"} \subseteq Plain \ NeverFails
        /\ "BAD_ADDR" \in Errors \ {"STACK_OVERFLOW"}
    BY DEF Plain, Opcodes, LoadOps, StoreOps, CopyOps, CallOps, Leaves, NeverFails,
           AluOps, CmpOps, FloatOps, FloatCmpOps, Errors
  <2>2. Plain \subseteq Opcodes BY DEF Plain
  <2>3. CASE \E op \in LoadOps : Load(op)
    BY <1>1, <1>2, <2>1, <2>2, <2>3 DEF Load
  <2>4. CASE \E op \in StoreOps : Store(op)
    BY <1>1, <1>2, <2>1, <2>2, <2>4 DEF Store
  <2>5. CASE \E op \in CopyOps : Copy(op)
    <3>1. PICK op \in CopyOps : Copy(op) BY <2>5
    <3>2. Executes(op) /\ op \in Plain \ NeverFails BY <2>1, <3>1 DEF Copy
    <3>3. Trap("BAD_ADDR") \/ \E h, u : Go(R, h, pc + 1, u) BY <3>1 DEF Copy
    <3> QED BY <1>1, <1>2, <2>1, <2>2, <3>2, <3>3
  <2>6. CASE Memset
    BY <1>1, <1>2, <2>1, <2>2, <2>6 DEF Memset
  <2> QED BY <1>10, <2>3, <2>4, <2>5, <2>6
<1>11. CASE Jmp
  BY <1>11, FlowIs DEF Jmp, Executes, Go, Shape, StaysLocal, CallOps, Leaves
<1>12. CASE \E op \in {"BEQ", "BNE"} : Branch(op)
  <2>1. {"BEQ", "BNE"} \cap ({"JMPR", "JMP", "HALT"} \cup CallOps \cup Leaves) = {}
    BY DEF CallOps, Leaves
  <2>2. PICK op \in {"BEQ", "BNE"} : Branch(op) BY <1>12
  <2>3. Executes(op) /\ (Jump(ToWord(pc + 1 + SignExtend(Fetch.c, ByteBase))) \/ Jump(pc + 1))
    BY <2>2 DEF Branch
  <2> QED BY <2>1, <2>2, <2>3, FlowIs DEF Executes, Go, Shape, StaysLocal
<1>13. CASE Jmpr
  <2>1. "JMPR" \in Opcodes \ NeverFails /\ "BAD_PC" \in Errors \ {"STACK_OVERFLOW"}
    BY DEF Opcodes, NeverFails, AluOps, CmpOps, FloatOps, FloatCmpOps, Errors
  <2>2. CASE Trap("BAD_PC") BY <1>2, <1>13, <2>1, <2>2 DEF Jmpr
  <2>3. CASE R[Fetch.a] < code_count /\ Jump(R[Fetch.a])
    <3>1. R[Fetch.a] \in 0 .. Len(img.code) - 1
      <4>1. R[Fetch.a] \in Nat BY Operands, ModFacts DEF Word
      <4>2. code_count \in Nat BY ImageFacts
      <4> QED BY <2>3, <4>1, <4>2 DEF code_count
    <3> QED
      BY <1>13, <2>3, <3>1, FlowIs
      DEF Jmpr, Executes, Go, Shape, StaysLocal, CallOps, Leaves
  <2> QED BY <1>13, <2>2, <2>3 DEF Jmpr
<1>14. CASE Call \/ Callr \/ Ret
  <2>1. img' = img /\ status = "running"
    BY <1>14 DEF Call, Callr, Ret, Enter, Executes, Go, TrapUsing, Finish, Leave
  <2> QED BY <1>14, <2>1 DEF Shape
<1>15. CASE Syscall
  <2>1. /\ "SYSCALL" \in Plain \ NeverFails /\ Plain \subseteq Opcodes
        /\ {"BAD_SYSCALL", "UNLINKED_SYSCALL", "SYSCALL_TRAP"}
             \subseteq Errors \ {"STACK_OVERFLOW"}
    BY DEF Plain, Opcodes, CallOps, Leaves, NeverFails, AluOps, CmpOps, FloatOps,
           FloatCmpOps, Errors
  <2>2. Executes("SYSCALL") BY <1>15 DEF Syscall
  <2>3. \/ \E e \in {"BAD_SYSCALL", "UNLINKED_SYSCALL", "SYSCALL_TRAP"} : Trap(e)
        \/ \E r, h, u : Go(r, h, pc + 1, u)
    BY <1>15 DEF Syscall, Invoke, get_region, HostHandler, cvm_heap_read, cvm_heap_write
  <2> QED BY <1>1, <1>2, <2>1, <2>2, <2>3
<1>16. CASE Setjmp
  <2>1. /\ "SETJMP" \in Plain \ NeverFails /\ Plain \subseteq Opcodes
        /\ "BAD_ADDR" \in Errors \ {"STACK_OVERFLOW"}
    BY DEF Plain, Opcodes, CallOps, Leaves, NeverFails, AluOps, CmpOps, FloatOps,
           FloatCmpOps, Errors
  <2> QED BY <1>1, <1>2, <1>16, <2>1 DEF Setjmp
<1>17. CASE Longjmp \/ CoroSwap
  <2>1. /\ Fetch.op \in Leaves /\ pc < code_count /\ status = "running"
    BY <1>17 DEF Longjmp, CoroSwap, Executes, Leaves
  <2>2. img' = img
    BY <1>17 DEF Longjmp, CoroSwap, Go, TrapUsing, Leave
  <2> QED BY <2>1, <2>2 DEF Shape
<1> QED
  BY <1>3, <1>4, <1>5, <1>6, <1>7, <1>8, <1>9, <1>10, <1>11, <1>12, <1>13, <1>14,
     <1>15, <1>16, <1>17 DEF Step

-----------------------------------------------------------------------------
(* The stack of a run: a sentinel, then one return address per call that   *)
(* has not returned.                                                       *)

Slot(k) == img.memSize - 4 - 4 * k

StackHolds(d) ==
  /\ R[REG_SP] = Slot(d) /\ Slot(d) >= 0
  /\ ReadLE(heap, Slot(0), 4) = RET_SENTINEL
  /\ \A k \in 1 .. d : ReadLE(heap, Slot(k), 4) \in 0 .. code_count

Framed == status = "running" => \E d \in Nat : StackHolds(d)

Returns(d) == [k \in 1 .. d |-> ReadLE(heap, Slot(k), 4)]

LEMMA SlotFacts ==
  ASSUME TypeOK
  PROVE  /\ \A k \in Nat : Slot(k) \in Int /\ Slot(k) + 4 * k = img.memSize - 4
         /\ \A j, k \in Nat : j # k => Span(Slot(j), 4) \cap Span(Slot(k), 4) = {}
<1>1. img.memSize \in Nat BY ImageFacts
<1> QED BY <1>1 DEF Slot, Span

LEMMA FramesAre ==
  ASSUME TypeOK, status = "running", NEW d \in Nat, StackHolds(d)
  PROVE  Depth = d /\ Frames = Returns(d)
<1>1. PICK m \in Nat : m = img.memSize BY ImageFacts
<1>2. m - R[REG_SP] = 4 + 4 * d BY <1>1 DEF StackHolds, Slot
<1>3. Depth = d BY <1>1, <1>2 DEF Depth
<1> QED BY <1>3 DEF Frames, Returns, Slot

LEMMA FramesRule ==
  TypeOK /\ status = "running" =>
    \A x \in Nat : StackHolds(x) => Frames = Returns(x)
BY FramesAre

LEMMA FramesLater ==
  (TypeOK /\ status = "running" =>
     \A x \in Nat : StackHolds(x) => Frames = Returns(x))'
BY FramesRule, PTL

LEMMA FramesNext ==
  ASSUME TypeOK', status' = "running", NEW d \in Nat, StackHolds(d)'
  PROVE  Frames' = Returns(d)'
BY FramesLater

LEMMA FunctionSeq ==
  ASSUME NEW n \in Nat, NEW S, NEW f \in [1 .. n -> S]
  PROVE  f \in Seq(S) /\ Len(f) = n
OBVIOUS

LEMMA ReturnsSeq ==
  ASSUME NEW d \in Nat, \A k \in 1 .. d : ReadLE(heap, Slot(k), 4) \in 0 .. code_count
  PROVE  /\ Returns(d) \in Seq(0 .. code_count) /\ Len(Returns(d)) = d
         /\ \A k \in 1 .. d : Returns(d)[k] = ReadLE(heap, Slot(k), 4)
<1>1. Returns(d) \in [1 .. d -> 0 .. code_count] BY DEF Returns
<1> QED BY <1>1 DEF Returns

LEMMA TextIs ==
  ASSUME TypeOK
  PROVE  /\ TextOf(img).size = code_count /\ TextOf(img).flow = Flow(img)
         /\ TextOf(img).depth = (img.memSize \div 4) - 1
         /\ TextOf(img).halts = At(img, {"HALT"})
         /\ TextOf(img).faults = At(img, (Opcodes \cup {"BAD"}) \ NeverFails)
         /\ img.entry \in TextOf(img).entries
         /\ \A fid \in Nat : fid # 0 /\ fid < func_count =>
              func_offsets(fid) \in TextOf(img).entries
<1>1. ASSUME NEW fid \in Nat, fid # 0, fid < func_count
      PROVE  func_offsets(fid) \in {img.funcs[k] : k \in 2 .. Len(img.funcs)}
  <2>1. func_count \in Nat BY ImageFacts
  <2>2. fid + 1 \in 2 .. Len(img.funcs) BY <1>1, <2>1 DEF func_count
  <2> QED BY <1>1, <2>2 DEF func_offsets
<1> QED BY <1>1 DEF TextOf, code_count

LEMMA PhaseRunning == Phase = "running" <=> status = "running"
BY DEF Phase

LEMMA EndsIdle == ASSUME status # "running" PROVE Frames = <<>>
BY DEF Frames

(* CALL: one more return address.                                          *)
LEMMA Deeper ==
  ASSUME TypeOK, TypeOK', img' = img, pc < code_count, NEW d \in Nat, StackHolds(d),
         R[REG_SP] >= 4,
         R'[REG_SP] = R[REG_SP] - 4, heap' = WriteLE(heap, R[REG_SP] - 4, 4, pc + 1)
  PROVE  StackHolds(d + 1)' /\ Returns(d + 1)' = Append(Returns(d), pc + 1)
<1>1. PICK m \in Nat : m = img.memSize BY ImageFacts
<1>2. R[REG_SP] - 4 = Slot(d + 1) /\ Slot(d + 1) >= 0 /\ Slot(d + 1) \in Nat
      /\ Slot(d + 1) + 4 <= m
  BY <1>1 DEF StackHolds, Slot
<1>3. \A k : Slot(k)' = Slot(k) BY DEF Slot
<1>4. heap \in [0 .. m - 1 -> Byte] /\ pc + 1 \in Word /\ pc + 1 \in 0 .. code_count
  BY <1>1, NextPc, ImageFacts DEF TypeOK
<1>5. /\ heap' = WriteLE(heap, Slot(d + 1), 4, pc + 1)
      /\ ReadLE(heap', Slot(d + 1), 4) = pc + 1
  <2>1. heap' = WriteLE(heap, Slot(d + 1), 4, pc + 1) BY <1>2
  <2> QED BY <1>1, <1>2, <1>4, <2>1, ReadsWritten
<1>6. ASSUME NEW k \in 0 .. d PROVE ReadLE(heap', Slot(k), 4) = ReadLE(heap, Slot(k), 4)
  <2>1. k \in Nat /\ d + 1 \in Nat /\ k # d + 1 OBVIOUS
  <2>2. Slot(k) \in Int /\ Slot(d + 1) \in Int
        /\ Span(Slot(k), 4) \cap Span(Slot(d + 1), 4) = {}
    BY <2>1, SlotFacts
  <2> QED BY <1>1, <1>4, <1>5, <2>2, WritesElsewhere
<1>7. code_count' = code_count BY DEF code_count
<1>8. \A k \in 1 .. d + 1 : ReadLE(heap', Slot(k), 4) \in 0 .. code_count
  <2> SUFFICES ASSUME NEW k \in 1 .. d + 1
               PROVE  ReadLE(heap', Slot(k), 4) \in 0 .. code_count
    OBVIOUS
  <2>1. CASE k = d + 1 BY <1>4, <1>5, <2>1
  <2>2. CASE k # d + 1
    <3>1. k \in 0 .. d /\ k \in 1 .. d BY <2>2
    <3> QED BY <1>6, <3>1 DEF StackHolds
  <2> QED BY <2>1, <2>2
<1>9. StackHolds(d + 1)'
  <2>1. ReadLE(heap', Slot(0), 4) = RET_SENTINEL
    BY <1>6, 0 \in 0 .. d DEF StackHolds
  <2>2. RET_SENTINEL' = RET_SENTINEL /\ REG_SP' = REG_SP BY DEF RET_SENTINEL, REG_SP
  <2> QED BY <1>2, <1>3, <1>7, <1>8, <2>1, <2>2 DEF StackHolds
<1>10. Returns(d + 1)' = Append(Returns(d), pc + 1)
  <2> DEFINE s == Append(Returns(d), pc + 1)
             t == Returns(d + 1)'
  <2>1. t = [k \in 1 .. d + 1 |-> ReadLE(heap', Slot(k), 4)]
    BY <1>3 DEF Returns
  <2>2. t \in Seq(0 .. code_count) /\ Len(t) = d + 1
    <3>1. t \in [1 .. d + 1 -> 0 .. code_count] BY <1>8, <2>1
    <3> HIDE DEF t
    <3> QED BY <3>1, d + 1 \in Nat, FunctionSeq, Zenon
  <2>3. /\ Returns(d) \in Seq(0 .. code_count) /\ Len(Returns(d)) = d
        /\ \A k \in 1 .. d : Returns(d)[k] = ReadLE(heap, Slot(k), 4)
    BY ReturnsSeq DEF StackHolds
  <2>4. /\ s \in Seq(0 .. code_count) /\ Len(s) = d + 1
        /\ \A k \in 1 .. d : s[k] = Returns(d)[k]
        /\ s[d + 1] = pc + 1
    <3>1. pc + 1 \in 0 .. code_count BY <1>4
    <3>2. /\ s \in Seq(0 .. code_count) /\ Len(s) = Len(Returns(d)) + 1
          /\ \A k \in 1 .. Len(Returns(d)) : s[k] = Returns(d)[k]
          /\ s[Len(Returns(d)) + 1] = pc + 1
      BY <2>3, <3>1, AppendProperties
    <3> HIDE DEF s
    <3> QED BY <2>3, <3>2, Zenon
  <2>5. ASSUME NEW k \in 1 .. d + 1 PROVE t[k] = s[k]
    <3>1. CASE k = d + 1 BY <1>5, <2>1, <2>4, <3>1
    <3>2. CASE k # d + 1
      <4>1. k \in 1 .. d /\ k \in 0 .. d BY <3>2
      <4> QED BY <1>6, <2>1, <2>3, <2>4, <4>1
    <3> QED BY <3>1, <3>2
  <2> HIDE DEF s, t
  <2>6. t = s BY <2>2, <2>4, <2>5, SeqEqual, Zenon
  <2> QED BY <2>6 DEF s, t
<1> QED BY <1>9, <1>10

(* RET: one less.                                                          *)
LEMMA Shallower ==
  ASSUME TypeOK, img' = img, NEW d \in Nat, d > 0, StackHolds(d),
         R'[REG_SP] = ToWord(R[REG_SP] + 4), heap' = heap
  PROVE  /\ StackHolds(d - 1)' /\ Returns(d) # <<>>
         /\ Returns(d - 1)' = Stack!Front(Returns(d))
         /\ Stack!Last(Returns(d)) = ReadLE(heap, R[REG_SP], 4)
<1>1. PICK m \in Nat : m = img.memSize /\ m \in Word BY ImageFacts
<1>2. R[REG_SP] + 4 = Slot(d - 1) /\ Slot(d - 1) \in Word /\ d - 1 \in Nat
  BY <1>1, ModFacts DEF StackHolds, Slot, Word
<1>3. ToWord(R[REG_SP] + 4) = Slot(d - 1) BY <1>2, ModFacts DEF ToWord, Word
<1>4. StackHolds(d - 1)'
  <2>1. /\ \A k : Slot(k)' = Slot(k)
        /\ code_count' = code_count /\ RET_SENTINEL' = RET_SENTINEL /\ REG_SP' = REG_SP
    BY DEF Slot, code_count, RET_SENTINEL, REG_SP
  <2>2. \A k \in 1 .. d - 1 : k \in 1 .. d BY <1>2
  <2>3. Slot(d - 1) >= 0 BY <1>2, ModFacts DEF Word
  <2> QED BY <1>2, <1>3, <2>1, <2>2, <2>3 DEF StackHolds
<1>5. /\ Returns(d) \in Seq(0 .. code_count) /\ Len(Returns(d)) = d
      /\ \A k \in 1 .. d : Returns(d)[k] = ReadLE(heap, Slot(k), 4)
  BY ReturnsSeq DEF StackHolds
<1>6. Stack!Last(Returns(d)) = ReadLE(heap, R[REG_SP], 4)
  BY <1>5, d \in 1 .. d DEF Stack!Last, StackHolds
<1>7. Returns(d) # <<>> BY <1>5
<1>8. Returns(d - 1)' = Stack!Front(Returns(d))
  <2> DEFINE s == Stack!Front(Returns(d))
             t == Returns(d - 1)'
  <2>1. t = [k \in 1 .. d - 1 |-> ReadLE(heap, Slot(k), 4)]
    BY DEF Returns, Slot
  <2>2. \A k \in 1 .. d - 1 : k \in 1 .. d BY <1>2
  <2>3. t \in Seq(0 .. code_count) /\ Len(t) = d - 1
    <3>1. t \in [1 .. d - 1 -> 0 .. code_count] BY <2>1, <2>2 DEF StackHolds
    <3> HIDE DEF t
    <3> QED BY <1>2, <3>1, FunctionSeq, Zenon
  <2>4. /\ s \in Seq(0 .. code_count) /\ Len(s) = d - 1
        /\ \A k \in 1 .. d - 1 : s[k] = Returns(d)[k]
    <3>1. s = SubSeq(Returns(d), 1, d - 1) BY <1>5 DEF Stack!Front
    <3>2. \A k \in 1 .. d - 1 : Returns(d)[k] \in 0 .. code_count BY <1>5, <2>2 DEF StackHolds
    <3> QED BY <1>2, <1>5, <3>1, <3>2, SubSeqProperties
  <2>5. \A k \in 1 .. d - 1 : t[k] = s[k] BY <1>5, <2>1, <2>2, <2>4
  <2> HIDE DEF s, t
  <2>6. t = s BY <2>3, <2>4, <2>5, SeqEqual, Zenon
  <2> QED BY <2>6 DEF s, t
<1> QED BY <1>4, <1>6, <1>7, <1>8

-----------------------------------------------------------------------------
(* Each step is a step of CallStack.                                       *)

LEMMA EndOfRun ==
  ASSUME status = "running", img' = img, NEW e \in Errors \cup {"OK"}, status' = e,
         NEW p, p = CASE e = "OK" -> "done" [] e = "STACK_OVERFLOW" -> "overflow"
                      [] OTHER -> "trapped"
  PROVE  Stack!End(p) /\ Framed'
<1>1. e # "running" /\ e # "idle" BY DEF Errors
<1>2. Phase = "running" BY DEF Phase
<1>3. Phase' = p BY <1>1 DEF Phase
<1>4. Frames' = <<>> BY <1>1 DEF Frames
<1>5. TextOf(img)' = TextOf(img) BY DEF TextOf, At, Flow
<1> QED BY <1>1, <1>2, <1>3, <1>4, <1>5 DEF Stack!End, Framed

LEMMA AtOp ==
  ASSUME TypeOK, pc < code_count, NEW ops, Fetch.op \in ops PROVE pc \in At(img, ops)
BY FlowIs DEF At

LEMMA FailStep ==
  ASSUME TypeOK, pc < code_count, status = "running", img' = img,
         Fetch.op \notin NeverFails,
         NEW e \in Errors \ {"STACK_OVERFLOW"}, status' = e
  PROVE  Stack!NextStack /\ Framed'
<1>1. e # "OK" /\ e \in Errors BY DEF Errors
<1>2. Stack!End("trapped") /\ Framed' BY <1>1, EndOfRun
<1>3. Fetch.op \in (Opcodes \cup {"BAD"}) \ NeverFails BY FetchType DEF Instruction
<1>4. pc \in TextOf(img).faults BY <1>3, AtOp, TextIs
<1> QED BY <1>2, <1>4 DEF Stack!NextStack, Stack!Fault

LEMMA CallStep ==
  ASSUME TypeOK, TypeOK', Framed, status = "running", pc < code_count,
         NEW fid \in Nat, Enter(fid), Fetch.op \in {"CALL", "CALLR"}
  PROVE  Stack!NextStack /\ Framed'
<1>1. PICK d \in Nat : StackHolds(d) BY DEF Framed
<1>2. Frames = Returns(d) /\ Depth = d BY <1>1, FramesAre
<1>3. Len(Returns(d)) = d BY <1>1, ReturnsSeq DEF StackHolds
<1>4. PICK m \in Nat : m = img.memSize BY ImageFacts
<1>5. R[REG_SP] = m - 4 - 4 * d /\ R[REG_SP] \in Nat /\ R[REG_SP] >= 0
  BY <1>1, <1>4, Operands, ModFacts DEF StackHolds, Slot, Word
<1>6. Fetch.op \notin NeverFails
  BY DEF NeverFails, AluOps, CmpOps, FloatOps, FloatCmpOps
<1>7. CASE Trap("NULL_FUNC_PTR") \/ Trap("BAD_FUNC_INDEX")
  <2>1. PICK e \in {"NULL_FUNC_PTR", "BAD_FUNC_INDEX"} : Trap(e) BY <1>7
  <2>2. e \in Errors \ {"STACK_OVERFLOW"} BY DEF Errors
  <2> QED BY <1>6, <2>1, <2>2, FailStep DEF Trap, TrapUsing, Leave
<1>8. CASE (R[REG_SP] < 4 \/ R[REG_SP] > img.memSize) /\ Trap("STACK_OVERFLOW")
  <2>1. R[REG_SP] < 4 BY <1>4, <1>5, <1>8
  <2>2. m \div 4 - 1 = d BY <1>5, <2>1
  <2>3. status' = "STACK_OVERFLOW" /\ img' = img BY <1>8 DEF Trap, TrapUsing, Leave
  <2>4. "STACK_OVERFLOW" \in Errors BY DEF Errors
  <2>5. Stack!End("overflow") /\ Framed' BY <2>3, <2>4, EndOfRun
  <2> QED
    BY <1>2, <1>3, <1>4, <2>2, <2>5, TextIs DEF Stack!NextStack, Stack!CallTooMany
<1>9. CASE /\ fid # 0 /\ fid < func_count /\ R[REG_SP] >= 4 /\ R[REG_SP] <= img.memSize
           /\ \E u : Go([R EXCEPT ![REG_SP] = R[REG_SP] - 4],
                        WriteLE(heap, R[REG_SP] - 4, 4, pc + 1), func_offsets(fid), u)
  <2>1. /\ img' = img /\ status' = "running" /\ pc' = func_offsets(fid)
        /\ heap' = WriteLE(heap, R[REG_SP] - 4, 4, pc + 1)
        /\ R'[REG_SP] = R[REG_SP] - 4
    BY <1>9, Operands DEF Go, TypeOK
  <2>2. StackHolds(d + 1)' /\ Returns(d + 1)' = Append(Returns(d), pc + 1)
    BY <1>1, <1>9, <2>1, Deeper
  <2>3. Frames' = Append(Frames, pc + 1)
    <3>1. Frames' = Returns(d + 1)' BY <2>1, <2>2, d + 1 \in Nat, FramesNext
    <3> QED BY <1>2, <2>2, <3>1
  <2>4. d < m \div 4 - 1 BY <1>4, <1>5, <1>9
  <2>5. Phase = "running" /\ Phase' = "running" BY <2>1 DEF Phase
  <2>6. Framed' BY <2>2, d + 1 \in Nat DEF Framed
  <2>7. TextOf(img)' = TextOf(img) BY <2>1 DEF TextOf, At, Flow
  <2> QED
    BY <1>2, <1>3, <1>4, <1>9, <2>1, <2>3, <2>4, <2>5, <2>6, <2>7, TextIs
    DEF Stack!NextStack, Stack!CallFunction
<1> QED BY <1>7, <1>8, <1>9 DEF Enter

LEMMA RetStep ==
  ASSUME TypeOK, TypeOK', Framed, Ret
  PROVE  Stack!NextStack /\ Framed'
<1>0. status = "running" /\ pc < code_count /\ pc \in Nat
  BY NextPc DEF Ret, Executes
<1>1. PICK d \in Nat : StackHolds(d) BY <1>0 DEF Framed
<1>2. Frames = Returns(d) BY <1>0, <1>1, FramesAre
<1>3. PICK m \in Nat : m = img.memSize BY ImageFacts
<1>4. R[REG_SP] = m - 4 - 4 * d /\ R[REG_SP] >= 0
  BY <1>1, <1>3 DEF StackHolds, Slot
<1>5. InBounds(R[REG_SP], 4) BY <1>3, <1>4 DEF InBounds
<1> DEFINE sp == R[REG_SP]
           ret_pc == ReadLE(heap, sp, 4)
           popped == [R EXCEPT ![REG_SP] = ToWord(sp + 4)]
<1>6. \/ ret_pc = RET_SENTINEL /\ \E v, u : Finish(v, u)
      \/ ret_pc # RET_SENTINEL /\ \E u : Go(popped, heap, ret_pc, u)
  BY <1>5 DEF Ret
<1>7. d > 0 => ret_pc \in 0 .. code_count /\ ret_pc # RET_SENTINEL
  <2> SUFFICES ASSUME d > 0 PROVE ret_pc \in 0 .. code_count /\ ret_pc # RET_SENTINEL
    OBVIOUS
  <2>1. ret_pc \in 0 .. code_count
    BY <1>1, d \in 1 .. d DEF StackHolds
  <2>2. code_count \in Nat /\ code_count < WordMod - 1 /\ WordMod \in Nat
    BY ImageFacts, ModFacts
  <2> HIDE DEF ret_pc
  <2> QED BY <2>1, <2>2 DEF RET_SENTINEL
<1>8. d = 0 => ret_pc = RET_SENTINEL BY <1>1 DEF StackHolds
<1>9. TextOf(img).size = code_count BY TextIs
<1>10. CASE d = 0
  <2>1. status' = "OK" /\ img' = img BY <1>6, <1>8, <1>10 DEF Finish, Leave, Go
  <2>2. Stack!End("done") /\ Framed' BY <1>0, <2>1, EndOfRun
  <2>3. Frames = <<>> BY <1>2, <1>10 DEF Returns
  <2> QED BY <1>0, <1>9, <2>2, <2>3 DEF Stack!NextStack, Stack!ReturnFromMain
<1>11. CASE d > 0
  <2>1. \E u : Go(popped, heap, ret_pc, u) BY <1>6, <1>7, <1>11
  <2>2. /\ img' = img /\ status' = "running" /\ pc' = ret_pc /\ heap' = heap
        /\ R'[REG_SP] = ToWord(sp + 4)
    BY <1>0, <2>1, Operands DEF Go, TypeOK
  <2>3. /\ StackHolds(d - 1)' /\ Returns(d) # <<>>
        /\ Returns(d - 1)' = Stack!Front(Returns(d))
        /\ Stack!Last(Returns(d)) = ret_pc
    BY <1>1, <1>11, <2>2, Shallower
  <2>4. d - 1 \in Nat BY <1>11
  <2>5. Frames' = Returns(d - 1)' BY <2>2, <2>3, <2>4, FramesNext
  <2>6. Framed' BY <2>3, <2>4 DEF Framed
  <2>7. Phase = "running" /\ Phase' = "running" BY <1>0, <2>2 DEF Phase
  <2>8. TextOf(img)' = TextOf(img) BY <2>2 DEF TextOf, At, Flow
  <2> HIDE DEF sp, ret_pc
  <2> QED
    BY <1>0, <1>2, <1>9, <2>2, <2>3, <2>5, <2>6, <2>7, <2>8
    DEF Stack!NextStack, Stack!ReturnToCaller
<1> QED BY <1>10, <1>11

LEMMA LocalStep ==
  ASSUME TypeOK, TypeOK', Framed, LeavesStack, status = "running", pc < code_count,
         img' = img, StaysLocal
  PROVE  Stack!NextStack /\ Framed'
<1>1. PICK d \in Nat : StackHolds(d) BY DEF Framed
<1>2. Frames = Returns(d) BY <1>1, FramesAre
<1>3. /\ R'[REG_SP] = R[REG_SP]
      /\ \A k \in R[REG_SP] .. img.memSize - 1 : heap'[k] = heap[k]
      /\ status' = "running" /\ <<pc, pc'>> \in Flow(img)
  BY DEF StaysLocal, LeavesStack, CallOps, Leaves
<1>4. PICK m \in Nat : m = img.memSize BY ImageFacts
<1>5. \A k : Slot(k)' = Slot(k) BY DEF Slot
<1>6. ASSUME NEW k \in 0 .. d PROVE ReadLE(heap', Slot(k), 4) = ReadLE(heap, Slot(k), 4)
  <2>1. DOMAIN heap' = DOMAIN heap /\ DOMAIN heap = 0 .. m - 1 BY <1>4 DEF TypeOK
  <2>2. Slot(k) \in Int /\ Slot(k) >= R[REG_SP] BY <1>1, <1>4 DEF StackHolds, Slot
  <2>3. R[REG_SP] \in Int BY Operands, ModFacts DEF Word
  <2>4. \A j \in Span(Slot(k), 4) : j \in DOMAIN heap => heap'[j] = heap[j]
    BY <1>3, <1>4, <2>1, <2>2, <2>3 DEF Span
  <2> QED BY <2>1, <2>2, <2>4, ReadsSame
<1>7. StackHolds(d)'
  <2>1. code_count' = code_count /\ RET_SENTINEL' = RET_SENTINEL /\ REG_SP' = REG_SP
    BY DEF code_count, RET_SENTINEL, REG_SP
  <2>2. ReadLE(heap', Slot(0), 4) = RET_SENTINEL BY <1>1, <1>6, 0 \in 0 .. d DEF StackHolds
  <2>3. \A k \in 1 .. d : k \in 0 .. d OBVIOUS
  <2> QED BY <1>1, <1>3, <1>5, <1>6, <2>1, <2>2, <2>3 DEF StackHolds
<1>8. Returns(d)' = Returns(d)
  <2>1. Returns(d)' = [k \in 1 .. d |-> ReadLE(heap', Slot(k), 4)] BY <1>5 DEF Returns
  <2>2. \A k \in 1 .. d : k \in 0 .. d OBVIOUS
  <2> QED BY <1>6, <2>1, <2>2 DEF Returns
<1>9. Frames' = Frames BY <1>2, <1>3, <1>7, <1>8, FramesNext
<1>10. Phase = "running" /\ Phase' = "running" BY <1>3 DEF Phase
<1>11. TextOf(img)' = TextOf(img) BY DEF TextOf, At, Flow
<1>12. Framed' BY <1>7 DEF Framed
<1> QED BY <1>3, <1>9, <1>10, <1>11, <1>12, TextIs DEF Stack!NextStack, Stack!Local

(* Starting a run puts the sentinel on an empty stack.                     *)
LEMMA StartStep ==
  ASSUME TypeOK, TypeOK', img.stackSize >= 4, status # "running",
         NEW start_pc \in TextOf(img).entries, NEW args, Start(start_pc, args)
  PROVE  Stack!NextStack /\ Framed'
<1>1. TextOf(img)' = TextOf(img) /\ img' = img
  BY DEF Start, TextOf, At, Flow
<1>2. Phase # "running" /\ Frames = <<>> BY DEF Phase, Frames
<1>3. CASE status' = "BAD_ADDR" /\ UNCHANGED <<heap, R, pc>>
  <2>1. Phase' = "trapped" /\ Frames' = <<>> BY <1>3 DEF Phase, Frames
  <2> QED
    BY <1>1, <1>2, <1>3, <2>1 DEF Stack!NextStack, Stack!Refused, Framed
<1>4. CASE /\ heap' = WriteLE(heap, img.memSize - 4, 4, RET_SENTINEL)
           /\ R'[REG_SP] = img.memSize - 4 /\ pc' = start_pc /\ status' = "running"
  <2>1. PICK m \in Nat : m = img.memSize /\ m >= 4
    <3>1. IsCart(img) /\ img.memSize \in Nat BY ImageFacts
    <3>2. /\ img.heapSize \in Word /\ img.stackSize \in Word
          /\ img.memSize = img.heapSize + img.stackSize
      BY <3>1 DEF IsCart
    <3> QED BY <3>1, <3>2, ModFacts DEF Word
  <2>2. heap \in [0 .. m - 1 -> Byte] /\ m - 4 \in Nat /\ RET_SENTINEL \in Word
    BY <2>1, ModFacts DEF TypeOK, RET_SENTINEL, Word
  <2>3. ReadLE(heap', m - 4, 4) = RET_SENTINEL
    BY <1>4, <2>1, <2>2, ReadsWritten
  <2>4. Slot(0)' = m - 4 BY <1>1, <2>1 DEF Slot
  <2>5. StackHolds(0)'
    BY <1>4, <2>1, <2>2, <2>3, <2>4 DEF StackHolds, REG_SP, RET_SENTINEL
  <2>6. Frames' = <<>>
    <3>1. Frames' = Returns(0)' BY <1>4, <2>5, 0 \in Nat, FramesNext
    <3> QED BY <3>1 DEF Returns
  <2>7. Framed' BY <2>5, 0 \in Nat DEF Framed
  <2>8. Phase' = "running" BY <1>4 DEF Phase
  <2> QED BY <1>1, <1>2, <1>4, <2>6, <2>7, <2>8 DEF Stack!NextStack, Stack!Begin
<1> QED
  <2>1. \A f \in [Byte -> Word] : [f EXCEPT ![REG_SP] = img.memSize - 4][REG_SP] = img.memSize - 4
    BY Operands
  <2>2. ASSUME status' = "running"
        PROVE  /\ heap' = WriteLE(heap, img.memSize - 4, 4, RET_SENTINEL)
               /\ R'[REG_SP] = img.memSize - 4 /\ pc' = start_pc
    BY <2>2, Operands DEF Start
  <2>3. status' = "running" \/ (status' = "BAD_ADDR" /\ UNCHANGED <<heap, R, pc>>)
    BY DEF Start
  <2> QED BY <1>3, <1>4, <2>2, <2>3

LEMMA HostStep ==
  ASSUME TypeOK, TypeOK', img.stackSize >= 4, Host
  PROVE  Stack!NextStack /\ Framed'
<1>0. status # "running" BY DEF Host, cvm_run_args, cvm_call, MayStart
<1>1. ASSUME NEW e \in {"BAD_FUNCS", "NULL_FUNC_PTR", "BAD_FUNC_INDEX"}, Refuse(e)
      PROVE  Stack!NextStack /\ Framed'
  <2>1. Phase # "running" /\ Phase' = "trapped" BY <1>0, <1>1 DEF Phase, Refuse
  <2>2. Frames = <<>> /\ Frames' = <<>> BY <1>0, <1>1 DEF Frames, Refuse
  <2>3. TextOf(img)' = TextOf(img) BY <1>1 DEF Refuse, TextOf, At, Flow
  <2>4. Framed' BY <1>1 DEF Framed, Refuse
  <2> QED BY <1>1, <2>1, <2>2, <2>3, <2>4 DEF Refuse, Stack!NextStack, Stack!Refused
<1>2. CASE \E args \in ArgVectors : cvm_run_args(args)
  BY <1>0, <1>2, StartStep, TextIs DEF cvm_run_args
<1>3. CASE \E fn \in FnIndexes, args \in ArgVectors : cvm_call(fn, args)
  <2>1. PICK fn \in FnIndexes, args \in ArgVectors : cvm_call(fn, args) BY <1>3
  <2>2. fn \in Nat BY InputsAssumption, ModFacts DEF Word
  <2>3. CASE fn # 0 /\ fn < func_count /\ Start(func_offsets(fn), args)
    <3>1. func_offsets(fn) \in TextOf(img).entries BY <2>2, <2>3, TextIs
    <3> QED BY <1>0, <2>3, <3>1, StartStep
  <2> QED BY <1>1, <2>1, <2>3 DEF cvm_call
<1> QED BY <1>2, <1>3 DEF Host

(* The carts have a stack (an image without one has no sentinel).          *)
HaveStacks == \A c \in Carts : c.stackSize >= 4

LEMMA CallsStep ==
  ASSUME HaveStacks, TypeOK, TypeOK', Framed, [Next]_vars, [LeavesStack]_vars
  PROVE  [Stack!NextStack]_(Stack!avars) /\ Framed'
<1>1. CASE UNCHANGED vars
  <2>1. /\ TextOf(img)' = TextOf(img) /\ pc' = pc /\ Frames' = Frames /\ Phase' = Phase
        /\ Framed'
    BY <1>1 DEF vars, TextOf, At, Flow, Frames, Depth, Phase, Framed, StackHolds, Slot,
                code_count
  <2> QED BY <2>1 DEF Stack!avars
<1>2. CASE Done
  BY <1>1, <1>2 DEF Done
<1>3. CASE Host
  <2>1. img.stackSize >= 4 BY DEF HaveStacks, TypeOK
  <2> QED BY <1>3, <2>1, HostStep
<1>4. CASE Step /\ ~UNCHANGED vars
  <2>1. Shape /\ LeavesStack BY <1>4, Shapes
  <2>2. status = "running" /\ img' = img BY <2>1 DEF Shape
  <2>3. CASE pc >= code_count /\ status' = "BAD_PC"
    <3>1. "BAD_PC" \in Errors BY DEF Errors
    <3>2. Stack!End("trapped") /\ Framed' BY <2>2, <2>3, <3>1, EndOfRun
    <3> QED BY <2>3, <3>2, TextIs DEF Stack!NextStack, Stack!LeaveText
  <2>4. CASE pc < code_count /\ StaysLocal
    BY <2>1, <2>2, <2>4, LocalStep
  <2>5. CASE pc < code_count /\ Fails
    BY <2>2, <2>5, FailStep DEF Fails
  <2>6. CASE pc < code_count /\ Halts
    <3>1. Stack!End("done") /\ Framed' BY <2>2, <2>6, EndOfRun DEF Halts
    <3>2. pc \in TextOf(img).halts BY <2>6, AtOp, TextIs DEF Halts
    <3> QED BY <3>1, <3>2 DEF Stack!NextStack, Stack!Halt
  <2>7. ~(pc < code_count /\ Fetch.op \in Leaves)
    BY <2>1, <2>2 DEF LeavesStack, Leaves
  <2>8. CASE Call
    <3>1. Imm24(Fetch) \in Nat BY Operands
    <3> QED BY <2>2, <2>8, <3>1, CallStep DEF Call, Executes
  <2>9. CASE Callr
    <3>1. R[Fetch.a] \in Nat BY Operands, ModFacts DEF Word
    <3> QED BY <2>2, <2>9, <3>1, CallStep DEF Callr, Executes
  <2>10. CASE Ret
    BY <2>10, RetStep
  <2> QED BY <2>1, <2>3, <2>4, <2>5, <2>6, <2>7, <2>8, <2>9, <2>10 DEF Shape
<1> QED BY <1>1, <1>2, <1>3, <1>4 DEF Next

LEMMA CallsInit == Init => Stack!InitStack /\ Framed
BY DEF Init, Stack!InitStack, Framed, Frames, Phase

(* In every cart that has a stack and leaves it to them, at any depth and  *)
(* for any number of runs, CALL, CALLR and RET of cvm_exec_at are a stack  *)
(* of return addresses: every return goes right behind its own call, the   *)
(* run ends when the outermost function returns, RET never traps, and only *)
(* a full stack is reported as an overflow.                                *)
THEOREM CallsNest == HaveStacks => (Spec /\ [][LeavesStack]_vars => CallsAreNested)
<1> SUFFICES ASSUME HaveStacks PROVE Spec /\ [][LeavesStack]_vars => CallsAreNested
  OBVIOUS
<1>1. Init => Framed /\ Stack!InitStack BY CallsInit
<1>2. TypeOK /\ TypeOK' /\ Framed /\ [Next]_vars /\ [LeavesStack]_vars
        => [Stack!NextStack]_(Stack!avars) /\ Framed'
  BY CallsStep
<1> QED BY <1>1, <1>2, TypeCorrect, PTL DEF Spec, CallsAreNested, Stack!StackSpec

-----------------------------------------------------------------------------
(* Coroutines.  The records say which coroutine may be entered and where;  *)
(* SP says which one runs.                                                 *)

LEMMA WordsOf ==
  ASSUME NEW h, NEW c \in Nat
  PROVE  /\ Words(h, c, 4)[0] = ReadLE(h, c, 4) /\ Words(h, c, 4)[1] = ReadLE(h, c + 4, 4)
         /\ Words(h, c, 4)[2] = ReadLE(h, c + 8, 4)
         /\ Words(h, c, 4)[3] = ReadLE(h, c + 12, 4)
<1>1. /\ 0 \in 0 .. 4 - 1 /\ 1 \in 0 .. 4 - 1 /\ 2 \in 0 .. 4 - 1 /\ 3 \in 0 .. 4 - 1
      /\ c + 4 * 0 = c /\ c + 4 * 1 = c + 4 /\ c + 4 * 2 = c + 8 /\ c + 4 * 3 = c + 12
  OBVIOUS
<1> QED BY <1>1 DEF Words

Waiting(c) ==
  \/ c \in DeadRecords /\ Status(c) = CORO_DEAD
  \/ /\ c \notin DeadRecords \cup {MainRecord} /\ Status(c) = CORO_FRESH
     /\ EntryOf[c] = [pc |-> func_offsets(ReadLE(heap, c, 4)), sp |-> ReadLE(heap, c + 4, 4)]
     /\ ReadLE(heap, c + 4, 4) \in StackOf[c]
  \/ /\ c \notin DeadRecords /\ Status(c) = CORO_SUSPENDED
     /\ ReadLE(heap, c + 4, 4) \in StackOf[c]

Marked(c) ==
  \/ Status(c) = CORO_RUNNING
  \/ /\ c = MainRecord /\ Status(c) = CORO_FRESH
     /\ \A d \in Records \ {c} : Status(d) # CORO_SUSPENDED

OnStack(c) ==
  /\ c \in Records \ DeadRecords /\ R[REG_SP] \in StackOf[c]
  /\ Marked(c) /\ \A d \in Records \ {c} : Waiting(d)

Scheduled == IsRunning => \E c \in Records : OnStack(c)

LEMMA StatusValues ==
  /\ CORO_FRESH = 0 /\ CORO_RUNNING = 1 /\ CORO_SUSPENDED = 2 /\ CORO_DEAD = 3
BY DEF CORO_FRESH, CORO_RUNNING, CORO_SUSPENDED, CORO_DEAD

LEMMA CurrentIs ==
  ASSUME IsRunning, NEW c \in Records, R[REG_SP] \in StackOf[c]
  PROVE  Current = c
BY RecordsAssumption DEF Current

LEMMA CurrentLater ==
  (IsRunning => \A c \in Records : R[REG_SP] \in StackOf[c] => Current = c)'
<1>1. IsRunning => \A c \in Records : R[REG_SP] \in StackOf[c] => Current = c
  BY CurrentIs
<1> QED BY <1>1, PTL

LEMMA OnStackIsCurrent ==
  ASSUME IsRunning, Scheduled
  PROVE  Current \in Records /\ OnStack(Current)
<1>1. PICK c \in Records : OnStack(c) BY DEF Scheduled
<1>2. Current = c BY <1>1, CurrentIs DEF OnStack
<1> QED BY <1>1, <1>2

(* Only one coroutine is marked RUNNING: what makes a swap to it fail.     *)
LEMMA OneIsMarked == ASSUME Scheduled PROVE OneRunning
<1> SUFFICES ASSUME IsRunning PROVE OneRunning BY DEF OneRunning
<1>1. Current \in Records /\ OnStack(Current) BY OnStackIsCurrent
<1>2. ASSUME NEW d \in Records \ {Current} PROVE Status(d) # CORO_RUNNING
  <2>1. Waiting(d) BY <1>1 DEF OnStack
  <2> HIDE DEF Status
  <2> QED BY <2>1, StatusValues DEF Waiting
<1>3. (\E d \in Records : Status(d) = CORO_SUSPENDED) => Status(Current) = CORO_RUNNING
  BY <1>1, StatusValues DEF OnStack, Marked
<1> QED BY <1>2, <1>3 DEF OneRunning

(* What CORO_SWAP leaves in the records.                                   *)
LEMMA SavedRecords ==
  ASSUME TypeOK, NEW from \in Records, NEW to \in Records, from # to,
         from + 16 <= img.memSize, to + 16 <= img.memSize,
         NEW next \in Word, NEW sp \in Word, NEW dest \in Word, NEW g,
         g = WriteLE(WriteLE(Save3(heap, from, next, sp, dest),
                             from + 12, 4, CORO_SUSPENDED), to + 12, 4, CORO_RUNNING)
  PROVE  /\ ReadLE(g, from, 4) = next /\ ReadLE(g, from + 4, 4) = sp
         /\ ReadLE(g, from + 12, 4) = CORO_SUSPENDED
         /\ ReadLE(g, to + 12, 4) = CORO_RUNNING
         /\ \A c \in Records \ {from, to} : \A x \in {c, c + 4, c + 12} :
              ReadLE(g, x, 4) = ReadLE(heap, x, 4)
<1>1. PICK m \in Nat : m = img.memSize BY ImageFacts
<1> DEFINE h1 == WriteLE(heap, from, 4, next)
           h2 == WriteLE(h1, from + 4, 4, sp)
           h3 == WriteLE(h2, from + 8, 4, dest)
           h4 == WriteLE(h3, from + 12, 4, CORO_SUSPENDED)
           M == [0 .. m - 1 -> Byte]
<1>2. g = WriteLE(h4, to + 12, 4, CORO_RUNNING) BY DEF Save3
<1>3. from \in Nat /\ to \in Nat BY RecordsAssumption
<1>4. CORO_SUSPENDED \in Word /\ CORO_RUNNING \in Word
  BY ModFacts, StatusValues DEF Word
<1>5. ASSUME NEW h \in M, NEW a \in Int, NEW v \in Word
      PROVE  WriteLE(h, a, 4, v) \in M
  <2>1. 4 \in 0 .. 4 /\ v \in Nat /\ m \in Int BY ModFacts DEF Word
  <2> QED BY <2>1, WriteLEType, Zenon
<1>6. heap \in M /\ h1 \in M /\ h2 \in M /\ h3 \in M /\ h4 \in M
  <2>1. heap \in M BY <1>1 DEF TypeOK
  <2>2. /\ from \in Int /\ from + 4 \in Int /\ from + 8 \in Int /\ from + 12 \in Int
    BY <1>3
  <2>3. h1 \in M BY <1>5, <2>1, <2>2
  <2> HIDE DEF h1
  <2>4. h2 \in M BY <1>5, <2>2, <2>3
  <2> HIDE DEF h2
  <2>5. h3 \in M BY <1>5, <2>2, <2>4
  <2> HIDE DEF h3
  <2>6. h4 \in M BY <1>4, <1>5, <2>2, <2>5
  <2> QED BY <2>1, <2>3, <2>4, <2>5, <2>6
<1>7. \A h \in M, a \in Nat, v \in Word :
        a + 4 <= m => ReadLE(WriteLE(h, a, 4, v), a, 4) = v
  BY <1>1, ReadsWritten
<1>8. \A v : \A h \in M, a \in Int, b \in Int :
        Span(a, 4) \cap Span(b, 4) = {} => ReadLE(WriteLE(h, b, 4, v), a, 4) = ReadLE(h, a, 4)
  BY <1>1, WritesElsewhere
<1>9. Span(from, 16) \cap Span(to, 16) = {} BY RecordsAssumption
<1> HIDE DEF M
<1>10. \A x \in {from, from + 4, from + 8, from + 12} :
         x \in Int /\ Span(x, 4) \cap Span(to + 12, 4) = {}
  BY <1>3, <1>9 DEF Span
<1>11. ReadLE(g, to + 12, 4) = CORO_RUNNING
  <2>1. to + 12 \in Nat /\ to + 12 + 4 <= m BY <1>1, <1>3
  <2> HIDE DEF h4
  <2> QED BY <1>2, <1>4, <1>6, <1>7, <2>1
<1>12. \A x \in {from, from + 4, from + 8, from + 12} : ReadLE(g, x, 4) = ReadLE(h4, x, 4)
  <2> HIDE DEF h4
  <2>1. to + 12 \in Int BY <1>3
  <2> QED BY <1>2, <1>6, <1>8, <1>10, <2>1
<1>13. /\ ReadLE(h4, from + 12, 4) = CORO_SUSPENDED
       /\ ReadLE(h4, from + 4, 4) = ReadLE(h3, from + 4, 4)
       /\ ReadLE(h4, from, 4) = ReadLE(h3, from, 4)
  <2> HIDE DEF h3
  <2>1. /\ from + 12 \in Nat /\ from + 12 + 4 <= m
        /\ Span(from, 4) \cap Span(from + 12, 4) = {}
        /\ Span(from + 4, 4) \cap Span(from + 12, 4) = {}
    BY <1>1, <1>3 DEF Span
  <2> QED BY <1>3, <1>4, <1>6, <1>7, <1>8, <2>1
<1>14. /\ ReadLE(h3, from + 4, 4) = ReadLE(h2, from + 4, 4)
       /\ ReadLE(h3, from, 4) = ReadLE(h2, from, 4)
  <2> HIDE DEF h2
  <2>1. /\ Span(from, 4) \cap Span(from + 8, 4) = {}
        /\ Span(from + 4, 4) \cap Span(from + 8, 4) = {}
    BY <1>1, <1>3 DEF Span
  <2> QED BY <1>3, <1>6, <1>8, <2>1
<1>15. ReadLE(h2, from + 4, 4) = sp /\ ReadLE(h2, from, 4) = ReadLE(h1, from, 4)
  <2> HIDE DEF h1
  <2>1. /\ Span(from, 4) \cap Span(from + 4, 4) = {} /\ from + 4 \in Nat
        /\ from + 4 + 4 <= m
    BY <1>1, <1>3 DEF Span
  <2> QED BY <1>3, <1>6, <1>7, <1>8, <2>1
<1>16. ReadLE(h1, from, 4) = next
  <2>1. from + 4 <= m BY <1>1, <1>3
  <2> QED BY <1>3, <1>6, <1>7, <2>1
<1>17. ASSUME NEW c \in Records \ {from, to}, NEW x \in {c, c + 4, c + 12}
       PROVE  ReadLE(g, x, 4) = ReadLE(heap, x, 4)
  <2>1. /\ Span(c, 16) \cap Span(from, 16) = {} /\ Span(c, 16) \cap Span(to, 16) = {}
        /\ c \in Nat
    BY RecordsAssumption
  <2>2. \A k \in Span(x, 4) : k \in Span(c, 16) BY <2>1 DEF Span
  <2>3. \A k : /\ k \in Span(from, 4) => k \in Span(from, 16)
               /\ k \in Span(from + 4, 4) => k \in Span(from, 16)
               /\ k \in Span(from + 8, 4) => k \in Span(from, 16)
               /\ k \in Span(from + 12, 4) => k \in Span(from, 16)
               /\ k \in Span(to + 12, 4) => k \in Span(to, 16)
    BY <1>3 DEF Span
  <2>4. \A b \in {from, from + 4, from + 8, from + 12, to + 12} :
          b \in Int /\ Span(x, 4) \cap Span(b, 4) = {}
    BY <1>3, <2>1, <2>2, <2>3
  <2>5. x \in Int BY <2>1
  <2>6. ReadLE(h1, x, 4) = ReadLE(heap, x, 4) BY <1>6, <1>8, <2>4, <2>5
  <2> HIDE DEF h1
  <2>7. ReadLE(h2, x, 4) = ReadLE(h1, x, 4) BY <1>6, <1>8, <2>4, <2>5
  <2> HIDE DEF h2
  <2>8. ReadLE(h3, x, 4) = ReadLE(h2, x, 4) BY <1>6, <1>8, <2>4, <2>5
  <2> HIDE DEF h3
  <2>9. ReadLE(h4, x, 4) = ReadLE(h3, x, 4) BY <1>6, <1>8, <2>4, <2>5
  <2> HIDE DEF h4
  <2>10. ReadLE(g, x, 4) = ReadLE(h4, x, 4) BY <1>2, <1>6, <1>8, <2>4, <2>5
  <2> QED BY <2>6, <2>7, <2>8, <2>9, <2>10
<1> HIDE DEF h1, h2, h3, h4
<1> QED BY <1>11, <1>12, <1>13, <1>14, <1>15, <1>16, <1>17

-----------------------------------------------------------------------------
(* Each way a run starts, goes on and ends, as a step of Coroutines.       *)

Seen(c) == IF c = Current
           THEN [pc |-> pc, sp |-> R[REG_SP]]
           ELSE IF Status(c) \in {CORO_FRESH, CORO_DEAD}
                THEN NeverRan
                ELSE [pc |-> ReadLE(heap, c, 4), sp |-> ReadLE(heap, c + 4, 4)]

LEMMA PlaceIs ==
  /\ IsRunning => Place = [c \in Records |-> Seen(c)]
  /\ ~IsRunning => Place = [c \in Records |-> NeverRan] /\ Current = MainRecord
<1>1. ASSUME IsRunning, NEW c \in Records PROVE Place[c] = Seen(c)
  BY <1>1 DEF Place, Seen, Resumed
<1>2. ASSUME ~IsRunning, NEW c \in Records PROVE Place[c] = NeverRan
  BY <1>2 DEF Place
<1>3. DOMAIN Place = Records /\ Place = [c \in Records |-> Place[c]] BY DEF Place
<1>4. ~IsRunning => Current = MainRecord BY DEF Current
<1> HIDE DEF Place
<1> QED BY <1>1, <1>2, <1>3, <1>4

LEMMA PlaceLater ==
  ( /\ IsRunning => Place = [c \in Records |-> Seen(c)]
    /\ ~IsRunning => Place = [c \in Records |-> NeverRan] /\ Current = MainRecord )'
BY PlaceIs, PTL

LEMMA StopsRun ==
  ASSUME IsRunning, ~IsRunning' PROVE Swaps!Stop /\ Scheduled'
<1>1. /\ Place' = [c \in Records |-> NeverRan] /\ Current' = MainRecord
  BY PlaceLater
<1>2. IsRunning' = FALSE BY DEF IsRunning
<1>3. Scheduled' BY DEF Scheduled
<1> QED BY <1>1, <1>2, <1>3 DEF Swaps!Stop, Swaps!AllFresh, Swaps!Fresh, NeverRan

LEMMA StaysIdle ==
  ASSUME ~IsRunning, ~IsRunning'
  PROVE  (UNCHANGED Swaps!cvars) /\ Scheduled'
<1>1. /\ Place' = [c \in Records |-> NeverRan] /\ Current' = MainRecord
  BY PlaceLater
<1>2. /\ Place = [c \in Records |-> NeverRan] /\ Current = MainRecord
  BY PlaceIs
<1>3. IsRunning' = IsRunning BY DEF IsRunning
<1>4. Scheduled' BY DEF Scheduled
<1> QED BY <1>1, <1>2, <1>3, <1>4 DEF Swaps!cvars

LEMMA PreparedIs ==
  ASSUME IsRunning, Prepared
  PROVE  /\ Current = MainRecord /\ OnStack(MainRecord)
         /\ Seen(MainRecord) = EntryOf[MainRecord]
         /\ \A c \in Records \ {MainRecord} : Seen(c) = NeverRan
<1>1. /\ MainRecord \in Records /\ MainRecord \notin DeadRecords /\ R[REG_SP] \in StackOf[MainRecord]
  BY RecordsAssumption DEF Prepared
<1>2. Current = MainRecord BY <1>1, CurrentIs
<1>3. ASSUME NEW c \in Records
      PROVE  /\ Status(c) = IF c \in DeadRecords THEN CORO_DEAD ELSE CORO_FRESH
             /\ c \notin DeadRecords \cup {MainRecord} => Waiting(c)
  <2>1. c \in Nat BY RecordsAssumption
  <2>2. Status(c) = IF c \in DeadRecords THEN CORO_DEAD ELSE CORO_FRESH
    BY <2>1, WordsOf DEF Prepared, Status
  <2>3. c \notin DeadRecords \cup {MainRecord} =>
          /\ EntryOf[c] = [pc |-> func_offsets(ReadLE(heap, c, 4)),
                           sp |-> ReadLE(heap, c + 4, 4)]
          /\ ReadLE(heap, c + 4, 4) \in StackOf[c]
    BY <2>1, WordsOf DEF Prepared
  <2> HIDE DEF Status
  <2> QED BY <2>2, <2>3 DEF Waiting
<1>4. \A c \in Records \ {MainRecord} : Waiting(c)
  BY <1>3 DEF Waiting
<1>5. OnStack(MainRecord)
  <2>1. \A d \in Records : Status(d) # CORO_SUSPENDED
    BY <1>3, StatusValues
  <2> HIDE DEF Status
  <2> QED BY <1>1, <1>3, <1>4, <2>1 DEF OnStack, Marked
<1>6. Seen(MainRecord) = EntryOf[MainRecord] BY <1>2 DEF Seen, Prepared
<1>7. ASSUME NEW c \in Records \ {MainRecord} PROVE Seen(c) = NeverRan
  BY <1>2, <1>3 DEF Seen
<1> QED BY <1>2, <1>5, <1>6, <1>7

LEMMA PreparedRule ==
  IsRunning /\ Prepared =>
    /\ Scheduled /\ Current = MainRecord
    /\ Place = [[c \in Records |-> NeverRan] EXCEPT ![MainRecord] = EntryOf[MainRecord]]
<1> SUFFICES ASSUME IsRunning, Prepared
             PROVE  /\ Scheduled /\ Current = MainRecord
                    /\ Place = [[c \in Records |-> NeverRan]
                                  EXCEPT ![MainRecord] = EntryOf[MainRecord]]
  OBVIOUS
<1>1. MainRecord \in Records BY RecordsAssumption
<1>2. Scheduled BY <1>1, PreparedIs DEF Scheduled
<1>3. Place = [c \in Records |-> Seen(c)] BY PlaceIs
<1>4. /\ Current = MainRecord /\ Seen(MainRecord) = EntryOf[MainRecord]
      /\ \A c \in Records \ {MainRecord} : Seen(c) = NeverRan
  BY PreparedIs
<1> HIDE DEF Seen
<1> QED BY <1>1, <1>2, <1>3, <1>4

LEMMA PreparedLater ==
  ( IsRunning /\ Prepared =>
      /\ Scheduled /\ Current = MainRecord
      /\ Place = [[c \in Records |-> NeverRan] EXCEPT ![MainRecord] = EntryOf[MainRecord]] )'
BY PreparedRule, PTL

LEMMA StartsRun ==
  ASSUME ~IsRunning, IsRunning', Prepared' PROVE Swaps!Begin /\ Scheduled'
<1>1. /\ Scheduled' /\ Current' = MainRecord
      /\ Place' = [[c \in Records |-> NeverRan]
                     EXCEPT ![MainRecord] = EntryOf[MainRecord]]
  BY PreparedLater
<1>2. IsRunning' = TRUE BY DEF IsRunning
<1> QED BY <1>1, <1>2 DEF Swaps!Begin, Swaps!AllFresh, Swaps!Fresh, NeverRan

LEMMA GoesOn ==
  ASSUME IsRunning, Scheduled, IsRunning', img' = img,
         R'[REG_SP] \in StackOf[Current],
         \A c \in Records : Words(heap', c, 4) = Words(heap, c, 4)
  PROVE  Swaps!Progress /\ Scheduled'
<1>1. PICK c \in Records : c = Current /\ OnStack(c) BY OnStackIsCurrent
<1>2. Current' = c BY <1>1, CurrentLater
<1>3. ASSUME NEW d \in Records
      PROVE  /\ ReadLE(heap', d, 4) = ReadLE(heap, d, 4)
             /\ ReadLE(heap', d + 4, 4) = ReadLE(heap, d + 4, 4)
             /\ ReadLE(heap', d + 12, 4) = ReadLE(heap, d + 12, 4)
  BY RecordsAssumption, WordsOf
<1>4. \A d \in Records : Status(d)' = Status(d) BY <1>3 DEF Status
<1>5. ASSUME NEW d \in Records
      PROVE  func_offsets(ReadLE(heap, d, 4))' = func_offsets(ReadLE(heap, d, 4))
  BY <1>3 DEF func_offsets, func_count
<1>6. OnStack(c)'
  <2>1. \A d \in Records \ {c} : Waiting(d)'
    <3>1. \A d \in Records \ {c} : Waiting(d) BY <1>1 DEF OnStack
    <3> HIDE DEF Status, func_offsets
    <3> QED BY <1>3, <1>4, <1>5, <3>1 DEF Waiting
  <2>2. Marked(c)'
    <3> HIDE DEF Status
    <3> QED BY <1>1, <1>4 DEF OnStack, Marked
  <2>3. c \notin DeadRecords BY <1>1 DEF OnStack
  <2> QED BY <1>1, <2>1, <2>2, <2>3 DEF OnStack
<1>7. Scheduled' BY <1>6 DEF Scheduled
<1>8. ASSUME NEW d \in Records \ {Current} PROVE Place'[d] = Place[d]
  <2>1. Place[d] = Seen(d) BY PlaceIs
  <2>2. Place'[d] = Seen(d)' BY PlaceLater
  <2>3. Seen(d)' = Seen(d)
    <3> HIDE DEF Status
    <3> QED BY <1>1, <1>2, <1>3, <1>4 DEF Seen
  <2> QED BY <2>1, <2>2, <2>3
<1>9. IsRunning' = IsRunning /\ Current' = Current BY <1>1, <1>2 DEF IsRunning
<1> QED BY <1>7, <1>8, <1>9 DEF Swaps!Progress

(* What CORO_SWAP does when it does not trap.                              *)
Swapped(to) ==
  /\ status' = status /\ to # R[Fetch.a]
  /\ InBounds(R[Fetch.a], 16) /\ InBounds(to, 16)
  /\ heap' = CoroSaved(R[Fetch.a], to, Fetch.a)
  /\ R'[REG_SP] = ReadLE(heap, to + 4, 4)
  /\ \/ /\ Status(to) = CORO_FRESH /\ pc' = func_offsets(ReadLE(heap, to, 4))
     \/ /\ Status(to) = CORO_SUSPENDED /\ pc' = ReadLE(heap, to, 4)

LEMMA SwapOutcomes ==
  ASSUME TypeOK, CoroSwap, R[Fetch.b] \in Nat
  PROVE  status' # "running" \/ Swapped(R[Fetch.b])
<1> DEFINE to == R[Fetch.b]
           from == R[Fetch.a]
           ok == InBounds(from, 16) /\ InBounds(to, 16) /\ from # to
           j == Words(heap, to, 4)
<1>1. /\ j[0] = ReadLE(heap, to, 4) /\ j[1] = ReadLE(heap, to + 4, 4)
      /\ j[3] = Status(to)
  BY WordsOf DEF Status
<1>2. R \in [Byte -> Word] /\ REG_SP \in Byte BY Operands DEF TypeOK, Files
<1>3. SUFFICES ASSUME status' = "running" PROVE Swapped(to)
  OBVIOUS
<1> HIDE DEF j
<1>4. \A e, u : ~(e \in Errors /\ TrapUsing(e, u)) BY <1>3 DEF TrapUsing, Leave, Errors
<1>5. \/ /\ ok /\ j[3] = CORO_FRESH
         /\ \E u : Go([R EXCEPT ![j[2]] = to, ![REG_SP] = j[1]],
                      CoroSaved(from, to, Fetch.a), func_offsets(j[0]), u)
      \/ /\ ok /\ j[3] = CORO_SUSPENDED
         /\ \E u : Go([R EXCEPT ![REG_SP] = j[1]],
                      CoroSaved(from, to, Fetch.a), j[0], u)
  <2>1. {"BAD_ADDR", "BAD_CORO_STATE", "NULL_FUNC_PTR", "BAD_FUNC_INDEX", "BAD_PC"}
          \subseteq Errors
    BY DEF Errors
  <2> QED BY <1>4, <2>1, StatusValues DEF CoroSwap, Trap, j
<1>6. CASE /\ ok /\ j[3] = CORO_FRESH
           /\ \E u : Go([R EXCEPT ![j[2]] = to, ![REG_SP] = j[1]],
                        CoroSaved(from, to, Fetch.a), func_offsets(j[0]), u)
  <2> HIDE DEF Status
  <2>1. R'[REG_SP] = j[1] BY <1>2, <1>6 DEF Go
  <2> QED BY <1>1, <1>6, <2>1 DEF Swapped, Go
<1>7. CASE /\ ok /\ j[3] = CORO_SUSPENDED
           /\ \E u : Go([R EXCEPT ![REG_SP] = j[1]],
                        CoroSaved(from, to, Fetch.a), j[0], u)
  <2> HIDE DEF Status
  <2>1. R'[REG_SP] = j[1] BY <1>2, <1>7 DEF Go
  <2> QED BY <1>1, <1>7, <2>1 DEF Swapped, Go
<1> QED BY <1>5, <1>6, <1>7

LEMMA SwapsOver ==
  ASSUME TypeOK, IsRunning, Scheduled, pc < code_count, img' = img,
         R[Fetch.a] = Current, NEW d \in Records, Swapped(d)
  PROVE  Swaps!SwapTo(d) /\ Scheduled'
<1>1. PICK c \in Records : c = Current /\ OnStack(c) BY OnStackIsCurrent
<1>2. c # d /\ c \in Nat /\ d \in Nat /\ IsRunning'
  BY <1>1, RecordsAssumption DEF Swapped, IsRunning
<1>3. /\ d \notin DeadRecords /\ ReadLE(heap, d + 4, 4) \in StackOf[d]
      /\ Status(d) = CORO_FRESH =>
           EntryOf[d] = [pc |-> pc', sp |-> R'[REG_SP]]
  <2>1. Waiting(d) BY <1>1, <1>2 DEF OnStack
  <2> HIDE DEF Status
  <2> QED BY <2>1, StatusValues DEF Waiting, Swapped
<1>4. Current' = d BY <1>2, <1>3, CurrentLater DEF Swapped
<1>5. /\ ReadLE(heap', c, 4) = pc + 1 /\ ReadLE(heap', c + 4, 4) = R[REG_SP]
      /\ Status(c)' = CORO_SUSPENDED /\ Status(d)' = CORO_RUNNING
      /\ \A e \in Records \ {c, d} : \A x \in {e, e + 4, e + 12} :
           ReadLE(heap', x, 4) = ReadLE(heap, x, 4)
  <2>1. /\ pc + 1 \in Word /\ R[REG_SP] \in Word /\ Fetch.a \in Word
    <3>1. Byte \subseteq Word BY ModFacts DEF Byte, Word
    <3> QED BY <3>1, NextPc, Operands
  <2>2. c + 16 <= img.memSize /\ d + 16 <= img.memSize
    BY <1>1, <1>2, ImageFacts DEF Swapped, InBounds
  <2>3. heap' = WriteLE(WriteLE(Save3(heap, c, pc + 1, R[REG_SP], Fetch.a),
                                c + 12, 4, CORO_SUSPENDED), d + 12, 4, CORO_RUNNING)
    BY <1>1 DEF Swapped, CoroSaved
  <2> DEFINE g == heap'
  <2>4. /\ ReadLE(g, c, 4) = pc + 1 /\ ReadLE(g, c + 4, 4) = R[REG_SP]
        /\ ReadLE(g, c + 12, 4) = CORO_SUSPENDED /\ ReadLE(g, d + 12, 4) = CORO_RUNNING
        /\ \A e \in Records \ {c, d} : \A x \in {e, e + 4, e + 12} :
             ReadLE(g, x, 4) = ReadLE(heap, x, 4)
    <3>1. g = WriteLE(WriteLE(Save3(heap, c, pc + 1, R[REG_SP], Fetch.a),
                              c + 12, 4, CORO_SUSPENDED), d + 12, 4, CORO_RUNNING)
      BY <2>3
    <3> HIDE DEF g
    <3> QED BY <1>2, <2>1, <2>2, <3>1, SavedRecords
  <2> QED BY <2>4 DEF Status
<1>6. \A e \in Records \ {c, d} : Status(e)' = Status(e) BY <1>5 DEF Status
<1>7. OnStack(d)'
  <2>1. ASSUME NEW e \in Records \ {d} PROVE Waiting(e)'
    <3>1. CASE e = c
      <4>1. /\ c \notin DeadRecords /\ R[REG_SP] \in StackOf[c] BY <1>1 DEF OnStack
      <4> HIDE DEF Status
      <4> QED BY <1>5, <3>1, <4>1 DEF Waiting
    <3>2. CASE e # c
      <4>1. Waiting(e) BY <1>1, <3>2 DEF OnStack
      <4>2. /\ ReadLE(heap', e, 4) = ReadLE(heap, e, 4)
            /\ ReadLE(heap', e + 4, 4) = ReadLE(heap, e + 4, 4)
        BY <1>5, <3>2
      <4>3. func_offsets(ReadLE(heap, e, 4))' = func_offsets(ReadLE(heap, e, 4))
        BY <4>2 DEF func_offsets, func_count
      <4> HIDE DEF Status, func_offsets
      <4> QED BY <1>6, <3>2, <4>1, <4>2, <4>3 DEF Waiting
    <3> QED BY <3>1, <3>2
  <2>2. Marked(d)'
    <3> HIDE DEF Status
    <3> QED BY <1>5 DEF Marked
  <2>3. R'[REG_SP] \in StackOf[d] BY <1>3 DEF Swapped
  <2> QED BY <1>3, <2>1, <2>2, <2>3 DEF OnStack
<1>8. Scheduled' BY <1>7 DEF Scheduled
<1>9. Place' = [Place EXCEPT ![c] = [pc |-> @.pc + 1, sp |-> @.sp],
                             ![d] = IF @ = NeverRan THEN EntryOf[d] ELSE @]
  <2>1. Place = [e \in Records |-> Seen(e)] BY PlaceIs
  <2>2. Place' = [e \in Records |-> Seen(e)'] BY <1>2, PlaceLater
  <2>3. Seen(c) = [pc |-> pc, sp |-> R[REG_SP]] BY <1>1 DEF Seen
  <2>4. Seen(c)' = [pc |-> pc + 1, sp |-> R[REG_SP]]
    <3>1. CORO_SUSPENDED \notin {CORO_FRESH, CORO_DEAD} BY StatusValues
    <3> HIDE DEF Status
    <3> QED BY <1>2, <1>4, <1>5, <3>1 DEF Seen
  <2>5. Seen(d)' = [pc |-> pc', sp |-> R'[REG_SP]] BY <1>4 DEF Seen
  <2>6. Seen(d)' = IF Seen(d) = NeverRan THEN EntryOf[d] ELSE Seen(d)
    <3>1. CASE Status(d) = CORO_FRESH
      <4>1. Seen(d) = NeverRan
        <5> HIDE DEF Status
        <5> QED BY <1>1, <1>2, <3>1 DEF Seen
      <4> HIDE DEF Seen
      <4> QED BY <1>3, <2>5, <3>1, <4>1
    <3>2. CASE Status(d) = CORO_SUSPENDED
      <4>1. CORO_SUSPENDED \notin {CORO_FRESH, CORO_DEAD} /\ CORO_SUSPENDED # CORO_FRESH
        BY StatusValues
      <4>2. Seen(d) = [pc |-> ReadLE(heap, d, 4), sp |-> ReadLE(heap, d + 4, 4)]
        <5> HIDE DEF Status
        <5> QED BY <1>1, <1>2, <3>2, <4>1 DEF Seen
      <4>3. Seen(d) = [pc |-> pc', sp |-> R'[REG_SP]]
        <5> HIDE DEF Status, Seen
        <5> QED BY <3>2, <4>1, <4>2 DEF Swapped
      <4>4. Seen(d) # NeverRan
        <5>1. ReadLE(heap, d, 4) \in Word
          <6>1. img.memSize \in Int /\ heap \in [0 .. img.memSize - 1 -> Byte]
            BY ImageFacts DEF TypeOK
          <6> QED BY <6>1, ReadLEType, Zenon
        <5>2. ReadLE(heap, d, 4) # -1 BY <5>1, ModFacts DEF Word
        <5> HIDE DEF Seen
        <5> QED BY <4>2, <5>2 DEF NeverRan
      <4> HIDE DEF Seen
      <4> QED BY <2>5, <4>3, <4>4
    <3> QED BY <3>1, <3>2 DEF Swapped
  <2>7. ASSUME NEW e \in Records \ {c, d} PROVE Seen(e)' = Seen(e)
    <3> HIDE DEF Status
    <3> QED BY <1>1, <1>4, <1>5, <1>6 DEF Seen
  <2> HIDE DEF Seen
  <2>8. ASSUME NEW e \in Records
        PROVE  Place'[e] = [Place EXCEPT ![c] = [pc |-> @.pc + 1, sp |-> @.sp],
                                         ![d] = IF @ = NeverRan THEN EntryOf[d] ELSE @][e]
    BY <1>2, <2>1, <2>2, <2>3, <2>4, <2>6, <2>7
  <2>9. DOMAIN Place' = Records /\ DOMAIN Place = Records BY <2>1, <2>2
  <2> HIDE DEF Place
  <2> QED BY <2>1, <2>2, <2>8, <2>9
<1>10. IsRunning' = IsRunning BY DEF IsRunning, Swapped
<1> HIDE DEF Place
<1> QED
  BY <1>1, <1>2, <1>3, <1>4, <1>8, <1>9, <1>10
  DEF Swaps!SwapTo, Swaps!Fresh, NeverRan

(* An instruction is executed by the action of its opcode.                 *)
LEMMA SwapOnly ==
  ASSUME TypeOK, Step, pc < code_count, Fetch.op = "CORO_SWAP" PROVE CoroSwap
<1> DEFINE Sets == AluOps \cup DivOps \cup FloatOps \cup LoadOps \cup StoreOps
                     \cup CopyOps \cup {"BEQ", "BNE"}
<1>1. "CORO_SWAP" \notin Sets
  BY DEF AluOps, DivOps, FloatOps, LoadOps, StoreOps, CopyOps, CmpOps, FloatCmpOps
<1>2. /\ ~DispatchBadPc /\ ~DispatchBadOpcode
      /\ ~Halt /\ ~Movi /\ ~Movhi /\ ~Mov /\ ~Fneg /\ ~Qdiv6432 /\ ~Memset
  <2>1. pc \in Nat /\ code_count \in Nat BY NextPc, ImageFacts
  <2>2. ~DispatchBadPc /\ ~DispatchBadOpcode
    BY <2>1 DEF DispatchBadPc, DispatchBadOpcode, Executes
  <2> QED
    BY <2>2 DEF Halt, Movi, Movhi, Mov, Fneg, Qdiv6432, Memset, Executes
<1>3. /\ ~Jmp /\ ~Jmpr /\ ~Call /\ ~Callr /\ ~Ret /\ ~Syscall /\ ~Setjmp /\ ~Longjmp
  BY DEF Jmp, Jmpr, Call, Callr, Ret, Syscall, Setjmp, Longjmp, Executes
<1>4. \A op \in Sets : ~Executes(op) BY <1>1 DEF Executes
<1> HIDE DEF Sets
<1>5. \A op \in Sets : /\ ~Binary(op) /\ ~Divide(op) /\ ~Float(op) /\ ~Load(op)
                       /\ ~Store(op) /\ ~Copy(op) /\ ~Branch(op)
  BY <1>4 DEF Binary, Divide, Float, Load, Store, Copy, Branch
<1>6. /\ AluOps \subseteq Sets /\ DivOps \subseteq Sets /\ FloatOps \subseteq Sets
      /\ LoadOps \subseteq Sets /\ StoreOps \subseteq Sets /\ CopyOps \subseteq Sets
      /\ {"BEQ", "BNE"} \subseteq Sets
  BY DEF Sets
<1> QED BY <1>2, <1>3, <1>5, <1>6 DEF Step

LEMMA CoroStep ==
  ASSUME TypeOK, Scheduled, [Next]_vars, [KeepsRecords]_vars
  PROVE  [Swaps!NextCoro]_(Swaps!cvars) /\ Scheduled'
<1>1. CASE UNCHANGED vars
  <2>1. /\ Current' = Current /\ Place' = Place /\ IsRunning' = IsRunning /\ Scheduled'
    BY <1>1 DEF vars, Current, Place, IsRunning, Resumed, Status, Scheduled, OnStack,
                Marked, Waiting, func_offsets, func_count
  <2> QED BY <2>1 DEF Swaps!cvars
<1>2. CASE ~IsRunning
  <2>1. CASE IsRunning'
    <3>1. KeepsRecords \/ UNCHANGED vars OBVIOUS
    <3>2. Prepared' BY <1>1, <1>2, <2>1, <3>1 DEF KeepsRecords, vars, IsRunning
    <3> QED BY <1>2, <2>1, <3>2, StartsRun DEF Swaps!NextCoro
  <2>2. CASE ~IsRunning'
    BY <1>2, <2>2, StaysIdle
  <2> QED BY <2>1, <2>2
<1>3. CASE IsRunning /\ ~IsRunning'
  BY <1>3, StopsRun DEF Swaps!NextCoro
<1>4. CASE IsRunning /\ IsRunning' /\ ~UNCHANGED vars
  <2>1. Step /\ KeepsRecords
    BY <1>4 DEF Next, Host, Done, cvm_run_args, cvm_call, MayStart, IsRunning
  <2>2. Shape BY <2>1, Shapes
  <2>3. img' = img /\ pc < code_count
    BY <1>4, <2>2, NextPc, ImageFacts
    DEF Shape, IsRunning, Call, Callr, Ret, Executes
  <2>4. CASE Fetch.op = "CORO_SWAP"
    <3>1. /\ CoroSwap /\ R[Fetch.a] = Current /\ R[Fetch.b] \in Records
      BY <1>4, <2>1, <2>3, <2>4, SwapOnly DEF KeepsRecords
    <3>2. Swapped(R[Fetch.b])
      BY <1>4, <3>1, SwapOutcomes, RecordsAssumption DEF IsRunning
    <3> QED BY <1>4, <2>3, <3>1, <3>2, SwapsOver DEF Swaps!NextCoro
  <2>5. CASE Fetch.op # "CORO_SWAP"
    <3>1. /\ R'[REG_SP] \in StackOf[Current]
          /\ \A c \in Records : Words(heap', c, 4) = Words(heap, c, 4)
      BY <1>4, <2>1, <2>3, <2>5 DEF KeepsRecords
    <3> QED BY <1>4, <2>3, <3>1, GoesOn DEF Swaps!NextCoro
  <2> QED BY <2>4, <2>5
<1> QED BY <1>1, <1>2, <1>3, <1>4

LEMMA CoroInit == Init => Swaps!InitCoro /\ Scheduled
<1> SUFFICES ASSUME Init PROVE Swaps!InitCoro /\ Scheduled OBVIOUS
<1>1. IsRunning = FALSE BY DEF Init, IsRunning
<1>2. Scheduled BY <1>1 DEF Scheduled
<1>3. Place = [c \in Records |-> NeverRan] /\ Current = MainRecord BY <1>1, PlaceIs
<1> QED BY <1>1, <1>2, <1>3 DEF Swaps!InitCoro, Swaps!AllFresh, Swaps!Fresh, NeverRan

(* For any number of coroutines, in whatever order they swap, a coroutine  *)
(* of a cart that keeps to its records and stacks resumes right behind the *)
(* CORO_SWAP it left by and on the stack it left; a first resume enters at *)
(* its entry, and a dead one is never entered.                             *)
THEOREM SwapsResumed == Spec /\ [][KeepsRecords]_vars => SwapsResume
<1>1. Init => Swaps!InitCoro /\ Scheduled BY CoroInit
<1>2. TypeOK /\ Scheduled /\ [Next]_vars /\ [KeepsRecords]_vars
        => [Swaps!NextCoro]_(Swaps!cvars) /\ Scheduled'
  BY CoroStep
<1> QED BY <1>1, <1>2, TypeCorrect, PTL DEF Spec, SwapsResume, Swaps!CoroSpec

(* In such a cart the record of the coroutine that runs, and no other, is  *)
(* marked RUNNING from the first swap of a run on: cvm_exec_at refuses a   *)
(* swap to it with CVM_E_BAD_CORO_STATE.                                   *)
THEOREM OneRuns == Spec /\ [][KeepsRecords]_vars => []OneRunning
<1>1. Init => Scheduled BY CoroInit
<1>2. TypeOK /\ Scheduled /\ [Next]_vars /\ [KeepsRecords]_vars => Scheduled'
  BY CoroStep
<1>3. Scheduled => OneRunning BY OneIsMarked
<1> QED BY <1>1, <1>2, <1>3, TypeCorrect, PTL DEF Spec
=============================================================================
