------------------------------ MODULE CvmExec ------------------------------
(***************************************************************************)
(* The CronoVM interpreter: cvm_exec_at in src/src/cvm.c and the host      *)
(* entry points cvm_run, cvm_run_args and cvm_call that start it.          *)
(*                                                                         *)
(* One step of the specification is one call of an entry point or one      *)
(* dispatched instruction.  A run ends in a status: "OK", or the name of   *)
(* a CVM_E_ error; the host may then start another run on the same image.  *)
(* Only heap survives from run to run.                                     *)
(***************************************************************************)
EXTENDS CvmImage

CONSTANTS
  Carts,          \* the loaded images the host may run
  ArgVectors,     \* the argument vectors it passes to cvm_run_args, cvm_call
  FnIndexes,      \* the fn_index values it passes to cvm_call
  HostWords,      \* values a host syscall handler returns in R[0]
  FloatWords,     \* values a float instruction may produce
  MaxRuns,        \* how many runs the host starts (a bound of the model)
  Alu(_, _, _)    \* Alu(op, x, y): the integer operations, see CvmAlu

Imm16(i) == i.b + ByteBase * i.c
Imm24(i) == i.a + ByteBase * (i.b + ByteBase * i.c)

Width(op) == CASE op \in {"LDB", "STB"} -> 1
               [] op \in {"LDH", "STH"} -> 2
               [] OTHER                 -> 4

REG_SP == ByteBase - 1          \* CVM_REG_SP, the last register
RET_SENTINEL == WordMod - 1     \* CVM_RET_SENTINEL

CORO_FRESH == 0
CORO_RUNNING == 1
CORO_SUSPENDED == 2
CORO_DEAD == 3

Errors == {"BAD_PC", "BAD_OPCODE", "BAD_ADDR", "BAD_ENTRY", "BAD_FUNCS",
           "NULL_FUNC_PTR", "BAD_FUNC_INDEX", "STACK_OVERFLOW",
           "BAD_SYSCALL", "UNLINKED_SYSCALL", "SYSCALL_TRAP",
           "DIV_BY_ZERO", "BAD_CORO_STATE"}

ASSUME CartsAssumption == \A c \in Carts : IsCart(c)

ASSUME InputsAssumption ==
  /\ ArgVectors \subseteq Seq(Word)
  /\ FnIndexes \subseteq Word
  /\ HostWords \subseteq Word
  /\ FloatWords \subseteq Word
  /\ MaxRuns \in Nat

ASSUME AluAssumption ==
  \A op \in AluOps \cup DivOps : \A x, y \in Word :
    (op \in DivOps => y # 0) => Alu(op, x, y) \in Word

-----------------------------------------------------------------------------
VARIABLES
  img,      \* the image: never written by a run
  heap,     \* img->heap: mem_size bytes, kept from run to run
  R,        \* the register file
  pc,       \* index of the next instruction
  status,   \* "idle", "running", "OK" or the error of the last run
  result,   \* *return_value
  runs,     \* history: how many runs the host has started
  uses      \* history: the indexes the last step used, per array

vars == <<img, heap, R, pc, status, result, runs, uses>>

Zeros == [r \in Byte |-> 0]
NoUse == [code |-> {}, mem |-> {}, func |-> {}, imp |-> {}, reg |-> {}]

Init ==
  /\ img \in Carts
  /\ heap = img.data
  /\ R = Zeros /\ pc = 0
  /\ status = "idle" /\ result = 0
  /\ runs = 0 /\ uses = NoUse

code_count == Len(img.code)
func_count == Len(img.funcs)
func_offsets(fid) == IF fid < func_count THEN img.funcs[fid + 1] ELSE 0

(* Faulty: the end of the access as a uint32_t sum.                        *)
InBoundsWrapped(addr, n) == ToWord(addr + n) <= img.memSize

(* The bounds check of every access: addr > mem_size || mem_size - addr <  *)
(* n, negated.  No term of it can wrap.                                    *)
InBounds(addr, n) == addr <= img.memSize /\ img.memSize - addr >= n

-----------------------------------------------------------------------------
(* Starting a run.  The stack starts with the sentinel on it: the last     *)
(* RET pops it and ends the run.  The first check of cvm_exec_at,          *)
(* start_pc >= code_count, cannot fail for a loaded image (IsCart).        *)
Start(start_pc, args) ==
  /\ \/ /\ Len(args) <= ByteBase
        /\ start_pc < code_count
        /\ LET sp == img.memSize - 4
               seeded == [r \in Byte |-> IF r < Len(args) THEN args[r + 1] ELSE 0]
           IN  IF img.stackSize >= 4
               THEN /\ heap' = WriteLE(heap, sp, 4, RET_SENTINEL)
                    /\ R' = [seeded EXCEPT ![REG_SP] = sp]
                    /\ uses' = [NoUse EXCEPT !.mem = Span(sp, 4)]
               ELSE /\ R' = [seeded EXCEPT ![REG_SP] = img.memSize]
                    /\ uses' = NoUse
                    /\ UNCHANGED heap
        /\ pc' = start_pc
        /\ status' = "running"
     \/ /\ Len(args) > ByteBase
        /\ start_pc < code_count
        /\ status' = "BAD_ADDR" /\ uses' = NoUse
        /\ UNCHANGED <<heap, R, pc>>
  /\ UNCHANGED <<img, result>>

MayStart == status # "running" /\ runs < MaxRuns /\ runs' = runs + 1

cvm_run_args(args) == MayStart /\ Start(img.entry, args)

Refuse(e) == status' = e /\ uses' = NoUse /\ UNCHANGED <<img, heap, R, pc, result>>

cvm_call(fn, args) ==
  /\ MayStart
  /\ \/ func_count = 0 /\ Refuse("BAD_FUNCS")
     \/ func_count > 0 /\ fn = 0 /\ Refuse("NULL_FUNC_PTR")
     \/ func_count > 0 /\ fn # 0 /\ fn >= func_count /\ Refuse("BAD_FUNC_INDEX")
     \/ fn # 0 /\ fn < func_count /\ Start(func_offsets(fn), args)

-----------------------------------------------------------------------------
(* Dispatch: the bounds check on pc, the fetch, the decoding.              *)
Fetch == IF pc < code_count THEN img.code[pc + 1]
                            ELSE [op |-> "BAD", a |-> 0, b |-> 0, c |-> 0]

Executes(op) == status = "running" /\ pc < code_count /\ Fetch.op = op

Used == [NoUse EXCEPT !.code = {pc}]
UsedMem(s) == [Used EXCEPT !.mem = s]

(* The three ways an instruction can end: on to newPc, a trap, the end.    *)
Go(newR, newHeap, newPc, used) ==
  /\ R' = newR /\ heap' = newHeap /\ pc' = newPc /\ uses' = used
  /\ UNCHANGED <<img, status, result, runs>>

(* R and pc are locals of cvm_exec_at: they are gone when it returns.      *)
Leave(outcome, used) ==
  /\ status' = outcome /\ uses' = used
  /\ R' = Zeros /\ pc' = 0
  /\ UNCHANGED <<img, heap, runs>>

TrapUsing(e, used) == Leave(e, used) /\ UNCHANGED result

Trap(e) == TrapUsing(e, Used)

Finish(value, used) == Leave("OK", used) /\ result' = value

SetReg(r, v) == Go([R EXCEPT ![r] = v], heap, pc + 1, Used)

Jump(target) == Go(R, heap, target, Used)

DispatchBadPc ==
  status = "running" /\ pc >= code_count /\ TrapUsing("BAD_PC", NoUse)

DispatchBadOpcode == Executes("BAD") /\ Trap("BAD_OPCODE")

Halt == LET i == Fetch IN
  Executes("HALT") /\ Finish(R[i.a], Used)

-----------------------------------------------------------------------------
(* Moves and arithmetic.                                                   *)
Movi == LET i == Fetch IN
  Executes("MOVI") /\ SetReg(i.a, ToWord(SignExtend(Imm16(i), HalfMod)))

Movhi == LET i == Fetch IN
  Executes("MOVHI") /\ SetReg(i.a, Imm16(i) * HalfMod + (R[i.a] % HalfMod))

Mov == LET i == Fetch IN Executes("MOV") /\ SetReg(i.a, R[i.b])

Binary(op) == LET i == Fetch IN
  Executes(op) /\ SetReg(i.a, Alu(op, R[i.b], R[i.c]))

Divide(op) == LET i == Fetch IN
  /\ Executes(op)
  /\ \/ R[i.c] = 0 /\ Trap("DIV_BY_ZERO")
     \/ R[i.c] # 0 /\ SetReg(i.a, Alu(op, R[i.b], R[i.c]))

(* R[a]:R[b] is the 64-bit dividend; the quotient is cut to a word.        *)
Qdiv6432 == LET i == Fetch IN
  /\ Executes("QDIV6432")
  /\ \/ R[i.c] = 0 /\ Trap("DIV_BY_ZERO")
     \/ R[i.c] # 0 /\ SetReg(i.a, ToWord((R[i.a] * WordMod + R[i.b]) \div R[i.c]))

(* Float values are data the VM hands to the host's FPU: a result is any   *)
(* of FloatWords, a comparison 0 or 1.  FNEG flips the sign bit.           *)
Float(op) == LET i == Fetch IN
  /\ Executes(op)
  /\ \E v \in IF op \in FloatCmpOps THEN {0, 1} ELSE FloatWords : SetReg(i.a, v)

Fneg == LET i == Fetch IN
  Executes("FNEG") /\ SetReg(i.a, ToWord(R[i.b] + WordMod \div 2))

-----------------------------------------------------------------------------
(* Memory.                                                                 *)
Load(op) == LET i == Fetch
                addr == R[i.b]
                n == Width(op) IN
  /\ Executes(op)
  /\ \/ ~InBounds(addr, n) /\ Trap("BAD_ADDR")
     \/ /\ InBounds(addr, n)
        /\ Go([R EXCEPT ![i.a] = ReadLE(heap, addr, n)], heap, pc + 1,
              UsedMem(Span(addr, n)))

Store(op) == LET i == Fetch
                 addr == R[i.b]
                 n == Width(op) IN
  /\ Executes(op)
  /\ \/ ~InBounds(addr, n) /\ Trap("BAD_ADDR")
     \/ /\ InBounds(addr, n)
        /\ Go(R, WriteLE(heap, addr, n, R[i.c]), pc + 1, UsedMem(Span(addr, n)))

(* The bytes a copy of n bytes leaves at dst.  memmove reads them all      *)
(* first.  memcpy may also copy upwards or downwards one byte at a time,   *)
(* which C leaves open and which differs when the ranges overlap.          *)
Moved(src, dst, n)    == [k \in Span(dst, n) |-> Peek(heap, src + (k - dst))]
Upwards(src, dst, n)  == [k \in Span(dst, n) |->
                            Peek(heap, src + ((k - dst) % (dst - src)))]
Downwards(src, dst, n) == [k \in Span(dst, n) |->
                            Peek(heap, src + n - 1 -
                                       ((dst + n - 1 - k) % (src - dst)))]

CopyOutcomes(op, src, dst, n) ==
  {Moved(src, dst, n)}
    \cup (IF op = "MEMCPY" /\ dst > src THEN {Upwards(src, dst, n)} ELSE {})
    \cup (IF op = "MEMCPY" /\ dst < src THEN {Downwards(src, dst, n)} ELSE {})

Overlay(h, new) == [k \in DOMAIN h |-> IF k \in DOMAIN new THEN new[k] ELSE h[k]]

(* A length of 0 is not checked and does nothing.                          *)
Copy(op) == LET i == Fetch
                dst == R[i.a]
                src == R[i.b]
                len == R[i.c] IN
  /\ Executes(op)
  /\ \/ len = 0 /\ Jump(pc + 1)
     \/ len # 0 /\ ~(InBounds(dst, len) /\ InBounds(src, len)) /\ Trap("BAD_ADDR")
     \/ /\ len # 0 /\ InBounds(dst, len) /\ InBounds(src, len)
        /\ \E new \in CopyOutcomes(op, src, dst, len) :
             Go(R, Overlay(heap, new), pc + 1,
                UsedMem(Span(dst, len) \cup Span(src, len)))

Memset == LET i == Fetch
              dst == R[i.a]
              len == R[i.c] IN
  /\ Executes("MEMSET")
  /\ \/ len = 0 /\ Jump(pc + 1)
     \/ len # 0 /\ ~InBounds(dst, len) /\ Trap("BAD_ADDR")
     \/ /\ len # 0 /\ InBounds(dst, len)
        /\ Go(R, Overlay(heap, [k \in Span(dst, len) |-> R[i.b] % ByteBase]),
              pc + 1, UsedMem(Span(dst, len)))

-----------------------------------------------------------------------------
(* Control flow.  Offsets are relative to the next instruction; a target   *)
(* outside the code is caught by the next dispatch, one of JMPR at once.   *)
Jmp == LET i == Fetch IN
  Executes("JMP") /\ Jump(ToWord(pc + 1 + SignExtend(Imm24(i), TriMod)))

Branch(op) == LET i == Fetch IN
  /\ Executes(op)
  /\ \/ /\ (R[i.a] = R[i.b]) = (op = "BEQ")
        /\ Jump(ToWord(pc + 1 + SignExtend(i.c, ByteBase)))
     \/ /\ (R[i.a] = R[i.b]) # (op = "BEQ")
        /\ Jump(pc + 1)

Jmpr == LET i == Fetch IN
  /\ Executes("JMPR")
  /\ \/ R[i.a] >= code_count /\ Trap("BAD_PC")
     \/ R[i.a] < code_count /\ Jump(R[i.a])

(* Faulty: the pc pushed is that of the call itself.                       *)
EnterAgain(fid) == LET sp == R[REG_SP] IN
  \/ fid = 0 /\ Trap("NULL_FUNC_PTR")
  \/ fid # 0 /\ fid >= func_count /\ Trap("BAD_FUNC_INDEX")
  \/ fid # 0 /\ fid < func_count /\ (sp < 4 \/ sp > img.memSize) /\ Trap("STACK_OVERFLOW")
  \/ /\ fid # 0 /\ fid < func_count /\ sp >= 4 /\ sp <= img.memSize
     /\ Go([R EXCEPT ![REG_SP] = sp - 4], WriteLE(heap, sp - 4, 4, pc),
           func_offsets(fid), [UsedMem(Span(sp - 4, 4)) EXCEPT !.func = {fid}])

(* Faulty: SP is not checked and wraps.                                    *)
EnterUnchecked(fid) == LET sp == ToWord(R[REG_SP] - 4) IN
  \/ fid = 0 /\ Trap("NULL_FUNC_PTR")
  \/ fid # 0 /\ fid >= func_count /\ Trap("BAD_FUNC_INDEX")
  \/ /\ fid # 0 /\ fid < func_count
     /\ Go([R EXCEPT ![REG_SP] = sp], WriteLE(heap, sp, 4, pc + 1),
           func_offsets(fid), [UsedMem(Span(sp, 4)) EXCEPT !.func = {fid}])

(* CALL and CALLR push the return pc and jump through the FUNCS table.     *)
Enter(fid) == LET sp == R[REG_SP] IN
  \/ fid = 0 /\ Trap("NULL_FUNC_PTR")
  \/ fid # 0 /\ fid >= func_count /\ Trap("BAD_FUNC_INDEX")
  \/ fid # 0 /\ fid < func_count /\ (sp < 4 \/ sp > img.memSize) /\ Trap("STACK_OVERFLOW")
  \/ /\ fid # 0 /\ fid < func_count /\ sp >= 4 /\ sp <= img.memSize
     /\ Go([R EXCEPT ![REG_SP] = sp - 4], WriteLE(heap, sp - 4, 4, pc + 1),
           func_offsets(fid),
           [UsedMem(Span(sp - 4, 4)) EXCEPT !.func = {fid}])

Call  == Executes("CALL") /\ Enter(Imm24(Fetch))
Callr == Executes("CALLR") /\ Enter(R[Fetch.a])

Ret == LET sp == R[REG_SP]
           ret_pc == ReadLE(heap, sp, 4)
           popped == [R EXCEPT ![REG_SP] = ToWord(sp + 4)]
           used == UsedMem(Span(sp, 4)) IN
  /\ Executes("RET")
  /\ \/ ~InBounds(sp, 4) /\ Trap("BAD_ADDR")
     \/ /\ InBounds(sp, 4) /\ ret_pc = RET_SENTINEL
        /\ Finish(popped[0], used)
     \/ /\ InBounds(sp, 4) /\ ret_pc # RET_SENTINEL
        /\ Go(popped, heap, ret_pc, used)

-----------------------------------------------------------------------------
(* Syscalls.  A handler gets the register file and the image; the built-in *)
(* ones answer in R[0].  The handlers of the host are external: one that   *)
(* answers a word or traps, and two that use cvm_heap_read and             *)
(* cvm_heap_write on the word at the address in R[0], trapping when those  *)
(* report CVM_E_BAD_ADDR.                                                  *)
Builtin(kind) == CASE kind = "heap_start" -> img.heapSize - img.reserve
                   [] kind = "heap_size"  -> img.reserve
                   [] kind = "rom_base"   -> img.romOffset
                   [] OTHER               -> img.romSize

cvm_heap_read(id, addr, n) ==
  \/ ~InBounds(addr, n) /\ Trap("SYSCALL_TRAP")
  \/ /\ InBounds(addr, n)
     /\ Go([R EXCEPT ![0] = ReadLE(heap, addr, n)], heap, pc + 1,
           [UsedMem(Span(addr, n)) EXCEPT !.imp = {id}])

cvm_heap_write(id, addr, n, v) ==
  \/ ~InBounds(addr, n) /\ Trap("SYSCALL_TRAP")
  \/ /\ InBounds(addr, n)
     /\ Go(R, WriteLE(heap, addr, n, v), pc + 1,
           [UsedMem(Span(addr, n)) EXCEPT !.imp = {id}])

(* builtin_sys_get_region: the NUL-terminated name at addr is read from    *)
(* the heap (at most 16 bytes, none past heap_size); -1 if no region of    *)
(* the image has that name.  Names of regions are distinct.                *)
Named(r, addr) ==
  /\ addr + Len(r.name) < img.heapSize
  /\ \A k \in DOMAIN r.name : Peek(heap, addr + k - 1) = r.name[k]
  /\ Peek(heap, addr + Len(r.name)) = 0

NameReach(addr) == {k \in Span(addr, 16) : k < img.heapSize}

get_region(id, addr) ==
  LET found == {r \in img.regions : Named(r, addr)}
      used == [UsedMem(NameReach(addr)) EXCEPT !.imp = {id}]
  IN  \/ found = {} /\ Go([R EXCEPT ![0] = ToWord(-1)], heap, pc + 1, used)
      \/ \E r \in found : Go([R EXCEPT ![0] = r.offset], heap, pc + 1, used)

HostHandler(id) ==
  \/ Trap("SYSCALL_TRAP")
  \/ \E v \in HostWords :
       Go([R EXCEPT ![0] = v], heap, pc + 1, [Used EXCEPT !.imp = {id}])

import_fn(id) == IF id < Len(img.imports) THEN img.imports[id + 1] ELSE "unlinked"

Invoke(id, kind) ==
  \/ id >= Len(img.imports) /\ Trap("BAD_SYSCALL")
  \/ id < Len(img.imports) /\ kind = "unlinked" /\ Trap("UNLINKED_SYSCALL")
  \/ kind = "get_region" /\ get_region(id, R[0])
  \/ kind = "host" /\ HostHandler(id)
  \/ kind = "host_read" /\ cvm_heap_read(id, R[0], 4)
  \/ kind = "host_write" /\ cvm_heap_write(id, R[0], 4, R[1])
  \/ /\ kind \in {"heap_start", "heap_size", "rom_base", "rom_size"}
     /\ Go([R EXCEPT ![0] = Builtin(kind)], heap, pc + 1,
           [Used EXCEPT !.imp = {id}])

Syscall == Executes("SYSCALL") /\ Invoke(Imm16(Fetch), import_fn(Imm16(Fetch)))

-----------------------------------------------------------------------------
(* Non-local control: SETJMP and LONGJMP on a 12-byte record {pc, sp,      *)
(* dest}, CORO_SWAP on a 16-byte record {pc, sp, dest, status}.            *)
Words(h, base, n) == [k \in 0 .. n - 1 |-> ReadLE(h, base + 4 * k, 4)]

Save3(h, base, w0, w1, w2) ==
  WriteLE(WriteLE(WriteLE(h, base, 4, w0), base + 4, 4, w1), base + 8, 4, w2)

Setjmp == LET i == Fetch
              env == R[i.b] IN
  /\ Executes("SETJMP")
  /\ \/ ~InBounds(env, 12) /\ Trap("BAD_ADDR")
     \/ /\ InBounds(env, 12)
        /\ Go([R EXCEPT ![i.a] = 0],
              Save3(heap, env, pc + 1, R[REG_SP], i.a), pc + 1,
              UsedMem(Span(env, 12)))

Longjmp == LET i == Fetch
               env == R[i.a]
               j == Words(heap, env, 3)         \* jpc, jsp, jdst
               v == IF R[i.b] # 0 THEN R[i.b] ELSE 1
               used == UsedMem(Span(env, 12)) IN
  /\ Executes("LONGJMP")
  /\ \/ ~InBounds(env, 12) /\ Trap("BAD_ADDR")
     \/ InBounds(env, 12) /\ j[0] >= code_count /\ TrapUsing("BAD_PC", used)
     \/ /\ InBounds(env, 12) /\ j[0] < code_count /\ j[2] >= ByteBase
        /\ TrapUsing("BAD_ADDR", used)
     \/ /\ InBounds(env, 12) /\ j[0] < code_count /\ j[2] < ByteBase
        /\ Go([R EXCEPT ![j[2]] = v, ![REG_SP] = j[1]], heap, j[0],
              [used EXCEPT !.reg = {j[2]}])

(* Faulty: the coroutine resumes at its swap, not behind it.               *)
CoroSavedAgain(from, to, dest) ==
  WriteLE(WriteLE(Save3(heap, from, pc, R[REG_SP], dest),
                  from + 12, 4, CORO_SUSPENDED),
          to + 12, 4, CORO_RUNNING)

(* Faulty: the coroutine that is resumed keeps its status.                 *)
CoroSavedUnmarked(from, to, dest) ==
  WriteLE(Save3(heap, from, pc + 1, R[REG_SP], dest),
          from + 12, 4, CORO_SUSPENDED)

(* The record `from` is written after `to` was read and before its status  *)
(* becomes RUNNING, in that order.                                         *)
CoroSaved(from, to, dest) ==
  WriteLE(WriteLE(Save3(heap, from, pc + 1, R[REG_SP], dest),
                  from + 12, 4, CORO_SUSPENDED),
          to + 12, 4, CORO_RUNNING)

CoroSwap == LET i == Fetch
                from == R[i.a]
                to == R[i.b]
                ok == InBounds(from, 16) /\ InBounds(to, 16) /\ from # to
                j == Words(heap, to, 4)         \* jpc, jsp, jdst, jstat
                fresh == ok /\ j[3] = CORO_FRESH
                known == fresh /\ j[0] # 0 /\ j[0] < func_count
                target == IF fresh THEN func_offsets(j[0]) ELSE j[0]
                resumable == known \/ (ok /\ j[3] = CORO_SUSPENDED)
                read == UsedMem(Span(to, 16))
                used == UsedMem(Span(from, 16) \cup Span(to, 16)) IN
  /\ Executes("CORO_SWAP")
  /\ \/ ~ok /\ Trap("BAD_ADDR")
     \/ /\ ok /\ j[3] \notin {CORO_FRESH, CORO_SUSPENDED}
        /\ TrapUsing("BAD_CORO_STATE", read)
     \/ fresh /\ j[0] = 0 /\ TrapUsing("NULL_FUNC_PTR", read)
     \/ fresh /\ j[0] >= func_count /\ j[0] # 0 /\ TrapUsing("BAD_FUNC_INDEX", read)
     \/ known /\ j[2] >= ByteBase /\ TrapUsing("BAD_ADDR", read)
     \/ /\ resumable /\ (fresh => j[2] < ByteBase) /\ target >= code_count
        /\ TrapUsing("BAD_PC", read)
     \/ /\ known /\ j[2] < ByteBase /\ target < code_count
        /\ Go([R EXCEPT ![j[2]] = to, ![REG_SP] = j[1]],
              CoroSaved(from, to, i.a), target,
              [used EXCEPT !.func = {j[0]}, !.reg = {j[2]}])
     \/ /\ resumable /\ ~fresh /\ target < code_count
        /\ Go([R EXCEPT ![REG_SP] = j[1]], CoroSaved(from, to, i.a), target, used)

-----------------------------------------------------------------------------
Host == \/ \E args \in ArgVectors : cvm_run_args(args)
        \/ \E fn \in FnIndexes, args \in ArgVectors : cvm_call(fn, args)

Step ==
  \/ DispatchBadPc \/ DispatchBadOpcode \/ Halt
  \/ Movi \/ Movhi \/ Mov \/ Fneg \/ Qdiv6432
  \/ \E op \in AluOps : Binary(op)
  \/ \E op \in DivOps : Divide(op)
  \/ \E op \in FloatOps : Float(op)
  \/ \E op \in LoadOps : Load(op)
  \/ \E op \in StoreOps : Store(op)
  \/ \E op \in CopyOps : Copy(op)
  \/ Memset
  \/ Jmp \/ Jmpr \/ \E op \in {"BEQ", "BNE"} : Branch(op)
  \/ Call \/ Callr \/ Ret \/ Syscall
  \/ Setjmp \/ Longjmp \/ CoroSwap

(* The host is done: it frees the image.                                   *)
Done == status # "running" /\ runs = MaxRuns /\ UNCHANGED vars

Next == Host \/ Step \/ Done

Spec == Init /\ [][Next]_vars

(* The interpreter loop keeps dispatching until the run ends; the host is  *)
(* under no obligation to start another run.                               *)
FairSpec == Spec /\ WF_vars(Step)

-----------------------------------------------------------------------------
Statuses == {"idle", "running", "OK"} \cup Errors

(* The type invariant: registers and pc are 32-bit words, the memory of an *)
(* image never changes its size, and a run ends in one of the codes of     *)
(* enum cvm_result.                                                        *)
TypeOK ==
  /\ img \in Carts
  /\ heap \in [0 .. img.memSize - 1 -> Byte]
  /\ R \in [Byte -> Word]
  /\ pc \in Word
  /\ status \in Statuses
  /\ result \in Word
  /\ runs \in 0 .. MaxRuns

Inside(u) ==
  /\ u.code \subseteq 0 .. code_count - 1
  /\ u.mem  \subseteq 0 .. img.memSize - 1
  /\ u.func \subseteq 1 .. func_count - 1
  /\ u.imp  \subseteq 0 .. Len(img.imports) - 1
  /\ u.reg  \subseteq Byte

(* The sandbox of cvm_exec_at: whatever the program, its memory and its    *)
(* arguments, every index an instruction used lies inside its array: the   *)
(* code it fetched, the bytes of img->heap it read or wrote, the slots of  *)
(* func_offsets and import_fns, and the register number that LONGJMP and   *)
(* CORO_SWAP read out of memory.                                           *)
Sandboxed == Inside(uses)
=============================================================================
