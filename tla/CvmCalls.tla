------------------------------ MODULE CvmCalls ------------------------------
(***************************************************************************)
(* The calls of the interpreter implement CallStack, for the carts that    *)
(* leave SP and the stack to CALL and RET.                                 *)
(***************************************************************************)
EXTENDS CvmExec

(* The program as CallStack sees it.  The stack has room for the sentinel  *)
(* and one return address per further word of memory.                      *)
Flow(c) ==
  LET point == 0 .. Len(c.code) - 1
      after(p) == LET i == c.code[p + 1] IN
        CASE i.op = "JMPR" -> point
          [] i.op = "JMP" -> {ToWord(p + 1 + SignExtend(Imm24(i), TriMod))}
          [] i.op \in {"BEQ", "BNE"} ->
               {p + 1, ToWord(p + 1 + SignExtend(i.c, ByteBase))}
          [] i.op \in {"CALL", "CALLR", "RET", "HALT"} -> {}
          [] OTHER -> {p + 1}
  IN  UNION {{p} \X after(p) : p \in point}

(* The instructions that do not check anything, and RET: under this        *)
(* discipline its check cannot fail.                                       *)
NeverFails == AluOps \cup FloatOps \cup
              {"MOVI", "MOVHI", "MOV", "FNEG", "JMP", "BEQ", "BNE", "HALT", "RET"}

At(c, ops) == {p \in 0 .. Len(c.code) - 1 : c.code[p + 1].op \in ops}

TextOf(c) ==
  [size |-> Len(c.code), flow |-> Flow(c), depth |-> (c.memSize \div 4) - 1,
   halts |-> At(c, {"HALT"}), faults |-> At(c, (Opcodes \cup {"BAD"}) \ NeverFails),
   entries |-> {c.entry} \cup {c.funcs[k] : k \in 2 .. Len(c.funcs)}]

Depth == (img.memSize - R[REG_SP]) \div 4 - 1
Frames == IF status = "running"
          THEN [k \in 1 .. Depth |-> ReadLE(heap, img.memSize - 4 - 4 * k, 4)]
          ELSE <<>>
Phase == CASE status \in {"idle", "running"} -> status
           [] status = "OK" -> "done"
           [] status = "STACK_OVERFLOW" -> "overflow"
           [] OTHER -> "trapped"

Stack == INSTANCE CallStack
           WITH text <- TextOf(img), at <- pc, frames <- Frames, phase <- Phase

(* The discipline: SP and the words from SP upwards are written by CALL,   *)
(* CALLR and RET only, and no LONGJMP or CORO_SWAP leaves the stack.       *)
LeavesStack ==
  status = "running" /\ pc < code_count /\ Fetch.op \notin {"CALL", "CALLR", "RET"} =>
    /\ Fetch.op \notin {"LONGJMP", "CORO_SWAP"}
    /\ status' = "running" =>
         /\ R'[REG_SP] = R[REG_SP]
         /\ \A k \in R[REG_SP] .. img.memSize - 1 : heap'[k] = heap[k]

(* Whatever calls a program makes and however deep, CALL and RET behave as *)
(* a stack of return addresses (cvm_exec_at, L_CALL, L_CALLR and L_RET):   *)
(* no return goes anywhere but behind its own call, and the run completes  *)
(* exactly when the outermost function returns.                            *)
CallsAreNested == Stack!StackSpec

(* Every run of a program without a backward jump ends, however it calls:  *)
(* endless recursion is stopped by the check on SP in L_CALL and L_CALLR.  *)
RunsEnd == status = "running" ~> status # "running"
=============================================================================
