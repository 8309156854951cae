------------------------------- MODULE CgEmit -------------------------------
(***************************************************************************)
(* The code of a function before its branches are resolved: cg_function    *)
(* and cg_emit_user_call (src/tools/translator/translator.c).              *)
(*                                                                         *)
(* c = [f, al, live] is what the analyses found out about the function; cg  *)
(* gets two more fields, the offsets of the blocks and the jump tables.    *)
(*                                                                         *)
(* Left out: wide values (they live in slots only), arguments on the stack, *)
(* the moves of SP, and the second instruction (MOVHI, SHL) of a constant   *)
(* too wide for one.                                                       *)
(***************************************************************************)
EXTENDS CgPhi

CONSTANTS
  AddressOf,    \* [alloca values -> words]
  MinTable      \* 4: a switch with fewer cases is a chain of compares

ScratchReg == MaxEmitReg + 2      \* CG_REG_SCRATCH; nobody reads what is left there
EhFrame == SaveFlag + 100         \* the eh_frame of the function: jb[0] ...
EhDesc == EhFrame + 1             \* ... and its descriptor

NoCode == [code |-> << >>, fix |-> << >>, tables |-> << >>, offs |-> << >>,
           next |-> 0, err |-> FALSE]

Here(cg) == Len(cg.code)          \* the index of the next instruction
(* Let the instruction at index `pos' jump to the next one to be emitted.   *)
Patch(cg, pos) == [cg EXCEPT !.code[pos + 1].k = Here(cg) - (pos + 1)]

-----------------------------------------------------------------------------
(* Parameters go to their homes, the zero register is set, and addresses of *)
(* allocas are computed, once, into the registers that hold them.          *)
Prologue(c) ==
  LET homes == FoldLeftDomain(LAMBDA g, k : MoveTo(g, c.al.loc[c.f.params[k]], k - 1),
                              NoCode, c.f.params)
      address(g, i) == IF IsSpilled(c.al, i.val) THEN g
                       ELSE SetConst(g, c.al.loc[i.val], AddressOf[i.val])
  IN  FoldLeft(address, SetConst(homes, ZeroReg, 0),
               SelectSeq(Code(c.f, 1), LAMBDA i : i.kind = "alloca"))

-----------------------------------------------------------------------------
(* The operands of an instruction, each in a register.                     *)
Operands(cg, c, vs) ==
  FoldLeft(LAMBDA a, v : LET x == cg_reg_for(a.cg, c.al, v)
                         IN  [cg |-> x.cg, r |-> Append(a.r, x.r)],
           [cg |-> cg, r |-> << >>], vs)

(* cg_emit_spill and cg_emit_restore, in the order of the registers.        *)
InOrder(regs) == SetToSortSeq(regs, <)
cg_emit_spill(cg, c, regs) ==
  FoldLeft(LAMBDA g, r : MoveTo(g, slot_of(c.f, c.al, c.live, r), r), cg, InOrder(regs))
cg_emit_restore(cg, c, regs) ==
  FoldLeft(LAMBDA g, r : MoveTo(g, r, slot_of(c.f, c.al, c.live, r)), cg, InOrder(regs))

(* Argument k in R(k-1); the scratch registers it took are free again.     *)
cg_place_arg_word(cg, c, v, k) ==
  LET x == cg_reg_for(cg, c.al, v)
  IN  IF v \notin Consts /\ IsSpilled(c.al, v) THEN MoveTo(cg, k - 1, c.al.loc[v])
      ELSE [MoveTo(x.cg, k - 1, x.r) EXCEPT !.next = cg.next]

(* Save what lives on, pass the arguments, call, restore, take the result. *)
cg_emit_user_call(cg, c, b, n, dst) ==
  LET i == Code(c.f, b)[n]
      saved == cg_call_spill_set(c.f, c.al, c.live, b, n)
      placed == FoldLeftDomain(LAMBDA g, k : cg_place_arg_word(g, c, i.uses[k], k),
                               cg_emit_spill(cg, c, saved), i.uses)
      call == cg_emit(placed, Ins("call", 0, [k \in DOMAIN i.uses |-> k - 1], 0, <<b, n>>))
      back == cg_emit_restore(call, c, saved)
  IN  IF i.val = NoVal THEN back ELSE MoveTo(back, dst, 0)

(* A call of one of the runtime's own functions.                           *)
cg_emit_eh_call(cg, c, regs) ==
  cg_emit_restore(cg_emit(cg_emit_spill(cg, c, regs), Ins("call", 0, << >>, 0, None)), c, regs)

EmitOp(cg, c, b, n, dst) ==
  LET x == Operands(cg, c, Code(c.f, b)[n].uses)
  IN  cg_emit(x.cg, Ins("op", dst, x.r, 0, <<b, n>>))

EmitSelect(cg, c, b, n, dst) ==
  LET x == Operands(cg, c, Code(c.f, b)[n].uses)
      g1 == cg_emit(x.cg, Ins("beq", 0, <<x.r[1]>>, 2, None))
      g2 == cg_emit(g1, Ins("copy", dst, <<x.r[2]>>, 0, <<b, n>>))
      g3 == cg_emit(g2, Ins("jmp", 0, << >>, 1, None))
  IN  cg_emit(g3, Ins("copy", dst, <<x.r[3]>>, 0, <<b, n>>))

(* The edge from b to s: its moves and the jump.                           *)
Edge(cg, c, b, s) == Jump(cg_emit_phi_moves(cg, c.f, c.al, b, s), s)

(* Faulty, for comparison: the moves of both edges in front of the branch.  *)
BrNotIsolated(cg, c, b, n) ==
  LET i == Code(c.f, b)[n]
      x == cg_reg_for(cg, c.al, i.uses[1])
      m == cg_emit_phi_moves(cg_emit_phi_moves(x.cg, c.f, c.al, b, i.succ[1]), c.f, c.al, b, i.succ[2])
  IN  IF i.uses = << >> THEN Edge(cg, c, b, i.succ[1])
      ELSE Jump(BranchTo(m, "bne", x.r, i.succ[1]), i.succ[2])

(* The moves of an edge are made only when it is taken: the branch goes to  *)
(* the successor without moves; with moves on both edges it skips a section. *)
EmitBr(cg, c, b, n) ==
  LET i == Code(c.f, b)[n]
      yes == i.succ[1]
      no == i.succ[2]
      x == cg_reg_for(cg, c.al, i.uses[1])
      skip == cg_emit(cg_emit(x.cg, Ins("beq", 0, <<x.r>>, 1, None)), Ins("jmp", 0, << >>, 0, None))
  IN  CASE i.uses = << >> -> Edge(cg, c, b, yes)
        [] i.uses # << >> /\ cg_block_has_phi(c.f, yes) /\ cg_block_has_phi(c.f, no) ->
             Edge(Patch(Edge(skip, c, b, no), Here(skip) - 1), c, b, yes)
        [] i.uses # << >> /\ cg_block_has_phi(c.f, yes) /\ ~cg_block_has_phi(c.f, no) ->
             Edge(BranchTo(x.cg, "beq", x.r, no), c, b, yes)
        [] OTHER -> Edge(BranchTo(x.cg, "bne", x.r, yes), c, b, no)

-----------------------------------------------------------------------------
(* A switch makes the moves of all its edges, and then looks for the case. *)
(* succ[1] is the default, succ[k + 1] the block of case k.                *)
UsesTable(cases) ==
  /\ Len(cases) >= MinTable
  /\ Max(ToSet(cases)) - Min(ToSet(cases)) + 1 <= 2 * Len(cases)

(* Faulty, for comparison: each case takes scratch registers of its own.    *)
ChainGreedy(cg, i, r) ==
  LET compare(g, k) ==
        LET g1 == cg_alloc_reg(g)
            g2 == cg_alloc_reg(SetConst(g1, Allocated(g1), i.cases[k]))
            g3 == cg_emit(g2, Ins("eq", Allocated(g2), <<r, Allocated(g1)>>, 0, None))
        IN  BranchTo(g3, "bne", Allocated(g2), i.succ[k + 1])
  IN  Jump(FoldLeftDomain(compare, cg, i.cases), i.succ[1])

(* One compare and branch per case; the scratch registers are reused.      *)
EmitChain(cg, i, r) ==
  LET compare(g, k) ==
        LET g1 == cg_alloc_reg(g)
            g2 == cg_alloc_reg(SetConst(g1, Allocated(g1), i.cases[k]))
            g3 == cg_emit(g2, Ins("eq", Allocated(g2), <<r, Allocated(g1)>>, 0, None))
        IN  [BranchTo(g3, "bne", Allocated(g2), i.succ[k + 1]) EXCEPT !.next = g.next]
  IN  Jump(FoldLeftDomain(compare, cg, i.cases), i.succ[1])

(* A table of addresses in DATA, one word for each number from the first   *)
(* case to the last; numbers out of its range go to the default.  Nine      *)
(* scratch registers, none of which is used twice.                         *)
EmitTable(cg, i, r) ==
  LET lo == Min(ToSet(i.cases))
      size == Max(ToSet(i.cases)) - lo + 1
      target(w) == IF \E k \in DOMAIN i.cases : i.cases[k] = w
                   THEN i.succ[1 + (CHOOSE k \in DOMAIN i.cases : i.cases[k] = w)]
                   ELSE i.succ[1]
      table == [k \in 1 .. size |-> [to |-> target(lo + k - 1), offset |-> 0]]
      const(g, w) == LET a == cg_alloc_reg(g) IN SetConst(a, Allocated(a), w)
      calc(g, op, x, y) == LET a == cg_alloc_reg(g)
                           IN  cg_emit(a, Ins(op, Allocated(a), <<x, y>>, 0, None))
      g1 == const(cg, lo)
      off == calc(g1, "sub", r, Allocated(g1))
      g2 == const(off, size)
      inrange == calc(g2, "ltu", Allocated(off), Allocated(g2))
      beq == cg_emit(inrange, Ins("beq", 0, <<Allocated(inrange)>>, 0, None))
      two == const(beq, 2)
      idx == calc(two, "shl", Allocated(off), Allocated(two))
      base == const(idx, 4 * Len(cg.tables))
      addr == calc(base, "add", Allocated(base), Allocated(idx))
      g3 == cg_alloc_reg(addr)
      ldw == cg_emit(g3, Ins("ldw", Allocated(g3), <<Allocated(addr)>>, 0, None))
      jmpr == cg_emit(ldw, Ins("jmpr", 0, <<Allocated(g3)>>, 0, None))
  IN  Jump(Patch([jmpr EXCEPT !.tables = @ \o table], Here(inrange)), i.succ[1])

EmitSwitch(cg, c, b, n) ==
  LET i == Code(c.f, b)[n]
      x == cg_reg_for(cg, c.al, i.uses[1])
      moved == FoldLeft(LAMBDA g, s : cg_emit_phi_moves(g, c.f, c.al, b, s), x.cg, i.succ)
  IN  IF UsesTable(i.cases) THEN EmitTable(moved, i, x.r) ELSE EmitChain(moved, i, x.r)

-----------------------------------------------------------------------------
EmitRet(cg, c, b, n) ==
  LET i == Code(c.f, b)[n]
      x == cg_reg_for(cg, c.al, i.uses[1])
  IN  IF i.uses = << >> THEN cg_emit(cg, Ins("ret", 0, << >>, 0, <<b, n>>))
      ELSE cg_emit(MoveTo(x.cg, 0, x.r), Ins("ret", 0, <<0>>, 0, <<b, n>>))

(* Push the handler frame, arm it, call, pop, go on; or, when the call      *)
(* threw, go to the landing pad.  The call's operands have to survive the   *)
(* push, its result the pop.  A spilled result is stored here, the          *)
(* generic store behind a terminator being dead code.  LONGJMP restores no  *)
(* register: what the landing pad needs comes from the slots the call saved *)
(* it in.                                                                  *)
EmitInvoke(cg, c, b, n, dst) ==
  LET i == Code(c.f, b)[n]
      live == cg_call_spill_set(c.f, c.al, c.live, b, n)
      operands == cg_spill_bit_of(c.al, Uses(i))
      d == cg_alloc_reg(cg)
      desc == MoveTo(SetConst(d, Allocated(d), 1), EhDesc, Allocated(d))
      push == cg_alloc_reg(cg_emit_eh_call(desc, c, live \cup operands))
      r == Allocated(push)
      arm == cg_emit(cg_emit(push, Ins("setjmp", r, << >>, 0, None)),
                     Ins("beq", 0, <<r>>, 1, None))
      called == cg_emit_user_call(cg_emit(arm, Ins("jmp", 0, << >>, 0, None)), c, b, n, dst)
      pop == cg_emit_eh_call(MoveTo(called, EhFrame, dst), c, live)
      result == MoveTo(pop, dst, EhFrame)
      kept == IF i.val = NoVal THEN cg_emit_eh_call(called, c, live)
              ELSE IF IsSpilled(c.al, i.val) THEN MoveTo(result, c.al.loc[i.val], dst) ELSE result
      unwind == cg_emit_restore(Patch(Edge(kept, c, b, i.succ[1]), Here(arm)), c, live)
  IN  Edge(unwind, c, b, i.succ[2])

-----------------------------------------------------------------------------
(* Instruction n of block b.  Its scratch registers start above those of    *)
(* the function; a spilled result is computed in the first of them and      *)
(* stored afterwards.                                                      *)
EmitInstr(cg, c, b, n) ==
  LET i == Code(c.f, b)[n]
      spilled == i.val # NoVal /\ IsSpilled(c.al, i.val)
      start == [cg EXCEPT !.next = c.al.next]
      g == IF spilled THEN cg_alloc_reg(start) ELSE start
      dst == IF spilled THEN Allocated(g) ELSE IF i.val = NoVal THEN ScratchReg ELSE c.al.loc[i.val]
      done == CASE i.kind = "op" -> EmitOp(g, c, b, n, dst)
                [] i.kind = "select" -> EmitSelect(g, c, b, n, dst)
                [] i.kind = "call" -> cg_emit_user_call(g, c, b, n, dst)
                [] i.kind = "alloca" -> IF spilled THEN SetConst(g, dst, AddressOf[i.val]) ELSE g
                [] i.kind = "br" -> EmitBr(g, c, b, n)
                [] i.kind = "switch" -> EmitSwitch(g, c, b, n)
                [] i.kind = "ret" -> EmitRet(g, c, b, n)
                [] i.kind = "invoke" -> EmitInvoke(g, c, b, n, dst)
                [] i.kind = "unreachable" -> cg_emit(g, Nop)
  IN  IF spilled THEN MoveTo(done, c.al.loc[i.val], dst) ELSE done

EmitBlock(cg, c, b) ==
  FoldLeftDomain(LAMBDA g, n : EmitInstr(g, c, b, n),
                 [cg EXCEPT !.offs = Append(@, Here(cg))], Code(c.f, b))
=============================================================================
