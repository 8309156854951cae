-------------------------------- MODULE CgPhi --------------------------------
(***************************************************************************)
(* Emitting instructions, and the moves of an edge: cg_emit, cg_alloc_reg, *)
(* cg_reg_for and cg_emit_phi_moves (translator.c).                        *)
(*                                                                         *)
(* The state of emission is a record cg = [code, fix, next, err].  An      *)
(* instruction is [op, d, s, k, ir]: destination and source locations, an   *)
(* immediate, and <<b, n>> when it is the one that carries out instruction *)
(* n of block b.  A load or store of a slot of the frame is a "copy" like a *)
(* MOV: the address arithmetic with R254 is left out.                       *)
(***************************************************************************)
EXTENDS CgAlloc

ZeroReg == MaxEmitReg + 1      \* CG_REG_ZERO

None == <<0, 0>>
Ins(op, d, s, k, ir) == [op |-> op, d |-> d, s |-> s, k |-> k, ir |-> ir]
Nop == Ins("halt", 0, << >>, 0, None)

cg_emit(cg, i) == [cg EXCEPT !.code = Append(@, i)]
cg_queue_fixup(cg, b, short) ==
  [cg EXCEPT !.fix = Append(@, [at |-> Len(cg.code), to |-> b, short |-> short])]

Jump(cg, b) == cg_emit(cg_queue_fixup(cg, b, FALSE), Ins("jmp", 0, << >>, 0, None))
BranchTo(cg, op, r, b) == cg_emit(cg_queue_fixup(cg, b, TRUE), Ins(op, 0, <<r>>, 0, None))

(* The registers above those of the function are scratch, handed out       *)
(* upwards; the one handed out is cg.next - 1 of the new state.             *)
cg_alloc_reg(cg) == IF cg.next > MaxEmitReg THEN [cg EXCEPT !.err = TRUE]
                    ELSE [cg EXCEPT !.next = @ + 1]
Allocated(cg) == cg.next - 1

IsSlot(l) == l >= SlotFlag
MoveTo(cg, d, s) == IF d = s THEN cg ELSE cg_emit(cg, Ins("copy", d, <<s>>, 0, None))
SetConst(cg, d, w) == cg_emit(cg, Ins("const", d, << >>, w, None))

(* A register that holds operand v: its own, or a scratch register it is    *)
(* loaded into.                                                            *)
cg_reg_for(cg, al, v) ==
  LET a == cg_alloc_reg(cg)
  IN  CASE v \in Consts -> [cg |-> SetConst(a, Allocated(a), ConstOf[v]), r |-> Allocated(a)]
        [] v \notin Consts /\ IsSpilled(al, v) ->
             [cg |-> MoveTo(a, Allocated(a), al.loc[v]), r |-> Allocated(a)]
        [] OTHER -> [cg |-> cg, r |-> al.loc[v]]

-----------------------------------------------------------------------------
cg_block_has_phi(f, b) == Phis(f, b) # {}

(* The moves of the edge a -> b that do something.                         *)
PhiMoves(f, al, a, b) ==
  LET move(p) == IF p.from[a] \in Consts
                 THEN [dst |-> al.loc[p.val], const |-> TRUE, src |-> ConstOf[p.from[a]]]
                 ELSE [dst |-> al.loc[p.val], const |-> FALSE, src |-> al.loc[p.from[a]]]
      works(m) == m.const \/ m.src # m.dst
  IN  SelectSeq([k \in DOMAIN f.blocks[b].phis |-> move(f.blocks[b].phis[k])], works)

(* A copy from slot to slot goes through the stage register.               *)
cg_phi_copy_loc(cg, dst, src, stage) ==
  IF IsSlot(dst) /\ IsSlot(src) THEN MoveTo(MoveTo(cg, stage, src), dst, stage)
  ELSE MoveTo(cg, dst, src)

(* A constant is loaded into a scratch register that is free again at once. *)
cg_phi_emit_const(cg, dst, w) ==
  LET a == cg_alloc_reg(cg)
  IN  [MoveTo(SetConst(a, Allocated(a), w), dst, Allocated(a)) EXCEPT !.next = cg.next]

(* The parallel copy made sequential (Boissinot et al.).  cur[l] is where   *)
(* the value that belongs to l is now, for the locations that are read;     *)
(* `ready' and `todo' are stacks of destinations.                          *)
CopyState(cg, moves, spare, stage) ==
  LET dsts == [k \in DOMAIN moves |-> moves[k].dst]
      srcs == {m.src : m \in {x \in ToSet(moves) : ~x.const}}
  IN  [cg |-> cg, moves |-> moves, spare |-> spare, stage |-> stage,
       cur |-> [l \in srcs |-> l], done |-> {},
       ready |-> SelectSeq(dsts, LAMBDA d : d \notin srcs), todo |-> dsts]

Push(x, l) == IF l \in x.done \cup ToSet(x.ready) THEN x ELSE [x EXCEPT !.ready = Append(@, l)]
MoveInto(x, l) == CHOOSE m \in ToSet(x.moves) : m.dst = l
IsTarget(x, l) == \E m \in ToSet(x.moves) : m.dst = l

(* Carry out the move into the destination on top of `ready'.  When the    *)
(* value was still in its own place, that place can be written now.        *)
CopyReady(x) ==
  LET b == Last(x.ready)
      m == MoveInto(x, b)
      y == [x EXCEPT !.ready = Front(@), !.done = @ \cup {b}]
  IN  CASE b \in x.done -> [x EXCEPT !.ready = Front(@)]
        [] b \notin x.done /\ m.const -> [y EXCEPT !.cg = cg_phi_emit_const(@, b, m.src)]
        [] OTHER -> LET z == [y EXCEPT !.cg = cg_phi_copy_loc(@, b, x.cur[m.src], x.stage),
                                       !.cur[m.src] = b]
                    IN  IF x.cur[m.src] = m.src /\ IsTarget(x, m.src) THEN Push(z, m.src) ELSE z

(* Only cycles are left: save the destination on top of `todo', then it is  *)
(* ready.                                                                  *)
BreakCycle(x) ==
  LET b == Last(x.todo)
      y == [x EXCEPT !.todo = Front(@)]
  IN  IF b \in x.done THEN y
      ELSE Push([y EXCEPT !.cg = cg_phi_copy_loc(@, x.spare, b, x.stage), !.cur[b] = x.spare], b)

CopyStep(x) ==
  IF x.todo = << >> THEN x ELSE IF x.ready # << >> THEN CopyReady(x) ELSE BreakCycle(x)

(* Each step takes one off a stack, and a destination is pushed on `ready'  *)
(* once more at most: 3 steps per move are enough.                         *)
cg_emit_phi_moves(cg, f, al, a, b) ==
  LET moves == PhiMoves(f, al, a, b)
      s1 == cg_alloc_reg(cg)
      s2 == cg_alloc_reg(s1)
      After[k \in Nat] == IF k = 0 THEN CopyState(s2, moves, Allocated(s1), Allocated(s2))
                          ELSE CopyStep(After[k - 1])
  IN  IF moves = << >> THEN cg
      ELSE IF s2.err THEN s2 ELSE After[3 * Len(moves)].cg
=============================================================================
