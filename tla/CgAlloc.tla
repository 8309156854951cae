------------------------------- MODULE CgAlloc -------------------------------
(***************************************************************************)
(* Registers, liveness and frame slots of a function:                      *)
(* cg_pre_alloc_function, cg_compute_liveness, cg_compute_call_liveouts    *)
(* and the spill layout in cg_function (src/tools/translator/translator.c). *)
(*                                                                         *)
(* A location is a number: a register, or a flag plus the index of a slot  *)
(* of the frame (as PHI_SLOT_FLAG in the code).  An allocation is a record  *)
(* al = [next, pool, loc, slots]: next_reg, free_list, the location of each *)
(* value and val_spill_count.                                              *)
(***************************************************************************)
EXTENDS SsaFn, FiniteSetsExt

CONSTANTS
  FirstReg,     \* 8: R0 .. R7 pass arguments
  MaxSsaReg,    \* CG_MAX_SSA_REG
  MaxEmitReg    \* CG_MAX_EMIT_REG

ASSUME RegAssumption ==
  /\ FirstReg \in Nat \ {0} /\ MaxSsaReg \in Nat /\ MaxEmitReg \in Nat
  /\ FirstReg <= MaxSsaReg /\ MaxSsaReg < MaxEmitReg

SlotFlag == MaxEmitReg + 100     \* PHI_SLOT_FLAG: value slots
SaveFlag == SlotFlag + 100       \* caller-save slots
IsSpilled(al, v) == al.loc[v] >= SlotFlag

NoAllocation == [next |-> FirstReg, pool |-> << >>, loc |-> << >>, slots |-> 0]

(* Faulty, for comparison: a register may be pooled twice.                 *)
FreeAgain(al, r) == [al EXCEPT !.pool = Append(@, r)]

(* cg_free_reg keeps the pool a set.                                       *)
cg_free_reg(al, r) ==
  IF r \in ToSet(al.pool) THEN al ELSE [al EXCEPT !.pool = Append(@, r)]

Placed(al, v, l) == [al EXCEPT !.loc = (v :> l) @@ @]

(* Faulty, for comparison: nothing is ever put in a slot.                   *)
DefNeverSpilled(al, v) ==
  IF al.pool # << >> THEN [Placed(al, v, Last(al.pool)) EXCEPT !.pool = Front(@)]
  ELSE [Placed(al, v, al.next) EXCEPT !.next = @ + 1]

(* The pool first, then the next register, then a slot of its own.         *)
cg_pre_alloc_def(al, v) ==
  CASE al.pool # << >> -> [Placed(al, v, Last(al.pool)) EXCEPT !.pool = Front(@)]
    [] al.pool = << >> /\ al.next <= MaxSsaReg -> [Placed(al, v, al.next) EXCEPT !.next = @ + 1]
    [] OTHER -> [Placed(al, v, SlotFlag + al.slots) EXCEPT !.slots = @ + 1]

(* Every use is by an instruction other than a phi in the block of v.      *)
cg_value_is_block_local(f, b, v) ==
  LET used(c) == \E i \in ToSet(Code(f, c)) : v \in Uses(i)
      inPhi == \E c \in Blocks(f) : \E p \in Phis(f, c) : v \in Range(p.from)
  IN  v \in CodeDefs(f, b) /\ used(b) /\ ~inPhi /\ \A c \in Blocks(f) \ {b} : ~used(c)

cg_is_last_use_in_block(f, b, n, v) ==
  \A k \in n + 1 .. Len(Code(f, b)) : v \notin Uses(Code(f, b)[k])

(* After an instruction: the registers of the operands that die there, in  *)
(* their order, except one the result has got.                             *)
FreeOperands(f, b, n, al) ==
  LET i == Code(f, b)[n]
      dies(v) == /\ v \notin Consts
                 /\ cg_value_is_block_local(f, b, v)
                 /\ cg_is_last_use_in_block(f, b, n, v)
                 /\ ~IsSpilled(al, v)
                 /\ ~(i.val # NoVal /\ al.loc[i.val] = al.loc[v])
  IN  FoldLeft(LAMBDA a, v : IF dies(v) THEN cg_free_reg(a, a.loc[v]) ELSE a, al, i.uses)

cg_pre_alloc_block(f, b, al) ==
  LET phis == FoldLeft(LAMBDA a, p : cg_pre_alloc_def(a, p.val), [al EXCEPT !.pool = << >>],
                       f.blocks[b].phis)
      step(a, n) == FreeOperands(f, b, n,
                      IF Code(f, b)[n].val = NoVal THEN a ELSE cg_pre_alloc_def(a, Code(f, b)[n].val))
  IN  FoldLeftDomain(step, phis, Code(f, b))

(* Parameters take the first registers (cg_alloc_reg with an empty pool).  *)
PlaceParams(f) ==
  FoldLeft(LAMBDA a, p : [Placed(a, p, a.next) EXCEPT !.next = @ + 1], NoAllocation, f.params)

cg_pre_alloc_function(f) ==
  [FoldLeftDomain(LAMBDA a, b : cg_pre_alloc_block(f, b, a), PlaceParams(f), f.blocks)
     EXCEPT !.pool = << >>]

-----------------------------------------------------------------------------
(* Liveness of registers.  A value in a slot has none to save.             *)
cg_spill_bit_of(al, vs) == {al.loc[v] : v \in {u \in vs \ {NoVal} : ~IsSpilled(al, u)}}

DefBits(f, al, b) == cg_spill_bit_of(al, Defs(f, b))
PhiBits(f, al, b) == cg_spill_bit_of(al, PhiVals(f, b))

(* live backwards over instruction n.                                      *)
Backwards(f, al, b, live, n) ==
  (live \ cg_spill_bit_of(al, {Code(f, b)[n].val})) \cup cg_spill_bit_of(al, Uses(Code(f, b)[n]))

cg_block_use(f, al, b) ==
  FoldRightDomain(LAMBDA n, live : Backwards(f, al, b, live, n), Code(f, b), {}) \ PhiBits(f, al, b)

NoLiveness(f) == [in |-> [b \in Blocks(f) |-> {}], out |-> [b \in Blocks(f) |-> {}]]

(* Faulty, for comparison: the sources of phis are forgotten.              *)
LiveBlockNoPhis(f, al, live, b) ==
  LET out == UNION {live.in[s] \ PhiBits(f, al, s) : s \in Succs(f, b)}
  IN  [live EXCEPT !.out[b] = out,
                   !.in[b] = cg_block_use(f, al, b) \cup (out \ DefBits(f, al, b))]

(* Faulty, for comparison: the bits of the successors are not united but    *)
(* combined with an exclusive or.                                          *)
LiveBlockXor(f, al, live, b) ==
  LET wanted(s) == (live.in[s] \ PhiBits(f, al, s)) \cup cg_spill_bit_of(al, PhiUses(f, b, s))
      out == {r \in UNION {wanted(s) : s \in Succs(f, b)} :
                Cardinality({s \in Succs(f, b) : r \in wanted(s)}) % 2 = 1}
  IN  [live EXCEPT !.out[b] = out,
                   !.in[b] = cg_block_use(f, al, b) \cup (out \ DefBits(f, al, b))]

(* One pass, the last block first; a block sees what the pass found for    *)
(* the blocks behind it.                                                   *)
LiveBlock(f, al, live, b) ==
  LET out == UNION {(live.in[s] \ PhiBits(f, al, s)) \cup cg_spill_bit_of(al, PhiUses(f, b, s))
                      : s \in Succs(f, b)}
  IN  [live EXCEPT !.out[b] = out,
                   !.in[b] = cg_block_use(f, al, b) \cup (out \ DefBits(f, al, b))]

LivenessPass(f, al, live) ==
  FoldRightDomain(LAMBDA b, l : LiveBlock(f, al, l, b), f.blocks, live)

(* The registers live after the call at n of b (call_lives), and those of  *)
(* them a call has to save: not the one its own result goes to.            *)
live_after(f, al, live, b, n) ==
  FoldRight(LAMBDA k, l : Backwards(f, al, b, l, k),
            [k \in 1 .. Len(Code(f, b)) - n |-> n + k], live.out[b])
cg_call_spill_set(f, al, live, b, n) ==
  live_after(f, al, live, b, n) \ cg_spill_bit_of(al, {Code(f, b)[n].val})

(* Registers that are saved somewhere, and their compact slots.            *)
ever_spilled(f, al, live) ==
  UNION {LET i == Code(f, b)[n]
         IN  (IF i.kind \in CallKinds THEN live_after(f, al, live, b, n) ELSE {})
               \cup (IF i.kind = "invoke" THEN cg_spill_bit_of(al, Uses(i)) ELSE {})
           : <<b, n>> \in UNION {{b} \X DOMAIN Code(f, b) : b \in Blocks(f)}}
slot_of(f, al, live, r) == SaveFlag + Cardinality({q \in ever_spilled(f, al, live) : q < r})
=============================================================================
