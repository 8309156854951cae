----------------------------- MODULE CvmTranslate -----------------------------
(***************************************************************************)
(* One function through the translator (src/tools/translator/translator.c, *)
(* cg_function), and then the code it made, run by the machine.            *)
(*                                                                         *)
(* The phases of cg_function are actions: registers, passes of the liveness *)
(* analysis, one block of code at a time, passes of the relaxation, the     *)
(* resolution of branches.  Then the code runs, with `loc', the registers   *)
(* and the words of the frame.  The variables of Ssa go along with it as    *)
(* history: what the function should be doing.                             *)
(***************************************************************************)
EXTENDS CgEmit, CgRelax

CONSTANTS Words, Functions

VARIABLES
  fn,
  phase,       \* what cg_function does next; "run", and "failed" after an error
  al,          \* registers and slots
  live,        \* bb_live_in, bb_live_out
  changed,     \* by the last pass of the loop that is running
  cg,          \* the code
  relax,       \* [relaxed, bit, it]: branches relaxed, the Fenwick tree, passes
  pc, loc,     \* the machine
  at, n, env, outcome, seen     \* the function, according to Ssa

S == INSTANCE Ssa

compiler == <<phase, al, live, changed, cg, relax>>
machine == <<pc, loc>>
history == <<at, n, env, outcome, seen>>
vars == <<fn, compiler, machine, history>>

unit == [f |-> fn, al |-> al, live |-> live]
NoRelax(size) == [relaxed |-> {}, bit |-> NoBits(size), it |-> 0]

(* The arguments wait in R0 .. and nothing else is known.                   *)
Junk == 99
Locations ==
  0 .. ScratchReg \cup {SlotFlag + k : k \in 0 .. 9} \cup {SaveFlag + k : k \in 0 .. 9}
    \cup {EhFrame, EhDesc}

Init ==
  /\ S!Init
  /\ phase = "alloc"
  /\ al = NoAllocation
  /\ live = NoLiveness(fn)
  /\ changed = TRUE
  /\ cg = NoCode
  /\ relax = NoRelax(0)
  /\ pc = 0
  /\ loc = [l \in Locations |-> IF l + 1 \in DOMAIN fn.params THEN env[fn.params[l + 1]] ELSE Junk]

-----------------------------------------------------------------------------
PreAlloc ==
  /\ phase = "alloc"
  /\ al' = cg_pre_alloc_function(fn)
  /\ phase' = "liveness"
  /\ UNCHANGED <<fn, live, changed, cg, relax, machine, history>>

Changed(old, new) == old # new

(* cg_compute_liveness: until a pass finds nothing new.                     *)
ComputeLiveness ==
  /\ phase = "liveness" /\ changed
  /\ live' = LivenessPass(fn, al, live)
  /\ changed' = Changed(live, live')
  /\ UNCHANGED <<fn, phase, al, cg, relax, machine, history>>

StartCode ==
  /\ phase = "liveness" /\ ~changed
  /\ cg' = Prologue(unit)
  /\ phase' = "emit"
  /\ UNCHANGED <<fn, al, live, changed, relax, machine, history>>

EmitNextBlock ==
  /\ phase = "emit" /\ Len(cg.offs) < Len(fn.blocks)
  /\ cg' = EmitBlock(cg, unit, Len(cg.offs) + 1)
  /\ phase' = IF cg'.err THEN "failed" ELSE phase
  /\ UNCHANGED <<fn, al, live, changed, relax, machine, history>>

StartRelaxing ==
  /\ phase = "emit" /\ Len(cg.offs) = Len(fn.blocks)
  /\ relax' = NoRelax(Here(cg))
  /\ changed' = TRUE
  /\ phase' = "relax"
  /\ UNCHANGED <<fn, al, live, cg, machine, history>>

(* A pass of cg_relax_branches; the passes are counted.                    *)
RelaxBranches ==
  /\ phase = "relax" /\ changed /\ relax.it <= Len(cg.fix)
  /\ LET r == RelaxPass(cg.fix, cg.offs, [relaxed |-> relax.relaxed, bit |-> relax.bit])
     IN  /\ relax' = [relaxed |-> r.relaxed, bit |-> r.bit, it |-> relax.it + 1]
         /\ changed' = Changed(relax.relaxed, r.relaxed)
  /\ UNCHANGED <<fn, phase, al, live, cg, machine, history>>

(* The code is laid out anew, with the long jumps.                          *)
Rebuild ==
  /\ phase = "relax" /\ (~changed \/ relax.it > Len(cg.fix))
  /\ LET jmp == Ins("jmp", 0, << >>, 0, None)
     IN  cg' = [cg EXCEPT !.code = NewCode(@, cg.fix, relax.relaxed, jmp),
                          !.fix = NewFix(@, relax.relaxed),
                          !.offs = NewOffs(cg.fix, relax.relaxed, @, Here(cg))]
  /\ phase' = "resolve"
  /\ UNCHANGED <<fn, al, live, changed, relax, machine, history>>

(* cg_resolve_fixups and cg_resolve_table_fixups.                           *)
Resolve ==
  /\ phase = "resolve"
  /\ IF \A i \in DOMAIN cg.fix : Fits(cg.fix, cg.offs, i)
     THEN /\ cg' = [cg EXCEPT !.code = Resolved(@, cg.fix, cg.offs),
                              !.tables = ResolvedTables(@, cg.offs)]
          /\ phase' = "run"
     ELSE phase' = "failed" /\ UNCHANGED cg
  /\ UNCHANGED <<fn, al, live, changed, relax, machine, history>>

-----------------------------------------------------------------------------
(* The machine.                                                            *)
Running == phase = "run" /\ pc < Here(cg)
Fetch == cg.code[pc + 1]
Executes(ops) == Running /\ Fetch.op \in ops
Read(k) == loc[Fetch.s[k]]
Carries == Fetch.ir # None      \* the instruction that does what Ssa sees
GivenTo(vals) == [b |-> Fetch.ir[1], n |-> Fetch.ir[2], vals |-> vals]
Given == [k \in DOMAIN Fetch.s |-> Read(k)]

Wrote(l, w) == [loc EXCEPT ![l] = w]

(* CONST, MOV, loads and stores of the frame, and computations without an  *)
(* effect Ssa knows of.                                                    *)
Compute ==
  /\ Executes({"const", "copy", "eq", "sub", "ltu", "shl", "add", "ldw"}) /\ ~Carries
  /\ loc' = Wrote(Fetch.d,
              CASE Fetch.op = "const" -> Fetch.k
                [] Fetch.op = "copy" -> Read(1)
                [] Fetch.op = "eq" -> IF Read(1) = Read(2) THEN 1 ELSE 0
                [] Fetch.op = "sub" -> Read(1) - Read(2)
                [] Fetch.op = "ltu" -> IF Read(1) >= 0 /\ Read(1) < Read(2) THEN 1 ELSE 0
                [] Fetch.op = "shl" -> Read(1) * 2 ^ Read(2)
                [] Fetch.op = "add" -> Read(1) + Read(2)
                [] Fetch.op = "ldw" -> cg.tables[Read(1) \div 4 + 1].offset)
  /\ pc' = pc + 1
  /\ UNCHANGED <<fn, compiler, history>>

(* Ssa's step with the result w.                                           *)
HistoryOf(w, given) ==
  /\ seen' = GivenTo(given)
  /\ env' = S!Defined(Code(fn, Fetch.ir[1])[Fetch.ir[2]].val, w)
  /\ n' = S!Skip(at, n + 1)
  /\ UNCHANGED <<at, outcome>>

Operation ==
  /\ Executes({"op"})
  /\ \E w \in Words : loc' = Wrote(Fetch.d, w) /\ HistoryOf(w, Given)
  /\ pc' = pc + 1
  /\ UNCHANGED <<fn, compiler>>

SelectMove ==
  /\ Executes({"copy"}) /\ Carries
  /\ loc' = Wrote(Fetch.d, Read(1)) /\ HistoryOf(Read(1), Given)
  /\ pc' = pc + 1
  /\ UNCHANGED <<fn, compiler>>

(* The callee uses all registers but R253, which is 0 in every function.   *)
AfterCall(w) == [l \in Locations |-> IF l = 0 THEN w ELSE IF l < ZeroReg THEN Junk ELSE loc[l]]

Call ==
  /\ Executes({"call"})
  /\ IF ~Carries THEN loc' = AfterCall(Junk) /\ UNCHANGED history
     ELSE \E w \in Words :
            /\ loc' = AfterCall(w)
            /\ IF Code(fn, Fetch.ir[1])[Fetch.ir[2]].kind = "call" THEN HistoryOf(w, Given)
               ELSE /\ outcome' = "normal" /\ seen' = GivenTo(Given)
                    /\ env' = S!Defined(Code(fn, Fetch.ir[1])[Fetch.ir[2]].val, w)
                    /\ UNCHANGED <<at, n>>
  /\ pc' = pc + 1
  /\ UNCHANGED <<fn, compiler>>

Setjmp ==
  /\ Executes({"setjmp"})
  /\ loc' = [loc EXCEPT ![Fetch.d] = 0, ![EhFrame] = pc + 1]
  /\ pc' = pc + 1
  /\ UNCHANGED <<fn, compiler, history>>

(* The callee of an invoke throws: back to its SETJMP.                      *)
Throw ==
  /\ Executes({"call"}) /\ Carries /\ Code(fn, Fetch.ir[1])[Fetch.ir[2]].kind = "invoke"
  /\ pc' = loc[EhFrame]
  /\ loc' = [AfterCall(Junk) EXCEPT ![cg.code[loc[EhFrame]].d] = 1]
  /\ outcome' = "unwind" /\ seen' = GivenTo(Given)
  /\ UNCHANGED <<fn, compiler, at, n, env>>

(* A branch that is not taken, a local jump, or a jump to a block.          *)
Taken == CASE Fetch.op = "beq" -> Read(1) = loc[ZeroReg]
           [] Fetch.op = "bne" -> Read(1) # loc[ZeroReg]
           [] OTHER -> TRUE
Target == IF Fetch.op = "jmpr" THEN Read(1) ELSE pc + 1 + Fetch.k
IsEdge == Fetch.op = "jmpr" \/ \E i \in DOMAIN cg.fix : cg.fix[i].at = pc

Stay ==
  /\ Executes({"beq", "bne", "jmp"}) /\ (~Taken \/ ~IsEdge)
  /\ pc' = IF Taken THEN Target ELSE pc + 1
  /\ UNCHANGED <<fn, compiler, loc, history>>

TakeEdge ==
  /\ Executes({"beq", "bne", "jmp", "jmpr"}) /\ Taken /\ IsEdge
  /\ pc' = Target
  /\ \E b \in Succs(fn, at) : cg.offs[b] = Target /\ S!TakeEdge(b)
  /\ UNCHANGED <<compiler, loc>>

Return ==
  /\ Executes({"ret"})
  /\ seen' = GivenTo(Given)
  /\ pc' = Here(cg)
  /\ UNCHANGED <<fn, compiler, loc, at, n, env, outcome>>

Final == CASE phase = "run" -> Running => Fetch.op = "halt"
           [] OTHER -> phase = "failed"
Stopped == Final /\ UNCHANGED vars

Translation ==
  PreAlloc \/ ComputeLiveness \/ StartCode \/ EmitNextBlock \/ StartRelaxing
    \/ RelaxBranches \/ Rebuild \/ Resolve
Execution ==
  Compute \/ Operation \/ SelectMove \/ Call \/ Setjmp \/ Throw \/ Stay \/ TakeEdge \/ Return

Next == Translation \/ Execution \/ Stopped

(* The translator is one loop after the other, with nobody to wait for.     *)
(* This is WF_vars(Translation), spelled out with the predicate that says   *)
(* when Translation is enabled.                                            *)
Translating == phase \notin {"run", "failed"}
Fairness == []<>(~Translating) \/ []<><<Translation>>_vars

Spec == Init /\ [][Next]_vars /\ Fairness
-----------------------------------------------------------------------------
TypeOK ==
  /\ phase \in {"alloc", "liveness", "emit", "relax", "resolve", "run", "failed"}
  /\ changed \in BOOLEAN
  /\ pc \in 0 .. Len(cg.code) /\ DOMAIN loc = Locations
  /\ relax.relaxed \subseteq DOMAIN cg.fix /\ relax.it \in 0 .. Len(cg.fix) + 1
  /\ al.next \in FirstReg .. MaxSsaReg + 1
  /\ \A v \in DOMAIN al.loc :
       /\ v \in Values(fn)
       /\ al.loc[v] \in FirstReg .. al.next - 1 \cup {SlotFlag + k : k \in 0 .. al.slots - 1}
  /\ at \in Blocks(fn) /\ n \in DOMAIN Code(fn, at)

(* The translated code does what the function does: it gives each           *)
(* operation, call and return the operands it should have and goes to the   *)
(* right block, whatever shares registers, is spilled, saved across calls,  *)
(* moved on an edge or brought back by a LONGJMP (cg_function).             *)
ImplementsSsa == S!Spec

(* The liveness analysis on registers finds what is live, and no more,      *)
(* although values that have nothing to do with each other share registers  *)
(* (cg_compute_liveness).  Nobody reads what is live into the entry, where  *)
(* the analysis leaves the parameters.                                     *)
LivenessExact ==
  phase = "emit" =>
    \A b \in Blocks(fn) :
      /\ live.out[b] = cg_spill_bit_of(al, LiveOut(fn, b))
      /\ b # 1 => live.in[b] = cg_spill_bit_of(al, {v \in Values(fn) : b \in LiveInto(fn, v)})

(* Two values that are wanted at the same time are in different places: at  *)
(* the start of a block and after each of its instructions                  *)
(* (cg_pre_alloc_function, which knows no live ranges across blocks).       *)
Apart(vs) == \A u, v \in vs : u # v => al.loc[u] # al.loc[v]
LiveValuesApart ==
  phase = "emit" =>
    \A b \in Blocks(fn) :
      /\ Apart(PhiVals(fn, b) \cup {v \in Values(fn) : b \in LiveInto(fn, v)})
      /\ \A k \in DOMAIN Code(fn, b) : Apart(LiveAfterInstr(fn, b, k))

(* The Fenwick tree counts the relaxed branches below any position          *)
(* (cg_fen_add, cg_fen_below).                                             *)
FenwickCounts ==
  phase = "relax" =>
    \A x \in 0 .. Here(cg) :
      cg_fen_below(relax.bit, x) = RelaxedBelow(cg.fix, relax.relaxed, x)

(* When the relaxation stops, exactly the branches that would not reach     *)
(* their targets have been relaxed: the insertions all counted, the short   *)
(* ones reach, and the relaxed ones would not have (cg_relax_branches).     *)
Distance(i) ==
  NewPos(cg.fix, relax.relaxed, cg.offs[cg.fix[i].to])
    - NewPos(cg.fix, relax.relaxed, cg.fix[i].at + 1)
RelaxedExactly ==
  phase = "relax" /\ ~changed =>
    \A i \in DOMAIN cg.fix : cg.fix[i].short => (i \in relax.relaxed <=> ~InReach(Distance(i)))

(* Relaxation moves the offset of a block along with its code.              *)
EndOf(b) == IF b = Len(cg.offs) THEN Here(cg) ELSE cg.offs[b + 1]
BlocksKeepTheirCode ==
  phase \in {"relax", "resolve"} =>
    \A p \in DOMAIN cg.code :
      LET b == cg.code[p].ir[1]
      IN  b # 0 => cg.offs[b] < p /\ p <= EndOf(b)

(* The scratch registers the switch at the end of block b needs: one for a  *)
(* condition without a register, two for each edge with moves, as often as  *)
(* it is there, and those of the dispatch; and the registers there are.    *)
SwitchDemand(b) ==
  LET i == Term(fn, b)
      moving == {k \in DOMAIN i.succ : PhiMoves(fn, al, b, i.succ[k]) # << >>}
  IN  (IF i.uses[1] \in Consts \/ IsSpilled(al, i.uses[1]) THEN 1 ELSE 0)
        + 2 * Cardinality(moving) + (IF UsesTable(i.cases) THEN 9 ELSE 2)
Window == MaxEmitReg + 1 - al.next
Overloaded(b) == Term(fn, b).kind = "switch" /\ SwitchDemand(b) > Window

(* The exact limit of the window of scratch registers.  Every instruction  *)
(* but a switch gets by with it, and a switch does as long as its demand   *)
(* fits; the scratch registers of an edge's moves are not given back before *)
(* the next edge.  A function is refused ("internal: emit scratch window   *)
(* exhausted") at its first overloaded switch and for no other reason: in   *)
(* particular each branch fits after the relaxation (cg_alloc_reg,          *)
(* cg_emit_phi_moves, cg_resolve_fixups).                                  *)
WindowExact ==
  /\ phase = "failed" => Overloaded(Len(cg.offs))
  /\ phase # "failed" => \A b \in DOMAIN cg.offs : ~Overloaded(b)

(* The loops of the translator end.                                        *)
TranslationEnds == <>(phase \in {"run", "failed"})
=============================================================================
