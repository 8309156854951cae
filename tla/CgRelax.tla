------------------------------- MODULE CgRelax -------------------------------
(***************************************************************************)
(* Branch relaxation and the resolution of branches: cg_relax_branches,    *)
(* cg_resolve_fixups and cg_resolve_table_fixups (translator.c).           *)
(*                                                                         *)
(* The code is a sequence, and fix the queue of branches whose target is a  *)
(* block: [at, to, short], `at' counting from 0.  A short branch that does  *)
(* not reach its target is turned around and made to skip a long jump that  *)
(* is inserted behind it, which moves what follows.                         *)
(***************************************************************************)
EXTENDS Integers, Sequences, FiniteSets, SequencesExt

CONSTANT ShortMax     \* 127: a short offset is in -ShortMax-1 .. ShortMax

ASSUME ShortAssumption == ShortMax \in Nat \ {0}

-----------------------------------------------------------------------------
(* The Fenwick tree: how many of the relaxed branches are below a position. *)
LowBit[i \in Nat \ {0}] == IF i % 2 = 1 THEN 1 ELSE 2 * LowBit[i \div 2]

NoBits(n) == [i \in 1 .. n |-> 0]

(* The nodes cg_fen_add goes through, from the first to the last one.       *)
NodesFrom(first, n) ==
  LET Walk[i \in Nat \ {0}] == IF i > n THEN {} ELSE {i} \cup Walk[i + LowBit[i]]
  IN  Walk[first]

(* Faulty, for comparison: the update walks down, as the query does.        *)
FenAddDown(bit, pos) ==
  LET Walk[i \in Nat] == IF i = 0 THEN {} ELSE {i} \cup Walk[i - LowBit[i]]
  IN  [i \in DOMAIN bit |-> IF i \in Walk[pos + 1] THEN bit[i] + 1 ELSE bit[i]]

cg_fen_add(bit, pos) ==
  LET nodes == NodesFrom(pos + 1, Len(bit))
  IN  [i \in DOMAIN bit |-> IF i \in nodes THEN bit[i] + 1 ELSE bit[i]]

cg_fen_below(bit, x) ==
  LET Sum[i \in Nat] == IF i = 0 THEN 0 ELSE bit[i] + Sum[i - LowBit[i]]
  IN  Sum[x]

-----------------------------------------------------------------------------
InReach(rel) == -ShortMax - 1 <= rel /\ rel <= ShortMax

(* Faulty, for comparison: insertions decided on so far do not count.       *)
DisplacementBefore(bit, at, target) == target - (at + 1)

(* How far a branch at `at' has to jump to an instruction at `target', as   *)
(* far as it is decided what is inserted between them.                     *)
Displacement(bit, at, target) ==
  (target + cg_fen_below(bit, target)) - (at + 1 + cg_fen_below(bit, at + 1))

(* One pass over the queue; r = [relaxed, bit], relaxed the numbers of the  *)
(* branches that are relaxed.  A decision counts at once.                  *)
RelaxFixup(fix, offs, r, i) ==
  IF /\ fix[i].short /\ i \notin r.relaxed
     /\ ~InReach(Displacement(r.bit, fix[i].at, offs[fix[i].to]))
  THEN [relaxed |-> r.relaxed \cup {i}, bit |-> cg_fen_add(r.bit, fix[i].at)]
  ELSE r

RelaxPass(fix, offs, r) ==
  FoldLeftDomain(LAMBDA x, i : RelaxFixup(fix, offs, x, i), r, fix)

-----------------------------------------------------------------------------
(* The new layout.                                                         *)
RelaxedBelow(fix, relaxed, x) == Cardinality({i \in relaxed : fix[i].at < x})
NewPos(fix, relaxed, op) == op + RelaxedBelow(fix, relaxed, op)

Flipped(i) == [i EXCEPT !.op = IF @ = "bne" THEN "beq" ELSE "bne", !.k = 1]

NewCode(code, fix, relaxed, jmp) ==
  LET at == {fix[i].at : i \in relaxed}
      part(op) == IF op \in at THEN <<Flipped(code[op + 1]), jmp>> ELSE <<code[op + 1]>>
  IN  FoldLeft(LAMBDA s, op : s \o part(op), << >>, [k \in DOMAIN code |-> k - 1])

NewFix(fix, relaxed) ==
  [i \in DOMAIN fix |->
     IF i \in relaxed
     THEN [fix[i] EXCEPT !.at = NewPos(fix, relaxed, @) + 1, !.short = FALSE]
     ELSE [fix[i] EXCEPT !.at = NewPos(fix, relaxed, @)]]

(* Faulty, for comparison: blocks stay where they were.                    *)
OffsKept(fix, relaxed, offs, size) == offs

NewOffs(fix, relaxed, offs, size) ==
  [b \in DOMAIN offs |-> IF offs[b] < size THEN NewPos(fix, relaxed, offs[b])
                         ELSE size + Cardinality(relaxed)]

-----------------------------------------------------------------------------
(* The offset that gets into a branch, and whether it fits.                *)
Offset(fix, offs, i) == offs[fix[i].to] - (fix[i].at + 1)
Fits(fix, offs, i) == fix[i].short => InReach(Offset(fix, offs, i))

Resolved(code, fix, offs) ==
  [p \in DOMAIN code |->
     IF \E i \in DOMAIN fix : fix[i].at + 1 = p
     THEN [code[p] EXCEPT !.k = Offset(fix, offs, CHOOSE i \in DOMAIN fix : fix[i].at + 1 = p)]
     ELSE code[p]]

(* The words of the jump tables, all of them in one sequence.              *)
ResolvedTables(tables, offs) ==
  [w \in DOMAIN tables |-> [tables[w] EXCEPT !.offset = offs[tables[w].to]]]
=============================================================================
