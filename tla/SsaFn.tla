-------------------------------- MODULE SsaFn --------------------------------
(***************************************************************************)
(* A function in LLVM's SSA form, as the translator receives it.           *)
(*                                                                         *)
(* fn = [params, blocks]: the names of the parameters, and the basic blocks *)
(* in order, the entry block first.  A block has phis and code; a phi has   *)
(* the value it defines and, for each predecessor, its source; an          *)
(* instruction has a kind, the value it defines (or NoVal), its operands,   *)
(* the successors and the case constants (of a switch).  The last           *)
(* instruction of a block is its terminator.                                *)
(*                                                                         *)
(* An operand is the name of a value or of a constant.  LLVM itself is not *)
(* in the repository: this module is its contract, external to the code.   *)
(***************************************************************************)
EXTENDS Integers, Sequences, FiniteSets, SequencesExt

CONSTANTS
  ConstOf,     \* [names of constants -> words]
  NoVal        \* what a void instruction "defines"

Consts == DOMAIN ConstOf

CallKinds == {"call", "invoke"}
Terminators == {"br", "switch", "ret", "unreachable", "invoke"}

Blocks(f) == DOMAIN f.blocks
Phis(f, b) == ToSet(f.blocks[b].phis)
Code(f, b) == f.blocks[b].code
Term(f, b) == Last(Code(f, b))
Succs(f, b) == ToSet(Term(f, b).succ)

PhiVals(f, b) == {p.val : p \in Phis(f, b)}
PhiUses(f, b, s) == {p.from[b] : p \in Phis(f, s)} \ Consts
DefsBefore(f, b, n) == {Code(f, b)[k].val : k \in 1 .. n - 1} \ {NoVal}
CodeDefs(f, b) == DefsBefore(f, b, Len(Code(f, b)) + 1)
Params(f) == ToSet(f.params)
Defs(f, b) == PhiVals(f, b) \cup CodeDefs(f, b) \cup (IF b = 1 THEN Params(f) ELSE {})
Uses(i) == ToSet(i.uses) \ Consts
Values(f) == UNION {Defs(f, b) : b \in Blocks(f)}

(* Blocks where v is read before it could have been defined there, a phi   *)
(* of a successor included: phis read on the edge.                         *)
Exposed(f, v) ==
  {b \in Blocks(f) :
     \/ \E n \in DOMAIN Code(f, b) :
          /\ v \in Uses(Code(f, b)[n])
          /\ v \notin PhiVals(f, b) \cup DefsBefore(f, b, n)
          /\ ~(b = 1 /\ v \in Params(f))
     \/ v \notin Defs(f, b) /\ \E s \in Succs(f, b) : v \in PhiUses(f, b, s)}

(* The blocks v is live into: those with a path to an exposed use on which *)
(* v is not defined.  The paths grow by one edge per step.                 *)
LiveInto(f, v) ==
  LET Within[n \in Nat] ==
        IF n = 0 THEN Exposed(f, v)
        ELSE LET near == Within[n - 1]
             IN  near \cup {b \in Blocks(f) : v \notin Defs(f, b) /\ Succs(f, b) \cap near # {}}
  IN  Within[Len(f.blocks)]

(* Values live on the edge from b to s: wanted by s, or by one of its phis. *)
LiveOnEdge(f, b, s) ==
  {v \in Values(f) : s \in LiveInto(f, v)} \cup PhiUses(f, b, s)
LiveOut(f, b) == UNION {LiveOnEdge(f, b, s) : s \in Succs(f, b)}

(* Values live just after instruction n of b.                              *)
LiveAfterInstr(f, b, n) ==
  LET later == n + 1 .. Len(Code(f, b))
      use(k) == Uses(Code(f, b)[k]) \ {Code(f, b)[j].val : j \in n + 1 .. k - 1}
  IN  (LiveOut(f, b) \ {Code(f, b)[j].val : j \in later}) \cup UNION {use(k) : k \in later}

(* The verifier's conditions: one definition per value, every use          *)
(* dominated by it (no value is live into the entry), phis that name each   *)
(* predecessor, no edge into the entry block.                              *)
IsSsa(f) ==
  /\ \A b \in Blocks(f) :
       /\ Term(f, b).kind \in Terminators /\ Succs(f, b) \subseteq Blocks(f) \ {1}
       /\ \A k \in 1 .. Len(Code(f, b)) - 1 : Code(f, b)[k].kind \notin Terminators
       /\ \A p \in Phis(f, b) : DOMAIN p.from = {a \in Blocks(f) : b \in Succs(f, a)}
       /\ \A c \in Blocks(f) : b # c => Defs(f, b) \cap Defs(f, c) = {}
  /\ \A v \in Values(f) : 1 \notin LiveInto(f, v)
=============================================================================
