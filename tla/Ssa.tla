--------------------------------- MODULE Ssa ---------------------------------
(***************************************************************************)
(* What a function in SSA form does: the specification the translated code *)
(* has to implement.  Values have no registers and no frame; the phis of a *)
(* block take their sources all at once, on the edge; a call changes       *)
(* nothing but the value it defines.  What an instruction computes is any   *)
(* word: all that counts is that it is given the right operands, which     *)
(* `seen' records.                                                         *)
(***************************************************************************)
EXTENDS SsaFn

CONSTANTS
  Words,       \* values of operations
  AddressOf,   \* [alloca values -> words]
  Functions

VARIABLES
  fn,          \* the function
  at, n,       \* the block and the number of the instruction to execute
  env,         \* the values
  outcome,     \* of the invoke at n: "none" so far, "normal" or "unwind"
  seen         \* [b, n, vals]: what the last instruction was given

vars == <<fn, at, n, env, outcome, seen>>

Value(v) == IF v \in Consts THEN ConstOf[v] ELSE env[v]
Current == Code(fn, at)[n]
Given == [b |-> at, n |-> n, vals |-> [k \in DOMAIN Current.uses |-> Value(Current.uses[k])]]
Nothing == [b |-> 0, n |-> 0, vals |-> << >>]

(* Static allocas are objects of the frame: their addresses are there from *)
(* the start, and the instructions are no steps.                           *)
Skip(b, k) == CHOOSE j \in k .. Len(Code(fn, b)) :
                /\ Code(fn, b)[j].kind # "alloca"
                /\ \A m \in k .. j - 1 : Code(fn, b)[m].kind = "alloca"

(* A run starts with arguments in the parameters; other values are         *)
(* undefined.                                                              *)
Init ==
  /\ fn \in Functions
  /\ \E args \in [Params(fn) -> Words] :
       env = [v \in Values(fn) |-> CASE v \in Params(fn) -> args[v]
                                      [] v \in DOMAIN AddressOf -> AddressOf[v]
                                      [] OTHER -> 0]
  /\ at = 1 /\ n = Skip(1, 1)
  /\ outcome = "none"
  /\ seen = Nothing

Defined(v, w) == IF v = NoVal THEN env ELSE [env EXCEPT ![v] = w]

(* An operation, a load or store, a call: any result.                      *)
Operate ==
  /\ Current.kind \in {"op", "call"}
  /\ seen' = Given
  /\ \E w \in Words : env' = Defined(Current.val, w)
  /\ n' = Skip(at, n + 1)
  /\ UNCHANGED <<fn, at, outcome>>

Select ==
  /\ Current.kind = "select"
  /\ LET w == IF Value(Current.uses[1]) # 0 THEN Value(Current.uses[2]) ELSE Value(Current.uses[3])
     IN  /\ seen' = [b |-> at, n |-> n, vals |-> <<w>>]
         /\ env' = Defined(Current.val, w)
  /\ n' = Skip(at, n + 1)
  /\ UNCHANGED <<fn, at, outcome>>

(* Take the edge to s: its phis in parallel.                               *)
TakeEdge(s) ==
  /\ env' = [v \in Values(fn) |->
               IF v \in PhiVals(fn, s)
               THEN Value((CHOOSE p \in Phis(fn, s) : p.val = v).from[at])
               ELSE env[v]]
  /\ at' = s /\ n' = Skip(s, 1)
  /\ outcome' = "none"
  /\ UNCHANGED <<fn, seen>>

Br ==
  /\ Current.kind = "br"
  /\ TakeEdge(IF Current.uses = << >> \/ Value(Current.uses[1]) # 0
              THEN Current.succ[1] ELSE Current.succ[2])

Switch ==
  /\ Current.kind = "switch"
  /\ LET hits == {k \in DOMAIN Current.cases : Current.cases[k] = Value(Current.uses[1])}
     IN  TakeEdge(IF hits = {} THEN Current.succ[1]
                  ELSE Current.succ[1 + (CHOOSE k \in hits : TRUE)])

(* An invoke calls, and then takes one of its two edges.                   *)
InvokeCall ==
  /\ Current.kind = "invoke" /\ outcome = "none"
  /\ seen' = Given
  /\ \/ outcome' = "normal" /\ \E w \in Words : env' = Defined(Current.val, w)
     \/ outcome' = "unwind" /\ UNCHANGED env
  /\ UNCHANGED <<fn, at, n>>

InvokeEdge ==
  /\ Current.kind = "invoke" /\ outcome # "none"
  /\ TakeEdge(Current.succ[IF outcome = "normal" THEN 1 ELSE 2])

Ret ==
  /\ Current.kind = "ret"
  /\ seen' = Given
  /\ UNCHANGED <<fn, at, n, env, outcome>>

Next == Operate \/ Select \/ Br \/ Switch \/ InvokeCall \/ InvokeEdge \/ Ret

Spec == Init /\ [][Next]_vars
=============================================================================
