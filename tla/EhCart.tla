------------------------------- MODULE EhCart -------------------------------
(***************************************************************************)
(* C++ code as the compiler hands it to the translator, seen from its      *)
(* exceptions: coroutines, each with a stack of activations, each with the *)
(* scopes it has open: try blocks, objects to destroy, the body of a       *)
(* noexcept function, handlers.  An activation runs or is at a landing     *)
(* pad, which leaves the scopes from the inside out.  Exceptions says what *)
(* throwing means to such code, CvmEh what the runtime does.               *)
(***************************************************************************)
EXTENDS Integers, SequencesExt

CONSTANTS
  Coros,        \* the coroutines
  Main,         \* the one that runs first
  Types,        \* class types
  Bases,        \* Bases[t]: the base classes of t, in order, as records
                \* [base, offset, public]
  Tries,        \* the clauses a try block may have: sequences of types and CatchAll
  Objects,      \* addresses of exception objects
  NoObject,
  MaxDepth,     \* bound: activations per coroutine; the last opens no scope
  MaxScopes     \* bound: open scopes per activation

CatchAll == "any"       \* catch (...)
Running == "running"    \* the pad of an activation that is at none
NoType == "none"        \* no type; also the selector 0

ASSUME CartAssumption ==
  /\ Main \in Coros /\ NoObject \notin Objects /\ {CatchAll, Running, NoType} \cap Types = {}
  /\ IsFiniteSet(Types)
  /\ Tries \subseteq Seq(Types \cup {CatchAll})
  /\ MaxDepth \in Nat \ {0} /\ MaxScopes \in Nat

(* Inheritance has no cycle, so that the search through it ends.           *)
ASSUME HierarchyAssumption ==
  /\ \A t \in Types : Bases[t] \in Seq([base : Types, offset : Nat, public : BOOLEAN])
  /\ \E rank \in [Types -> 0 .. Cardinality(Types)] :
        \A t \in Types : \A i \in DOMAIN Bases[t] : rank[Bases[t][i].base] < rank[t]

VARIABLES acts,         \* acts[c]: the activations of c, the running one last
          run           \* the coroutine that runs

Try(clauses) == [kind |-> "try", clauses |-> clauses]
Noexcept == [kind |-> "noexcept", clauses |-> <<CatchAll>>]
Guard == [kind |-> "guard", clauses |-> <<>>]
Handler(e, clause, at) ==       \* at: offset of what the handler refers to
  [kind |-> "handler", clauses |-> <<>>, exc |-> e, clause |-> clause, at |-> at]

IsCleanup(s) == s.kind \in {"guard", "handler"}

(* The clauses of a landing pad: of all scopes, the innermost first.       *)
ClausesOf(scopes) ==
  FlattenSeq([i \in DOMAIN scopes |-> Reverse(scopes)[i].clauses])

Fresh(scopes) == [scopes |-> scopes, pad |-> Running]
Top == Last(acts[run])
Inner == Last(Top.scopes)
Outer == Front(Top.scopes)
WithTop(a) == [acts EXCEPT ![run] = Append(Front(@), a)]

Runs == Top.pad = Running
Within(kind) == Top.scopes # <<>> /\ Inner.kind = kind

(* At a place where a call leaves no scope of its activation behind: what  *)
(* is called from within a scope is an activation of its own.              *)
Callee == Runs /\ Top.scopes = <<>>

Quiet(c) == \A d \in DOMAIN acts[c] : acts[c][d] = Fresh(<<>>)

(* The open handlers of an exception: coroutine, activation, scope.        *)
HandlersOf(e) ==
  {h \in Coros \X (1 .. MaxDepth) \X (1 .. MaxScopes) :
     /\ h[2] \in DOMAIN acts[h[1]] /\ h[3] \in DOMAIN acts[h[1]][h[2]].scopes
     /\ LET s == acts[h[1]][h[2]].scopes[h[3]] IN s.kind = "handler" /\ s.exc = e}

AtPad == \E c \in Coros : \E d \in DOMAIN acts[c] : acts[c][d].pad # Running

InitCart == acts = [c \in Coros |-> <<Fresh(<<>>)>>] /\ run = Main

(* What the program does between exceptions.                               *)
Open(s) ==
  /\ Runs /\ Len(Top.scopes) < MaxScopes /\ Len(acts[run]) < MaxDepth
  /\ acts' = WithTop(Fresh(Append(Top.scopes, s)))
  /\ UNCHANGED run

Enter == \/ \E clauses \in Tries : Open(Try(clauses))
         \/ Open(Guard)
         \/ Top.scopes = <<>> /\ Open(Noexcept)

Leave == /\ Runs /\ (Within("try") \/ Within("guard") \/ Within("noexcept"))
         /\ acts' = WithTop(Fresh(Outer)) /\ UNCHANGED run

Call == /\ Runs /\ Len(acts[run]) < MaxDepth
        /\ acts' = [acts EXCEPT ![run] = Append(@, Fresh(<<>>))]
        /\ UNCHANGED run

Return == /\ Callee /\ Len(acts[run]) > 1
          /\ acts' = [acts EXCEPT ![run] = Front(@)] /\ UNCHANGED run

Swap(c) == c # run /\ run' = c /\ UNCHANGED acts

(* The landing pad leaves the innermost scope.  For an object it calls the *)
(* destructor, which is noexcept; one that throws nothing and calls no one *)
(* needs no activation.                                                    *)
PadLeave == acts' = WithTop([Top EXCEPT !.scopes = Outer]) /\ UNCHANGED run

PadDestroy ==
  /\ ~Runs /\ Within("guard")
  /\ \/ PadLeave
     \/ /\ Len(acts[run]) < MaxDepth
        /\ acts' = [WithTop([Top EXCEPT !.scopes = Outer]) EXCEPT
                      ![run] = Append(@, Fresh(<<Noexcept>>))]
        /\ UNCHANGED run

(* It enters the handler of the innermost scope.                           *)
PadCatch(e, clause, at) ==
  acts' = WithTop(Fresh(Append(Outer, Handler(e, clause, at)))) /\ UNCHANGED run
=============================================================================
