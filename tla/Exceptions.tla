----------------------------- MODULE Exceptions -----------------------------
(***************************************************************************)
(* What exceptions promise to C++ code that has one exception at a time.   *)
(* There are no frames, no chain and no counts here: a throw looks for its *)
(* handler among the scopes that are open, and an object lives until the   *)
(* last handler that has it is left.                                       *)
(***************************************************************************)
EXTENDS EhCart

VARIABLES mode,         \* "run", "unwind", "halt"
          flying,       \* the exception that is looking for its handler
          alive         \* the exceptions that live: a function to their types

evars == <<acts, run, mode, flying, alive>>

(* The public subobjects of an object of type t, with their offsets.       *)
Subobjects[t \in Types] ==
  {<<t, 0>>} \cup
  UNION {{<<s[1], s[2] + Bases[t][i].offset>> : s \in Subobjects[Bases[t][i].base]} :
           i \in {j \in DOMAIN Bases[t] : Bases[t][j].public}}

Catches(clause, t) == clause = CatchAll \/ \E s \in Subobjects[t] : s[1] = clause
Place(clause, t) ==
  IF clause = CatchAll THEN 0 ELSE (CHOOSE s \in Subobjects[t] : s[1] = clause)[2]

(* The clauses of a scope that catch what flies, by their positions.       *)
Catching(s) == {i \in DOMAIN s.clauses : Catches(s.clauses[i], alive[flying])}

InitEh == InitCart /\ mode = "run" /\ flying = NoObject /\ alive = <<>>

Program ==
  /\ mode = "run" /\ (Enter \/ Leave \/ Call \/ Return \/ \E c \in Coros : Swap(c))
  /\ UNCHANGED <<mode, flying, alive>>

Throw(e, t) ==
  /\ mode = "run" /\ Callee /\ alive = <<>>
  /\ alive' = [x \in {e} |-> t] /\ flying' = e /\ mode' = "unwind"
  /\ UNCHANGED <<acts, run>>

(* `throw;` throws the exception of the handler that was entered last.     *)
Rethrow ==
  /\ mode = "run" /\ Callee /\ flying = NoObject
  /\ \E e \in DOMAIN alive : HandlersOf(e) # {} /\ flying' = e
  /\ mode' = "unwind" /\ UNCHANGED <<acts, run, alive>>

(* It goes to the innermost activation that can catch it or has something  *)
(* to clean up; the activations inside end.                                *)
Lands(d) == \E i \in DOMAIN acts[run][d].scopes :
              LET s == acts[run][d].scopes[i] IN IsCleanup(s) \/ Catching(s) # {}

Land(d) ==
  /\ mode = "unwind" /\ Lands(d)
  /\ \A k \in d + 1 .. Len(acts[run]) : ~Lands(k)
  /\ acts' = [acts EXCEPT ![run] = Append(SubSeq(@, 1, d - 1), [@[d] EXCEPT !.pad = "landed"])]
  /\ mode' = "run" /\ UNCHANGED <<run, flying, alive>>

Uncaught ==
  /\ mode = "unwind" /\ \A d \in DOMAIN acts[run] : ~Lands(d)
  /\ mode' = "halt" /\ flying' = NoObject /\ UNCHANGED <<acts, run, alive>>

(* A handler is left, normally or by the exception.                        *)
Released(e) == IF e = flying \/ Cardinality(HandlersOf(e)) > 1
               THEN alive
               ELSE Restrict(alive, DOMAIN alive \ {e})

LeaveHandler ==
  /\ mode = "run" /\ Within("handler")
  /\ PadLeave /\ alive' = Released(Inner.exc)
  /\ UNCHANGED <<mode, flying>>

Destroy == mode = "run" /\ PadDestroy /\ UNCHANGED <<mode, flying, alive>>

Pass ==
  /\ mode = "run" /\ ~Runs /\ Within("try") /\ Catching(Inner) = {}
  /\ PadLeave /\ UNCHANGED <<mode, flying, alive>>

(* The first clause that fits catches; noexcept stops the program.         *)
Catch ==
  /\ mode = "run" /\ ~Runs /\ (Within("try") \/ Within("noexcept")) /\ Catching(Inner) # {}
  /\ LET c == Inner.clauses[Min(Catching(Inner))] IN PadCatch(flying, c, Place(c, alive[flying]))
  /\ mode' = IF Within("try") THEN "run" ELSE "halt"
  /\ flying' = NoObject /\ UNCHANGED alive

GoOn == /\ mode = "run" /\ ~Runs /\ Top.scopes = <<>>
        /\ mode' = "unwind" /\ UNCHANGED <<acts, run, flying, alive>>

OutOfMemory == /\ mode = "run" /\ Callee
               /\ mode' = "halt" /\ flying' = NoObject /\ UNCHANGED <<acts, run, alive>>

NextEh ==
  \/ Program \/ (\E e \in Objects, t \in Types : Throw(e, t)) \/ Rethrow
  \/ (\E d \in 1 .. MaxDepth : d \in DOMAIN acts[run] /\ Land(d)) \/ Uncaught
  \/ LeaveHandler \/ Destroy \/ Pass \/ Catch \/ GoOn \/ OutOfMemory

EhSpec == InitEh /\ [][NextEh]_evars
=============================================================================
