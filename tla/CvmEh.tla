------------------------------- MODULE CvmEh -------------------------------
(***************************************************************************)
(* Exceptions on CronoVM (cvm_cxxrt.cpp, and what the translator makes of  *)
(* invoke, landingpad and resume).  A call from within a scope puts the    *)
(* frame of its activation on a chain: the clauses of its landing pad and  *)
(* a jmp_buf.  A throw walks the chain and longjmps.  The chain, the       *)
(* exception, its type and the selector are four globals.                  *)
(***************************************************************************)
EXTENDS EhCart

CONSTANTS
  Overlaps,     \* BOOLEAN: the program throws while it handles an exception
  SwapsInScopes \* BOOLEAN: coroutines swap while scopes are open

VARIABLES
  mode,         \* "run"; "unwind": in eh_unwind; "halt"; "wild": a longjmp
                \* into an activation that is gone
  g_eh_top,     \* the address of a frame: its coroutine and depth
  g_eh_exc, g_eh_ti, g_eh_sel,
  frames,       \* eh_frame, by address: {jb, desc, next}; once off the chain
                \* its words hold nothing any more
  headers       \* exc_header, by exception

gvars == <<g_eh_exc, g_eh_ti>>
vars == <<acts, run, mode, g_eh_top, g_eh_exc, g_eh_ti, g_eh_sel, frames, headers>>

NULL == <<>>
Freed == [ti |-> NoType, handler_count |-> 0, live |-> FALSE]
Addresses == Coros \X (1 .. MaxDepth)

(* The landing pad of an activation: a descriptor in the cart's data.      *)
Desc(scopes) == [clauses |-> ClausesOf(scopes),
                 has_cleanup |-> \E i \in DOMAIN scopes : IsCleanup(scopes[i])]
NoFrame == [jb |-> <<>>, desc |-> Desc(<<>>), next |-> NULL]

InitEh ==
  /\ InitCart /\ mode = "run" /\ g_eh_top = NULL
  /\ g_eh_exc = NoObject /\ g_eh_ti = NoType /\ g_eh_sel = NoType
  /\ frames = [a \in Addresses |-> NoFrame]
  /\ headers = [e \in Objects |-> Freed]

Alive == {e \in Objects : headers[e].live}

(* ---------------------------------------------------------------------- *)
(* Matching                                                                *)

(* The offset of the base class dst in a t, or -1: the first public path.  *)
ti_search(thrown, dst) ==
  LET at[t \in Types] ==
        IF t = dst THEN 0
        ELSE LET hits == {i \in DOMAIN Bases[t] : Bases[t][i].public /\ at[Bases[t][i].base] >= 0}
             IN  IF hits = {} THEN -1
                 ELSE Bases[t][Min(hits)].offset + at[Bases[t][Min(hits)].base]
  IN  at[thrown]

eh_type_matches(thrown, caught) == ti_search(thrown, caught) >= 0

(* The clauses of a landing pad that stop the walk.                        *)
Hits(desc) == {i \in DOMAIN desc.clauses :
                 \/ desc.clauses[i] = CatchAll
                 \/ eh_type_matches(g_eh_ti, desc.clauses[i])}

Selector(desc) ==
  IF Hits(desc) = {} \/ desc.clauses[Min(Hits(desc))] = CatchAll
  THEN NoType ELSE desc.clauses[Min(Hits(desc))]

(* ---------------------------------------------------------------------- *)
(* Calls                                                                   *)

__cvm_eh_push(f, frame) ==
  /\ frames' = [frames EXCEPT ![f] = [frame EXCEPT !.next = g_eh_top]]
  /\ g_eh_top' = f

(* Faulty, for comparison: the frame stays on the chain.                   *)
PopForgotten == UNCHANGED <<g_eh_top, frames>>

__cvm_eh_pop ==
  IF g_eh_top = NULL THEN UNCHANGED <<g_eh_top, frames>>
  ELSE /\ g_eh_top' = frames[g_eh_top].next
       /\ frames' = [frames EXCEPT ![g_eh_top] = NoFrame]

(* From within a scope a call is an invoke: desc, push, SETJMP, call.      *)
Invoke ==
  /\ mode = "run" /\ Call
  /\ IF Top.scopes = <<>>
     THEN UNCHANGED <<frames, g_eh_top>>
     ELSE __cvm_eh_push(<<run, Len(acts[run])>>,
            [jb |-> Top.scopes, desc |-> Desc(Top.scopes), next |-> NULL])
  /\ UNCHANGED <<mode, gvars, g_eh_sel, headers>>

(* Back in the caller, the pop.  A destructor called by a landing pad was  *)
(* called without a frame.                                                 *)
InvokeReturns ==
  /\ mode = "run" /\ Return
  /\ LET caller == Last(Front(acts[run])) IN
       IF caller.pad = Running /\ caller.scopes # <<>>
       THEN __cvm_eh_pop ELSE UNCHANGED <<g_eh_top, frames>>
  /\ UNCHANGED <<mode, gvars, g_eh_sel, headers>>

Scopes == /\ mode = "run" /\ (Enter \/ Leave)
          /\ UNCHANGED <<mode, g_eh_top, gvars, g_eh_sel, frames, headers>>

SwapTo(c) == /\ mode = "run" /\ (SwapsInScopes \/ Quiet(run)) /\ Swap(c)
             /\ UNCHANGED <<mode, g_eh_top, gvars, g_eh_sel, frames, headers>>

(* ---------------------------------------------------------------------- *)
(* Throwing                                                                *)

(* __cxa_allocate_exception and __cxa_throw.                               *)
__cxa_throw(e, t) ==
  /\ mode = "run" /\ Callee /\ e \notin Alive
  /\ Overlaps \/ Alive = {}
  /\ headers' = [headers EXCEPT ![e] = [ti |-> t, handler_count |-> 0, live |-> TRUE]]
  /\ g_eh_exc' = e /\ g_eh_ti' = t /\ mode' = "unwind"
  /\ UNCHANGED <<acts, run, g_eh_top, g_eh_sel, frames>>

OutOfMemory ==
  /\ mode = "run" /\ Callee /\ mode' = "halt"
  /\ UNCHANGED <<acts, run, g_eh_top, gvars, g_eh_sel, frames, headers>>

__cxa_rethrow ==
  /\ mode = "run" /\ Callee
  /\ \E e \in Objects : HandlersOf(e) # {}
  /\ Overlaps \/ ~AtPad
  /\ headers' = IF g_eh_exc = NoObject THEN headers
                ELSE [headers EXCEPT ![g_eh_exc].handler_count = -@]
  /\ mode' = "unwind"
  /\ UNCHANGED <<acts, run, g_eh_top, gvars, g_eh_sel, frames>>

(* One turn of eh_unwind.  longjmp ends the activations inside.            *)
longjmp(f) ==
  LET c == f[1]
      d == f[2]
  IN  IF d > Len(acts[c])
      THEN mode' = "wild" /\ UNCHANGED <<acts, run>>
      ELSE /\ acts' = [acts EXCEPT ![c] = Append(SubSeq(@, 1, d - 1),
                          [scopes |-> frames[f].jb, pad |-> Selector(frames[f].desc)])]
           /\ run' = c /\ mode' = "run"

(* Faulty, for comparison: a landing pad with clean-up and clauses of      *)
(* which none fits is passed over.                                         *)
CatchesOrCleans(desc) ==
  Hits(desc) # {} \/ (desc.has_cleanup /\ desc.clauses = <<>>)

Catches(desc) == Hits(desc) # {} \/ desc.has_cleanup

eh_unwind ==
  /\ mode = "unwind" /\ g_eh_top # NULL
  /\ LET desc == frames[g_eh_top].desc IN
       IF Catches(desc)
       THEN longjmp(g_eh_top) /\ g_eh_sel' = Selector(desc)
       ELSE UNCHANGED <<acts, run, mode, g_eh_sel>>
  /\ __cvm_eh_pop          \* "pop before transferring"
  /\ UNCHANGED <<gvars, headers>>

__cvm_eh_terminate ==
  /\ mode = "unwind" /\ g_eh_top = NULL /\ mode' = "halt"
  /\ UNCHANGED <<acts, run, g_eh_top, gvars, g_eh_sel, frames, headers>>

(* ---------------------------------------------------------------------- *)
(* Landing pads and handlers                                               *)

(* Faulty, for comparison: a rethrown exception is not counted again.      *)
CountedUnlessRethrown(n) == IF n < 0 THEN -n ELSE n + 1

Counted(n) == IF n < 0 THEN 1 - n ELSE n + 1

(* The pointer it returns is the object's, whatever the clause.            *)
__cxa_begin_catch ==
  headers' = IF g_eh_exc = NoObject THEN headers
             ELSE [headers EXCEPT ![g_eh_exc].handler_count = Counted(@)]

(* Faulty, for comparison: the globals keep the exception that is freed.   *)
EndCatchDangling ==
  LET n == headers[g_eh_exc].handler_count IN
  IF g_eh_exc = NoObject THEN UNCHANGED <<headers, gvars>>
  ELSE /\ headers' = IF n = 1 THEN [headers EXCEPT ![g_eh_exc] = Freed]
                     ELSE [headers EXCEPT
                       ![g_eh_exc].handler_count = IF n < 0 THEN n + 1 ELSE n - 1]
       /\ UNCHANGED gvars

__cxa_end_catch ==
  LET n == headers[g_eh_exc].handler_count IN
  IF g_eh_exc = NoObject THEN UNCHANGED <<headers, gvars>>
  ELSE IF n = 1
       THEN /\ headers' = [headers EXCEPT ![g_eh_exc] = Freed]
            /\ g_eh_exc' = NoObject /\ g_eh_ti' = NoType
       ELSE /\ headers' = [headers EXCEPT
                 ![g_eh_exc].handler_count = IF n < 0 THEN n + 1 ELSE n - 1]
            /\ UNCHANGED gvars

LeaveHandler ==
  /\ mode = "run" /\ Within("handler") /\ PadLeave /\ __cxa_end_catch
  /\ UNCHANGED <<mode, g_eh_top, g_eh_sel, frames>>

Destroy == /\ mode = "run" /\ PadDestroy
           /\ UNCHANGED <<mode, g_eh_top, gvars, g_eh_sel, frames, headers>>

(* The landing pad compares the selector it read with the clauses of the   *)
(* scope in turn; catch (...) needs no comparison.                         *)
Selected(scope) ==
  {i \in DOMAIN scope.clauses : scope.clauses[i] \in {Top.pad, CatchAll}}

Dispatch ==
  /\ mode = "run" /\ ~Runs /\ (Within("try") \/ Within("noexcept"))
  /\ IF Selected(Inner) = {}
     THEN PadLeave /\ UNCHANGED <<mode, headers>>
     ELSE /\ PadCatch(g_eh_exc, Inner.clauses[Min(Selected(Inner))], 0)
          /\ __cxa_begin_catch
          /\ mode' = IF Within("noexcept") THEN "halt" ELSE mode
  /\ UNCHANGED <<g_eh_top, gvars, g_eh_sel, frames>>

__cvm_eh_resume ==
  /\ mode = "run" /\ ~Runs /\ Top.scopes = <<>> /\ mode' = "unwind"
  /\ UNCHANGED <<acts, run, g_eh_top, gvars, g_eh_sel, frames, headers>>

Done == mode = "halt" /\ UNCHANGED vars

NextEh ==
  \/ Invoke \/ InvokeReturns \/ Scopes \/ (\E c \in Coros : SwapTo(c))
  \/ (\E e \in Objects, t \in Types : __cxa_throw(e, t)) \/ OutOfMemory
  \/ __cxa_rethrow \/ eh_unwind \/ __cvm_eh_terminate
  \/ LeaveHandler \/ Destroy \/ Dispatch \/ __cvm_eh_resume \/ Done

Spec == InitEh /\ [][NextEh]_vars

(* ---------------------------------------------------------------------- *)
(* Properties                                                              *)

TypeOK ==
  /\ run \in Coros /\ mode \in {"run", "unwind", "halt", "wild"}
  /\ g_eh_top \in Addresses \cup {NULL}
  /\ g_eh_exc \in Objects \cup {NoObject}
  /\ {g_eh_ti, g_eh_sel} \subseteq Types \cup {NoType}
  /\ g_eh_exc # NoObject => g_eh_exc \in Alive /\ headers[g_eh_exc].ti = g_eh_ti
  /\ \A a \in Addresses : frames[a].next \in Addresses \cup {NULL}
  /\ \A e \in Objects : headers[e].handler_count \in Int

Flying == IF mode = "unwind" \/ (mode = "run" /\ AtPad) THEN g_eh_exc ELSE NoObject

Abstract == INSTANCE Exceptions WITH
  acts <- [c \in Coros |-> [d \in DOMAIN acts[c] |->
            [acts[c][d] EXCEPT !.pad = IF @ = Running THEN Running ELSE "landed"]]],
  flying <- Flying,
  alive <- [e \in Alive |-> headers[e].ti]

(* A throw ends in the handler C++ says, after the clean-up C++ says and   *)
(* no other; the object is destroyed when its last handler is left and not *)
(* before, however often it is rethrown (eh_unwind, __cxa_end_catch).      *)
HandlesExceptions == Abstract!EhSpec

(* The chain holds the frames of the calls that have not returned, of all  *)
(* activations, from the inside out: no frame of an activation that ended, *)
(* and none twice (__cvm_eh_push, __cvm_eh_pop, eh_unwind).                *)
Pending(c) == {d \in 1 .. Len(acts[c]) - 1 :
                 acts[c][d].pad = Running /\ acts[c][d].scopes # <<>>}
Behind(c, d) == {k \in Pending(c) : k < d}
FrameBelow(c, d) == IF Behind(c, d) = {} THEN NULL ELSE <<c, Max(Behind(c, d))>>

ChainExact ==
  mode = "run" =>
    /\ g_eh_top = FrameBelow(run, MaxDepth + 1)
    /\ \A d \in Pending(run) : /\ frames[<<run, d>>].next = FrameBelow(run, d)
                               /\ frames[<<run, d>>].jb = acts[run][d].scopes

(* "handler_count tracks how many `catch` handlers are live on this        *)
(* exception" (cvm_cxxrt.cpp:174), negated while it is rethrown.           *)
CountsHandlers ==
  \A e \in Alive : headers[e].handler_count \in
                     {Cardinality(HandlersOf(e)), -Cardinality(HandlersOf(e))}

(* "the (possibly base-adjusted) object" (cvm_cxxrt.cpp:261): a handler    *)
(* for a base class refers to the base class subobject.                    *)
CaughtSubobject ==
  \A e \in Alive : \A h \in HandlersOf(e) :
    LET s == acts[h[1]][h[2]].scopes[h[3]] IN
      s.clause # CatchAll => s.at = ti_search(headers[e].ti, s.clause)
=============================================================================
