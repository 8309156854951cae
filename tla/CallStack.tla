----------------------------- MODULE CallStack -----------------------------
(***************************************************************************)
(* What CALL and RET promise a program that leaves the stack to them: a    *)
(* stack of return addresses with no memory and no registers.  A call      *)
(* enters a function of the FUNCS table and remembers the instruction      *)
(* after it; a return goes back to the latest remembered one; the return   *)
(* of the outermost function ends the run; a call too many is refused.     *)
(***************************************************************************)
EXTENDS Naturals, Sequences, SequencesExt

VARIABLES
  text,     \* the program: [size, entries, flow, halts, faults, depth]
  at,       \* the next instruction
  frames,   \* pending return addresses, innermost last
  phase     \* "idle", "running", "done", "overflow", "trapped"

avars == <<text, at, frames, phase>>

InitStack == frames = <<>> /\ phase = "idle"

Begin ==
  /\ phase # "running" /\ phase' = "running"
  /\ at' \in text.entries
  /\ frames' = <<>>
  /\ UNCHANGED text

CallFunction ==
  /\ phase = "running" /\ at < text.size
  /\ Len(frames) < text.depth
  /\ frames' = Append(frames, at + 1)
  /\ at' \in text.entries
  /\ UNCHANGED <<text, phase>>

ReturnToCaller ==
  /\ phase = "running" /\ at < text.size
  /\ frames # <<>>
  /\ at' = Last(frames) /\ frames' = Front(frames)
  /\ UNCHANGED <<text, phase>>

(* Any other instruction follows the program text.                         *)
Local ==
  /\ phase = "running"
  /\ <<at, at'>> \in text.flow
  /\ UNCHANGED <<text, frames, phase>>

End(outcome) ==
  /\ phase = "running" /\ phase' = outcome
  /\ frames' = <<>>
  /\ UNCHANGED text

ReturnFromMain == frames = <<>> /\ at < text.size /\ End("done")
CallTooMany    == Len(frames) = text.depth /\ at < text.size /\ End("overflow")
LeaveText      == at >= text.size /\ End("trapped")
Halt           == at \in text.halts /\ End("done")
Fault          == at \in text.faults /\ End("trapped")

(* The host asked for a function that is not there: nothing runs.          *)
Refused ==
  /\ phase # "running" /\ phase' = "trapped"
  /\ UNCHANGED <<text, at, frames>>

NextStack == \/ Begin \/ CallFunction \/ ReturnToCaller \/ Local
             \/ ReturnFromMain \/ CallTooMany \/ LeaveText \/ Halt \/ Fault
             \/ Refused

StackSpec == InitStack /\ [][NextStack]_avars
=============================================================================
