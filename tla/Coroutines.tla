----------------------------- MODULE Coroutines -----------------------------
(***************************************************************************)
(* What CORO_SWAP promises: a set of coroutines, each with a place it is   *)
(* at (an instruction and a stack), one of which runs.  A swap changes who *)
(* runs and nothing else: the coroutine swapped in continues where it was  *)
(* when it last swapped out, or at its entry if it never ran.              *)
(***************************************************************************)
EXTENDS Integers

CONSTANTS Coro,         \* the coroutines
          Main,         \* the one the run starts in
          Dead,         \* the ones that must not run any more
          Entry         \* Entry[c]: the place where c starts

VARIABLES current,      \* the coroutine that runs
          place,        \* place[c]: where c is
          running       \* whether there is a run

cvars == <<current, place, running>>

Fresh == [pc |-> -1, sp |-> -1]
AllFresh == [c \in Coro |-> Fresh]

InitCoro == current = Main /\ running = FALSE /\ place = AllFresh

Begin ==
  /\ ~running /\ running' = TRUE
  /\ place' = [AllFresh EXCEPT ![Main] = Entry[Main]]
  /\ current' = Main

(* The running coroutine takes a step of its own.                          *)
Progress ==
  /\ running
  /\ \A c \in Coro \ {current} : place'[c] = place[c]
  /\ UNCHANGED <<current, running>>

(* It swaps to d.  Its own place becomes the instruction after the swap.   *)
SwapTo(d) ==
  /\ running /\ d # current /\ d \notin Dead
  /\ current' = d
  /\ place' = [place EXCEPT
                 ![current] = [pc |-> @.pc + 1, sp |-> @.sp],
                 ![d] = IF @ = Fresh THEN Entry[d] ELSE @]
  /\ UNCHANGED running

Stop == running /\ running' = FALSE /\ current' = Main /\ place' = AllFresh

NextCoro == Begin \/ Progress \/ (\E d \in Coro : SwapTo(d)) \/ Stop

CoroSpec == InitCoro /\ [][NextCoro]_cvars
=============================================================================
