------------------------------- MODULE MCCoro -------------------------------
(***************************************************************************)
(* Four coroutines: main (record 0), two workers that run the same code on *)
(* stacks of their own (records 16 and 32) and one marked dead (48).  The  *)
(* target of every swap is picked by the host, so all orders occur.        *)
(***************************************************************************)
EXTENDS CvmCoro, CvmAlu, TLC

I(op, x, y, z) == [op |-> op, a |-> x, b |-> y, c |-> z]

(*  main:   0 pick; 1 R1 = 0; 2 swap R1, R0; 3 jmp 0                       *)
(*  worker: 4 [SP] = R0 (self); 5 call yield; 6 jmp 5                      *)
(*  yield:  7 pick; 8 R1 = 4; 9 R1 = SP + R1; 10 R1 = [R1] (self);         *)
(*          11 swap R1, R0; 12 ret                                         *)
Code == <<I("SYSCALL", 0, 0, 0), I("MOVI", 1, 0, 0), I("CORO_SWAP", 1, 0, 0),
          I("JMP", 0, 3, 3),
          I("STW", 0, 3, 0), I("CALL", 2, 0, 0), I("JMP", 2, 3, 3),
          I("SYSCALL", 0, 0, 0), I("MOVI", 1, 0, 1), I("ADD", 1, 3, 1),
          I("LDW", 1, 1, 0), I("CORO_SWAP", 1, 0, 0), I("RET", 0, 0, 0)>>

(* Records {pc, sp, dest, status}: the workers start at FUNCS[1].          *)
Data == <<0, 0, 0, 0,  1, 68, 0, 0,  1, 76, 0, 0,  1, 0, 0, 3,
          0, 0, 0, 0, 0>>
Memory == [i \in 0 .. 83 |-> Digit(Data[1 + i \div 4], i % 4)]

MCCarts == {[code |-> Code, funcs |-> <<0, 4, 7>>, imports |-> <<"host">>, regions |-> {},
             entry |-> 0, heapSize |-> 80, reserve |-> 0,
             romOffset |-> 0, romSize |-> 0, stackSize |-> 4, memSize |-> 84,
             data |-> Memory]}

MCRecords == {0, 16, 32, 48}
MCStackOf == 0 :> {80} @@ 16 :> {64, 68} @@ 32 :> {72, 76} @@ 48 :> {0}
MCEntryOf == 0 :> [pc |-> 0, sp |-> 80] @@ 16 :> [pc |-> 4, sp |-> 68]
             @@ 32 :> [pc |-> 4, sp |-> 76] @@ 48 :> [pc |-> 4, sp |-> 0]
MCArgs == {<<>>}
=============================================================================
