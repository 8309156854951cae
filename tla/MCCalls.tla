------------------------------ MODULE MCCalls ------------------------------
(***************************************************************************)
(* All programs of four instructions over an alphabet of calls, returns,   *)
(* branches and moves, on a memory of 8 data bytes and a stack of two      *)
(* words.                                                                  *)
(***************************************************************************)
EXTENDS CvmCalls, CvmAlu

I(op, x, y, z) == [op |-> op, a |-> x, b |-> y, c |-> z]

Alphabet == {I("CALL", 1, 0, 0), I("CALL", 2, 0, 0), I("CALLR", 0, 0, 0),
             I("RET", 0, 0, 0), I("BEQ", 0, 1, 1), I("MOVI", 0, 2, 0),
             I("JMP", 0, 0, 0)}

CallCart(code) ==
  [code |-> code, funcs |-> <<0, 1, 2>>, imports |-> <<>>, regions |-> {}, entry |-> 0,
   heapSize |-> 8, reserve |-> 0, romOffset |-> 0, romSize |-> 0,
   stackSize |-> 8, memSize |-> 16, data |-> [i \in 0 .. 15 |-> 0]]

MCCarts == {CallCart(<<w, x, y, z>>) : w, x, y, z \in Alphabet}
MCArgs == {<<1, 0, 0>>}
=============================================================================
