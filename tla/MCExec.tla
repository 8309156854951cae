------------------------------- MODULE MCExec -------------------------------
(***************************************************************************)
(* The interpreter on a machine of 4-valued bytes: 4 registers (R3 is the  *)
(* stack pointer), 8-bit words, the sentinel 255.  The carts are all the   *)
(* opcodes alone with boundary values in their operands, and pairs of an   *)
(* instruction that writes memory or registers and one that reads them.    *)
(***************************************************************************)
EXTENDS CvmExec, CvmAlu

I(op, x, y, z) == [op |-> op, a |-> x, b |-> y, c |-> z]

MCMem == 24
MCStack == 4

(* Initial memories: zeros; a coroutine record {1, 20, 0, FRESH} at 0 and  *)
(* a suspended one {1, 20, 0, SUSPENDED} at 4, which overlaps it; the      *)
(* bytes 3, 2, 1, 0, 3, ...                                                *)
Memories ==
  LET word(k, v) == [i \in Span(4 * k, 4) |-> Digit(v, i - 4 * k)]
      mem(w) == [i \in 0 .. MCMem - 1 |-> word(i \div 4, w[1 + i \div 4])[i]]
  IN  {mem(<<0, 0, 0, 0, 0, 0>>), mem(<<1, 20, 0, 0, 2, 0>>),
       mem(<<1, 1, 20, 0, 2, 0>>), mem(<<2, 20, 4, 0, 7, 1>>),
       mem(<<1, 20, 4, 0, 2, 0>>), mem(<<0, 20, 0, 2, 9, 3>>),
       mem(<<5, 20, 0, 0, 2, 0>>)}

MCCart(code, memory) ==
  [code |-> code, funcs |-> <<0, Len(code) - 1>>,
   imports |-> <<"unlinked", "heap_start", "heap_size", "rom_base",
                 "rom_size", "host", "host_read", "host_write", "get_region">>,
   regions |-> {[name |-> <<1>>, offset |-> 8]},
   entry |-> 0, heapSize |-> MCMem - MCStack, reserve |-> 8,
   romOffset |-> 8, romSize |-> 4,
   stackSize |-> MCStack, memSize |-> MCMem, data |-> memory]

Zero == CHOOSE m \in Memories : \A i \in DOMAIN m : m[i] = 0

Syscalls == {I("SYSCALL", 0, id % 4, id \div 4) : id \in 0 .. 9}
Singles == {I(op, 0, 1, 2) : op \in Opcodes \cup {"BAD"}}
             \cup Syscalls
             \cup {I("CALL", 0, 0, 0), I("CALL", 1, 0, 0), I("CALL", 2, 0, 0),
                   I("CALLR", 3, 0, 0), I("JMP", 3, 3, 3), I("BEQ", 0, 0, 3),
                   I("MOV", 3, 0, 0), I("MOVI", 0, 3, 3)}
First == {I("MOV", 3, 1, 0), I("STW", 0, 1, 2), I("STB", 0, 1, 2),
          I("SETJMP", 2, 1, 0), I("MEMCPY", 0, 1, 2), I("CALL", 1, 0, 0)}
Second == {I("RET", 0, 0, 0), I("LONGJMP", 1, 2, 0), I("CALL", 1, 0, 0),
           I("CORO_SWAP", 0, 1, 0), I("CORO_SWAP", 1, 2, 0),
           I("LDW", 0, 1, 0), I("JMPR", 2, 0, 0), I("SYSCALL", 0, 2, 1),
           I("SYSCALL", 0, 0, 2)}

(* A cart with no memory at all, and one without FUNCS, stack or imports.  *)
Bare(n) == [MCCart(<<I("LDB", 0, 1, 2), I("RET", 0, 0, 0)>>, Zero) EXCEPT
              !.funcs = <<>>, !.imports = <<>>, !.regions = {}, !.heapSize = n,
              !.reserve = 0, !.stackSize = 0, !.memSize = n,
              !.data = [i \in 0 .. n - 1 |-> 0]]

MCCarts == {MCCart(<<x>>, m) : x \in Singles, m \in {Zero}}
      \cup {MCCart(<<x, y>>, m) : x \in First, y \in Second, m \in Memories}
      \cup {Bare(0), Bare(4)}

Edges == {0, 4, 21, 24, 255}
MCArgs == {<<x, y, z>> : x, y, z \in Edges} \cup {<<>>, <<0, 0, 0, 0, 0>>}
MCHostWords == {0, 22, 255}
MCFloatWords == {0, 128}
=============================================================================
