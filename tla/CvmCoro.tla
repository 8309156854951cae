------------------------------ MODULE CvmCoro ------------------------------
(***************************************************************************)
(* CORO_SWAP implements Coroutines, for the carts that keep one context    *)
(* record per coroutine, name their own record as `from`, and give every   *)
(* coroutine a stack of its own.                                           *)
(***************************************************************************)
EXTENDS CvmExec

CONSTANTS
  Records,      \* the addresses of the context records: the coroutines
  DeadRecords,  \* those of coroutines the cart has marked CORO_DEAD
  MainRecord,   \* the record of the coroutine the run starts in
  StackOf,      \* StackOf[c]: the byte addresses SP may hold while c runs
  EntryOf       \* EntryOf[c]: the pc and sp a coroutine starts with

ASSUME RecordsAssumption ==
  /\ Records \subseteq Nat /\ MainRecord \in Records \ DeadRecords
  /\ \A c, d \in Records : c # d => /\ Span(c, 16) \cap Span(d, 16) = {}
                                    /\ StackOf[c] \cap StackOf[d] = {}

IsRunning == status = "running"

Current == IF IsRunning
           THEN CHOOSE c \in Records : R[REG_SP] \in StackOf[c]
           ELSE MainRecord

Status(c) == ReadLE(heap, c + 12, 4)

Resumed == {c \in Records : Status(c) \notin {CORO_FRESH, CORO_DEAD}}

NeverRan == [pc |-> -1, sp |-> -1]

Place ==
  [c \in Records |->
     CASE ~IsRunning -> NeverRan
       [] IsRunning /\ c = Current -> [pc |-> pc, sp |-> R[REG_SP]]
       [] IsRunning /\ c # Current /\ c \notin Resumed -> NeverRan
       [] OTHER -> [pc |-> ReadLE(heap, c, 4), sp |-> ReadLE(heap, c + 4, 4)]]

Swaps == INSTANCE Coroutines
           WITH Coro <- Records, Main <- MainRecord, Dead <- DeadRecords,
                Entry <- EntryOf,
                current <- Current, place <- Place, running <- IsRunning

(* The discipline.  A run starts with the records as the cart declares     *)
(* them; from then on the program leaves them to CORO_SWAP, names its own  *)
(* record and another of its coroutines in each swap, and stays on the     *)
(* stack of the coroutine that runs.                                       *)
Prepared ==
  /\ EntryOf[MainRecord] = [pc |-> pc, sp |-> R[REG_SP]]
  /\ R[REG_SP] \in StackOf[MainRecord]
  /\ \A c \in Records :
       LET j == Words(heap, c, 4) IN
         /\ j[3] = IF c \in DeadRecords THEN CORO_DEAD ELSE CORO_FRESH
         /\ c \notin DeadRecords \cup {MainRecord} =>
              /\ EntryOf[c] = [pc |-> func_offsets(j[0]), sp |-> j[1]]
              /\ j[1] \in StackOf[c]

KeepsRecords ==
  /\ ~IsRunning /\ IsRunning' => Prepared'
  /\ IsRunning /\ pc < code_count =>
       IF Fetch.op = "CORO_SWAP"
       THEN R[Fetch.a] = Current /\ R[Fetch.b] \in Records
       ELSE IsRunning' => /\ R'[REG_SP] \in StackOf[Current]
                          /\ \A c \in Records : Words(heap', c, 4) = Words(heap, c, 4)

(* In whatever order the coroutines of a cart swap, a coroutine resumes    *)
(* right behind the CORO_SWAP it left by, on the stack it left (L_CORO_    *)
(* SWAP); a first resume enters the function of the FUNCS table that the   *)
(* record names, and no swap enters a coroutine marked dead.               *)
SwapsResume == Swaps!CoroSpec

(* The status word of the records is what makes swapping safe: once the    *)
(* first swap is done the running coroutine, and no other, is marked       *)
(* RUNNING, so that a swap to it is refused with CVM_E_BAD_CORO_STATE.     *)
OneRunning ==
  /\ \A c \in Records : Status(c) = CORO_RUNNING /\ IsRunning => c = Current
  /\ IsRunning /\ (\E c \in Records : Status(c) = CORO_SUSPENDED) =>
       Status(Current) = CORO_RUNNING
=============================================================================
