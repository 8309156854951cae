------------------------------ MODULE CvmAlloc ------------------------------
(***************************************************************************)
(* The allocator of a cart: src/runtime/lib/cvm_alloc.h.                   *)
(*                                                                         *)
(* Blocks with a header and a footer tile the free region; free blocks     *)
(* hold the links of a doubly linked list in their payload.  Everything,   *)
(* the program's own data included, is in one memory of 32-bit words: what *)
(* keeps them apart is what there is to check.  A cart is single-threaded, *)
(* so a call is one step.                                                  *)
(***************************************************************************)
EXTENDS CvmWord, FiniteSets

CONSTANTS
  HeapStart,    \* cvm_sys_heap_start()
  HeapSize,     \* cvm_sys_heap_size()
  Requests,     \* the sizes the program asks for (int)
  UserWords     \* what it writes into its blocks

NULL == 0
HDR == 4
FTR == 4
MIN == 16

(* The statics of the allocator itself are in DATA and BSS, so the free    *)
(* region never starts at address 0.                                       *)
ASSUME RegionAssumption ==
  /\ HeapStart \in Nat \ {0} /\ HeapSize \in Nat
  /\ HeapStart + HeapSize < WordMod \div 2
  /\ Requests \subseteq Int /\ UserWords \subseteq Word

(* int32_t arithmetic as the VM executes it: it wraps.                     *)
Int32(n) == Signed(ToWord(n))

VARIABLES
  H,          \* [mem, head]: the words of the free region, _cvm_free_head
  inited,     \* _cvm_alloc_inited
  heap_end,   \* _cvm_heap_end
  given       \* history: given[p] is the size asked for with the block at p

vars == <<H, inited, heap_end, given>>

Init ==
  /\ H = [mem |-> [k \in {HeapStart + 4 * j : j \in 0 .. HeapSize \div 4 - 1} |-> 0],
          head |-> NULL]
  /\ inited = FALSE /\ heap_end = NULL /\ given = << >>

-----------------------------------------------------------------------------
(* Words of the region.  An access that misses them reads 0 and writes     *)
(* nothing.                                                                *)
At(h, a) == Peek(h.mem, a)
Put(h, a, v) == [h EXCEPT !.mem = [k \in DOMAIN @ |-> IF k = a THEN v ELSE @[k]]]

_CVM_SIZE(h, b) == At(h, b) - (At(h, b) % 2)
_CVM_FREE(h, b) == At(h, b) % 2 = 1

fl_next(h, b) == At(h, b + 4)
fl_prev(h, b) == At(h, b + 8)

(* Faulty, for comparison: the footer is left as it was.                   *)
StampNoFooter(h, b, size, free) == Put(h, b, size + free)

_cvm_stamp(h, b, size, free) == Put(Put(h, b, size + free), b + size - FTR, size)

_cvm_fl_push(h, b) ==
  LET linked == Put(Put(h, b + 8, NULL), b + 4, h.head)
      joined == IF h.head = NULL THEN linked ELSE Put(linked, h.head + 8, b)
  IN  [joined EXCEPT !.head = b]

(* Faulty, for comparison: the next block keeps its backward link.         *)
RemoveOneWay(h, b) ==
  IF fl_prev(h, b) = NULL THEN [h EXCEPT !.head = fl_next(h, b)]
  ELSE Put(h, fl_prev(h, b) + 4, fl_next(h, b))

_cvm_fl_remove(h, b) ==
  LET pv == fl_prev(h, b)
      nx == fl_next(h, b)
      before == IF pv = NULL THEN [h EXCEPT !.head = nx] ELSE Put(h, pv + 4, nx)
  IN  IF nx = NULL THEN before ELSE Put(before, nx + 8, pv)

-----------------------------------------------------------------------------
Total == 4 * (HeapSize \div 4)

Prepared == IF inited \/ Total < MIN THEN H
            ELSE _cvm_fl_push(_cvm_stamp(H, HeapStart, Total, 1), HeapStart)
PreparedEnd == IF inited THEN heap_end
               ELSE IF Total < MIN THEN HeapStart ELSE HeapStart + Total

cvm_alloc_init ==
  /\ ~inited /\ inited' = TRUE
  /\ H' = Prepared /\ heap_end' = PreparedEnd
  /\ UNCHANGED given

(* The n-th block of the free list, from 0; NULL behind its end.           *)
Chain(h) ==
  LET at[n \in 0 .. HeapSize \div MIN] ==
        IF n = 0 THEN h.head
        ELSE IF at[n - 1] = NULL THEN NULL ELSE fl_next(h, at[n - 1])
  IN  at

need(bytes) ==
  LET n == Int32(bytes + 3)
      rounded == n - (n % 4)
  IN  IF rounded < 8 THEN 8 ELSE rounded
want(bytes) == Int32(need(bytes) + HDR + FTR)

(* An addition that leaves int32_t is undefined in C.  The VM's ADD wraps; *)
(* a compiler that has used that it cannot happen may see no block fit.    *)
Overflows(bytes) == bytes + 3 + HDR + FTR >= WordMod \div 2

(* Faulty, for comparison: a rest of any size, even none, is a free block. *)
CarveAlways(h, b, w) ==
  LET leftover == Int32(_CVM_SIZE(h, b) - w)
      taken == _cvm_fl_remove(h, b)
  IN  _cvm_fl_push(_cvm_stamp(_cvm_stamp(taken, b, w, 0), b + w, leftover, 1), b + w)

(* The block b of the free list is cut to size w, the rest is a new free   *)
(* block, unless it is too small to be one.                                *)
Carve(h, b, w) ==
  LET sz == _CVM_SIZE(h, b)
      leftover == Int32(sz - w)
      taken == _cvm_fl_remove(h, b)
  IN  IF leftover >= MIN
      THEN _cvm_fl_push(_cvm_stamp(_cvm_stamp(taken, b, w, 0), b + w, leftover, 1), b + w)
      ELSE _cvm_stamp(taken, b, sz, 0)

(* Malloc(bytes, p): cvm_malloc(bytes) returns p.                          *)
Malloc(bytes, p) ==
  LET at == Chain(Prepared)
      fit == {n \in DOMAIN at : at[n] # NULL /\ _CVM_SIZE(Prepared, at[n]) >= want(bytes)}
  IN  /\ inited' = TRUE /\ heap_end' = PreparedEnd
      /\ \/ bytes <= 0 /\ p = NULL /\ H' = Prepared
         \/ bytes > 0 /\ (fit = {} \/ Overflows(bytes)) /\ p = NULL /\ H' = Prepared
         \/ /\ bytes > 0
            /\ \E n \in fit : /\ \A j \in fit : n <= j
                              /\ p = at[n] + HDR
                              /\ H' = Carve(Prepared, at[n], want(bytes))

cvm_malloc(bytes) ==
  \E p \in {NULL} \cup DOMAIN H.mem :
    /\ Malloc(bytes, p)
    /\ given' = IF p = NULL THEN given
                ELSE [q \in DOMAIN given \cup {p} |-> IF q = p THEN bytes ELSE given[q]]

(* Faulty, for comparison: joined with the block before it, free or not.   *)
FreedAnyway(p) ==
  LET b == p - HDR
      psz == At(H, b - FTR)
      pb == b - psz
      before == b > HeapStart /\ pb >= HeapStart
      h2 == IF before THEN _cvm_fl_remove(H, pb) ELSE H
      start == IF before THEN pb ELSE b
      sz2 == _CVM_SIZE(H, b) + IF before THEN psz ELSE 0
  IN  _cvm_fl_push(_cvm_stamp(h2, start, sz2, 1), start)

(* Freeing the block at p: joined with the block behind it and with the    *)
(* one before it, found by its footer, if those are free.                  *)
Freed(p) ==
  LET b == p - HDR
      nx == b + _CVM_SIZE(H, b)
      after == nx < heap_end /\ _CVM_FREE(H, nx)
      h1 == IF after THEN _cvm_fl_remove(H, nx) ELSE H
      sz1 == _CVM_SIZE(H, b) + IF after THEN _CVM_SIZE(h1, nx) ELSE 0
      psz == At(h1, b - FTR)
      pb == b - psz
      before == b > HeapStart /\ pb >= HeapStart /\ _CVM_FREE(h1, pb)
      h2 == IF before THEN _cvm_fl_remove(h1, pb) ELSE h1
      start == IF before THEN pb ELSE b
      sz2 == sz1 + IF before THEN psz ELSE 0
  IN  _cvm_fl_push(_cvm_stamp(h2, start, sz2, 1), start)

cvm_free(p) ==
  /\ \/ p = NULL /\ UNCHANGED <<H, given>>
     \/ /\ p \in DOMAIN given
        /\ H' = Freed(p)
        /\ given' = [q \in DOMAIN given \ {p} |-> given[q]]
  /\ UNCHANGED <<inited, heap_end>>

(* The program writes v into every word of its block.                      *)
Payload(p) == {k \in DOMAIN H.mem : k >= p /\ k + 4 <= p + given[p]}

UserWrite(p, v) ==
  /\ p \in DOMAIN given
  /\ H' = [H EXCEPT !.mem = [k \in DOMAIN @ |-> IF k \in Payload(p) THEN v ELSE @[k]]]
  /\ UNCHANGED <<inited, heap_end, given>>

Next == \/ cvm_alloc_init
        \/ \E bytes \in Requests : cvm_malloc(bytes)
        \/ \E p \in {NULL} \cup DOMAIN given :
             cvm_free(p) \/ \E v \in UserWords : UserWrite(p, v)

Spec == Init /\ [][Next]_vars

-----------------------------------------------------------------------------
(* The blocks that tile the region, from the first.                        *)
BlockAt(h) ==
  LET at[n \in 0 .. HeapSize \div MIN] ==
        IF n = 0 THEN HeapStart
        ELSE IF at[n - 1] >= heap_end THEN heap_end
             ELSE at[n - 1] + _CVM_SIZE(h, at[n - 1])
  IN  at

Blocks == {BlockAt(H)[n] : n \in 0 .. HeapSize \div MIN} \ {heap_end}
Listed == {Chain(H)[n] : n \in 0 .. HeapSize \div MIN} \ {NULL}
FreeBlocks == {b \in Blocks : _CVM_FREE(H, b)}

(* The type invariant: the region keeps its words, each an int32_t, and    *)
(* the pointers of the allocator are NULL or in the region.                *)
TypeOK ==
  /\ DOMAIN H.mem = {HeapStart + 4 * j : j \in 0 .. HeapSize \div 4 - 1}
  /\ \A k \in DOMAIN H.mem : H.mem[k] \in Word
  /\ H.head \in {NULL} \cup DOMAIN H.mem
  /\ inited \in BOOLEAN
  /\ DOMAIN given \subseteq DOMAIN H.mem

(* Whatever is allocated, freed and written in whatever order, the blocks  *)
(* tile the region to its end, header and footer of each agree, every      *)
(* block is either free or one the program was given, and no two free      *)
(* blocks are neighbours: once everything is freed the region is one block *)
(* again.                                                                  *)
BlocksTile ==
  inited =>
    /\ \A b \in Blocks :
         /\ b + _CVM_SIZE(H, b) <= heap_end /\ _CVM_SIZE(H, b) >= MIN
         /\ At(H, b + _CVM_SIZE(H, b) - FTR) = _CVM_SIZE(H, b)
         /\ _CVM_FREE(H, b) # (b + HDR \in DOMAIN given)
         /\ _CVM_FREE(H, b) => (b + _CVM_SIZE(H, b)) \notin FreeBlocks
    /\ \A p \in DOMAIN given : p - HDR \in Blocks

(* The free list holds the free blocks, each once, and its backward links  *)
(* are the inverse of its forward links: no free block is lost to          *)
(* cvm_malloc and the walk ends.                                           *)
FreeListExact ==
  LET at == Chain(H) IN
  /\ Listed = IF inited THEN FreeBlocks ELSE {}
  /\ \A n \in DOMAIN at \ {0} : at[n] # NULL => fl_prev(H, at[n]) = at[n - 1]
  /\ H.head # NULL => fl_prev(H, H.head) = NULL
  /\ at[HeapSize \div MIN] = NULL \/ fl_next(H, at[HeapSize \div MIN]) = NULL

Words == [p \in DOMAIN given |-> [k \in Payload(p) |-> H.mem[k]]]

Promise == INSTANCE Arena
             WITH Low <- HeapStart, High <- HeapStart + HeapSize,
                  Sizes <- Requests, Values <- UserWords,
                  owned <- given, words <- Words

(* cvm_malloc and cvm_free keep the promise of an allocator: a block is as *)
(* large as asked for, inside the free region and apart from every other,  *)
(* and no call changes a word of a block the program holds.                *)
KeepsPromise == Promise!ArenaSpec
=============================================================================
