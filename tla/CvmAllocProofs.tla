-------------------------- MODULE CvmAllocProofs --------------------------
(***************************************************************************)
(* Theorems about the allocator of a cart (cvm_alloc.h), for every free    *)
(* region and every program that asks for sizes it can add a header and a  *)
(* footer to.                                                              *)
(*                                                                         *)
(* The first part is about the words of the free region: the free list and *)
(* the tiling by blocks are two structures in the same memory, and each    *)
(* operation on one is shown to leave the words of the other alone.        *)
(***************************************************************************)
EXTENDS CvmAlloc, NatLemmas

USE DEF NULL, HDR, FTR, MIN

Region == {HeapStart + 4 * j : j \in 0 .. HeapSize \div 4 - 1}

Heaps == [mem : [Region -> Word], head : {NULL} \cup Region]

(* The region is the aligned words from its start to its end.              *)
LEMMA Bounds ==
  /\ HeapStart \in Nat /\ HeapStart > 0 /\ HeapSize \in Nat
  /\ Total \in Nat /\ Total % 4 = 0 /\ Total <= HeapSize
  /\ WordMod \in Nat /\ HeapStart + HeapSize < WordMod \div 2
  /\ HeapStart + HeapSize < WordMod
<1>1. ByteBase \in Nat /\ ByteBase >= 4 BY ByteBaseAssumption
<1>2. HalfMod \in Nat /\ HalfMod >= 16 BY <1>1 DEF HalfMod
<1>3. TriMod \in Nat /\ TriMod >= 64
  <2> HIDE DEF HalfMod
  <2> QED BY <1>1, <1>2 DEF TriMod
<1>4. WordMod \in Nat /\ WordMod >= 256
  <2> HIDE DEF TriMod
  <2> QED BY <1>1, <1>3 DEF WordMod
<1>5. HeapStart \in Nat \ {0} /\ HeapSize \in Nat /\ HeapStart + HeapSize < WordMod \div 2
  BY RegionAssumption
<1>6. PICK w \in Nat : w = WordMod BY <1>4
<1> QED BY <1>4, <1>5, <1>6 DEF Total

LEMMA InRegion ==
  ASSUME NEW a
  PROVE  a \in Region <=> /\ a \in Int /\ a >= HeapStart /\ a + 4 <= HeapStart + Total
                          /\ (a - HeapStart) % 4 = 0
<1>1. HeapStart \in Nat /\ HeapSize \in Nat BY Bounds
<1>2. ASSUME a \in Region
      PROVE  /\ a \in Int /\ a >= HeapStart /\ a + 4 <= HeapStart + Total
             /\ (a - HeapStart) % 4 = 0
  BY <1>1, <1>2 DEF Region, Total
<1>3. ASSUME a \in Int, a >= HeapStart, a + 4 <= HeapStart + Total, (a - HeapStart) % 4 = 0
      PROVE  a \in Region
  <2>1. PICK j \in Int : j = (a - HeapStart) \div 4 BY <1>1, <1>3
  <2>2. a = HeapStart + 4 * j BY <1>1, <1>3, <2>1
  <2>3. j \in 0 .. HeapSize \div 4 - 1 BY <1>1, <1>3, <2>2 DEF Total
  <2> QED BY <2>2, <2>3 DEF Region
<1> QED BY <1>2, <1>3

LEMMA RegionWords ==
  /\ Region \subseteq Word /\ NULL \notin Region /\ Region \subseteq Nat
<1> SUFFICES ASSUME NEW a \in Region PROVE a \in Word /\ a # NULL /\ a \in Nat
  OBVIOUS
<1> QED BY InRegion, Bounds DEF Word

LEMMA ReadWord ==
  ASSUME NEW h \in Heaps, NEW k
  PROVE  At(h, k) \in Word /\ At(h, k) \in Nat
<1>1. 0 \in Word /\ Word \subseteq Nat BY Bounds DEF Word
<1>2. h.mem \in [Region -> Word] BY DEF Heaps
<1> QED BY <1>1, <1>2 DEF At, Peek

LEMMA SmallWords ==
  ASSUME NEW v \in Nat, v <= HeapStart + HeapSize
  PROVE  v \in Word
BY Bounds DEF Word

-----------------------------------------------------------------------------
(* Words written one by one.                                               *)

LEMMA PutWord ==
  ASSUME NEW h \in Heaps, NEW a \in Region, NEW v \in Word
  PROVE  /\ Put(h, a, v) \in Heaps /\ Put(h, a, v).head = h.head
         /\ \A k : At(Put(h, a, v), k) = IF k = a THEN v ELSE At(h, k)
<1>1. h.mem \in [Region -> Word] /\ h.head \in {NULL} \cup Region
      /\ h = [mem |-> h.mem, head |-> h.head]
  BY DEF Heaps
<1>2. Put(h, a, v) = [mem |-> [k \in Region |-> IF k = a THEN v ELSE h.mem[k]],
                      head |-> h.head]
  BY <1>1 DEF Put
<1>3. Put(h, a, v) \in Heaps /\ Put(h, a, v).head = h.head
  BY <1>1, <1>2 DEF Heaps
<1>4. ASSUME NEW k PROVE At(Put(h, a, v), k) = IF k = a THEN v ELSE At(h, k)
  BY <1>1, <1>2 DEF At, Peek
<1> QED BY <1>3, <1>4

LEMMA SetHead ==
  ASSUME NEW h \in Heaps, NEW v \in {NULL} \cup Region
  PROVE  /\ [h EXCEPT !.head = v] \in Heaps /\ [h EXCEPT !.head = v].head = v
         /\ \A k : At([h EXCEPT !.head = v], k) = At(h, k)
<1>1. h.mem \in [Region -> Word] /\ h.head \in {NULL} \cup Region
      /\ h = [mem |-> h.mem, head |-> h.head]
  BY DEF Heaps
<1>2. [h EXCEPT !.head = v] = [mem |-> h.mem, head |-> v] BY <1>1
<1> QED BY <1>1, <1>2 DEF Heaps, At

(* _cvm_stamp writes the header and the footer.                            *)
LEMMA StampWords ==
  ASSUME NEW h \in Heaps, NEW b \in Region, NEW size \in Nat, NEW f \in {0, 1},
         b + size - 4 \in Region, size >= 16
  PROVE  LET s == _cvm_stamp(h, b, size, f) IN
         /\ s \in Heaps /\ s.head = h.head
         /\ \A k : At(s, k) = IF k = b + size - 4 THEN size
                              ELSE IF k = b THEN size + f ELSE At(h, k)
<1>1. size + f \in Word /\ size \in Word
  BY InRegion, Bounds, SmallWords
<1> DEFINE h1 == Put(h, b, size + f)
<1>2. /\ h1 \in Heaps /\ h1.head = h.head
      /\ \A k : At(h1, k) = IF k = b THEN size + f ELSE At(h, k)
  BY <1>1, PutWord
<1> HIDE DEF h1
<1>3. LET s == Put(h1, b + size - 4, size) IN
      /\ s \in Heaps /\ s.head = h1.head
      /\ \A k : At(s, k) = IF k = b + size - 4 THEN size ELSE At(h1, k)
  BY <1>1, <1>2, PutWord
<1> QED BY <1>2, <1>3 DEF _cvm_stamp, h1

(* _cvm_fl_push writes the links of the block and the backward link of the *)
(* old head.                                                               *)
LEMMA PushWords ==
  ASSUME NEW h \in Heaps, NEW b \in Region, NEW o,
         b + 4 \in Region, b + 8 \in Region,
         o = h.head, o # NULL => o + 8 \in Region
  PROVE  LET s == _cvm_fl_push(h, b) IN
         /\ s \in Heaps /\ s.head = b
         /\ \A k : At(s, k) = IF o # NULL /\ k = o + 8 THEN b
                              ELSE IF k = b + 4 THEN o
                              ELSE IF k = b + 8 THEN NULL ELSE At(h, k)
<1>a. NULL \in Word BY Bounds DEF Word
<1>b. o \in Word
  <2>1. o \in {NULL} \cup Region BY DEF Heaps
  <2> QED BY <1>a, <2>1, RegionWords
<1>c. b \in Word BY RegionWords
<1> DEFINE h1 == Put(h, b + 8, NULL)
           h2 == Put(h1, b + 4, o)
           h3 == IF o = NULL THEN h2 ELSE Put(h2, o + 8, b)
<1>1. /\ h1 \in Heaps /\ h1.head = h.head
      /\ \A k : At(h1, k) = IF k = b + 8 THEN NULL ELSE At(h, k)
  BY <1>a, PutWord
<1> HIDE DEF h1
<1>2. /\ h2 \in Heaps /\ h2.head = h1.head
      /\ \A k : At(h2, k) = IF k = b + 4 THEN o ELSE At(h1, k)
  BY <1>b, <1>1, PutWord
<1> HIDE DEF h2
<1>3. /\ h3 \in Heaps
      /\ \A k : At(h3, k) = IF o # NULL /\ k = o + 8 THEN b ELSE At(h2, k)
  <2>1. CASE o = NULL BY <2>1, <1>2
  <2>2. CASE o # NULL
    <3>1. /\ Put(h2, o + 8, b) \in Heaps /\ Put(h2, o + 8, b).head = h2.head
          /\ \A k : At(Put(h2, o + 8, b), k)
                      = IF k = o + 8 THEN b ELSE At(h2, k)
      BY <1>c, <1>2, <2>2, PutWord
    <3> QED BY <3>1, <2>2
  <2> QED BY <2>1, <2>2
<1> HIDE DEF h3
<1>4. LET s == [h3 EXCEPT !.head = b] IN
      s \in Heaps /\ s.head = b /\ \A k : At(s, k) = At(h3, k)
  BY <1>3, SetHead
<1>5. _cvm_fl_push(h, b) = [h3 EXCEPT !.head = b]
  BY DEF _cvm_fl_push, h3, h2, h1
<1> QED BY <1>1, <1>2, <1>3, <1>4, <1>5

(* _cvm_fl_remove writes the links of the two neighbours in the list.      *)
LEMMA RemoveWords ==
  ASSUME NEW h \in Heaps, NEW b, NEW pv, NEW nx,
         pv = fl_prev(h, b), nx = fl_next(h, b),
         nx \in {NULL} \cup Region,
         pv # NULL => pv + 4 \in Region,
         nx # NULL => nx + 8 \in Region
  PROVE  LET s == _cvm_fl_remove(h, b) IN
         /\ s \in Heaps /\ s.head = IF pv = NULL THEN nx ELSE h.head
         /\ \A k : At(s, k) = IF nx # NULL /\ k = nx + 8 THEN pv
                              ELSE IF pv # NULL /\ k = pv + 4 THEN nx ELSE At(h, k)
<1>0. pv \in Word /\ nx \in Word BY ReadWord DEF fl_prev, fl_next
<1> DEFINE h1 == IF pv = NULL THEN [h EXCEPT !.head = nx] ELSE Put(h, pv + 4, nx)
           h2 == IF nx = NULL THEN h1 ELSE Put(h1, nx + 8, pv)
<1>1. /\ h1 \in Heaps /\ h1.head = IF pv = NULL THEN nx ELSE h.head
      /\ \A k : At(h1, k) = IF pv # NULL /\ k = pv + 4 THEN nx ELSE At(h, k)
  <2>1. CASE pv = NULL BY <2>1, SetHead
  <2>2. CASE pv # NULL BY <1>0, <2>2, PutWord
  <2> QED BY <2>1, <2>2
<1> HIDE DEF h1
<1>2. /\ h2 \in Heaps /\ h2.head = h1.head
      /\ \A k : At(h2, k) = IF nx # NULL /\ k = nx + 8 THEN pv ELSE At(h1, k)
  <2>1. CASE nx = NULL BY <2>1, <1>1
  <2>2. CASE nx # NULL BY <1>0, <1>1, <2>2, PutWord
  <2> QED BY <2>1, <2>2
<1> HIDE DEF h2
<1>3. _cvm_fl_remove(h, b) = h2 BY DEF _cvm_fl_remove, h1, h2
<1> QED BY <1>1, <1>2, <1>3

-----------------------------------------------------------------------------
(* The free list.  A list on the set L of blocks: the links of each lead   *)
(* to blocks of L and back, and grow the rank r, so that there is no cycle *)
(* and every block comes behind the head.                                  *)
Linked(h, L, r) ==
  /\ h.head \in L \cup {NULL}
  /\ \A b \in L :
       /\ fl_next(h, b) \in L \cup {NULL} /\ fl_prev(h, b) \in L \cup {NULL}
       /\ fl_next(h, b) # NULL =>
            fl_prev(h, fl_next(h, b)) = b /\ r[b] < r[fl_next(h, b)]
       /\ fl_prev(h, b) # NULL =>
            fl_next(h, fl_prev(h, b)) = b /\ r[fl_prev(h, b)] < r[b]
       /\ fl_prev(h, b) = NULL <=> h.head = b

(* Room for the links of the blocks of L, apart from each other.           *)
Roomy(L) ==
  /\ L \subseteq Region
  /\ \A b \in L : b + 4 \in Region /\ b + 8 \in Region
  /\ \A b, c \in L : b < c => b + 16 <= c

FreeList(h, L) == Roomy(L) /\ \E r \in [L -> Nat] : Linked(h, L, r)

(* Only links of blocks of L are written.                                  *)
Rewired(h, s, L) ==
  \A k : (\A c \in L : k # c + 4 /\ k # c + 8) => At(s, k) = At(h, k)

LEMMA RoomyApart ==
  ASSUME NEW L, Roomy(L), NEW b \in L, NEW c \in L
  PROVE  /\ b \in Nat /\ c \in Nat /\ b # NULL
         /\ b + 4 # c + 8 /\ b + 8 # c + 4
         /\ b # c => b + 4 # c + 4 /\ b + 8 # c + 8
<1>1. b \in Nat /\ c \in Nat /\ b # NULL BY RegionWords DEF Roomy
<1>2. b < c => b + 16 <= c BY DEF Roomy
<1>3. c < b => c + 16 <= b BY DEF Roomy
<1> QED BY <1>1, <1>2, <1>3

(* Words outside the links may change.                                     *)
LEMMA ListFrame ==
  ASSUME NEW h, NEW s, NEW L, FreeList(h, L), s.head = h.head,
         \A b \in L : At(s, b + 4) = At(h, b + 4) /\ At(s, b + 8) = At(h, b + 8)
  PROVE  FreeList(s, L)
<1>1. PICK r \in [L -> Nat] : Linked(h, L, r) BY DEF FreeList
<1>2. Linked(s, L, r)
  <2>1. \A b \in L : fl_next(s, b) = fl_next(h, b) /\ fl_prev(s, b) = fl_prev(h, b)
    BY DEF fl_next, fl_prev
  <2> QED BY <1>1, <2>1 DEF Linked
<1> QED BY <1>2 DEF FreeList

(* A block is pushed: it becomes the first, all ranks move up.             *)
LEMMA PushList ==
  ASSUME NEW h \in Heaps, NEW L, FreeList(h, L), NEW b, b \notin L, Roomy(L \cup {b})
  PROVE  LET s == _cvm_fl_push(h, b) IN
         s \in Heaps /\ FreeList(s, L \cup {b}) /\ Rewired(h, s, L \cup {b})
<1> DEFINE M == L \cup {b}
           s == _cvm_fl_push(h, b)
<1>1. PICK r \in [L -> Nat] : Linked(h, L, r) BY DEF FreeList
<1>2. PICK o : o = h.head OBVIOUS
<1>3. o \in L \cup {NULL} BY <1>1, <1>2 DEF Linked
<1>4. b \in Region /\ b + 4 \in Region /\ b + 8 \in Region BY DEF Roomy
<1>5. o # NULL => o + 8 \in Region BY <1>3 DEF Roomy
<1>6. /\ s \in Heaps /\ s.head = b
      /\ \A k : At(s, k) = IF o # NULL /\ k = o + 8 THEN b
                           ELSE IF k = b + 4 THEN o
                           ELSE IF k = b + 8 THEN NULL ELSE At(h, k)
  BY <1>2, <1>4, <1>5, PushWords
<1> HIDE DEF s
<1>7. /\ fl_next(s, b) = o /\ fl_prev(s, b) = NULL
      /\ \A c \in L : /\ fl_next(s, c) = fl_next(h, c)
                      /\ fl_prev(s, c) = IF c = o THEN b ELSE fl_prev(h, c)
  <2>1. \A c, d \in M : /\ c # NULL
                        /\ c + 4 # d + 8 /\ c + 8 # d + 4
                        /\ c # d => c + 4 # d + 4 /\ c + 8 # d + 8
    BY RoomyApart
  <2>2. b # o /\ b \in M /\ (o # NULL => o \in M) BY <1>3, <2>1
  <2>3. fl_next(s, b) = o /\ fl_prev(s, b) = NULL
    BY <1>6, <2>1, <2>2 DEF fl_next, fl_prev
  <2>4. ASSUME NEW c \in L
        PROVE  /\ fl_next(s, c) = fl_next(h, c)
               /\ fl_prev(s, c) = IF c = o THEN b ELSE fl_prev(h, c)
    <3>1. c # b /\ c \in M /\ c # NULL BY <2>1
    <3> QED BY <1>6, <2>1, <2>2, <3>1 DEF fl_next, fl_prev
  <2> QED BY <2>3, <2>4
<1>8. DEFINE q == [c \in M |-> IF c = b THEN 0 ELSE r[c] + 1]
<1>9. /\ q \in [M -> Nat] /\ q[b] = 0
      /\ \A c \in L : q[c] = r[c] + 1 /\ r[c] \in Nat
  OBVIOUS
<1> HIDE DEF q
<1>10. Linked(s, M, q)
  <2>1. s.head \in M \cup {NULL} BY <1>6
  <2>2. \A c \in M : c # NULL BY RoomyApart
  <2>3. ASSUME NEW c \in M
        PROVE  /\ fl_next(s, c) \in M \cup {NULL} /\ fl_prev(s, c) \in M \cup {NULL}
               /\ fl_next(s, c) # NULL =>
                    fl_prev(s, fl_next(s, c)) = c /\ q[c] < q[fl_next(s, c)]
               /\ fl_prev(s, c) # NULL =>
                    fl_next(s, fl_prev(s, c)) = c /\ q[fl_prev(s, c)] < q[c]
               /\ fl_prev(s, c) = NULL <=> s.head = c
    <3>1. CASE c = b
      BY <3>1, <1>3, <1>6, <1>7, <1>9, <2>2
    <3>2. CASE c # b
      <4>1. c \in L BY <3>2
      <4>2. /\ fl_next(h, c) \in L \cup {NULL} /\ fl_prev(h, c) \in L \cup {NULL}
            /\ fl_next(h, c) # NULL =>
                 fl_prev(h, fl_next(h, c)) = c /\ r[c] < r[fl_next(h, c)]
            /\ fl_prev(h, c) # NULL =>
                 fl_next(h, fl_prev(h, c)) = c /\ r[fl_prev(h, c)] < r[c]
            /\ fl_prev(h, c) = NULL <=> o = c
            /\ o \in L => fl_prev(h, o) = NULL
        BY <1>1, <1>2, <4>1 DEF Linked
      <4>3. fl_next(s, c) = fl_next(h, c) /\ fl_next(s, c) \in M \cup {NULL}
        BY <1>7, <4>1, <4>2
      <4>4. ASSUME fl_next(s, c) # NULL
            PROVE  fl_prev(s, fl_next(s, c)) = c /\ q[c] < q[fl_next(s, c)]
        <5>1. PICK n \in L : n = fl_next(h, c) BY <4>2, <4>3, <4>4
        <5>2. n # o BY <4>2, <4>1, <5>1, <2>2
        <5>3. fl_prev(s, n) = c BY <1>7, <4>2, <5>1, <5>2, <2>2
        <5>4. q[c] < q[n]
          <6>1. r[c] < r[n] BY <4>2, <5>1, <2>2
          <6> QED BY <6>1, <1>9, <4>1
        <5> QED BY <5>1, <5>3, <5>4, <4>3
      <4>5. ASSUME fl_prev(s, c) # NULL
            PROVE  fl_next(s, fl_prev(s, c)) = c /\ q[fl_prev(s, c)] < q[c]
        <5>1. CASE c = o
          BY <5>1, <4>1, <1>7, <1>9
        <5>2. CASE c # o
          <6>1. PICK n \in L : n = fl_prev(h, c) BY <4>1, <4>2, <4>5, <5>2, <1>7
          <6>2. fl_prev(s, c) = n BY <1>7, <4>1, <5>2, <6>1
          <6>3. fl_next(s, n) = c BY <1>7, <4>2, <6>1, <2>2
          <6>4. r[n] < r[c] BY <4>2, <6>1, <2>2
          <6>5. q[n] < q[c] BY <6>4, <1>9, <4>1
          <6> QED BY <6>2, <6>3, <6>5
        <5> QED BY <5>1, <5>2
      <4>6. fl_prev(s, c) \in M \cup {NULL} BY <1>7, <4>1, <4>2
      <4>7. fl_prev(s, c) = NULL <=> s.head = c
        BY <1>6, <1>7, <4>1, <4>2, <3>2, <2>2
      <4> QED BY <4>3, <4>4, <4>5, <4>6, <4>7
    <3> QED BY <3>1, <3>2
  <2> QED BY <2>1, <2>3 DEF Linked
<1>11. FreeList(s, M) BY <1>9, <1>10 DEF FreeList
<1>12. ASSUME NEW k, \A c \in M : k # c + 4 /\ k # c + 8 PROVE At(s, k) = At(h, k)
  BY <1>3, <1>6, <1>12
<1>13. Rewired(h, s, M) BY <1>12 DEF Rewired
<1> QED BY <1>6, <1>11, <1>13 DEF s

(* A block is removed: its neighbours are linked with each other.          *)
LEMMA RemoveList ==
  ASSUME NEW h \in Heaps, NEW L, FreeList(h, L), NEW b \in L
  PROVE  LET s == _cvm_fl_remove(h, b) IN
         s \in Heaps /\ FreeList(s, L \ {b}) /\ Rewired(h, s, L \ {b})
<1> DEFINE M == L \ {b}
           s == _cvm_fl_remove(h, b)
<1>1. PICK r \in [L -> Nat] : Linked(h, L, r) BY DEF FreeList
<1>2. PICK pv, nx : pv = fl_prev(h, b) /\ nx = fl_next(h, b) OBVIOUS
<1>3. \A c, d \in L : /\ c # NULL
                      /\ c + 4 # d + 8 /\ c + 8 # d + 4
                      /\ c # d => c + 4 # d + 4 /\ c + 8 # d + 8
  BY RoomyApart DEF FreeList
<1>4. /\ pv \in L \cup {NULL} /\ nx \in L \cup {NULL}
      /\ nx # NULL => fl_prev(h, nx) = b /\ r[b] < r[nx]
      /\ pv # NULL => fl_next(h, pv) = b /\ r[pv] < r[b]
      /\ pv = NULL <=> h.head = b
  BY <1>1, <1>2 DEF Linked
<1>5. \A c \in L : r[c] \in Nat OBVIOUS
<1>6. pv # b /\ nx # b /\ (pv # NULL /\ nx # NULL => r[pv] < r[nx])
  <2>1. nx # b BY <1>3, <1>4, <1>5
  <2>2. pv # b BY <1>3, <1>4, <1>5
  <2>3. ASSUME pv # NULL, nx # NULL PROVE r[pv] < r[nx]
    <3>1. pv \in L /\ nx \in L BY <2>3, <1>4
    <3>2. PICK x, y, z \in Nat : x = r[pv] /\ y = r[b] /\ z = r[nx] BY <3>1, <1>5
    <3> QED BY <2>3, <3>2, <1>4
  <2> QED BY <2>1, <2>2, <2>3
<1>7. /\ nx \in {NULL} \cup Region /\ (pv # NULL => pv + 4 \in Region)
      /\ nx # NULL => nx + 8 \in Region
  BY <1>4 DEF FreeList, Roomy
<1>8. /\ s \in Heaps /\ s.head = IF pv = NULL THEN nx ELSE h.head
      /\ \A k : At(s, k) = IF nx # NULL /\ k = nx + 8 THEN pv
                           ELSE IF pv # NULL /\ k = pv + 4 THEN nx ELSE At(h, k)
  BY <1>2, <1>7, RemoveWords
<1> HIDE DEF s
<1>9. \A c \in M : /\ fl_next(s, c) = IF c = pv THEN nx ELSE fl_next(h, c)
                   /\ fl_prev(s, c) = IF c = nx THEN pv ELSE fl_prev(h, c)
  <2> SUFFICES ASSUME NEW c \in M
               PROVE  /\ fl_next(s, c) = IF c = pv THEN nx ELSE fl_next(h, c)
                      /\ fl_prev(s, c) = IF c = nx THEN pv ELSE fl_prev(h, c)
    OBVIOUS
  <2>1. c \in L /\ c # NULL BY <1>3
  <2> QED BY <1>3, <1>4, <1>8, <2>1 DEF fl_next, fl_prev
<1>10. DEFINE q == [c \in M |-> r[c]]
<1>11. q \in [M -> Nat] /\ \A c \in M : q[c] = r[c] OBVIOUS
<1> HIDE DEF q
<1>12. Linked(s, M, q)
  <2>1. s.head \in M \cup {NULL}
    <3>1. h.head \in L \cup {NULL} BY <1>1 DEF Linked
    <3> QED BY <3>1, <1>4, <1>6, <1>8
  <2>2. ASSUME NEW c \in M
        PROVE  /\ fl_next(s, c) \in M \cup {NULL} /\ fl_prev(s, c) \in M \cup {NULL}
               /\ fl_next(s, c) # NULL =>
                    fl_prev(s, fl_next(s, c)) = c /\ q[c] < q[fl_next(s, c)]
               /\ fl_prev(s, c) # NULL =>
                    fl_next(s, fl_prev(s, c)) = c /\ q[fl_prev(s, c)] < q[c]
               /\ fl_prev(s, c) = NULL <=> s.head = c
    <3>1. c \in L /\ c # b /\ c # NULL BY <1>3
    <3>2. PICK n, p : n = fl_next(h, c) /\ p = fl_prev(h, c) OBVIOUS
    <3>3. /\ n \in L \cup {NULL} /\ p \in L \cup {NULL}
          /\ n # NULL => fl_prev(h, n) = c /\ r[c] < r[n]
          /\ p # NULL => fl_next(h, p) = c /\ r[p] < r[c]
          /\ p = NULL <=> h.head = c
      BY <1>1, <3>1, <3>2 DEF Linked
    <3>4. fl_next(s, c) = IF c = pv THEN nx ELSE n BY <1>9, <3>2
    <3>5. fl_prev(s, c) = IF c = nx THEN pv ELSE p BY <1>9, <3>2
    <3>6. c # pv => n # b
      BY <1>2, <1>4, <3>1, <3>2, <3>3, <1>3
    <3>7. c # nx => p # b
      BY <1>2, <1>4, <3>1, <3>2, <3>3, <1>3
    <3>8. fl_next(s, c) \in M \cup {NULL} BY <3>4, <3>6, <3>3, <1>4, <1>6
    <3>9. fl_prev(s, c) \in M \cup {NULL} BY <3>5, <3>7, <3>3, <1>4, <1>6
    <3>10. ASSUME fl_next(s, c) # NULL
           PROVE  fl_prev(s, fl_next(s, c)) = c /\ q[c] < q[fl_next(s, c)]
      <4>1. CASE c = pv
        <5>1. fl_next(s, c) = nx /\ nx \in M BY <4>1, <3>4, <3>8, <3>10
        <5>2. fl_prev(s, nx) = pv BY <1>9, <5>1
        <5>3. r[pv] < r[nx] BY <1>6, <4>1, <3>1, <5>1, <3>10
        <5> QED BY <4>1, <5>1, <5>2, <5>3, <1>11
      <4>2. CASE c # pv
        <5>1. fl_next(s, c) = n /\ n \in M /\ n # NULL BY <4>2, <3>4, <3>8, <3>10
        <5>2. n # nx BY <5>1, <3>3, <3>1, <1>4
        <5>3. fl_prev(s, n) = c BY <1>9, <5>1, <5>2, <3>3
        <5>4. q[c] < q[n] BY <1>11, <5>1, <3>3
        <5> QED BY <5>1, <5>3, <5>4
      <4> QED BY <4>1, <4>2
    <3>11. ASSUME fl_prev(s, c) # NULL
           PROVE  fl_next(s, fl_prev(s, c)) = c /\ q[fl_prev(s, c)] < q[c]
      <4>1. CASE c = nx
        <5>1. fl_prev(s, c) = pv /\ pv \in M BY <4>1, <3>5, <3>9, <3>11
        <5>2. fl_next(s, pv) = nx BY <1>9, <5>1
        <5>3. r[pv] < r[nx] BY <1>6, <4>1, <3>1, <5>1, <3>11
        <5> QED BY <4>1, <5>1, <5>2, <5>3, <1>11
      <4>2. CASE c # nx
        <5>1. fl_prev(s, c) = p /\ p \in M /\ p # NULL BY <4>2, <3>5, <3>9, <3>11
        <5>2. p # pv BY <5>1, <3>3, <3>1, <1>4
        <5>3. fl_next(s, p) = c BY <1>9, <5>1, <5>2, <3>3
        <5>4. q[p] < q[c] BY <1>11, <5>1, <3>3
        <5> QED BY <5>1, <5>3, <5>4
      <4> QED BY <4>1, <4>2
    <3>12. fl_prev(s, c) = NULL <=> s.head = c
      <4>1. CASE c = nx
        BY <4>1, <1>3, <3>1, <3>3, <3>5, <1>4, <1>8, <3>2
      <4>2. CASE c # nx
        BY <4>2, <3>1, <3>3, <3>5, <1>4, <1>8
      <4> QED BY <4>1, <4>2
    <3> QED BY <3>8, <3>9, <3>10, <3>11, <3>12
  <2> QED BY <2>1, <2>2 DEF Linked
<1>13. Roomy(M) BY DEF FreeList, Roomy
<1>14. ASSUME NEW k, \A c \in M : k # c + 4 /\ k # c + 8 PROVE At(s, k) = At(h, k)
  BY <1>4, <1>6, <1>8, <1>14
<1>15. Rewired(h, s, M) BY <1>14 DEF Rewired
<1> QED BY <1>8, <1>11, <1>12, <1>13, <1>15 DEF s, FreeList

-----------------------------------------------------------------------------
(* The blocks.  B tiles the region up to e: each block ends where another  *)
(* one or the region ends, its footer tells its size, and every block but  *)
(* the first is where another one ends.                                    *)
Whole(h, B, e, b) ==
  /\ _CVM_SIZE(h, b) >= MIN /\ _CVM_SIZE(h, b) % 4 = 0
  /\ b + _CVM_SIZE(h, b) \in B \cup {e} /\ b + _CVM_SIZE(h, b) <= e
  /\ At(h, b + _CVM_SIZE(h, b) - FTR) = _CVM_SIZE(h, b)

Tiles(h, B, e) ==
  /\ B \subseteq Region
  /\ e \in Nat /\ HeapStart <= e /\ e <= HeapStart + Total /\ (e - HeapStart) % 4 = 0
  /\ HeapStart \in B \cup {e}
  /\ \A b \in B : Whole(h, B, e, b)
  /\ \A b, c \in B : b < c => b + _CVM_SIZE(h, b) <= c
  /\ \A b \in B : b = HeapStart \/ \E c \in B : c + _CVM_SIZE(h, c) = b

LEMMA SizeNat ==
  ASSUME NEW h \in Heaps, NEW b
  PROVE  /\ _CVM_SIZE(h, b) \in Nat /\ _CVM_SIZE(h, b) <= At(h, b)
         /\ At(h, b) = _CVM_SIZE(h, b) + (At(h, b) % 2) /\ At(h, b) % 2 \in {0, 1}
<1>1. PICK n \in Nat : n = At(h, b) BY ReadWord
<1> QED BY <1>1 DEF _CVM_SIZE

(* Every block has room for its links and is apart from every other.       *)
LEMMA TilesRoom ==
  ASSUME NEW h \in Heaps, NEW B, NEW e, Tiles(h, B, e)
  PROVE  /\ Roomy(B)
         /\ \A b \in B : /\ b \in Nat /\ b + _CVM_SIZE(h, b) - 4 \in Region
                         /\ (b - HeapStart) % 4 = 0 /\ HeapStart <= b
                         /\ b + _CVM_SIZE(h, b) <= e /\ _CVM_SIZE(h, b) >= 16
                         /\ _CVM_SIZE(h, b) \in Nat /\ _CVM_SIZE(h, b) % 4 = 0
<1>1. ASSUME NEW b \in B
      PROVE  /\ b \in Nat /\ b + _CVM_SIZE(h, b) - 4 \in Region
             /\ b \in Region /\ b + 4 \in Region /\ b + 8 \in Region
             /\ (b - HeapStart) % 4 = 0 /\ HeapStart <= b
             /\ b + _CVM_SIZE(h, b) <= e /\ _CVM_SIZE(h, b) >= 16
             /\ _CVM_SIZE(h, b) \in Nat /\ _CVM_SIZE(h, b) % 4 = 0
  <2>1. PICK n : n = _CVM_SIZE(h, b) OBVIOUS
  <2>2. n \in Nat BY <2>1, SizeNat
  <2>3. n >= 16 /\ n % 4 = 0 /\ b + n <= e
    BY <2>1 DEF Tiles, Whole
  <2>4. /\ b \in Region /\ b \in Int /\ b >= HeapStart /\ b + 4 <= HeapStart + Total
        /\ (b - HeapStart) % 4 = 0
    <3>1. b \in Region BY DEF Tiles
    <3> QED BY <3>1, InRegion
  <2>5. e \in Nat /\ e <= HeapStart + Total BY DEF Tiles
  <2>6. b + n - 4 \in Region
    <3>1. b + n - 4 \in Int /\ b + n - 4 >= HeapStart /\ (b + n - 4) + 4 <= HeapStart + Total
          /\ ((b + n - 4) - HeapStart) % 4 = 0
      BY <2>2, <2>3, <2>4, <2>5, Bounds
    <3> QED BY <3>1, InRegion
  <2>7. b + 4 \in Region
    <3>1. b + 4 \in Int /\ b + 4 >= HeapStart /\ (b + 4) + 4 <= HeapStart + Total
          /\ ((b + 4) - HeapStart) % 4 = 0
      BY <2>2, <2>3, <2>4, <2>5, Bounds
    <3> QED BY <3>1, InRegion
  <2>8. b + 8 \in Region
    <3>1. b + 8 \in Int /\ b + 8 >= HeapStart /\ (b + 8) + 4 <= HeapStart + Total
          /\ ((b + 8) - HeapStart) % 4 = 0
      BY <2>2, <2>3, <2>4, <2>5, Bounds
    <3> QED BY <3>1, InRegion
  <2> QED BY <2>1, <2>2, <2>3, <2>4, <2>6, <2>7, <2>8, Bounds
<1>2. ASSUME NEW b \in B, NEW c \in B, b < c PROVE b + 16 <= c
  <2>1. PICK n : n = _CVM_SIZE(h, b) OBVIOUS
  <2>2. b + n <= c BY <1>2, <2>1 DEF Tiles
  <2>3. b \in Nat /\ c \in Nat /\ n \in Nat /\ n >= 16 BY <1>1, <2>1
  <2> QED BY <2>2, <2>3
<1> QED BY <1>1, <1>2 DEF Roomy

(* The words of two blocks are apart.                                      *)
LEMMA BlocksApart ==
  ASSUME NEW h \in Heaps, NEW B, NEW e, Tiles(h, B, e), NEW b \in B, NEW c \in B, b # c,
         NEW k \in Int, b <= k, k < b + _CVM_SIZE(h, b)
  PROVE  ~(c <= k /\ k < c + _CVM_SIZE(h, c))
<1>1. PICK m, n : m = _CVM_SIZE(h, b) /\ n = _CVM_SIZE(h, c) OBVIOUS
<1>2. m \in Nat /\ n \in Nat /\ b \in Nat /\ c \in Nat BY <1>1, TilesRoom
<1>3. (b < c => b + m <= c) /\ (c < b => c + n <= b) BY <1>1 DEF Tiles
<1> QED BY <1>1, <1>2, <1>3

(* Links are neither headers nor footers.                                  *)
LEMMA LinksInside ==
  ASSUME NEW h \in Heaps, NEW B, NEW e, Tiles(h, B, e), NEW b \in B, NEW c \in B
  PROVE  /\ b # c + 4 /\ b # c + 8
         /\ b + _CVM_SIZE(h, b) - 4 # c + 4 /\ b + _CVM_SIZE(h, b) - 4 # c + 8
<1>1. PICK m, n : m = _CVM_SIZE(h, b) /\ n = _CVM_SIZE(h, c) OBVIOUS
<1>2. m \in Nat /\ n \in Nat /\ b \in Nat /\ c \in Nat /\ m >= 16 /\ n >= 16
  BY <1>1, TilesRoom
<1>3. (b < c => b + m <= c) /\ (c < b => c + n <= b) BY <1>1 DEF Tiles
<1> QED BY <1>1, <1>2, <1>3

(* Words that are no header or footer may change.                          *)
LEMMA TilesFrame ==
  ASSUME NEW h \in Heaps, NEW s \in Heaps, NEW B, NEW e, Tiles(h, B, e),
         \A b \in B : /\ At(s, b) = At(h, b)
                      /\ At(s, b + _CVM_SIZE(h, b) - 4) = At(h, b + _CVM_SIZE(h, b) - 4)
  PROVE  /\ Tiles(s, B, e)
         /\ \A b \in B : /\ _CVM_SIZE(s, b) = _CVM_SIZE(h, b)
                         /\ _CVM_FREE(s, b) <=> _CVM_FREE(h, b)
<1>1. \A b \in B : /\ _CVM_SIZE(s, b) = _CVM_SIZE(h, b)
                   /\ _CVM_FREE(s, b) <=> _CVM_FREE(h, b)
  BY DEF _CVM_SIZE, _CVM_FREE
<1>2. ASSUME NEW b \in B PROVE Whole(s, B, e, b)
  <2>1. Whole(h, B, e, b) BY DEF Tiles
  <2> QED BY <1>1, <2>1 DEF Whole
<1>3. Tiles(s, B, e) BY <1>1, <1>2 DEF Tiles
<1> QED BY <1>1, <1>3

(* Writing links of blocks of L leaves the tiling and the contents of the  *)
(* other blocks alone.                                                     *)
Unmoved(h, s, B, L) ==
  /\ \A b \in B : /\ _CVM_SIZE(s, b) = _CVM_SIZE(h, b)
                  /\ _CVM_FREE(s, b) <=> _CVM_FREE(h, b)
                  /\ At(s, b) = At(h, b)
  /\ \A b \in B \ L : \A k \in Int :
       b <= k /\ k < b + _CVM_SIZE(h, b) => At(s, k) = At(h, k)

LEMMA LinksFrame ==
  ASSUME NEW h \in Heaps, NEW s \in Heaps, NEW B, NEW e, Tiles(h, B, e),
         NEW L, L \subseteq B, Rewired(h, s, L)
  PROVE  Tiles(s, B, e) /\ Unmoved(h, s, B, L)
<1>1. \A b \in B : /\ At(s, b) = At(h, b)
                   /\ At(s, b + _CVM_SIZE(h, b) - 4) = At(h, b + _CVM_SIZE(h, b) - 4)
  BY LinksInside DEF Rewired
<1>2. ASSUME NEW b \in B \ L, NEW k \in Int, b <= k, k < b + _CVM_SIZE(h, b)
      PROVE  At(s, k) = At(h, k)
  <2>1. ASSUME NEW c \in L PROVE k # c + 4 /\ k # c + 8
    <3>1. c \in B /\ b \in B /\ b # c OBVIOUS
    <3>2. ~(c <= k /\ k < c + _CVM_SIZE(h, c)) BY <1>2, <3>1, BlocksApart
    <3>3. PICK n : n = _CVM_SIZE(h, c) OBVIOUS
    <3>4. c \in Nat /\ n \in Nat /\ n >= 16 BY <3>1, <3>3, TilesRoom
    <3> QED BY <3>2, <3>3, <3>4
  <2> QED BY <2>1 DEF Rewired
<1>3. /\ Tiles(s, B, e)
      /\ \A b \in B : /\ _CVM_SIZE(s, b) = _CVM_SIZE(h, b)
                      /\ _CVM_FREE(s, b) <=> _CVM_FREE(h, b)
  BY <1>1, TilesFrame
<1> QED BY <1>1, <1>2, <1>3 DEF Unmoved

(* A block is stamped with a size that ends where a block or the region    *)
(* ends: the blocks inside are gone.                                       *)
Joined(h, s, B, M, e, b, size, f) ==
  /\ s \in Heaps /\ s.head = h.head
  /\ M = {c \in B : c <= b \/ c >= b + size}
  /\ Tiles(s, M, e)
  /\ b \in M /\ _CVM_SIZE(s, b) = size /\ (_CVM_FREE(s, b) <=> f = 1)
  /\ \A c \in M \ {b} : /\ _CVM_SIZE(s, c) = _CVM_SIZE(h, c)
                        /\ _CVM_FREE(s, c) <=> _CVM_FREE(h, c)
  /\ \A k : k # b /\ k # b + size - 4 => At(s, k) = At(h, k)

LEMMA TilesJoin ==
  ASSUME NEW h \in Heaps, NEW B, NEW e, Tiles(h, B, e), NEW b \in B,
         NEW size \in Nat, size >= 16, size % 4 = 0, b + size \in B \cup {e},
         NEW f \in {0, 1}
  PROVE  Joined(h, _cvm_stamp(h, b, size, f), B, {c \in B : c <= b \/ c >= b + size},
                e, b, size, f)
<1> DEFINE s == _cvm_stamp(h, b, size, f)
           M == {c \in B : c <= b \/ c >= b + size}
<1>0. /\ e \in Nat /\ HeapStart <= e /\ e <= HeapStart + Total /\ (e - HeapStart) % 4 = 0
      /\ HeapStart \in B \cup {e} /\ HeapStart \in Nat /\ B \subseteq Region
  BY Bounds DEF Tiles
<1>1. \A c \in B : /\ c \in Nat /\ HeapStart <= c /\ (c - HeapStart) % 4 = 0
                   /\ _CVM_SIZE(h, c) \in Nat
                   /\ _CVM_SIZE(h, c) >= 16 /\ _CVM_SIZE(h, c) % 4 = 0
                   /\ c + _CVM_SIZE(h, c) <= e
                   /\ c + _CVM_SIZE(h, c) \in B \cup {e}
                   /\ At(h, c + _CVM_SIZE(h, c) - 4) = _CVM_SIZE(h, c)
  <2> SUFFICES ASSUME NEW c \in B
               PROVE  /\ c \in Nat /\ HeapStart <= c /\ (c - HeapStart) % 4 = 0
                      /\ _CVM_SIZE(h, c) \in Nat
                      /\ _CVM_SIZE(h, c) >= 16 /\ _CVM_SIZE(h, c) % 4 = 0
                      /\ c + _CVM_SIZE(h, c) <= e
                      /\ c + _CVM_SIZE(h, c) \in B \cup {e}
                      /\ At(h, c + _CVM_SIZE(h, c) - 4) = _CVM_SIZE(h, c)
    OBVIOUS
  <2>1. Whole(h, B, e, c) BY DEF Tiles
  <2> QED BY <2>1, TilesRoom DEF Whole
<1>2. \A c, d \in B : c < d => c + _CVM_SIZE(h, c) <= d BY DEF Tiles
<1>3. b + size <= e
  <2>1. CASE b + size = e BY <2>1, <1>0, <1>1
  <2>2. CASE b + size \in B
    <3>1. PICK n : n = _CVM_SIZE(h, b + size) OBVIOUS
    <3>2. b + size \in Nat /\ n \in Nat /\ (b + size) + n <= e BY <2>2, <3>1, <1>1
    <3> QED BY <3>2, <1>0
  <2> QED BY <2>1, <2>2
<1>4. b + size - 4 \in Region
  <2>1. b \in Nat /\ HeapStart <= b /\ (b - HeapStart) % 4 = 0 BY <1>1
  <2>2. /\ b + size - 4 \in Int /\ b + size - 4 >= HeapStart
        /\ (b + size - 4) + 4 <= HeapStart + Total
        /\ ((b + size - 4) - HeapStart) % 4 = 0
    BY <2>1, <1>0, <1>3, Bounds
  <2> QED BY <2>2, InRegion
<1>5. /\ s \in Heaps /\ s.head = h.head
      /\ \A k : At(s, k) = IF k = b + size - 4 THEN size
                           ELSE IF k = b THEN size + f ELSE At(h, k)
  BY <1>0, <1>4, StampWords
<1> HIDE DEF s
<1>6. _CVM_SIZE(s, b) = size /\ (_CVM_FREE(s, b) <=> f = 1) /\ At(s, b + size - 4) = size
  <2>1. b # b + size - 4 BY <1>1
  <2>2. At(s, b) = size + f BY <1>5, <2>1
  <2> QED BY <1>5, <2>2 DEF _CVM_SIZE, _CVM_FREE
<1>7. \A c \in M \ {b} : c + _CVM_SIZE(h, c) <= b \/ c >= b + size
  <2> SUFFICES ASSUME NEW c \in M, c # b
               PROVE  c + _CVM_SIZE(h, c) <= b \/ c >= b + size
    OBVIOUS
  <2>1. c \in B /\ c \in Nat /\ b \in Nat /\ (c <= b \/ c >= b + size) BY <1>1
  <2>2. c < b => c + _CVM_SIZE(h, c) <= b BY <2>1, <1>2
  <2> QED BY <2>1, <2>2
<1>8. ASSUME NEW c \in M \ {b}
      PROVE  /\ At(s, c) = At(h, c)
             /\ At(s, c + _CVM_SIZE(h, c) - 4) = At(h, c + _CVM_SIZE(h, c) - 4)
  <2>1. PICK n : n = _CVM_SIZE(h, c) OBVIOUS
  <2>2. n \in Nat /\ n >= 16 /\ c \in Nat /\ b \in Nat BY <1>1, <2>1
  <2>3. c + n <= b \/ c >= b + size BY <1>7, <2>1
  <2>4. /\ c # b /\ c # b + size - 4 /\ c + n - 4 # b /\ c + n - 4 # b + size - 4
    BY <2>2, <2>3
  <2> QED BY <2>1, <2>4, <1>5
<1>9. \A c \in M \ {b} : /\ _CVM_SIZE(s, c) = _CVM_SIZE(h, c)
                         /\ _CVM_FREE(s, c) <=> _CVM_FREE(h, c)
  BY <1>8 DEF _CVM_SIZE, _CVM_FREE
<1>10. b \in M BY <1>1
<1>11. Tiles(s, M, e)
  <2>1. ASSUME NEW c \in M PROVE Whole(s, M, e, c)
    <3>1. CASE c = b
      <4>1. b + size \in M \cup {e} BY <1>1
      <4> QED BY <3>1, <4>1, <1>3, <1>6 DEF Whole
    <3>2. CASE c # b
      <4>1. PICK n : n = _CVM_SIZE(h, c) OBVIOUS
      <4>2. /\ n = _CVM_SIZE(s, c) /\ n \in Nat /\ n >= 16 /\ n % 4 = 0 /\ c + n <= e
            /\ c + n \in B \cup {e} /\ At(s, c + n - 4) = n
        BY <3>2, <4>1, <1>1, <1>8, <1>9
      <4>3. c \in Nat /\ b \in Nat BY <1>1
      <4>4. c + n <= b \/ c >= b + size BY <3>2, <4>1, <1>7
      <4>5. c + n \in M \cup {e} BY <4>2, <4>3, <4>4
      <4> QED BY <4>2, <4>5 DEF Whole
    <3> QED BY <3>1, <3>2
  <2>2. ASSUME NEW c \in M, NEW d \in M, c < d PROVE c + _CVM_SIZE(s, c) <= d
    <3>1. CASE c = b
      <4>1. d \in Nat /\ b \in Nat /\ (d <= b \/ d >= b + size) BY <1>1
      <4> QED BY <2>2, <3>1, <4>1, <1>6
    <3>2. CASE c # b
      <4>1. c + _CVM_SIZE(h, c) <= d BY <2>2, <1>2
      <4> QED BY <3>2, <4>1, <1>9
    <3> QED BY <3>1, <3>2
  <2>3. ASSUME NEW c \in M, c # HeapStart
        PROVE  \E d \in M : d + _CVM_SIZE(s, d) = c
    <3>1. PICK d \in B : d + _CVM_SIZE(h, d) = c BY <2>3 DEF Tiles
    <3>2. CASE d \in M \ {b} BY <3>1, <3>2, <1>9
    <3>3. CASE d = b \/ d \notin M
      <4>1. PICK n, m : n = _CVM_SIZE(h, d) /\ m = _CVM_SIZE(h, b) OBVIOUS
      <4>2. /\ n \in Nat /\ n >= 16 /\ m \in Nat /\ m >= 16
            /\ d \in Nat /\ b \in Nat /\ c \in Nat /\ d + n = c
        BY <3>1, <4>1, <1>1
      <4>3. b <= d /\ d < b + size BY <3>3, <4>2
      <4>4. c >= b + size BY <4>2, <4>3
      <4>5. c = b + size
        <5>1. CASE b + size = e
          <6>1. PICK i : i = _CVM_SIZE(h, c) OBVIOUS
          <6>2. i \in Nat /\ i >= 16 /\ c + i <= e BY <6>1, <1>1
          <6> QED BY <5>1, <6>2, <4>2, <4>4
        <5>2. CASE b + size \in B
          <6>1. d + n <= b + size BY <5>2, <4>1, <4>3, <1>2
          <6> QED BY <6>1, <4>2, <4>4
        <5> QED BY <5>1, <5>2
      <4> QED BY <4>5, <1>6, <1>10
    <3> QED BY <3>2, <3>3
  <2>4. M \subseteq Region BY <1>0
  <2>5. HeapStart \in M \cup {e} BY <1>0, <1>1
  <2> HIDE DEF M
  <2> QED BY <2>1, <2>2, <2>3, <2>4, <2>5, <1>0 DEF Tiles
<1>12. \A k : k # b /\ k # b + size - 4 => At(s, k) = At(h, k) BY <1>5
<1>13. M = {c \in B : c <= b \/ c >= b + size} OBVIOUS
<1> HIDE DEF M
<1>14. Joined(h, s, B, M, e, b, size, f)
  BY <1>5, <1>6, <1>9, <1>10, <1>11, <1>12, <1>13 DEF Joined
<1> QED BY <1>14 DEF s, M

(* A block is cut in two.                                                  *)
Cut(h, s, B, e, b, w, l) ==
  /\ s \in Heaps /\ s.head = h.head
  /\ Tiles(s, B \cup {b + w}, e)
  /\ b + w \notin B
  /\ _CVM_SIZE(s, b) = w /\ ~_CVM_FREE(s, b)
  /\ _CVM_SIZE(s, b + w) = l /\ _CVM_FREE(s, b + w)
  /\ \A c \in B \ {b} : /\ _CVM_SIZE(s, c) = _CVM_SIZE(h, c)
                        /\ _CVM_FREE(s, c) <=> _CVM_FREE(h, c)
  /\ \A k : k \notin {b, b + w - 4, b + w, b + w + l - 4} => At(s, k) = At(h, k)

LEMMA TilesSplit ==
  ASSUME NEW h \in Heaps, NEW B, NEW e, Tiles(h, B, e), NEW b \in B,
         NEW w \in Nat, NEW l \in Nat, w >= 16, w % 4 = 0, l >= 16,
         w + l = _CVM_SIZE(h, b)
  PROVE  Cut(h, _cvm_stamp(_cvm_stamp(h, b, w, 0), b + w, l, 1), B, e, b, w, l)
<1> DEFINE t == _cvm_stamp(h, b, w, 0)
           s == _cvm_stamp(t, b + w, l, 1)
           M == B \cup {b + w}
<1>0. /\ e \in Nat /\ HeapStart <= e /\ e <= HeapStart + Total /\ (e - HeapStart) % 4 = 0
      /\ HeapStart \in B \cup {e} /\ HeapStart \in Nat /\ B \subseteq Region
  BY Bounds DEF Tiles
<1>1. \A c \in B : /\ c \in Nat /\ HeapStart <= c /\ (c - HeapStart) % 4 = 0
                   /\ _CVM_SIZE(h, c) \in Nat
                   /\ _CVM_SIZE(h, c) >= 16 /\ _CVM_SIZE(h, c) % 4 = 0
                   /\ c + _CVM_SIZE(h, c) <= e
                   /\ c + _CVM_SIZE(h, c) \in B \cup {e}
                   /\ At(h, c + _CVM_SIZE(h, c) - 4) = _CVM_SIZE(h, c)
  <2> SUFFICES ASSUME NEW c \in B
               PROVE  /\ c \in Nat /\ HeapStart <= c /\ (c - HeapStart) % 4 = 0
                      /\ _CVM_SIZE(h, c) \in Nat
                      /\ _CVM_SIZE(h, c) >= 16 /\ _CVM_SIZE(h, c) % 4 = 0
                      /\ c + _CVM_SIZE(h, c) <= e
                      /\ c + _CVM_SIZE(h, c) \in B \cup {e}
                      /\ At(h, c + _CVM_SIZE(h, c) - 4) = _CVM_SIZE(h, c)
    OBVIOUS
  <2>1. Whole(h, B, e, c) BY DEF Tiles
  <2> QED BY <2>1, TilesRoom DEF Whole
<1>2. \A c, d \in B : c < d => c + _CVM_SIZE(h, c) <= d BY DEF Tiles
<1>3. PICK z : z = _CVM_SIZE(h, b) OBVIOUS
<1>4. /\ b \in Nat /\ HeapStart <= b /\ (b - HeapStart) % 4 = 0
      /\ z \in Nat /\ z % 4 = 0 /\ b + z <= e /\ w + l = z /\ b + z \in B \cup {e}
      /\ At(h, b + z - 4) = z
  BY <1>1, <1>3
<1>5. l % 4 = 0 BY <1>4
<1>6. b + w - 4 \in Region
  <2>1. /\ b + w - 4 \in Int /\ b + w - 4 >= HeapStart
        /\ (b + w - 4) + 4 <= HeapStart + Total
        /\ ((b + w - 4) - HeapStart) % 4 = 0
    BY <1>0, <1>4, Bounds
  <2> QED BY <2>1, InRegion
<1>7. b + w \in Region
  <2>1. /\ b + w \in Int /\ b + w >= HeapStart
        /\ (b + w) + 4 <= HeapStart + Total
        /\ ((b + w) - HeapStart) % 4 = 0
    BY <1>0, <1>4, Bounds
  <2> QED BY <2>1, InRegion
<1>8. b + w + l - 4 \in Region
  <2>1. /\ b + w + l - 4 \in Int /\ b + w + l - 4 >= HeapStart
        /\ (b + w + l - 4) + 4 <= HeapStart + Total
        /\ ((b + w + l - 4) - HeapStart) % 4 = 0
    BY <1>0, <1>4, Bounds
  <2> QED BY <2>1, InRegion
<1>9. /\ t \in Heaps /\ t.head = h.head
      /\ \A k : At(t, k) = IF k = b + w - 4 THEN w ELSE IF k = b THEN w + 0 ELSE At(h, k)
  BY <1>0, <1>6, StampWords
<1> HIDE DEF t
<1>10. /\ s \in Heaps /\ s.head = h.head
       /\ \A k : At(s, k) = IF k = b + w + l - 4 THEN l
                            ELSE IF k = b + w THEN l + 1 ELSE At(t, k)
  <2>1. PICK a \in Region : a = b + w BY <1>7
  <2>2. LET u == _cvm_stamp(t, a, l, 1) IN
        /\ u \in Heaps /\ u.head = t.head
        /\ \A k : At(u, k) = IF k = a + l - 4 THEN l
                             ELSE IF k = a THEN l + 1 ELSE At(t, k)
    BY <2>1, <1>8, <1>9, StampWords
  <2> QED BY <2>1, <2>2, <1>9
<1> HIDE DEF s
<1>11. /\ At(s, b) = w /\ At(s, b + w - 4) = w
       /\ At(s, b + w) = l + 1 /\ At(s, b + w + l - 4) = l
       /\ \A k : k \notin {b, b + w - 4, b + w, b + w + l - 4} => At(s, k) = At(h, k)
  <2>1. /\ b # b + w - 4 /\ b # b + w /\ b # b + w + l - 4
        /\ b + w - 4 # b + w /\ b + w - 4 # b + w + l - 4 /\ b + w # b + w + l - 4
        /\ w + 0 = w
    BY <1>4
  <2>2. At(s, b) = w BY <2>1, <1>9, <1>10
  <2>3. At(s, b + w - 4) = w BY <2>1, <1>9, <1>10
  <2>4. At(s, b + w) = l + 1 BY <2>1, <1>9, <1>10
  <2>5. At(s, b + w + l - 4) = l BY <1>10
  <2>6. \A k : k \notin {b, b + w - 4, b + w, b + w + l - 4} => At(s, k) = At(h, k)
    BY <1>9, <1>10
  <2> QED BY <2>2, <2>3, <2>4, <2>5, <2>6
<1>12. /\ _CVM_SIZE(s, b) = w /\ ~_CVM_FREE(s, b)
       /\ _CVM_SIZE(s, b + w) = l /\ _CVM_FREE(s, b + w)
  <2>1. w % 2 = 0 /\ (l + 1) % 2 = 1 /\ w - 0 = w /\ (l + 1) - 1 = l BY <1>5
  <2> QED BY <1>11, <2>1 DEF _CVM_SIZE, _CVM_FREE
<1>13. \A c \in B \ {b} : /\ c + _CVM_SIZE(h, c) <= b \/ c >= b + z
  <2> SUFFICES ASSUME NEW c \in B, c # b
               PROVE  c + _CVM_SIZE(h, c) <= b \/ c >= b + z
    OBVIOUS
  <2>1. c \in Nat BY <1>1
  <2>2. (c < b => c + _CVM_SIZE(h, c) <= b) /\ (b < c => b + z <= c) BY <1>2, <1>3
  <2> QED BY <2>1, <2>2, <1>4
<1>14. b + w \notin B
  <2> SUFFICES ASSUME b + w \in B PROVE FALSE OBVIOUS
  <2>1. b + w # b /\ ~(b + w >= b + z) /\ b + w > b BY <1>4
  <2>2. PICK n : n = _CVM_SIZE(h, b + w) OBVIOUS
  <2>3. n \in Nat /\ b + w \in Nat BY <1>1, <2>2
  <2>4. (b + w) + n <= b BY <1>13, <2>1, <2>2
  <2> QED BY <2>1, <2>3, <2>4, <1>4
<1>15. ASSUME NEW c \in B \ {b}
       PROVE  /\ At(s, c) = At(h, c)
              /\ At(s, c + _CVM_SIZE(h, c) - 4) = At(h, c + _CVM_SIZE(h, c) - 4)
  <2>1. PICK n : n = _CVM_SIZE(h, c) OBVIOUS
  <2>2. n \in Nat /\ n >= 16 /\ c \in Nat BY <1>1, <2>1
  <2>3. c + n <= b \/ c >= b + z BY <1>13, <2>1
  <2>4. /\ c \notin {b, b + w - 4, b + w, b + w + l - 4}
        /\ c + n - 4 \notin {b, b + w - 4, b + w, b + w + l - 4}
    BY <2>2, <2>3, <1>4
  <2> QED BY <2>1, <2>4, <1>11
<1>16. \A c \in B \ {b} : /\ _CVM_SIZE(s, c) = _CVM_SIZE(h, c)
                          /\ _CVM_FREE(s, c) <=> _CVM_FREE(h, c)
  BY <1>15 DEF _CVM_SIZE, _CVM_FREE
<1>17. Tiles(s, M, e)
  <2>1. ASSUME NEW c \in M PROVE Whole(s, M, e, c)
    <3>1. CASE c = b
      <4>1. b + w <= e /\ b + w \in M BY <1>0, <1>4
      <4> QED BY <3>1, <4>1, <1>11, <1>12 DEF Whole
    <3>2. CASE c = b + w
      <4>1. (b + w) + l = b + z BY <1>4
      <4>2. (b + w) + l \in M \cup {e} /\ (b + w) + l <= e BY <4>1, <1>4
      <4>3. At(s, (b + w) + l - 4) = l BY <1>11
      <4> QED BY <3>2, <4>2, <4>3, <1>5, <1>12 DEF Whole
    <3>3. CASE c \in B \ {b}
      <4>1. PICK n : n = _CVM_SIZE(h, c) OBVIOUS
      <4>2. /\ n = _CVM_SIZE(s, c) /\ n >= 16 /\ n % 4 = 0 /\ c + n <= e
            /\ c + n \in B \cup {e} /\ At(s, c + n - 4) = n
        BY <3>3, <4>1, <1>1, <1>15, <1>16
      <4>3. c + n \in M \cup {e} BY <4>2
      <4> QED BY <4>2, <4>3 DEF Whole
    <3> QED BY <3>1, <3>2, <3>3
  <2>2. ASSUME NEW c \in M, NEW d \in M, c < d PROVE c + _CVM_SIZE(s, c) <= d
    <3>0. ASSUME d \in B, d # b PROVE d \in Nat /\ (d < b \/ d >= b + z)
      <4>1. PICK n : n = _CVM_SIZE(h, d) OBVIOUS
      <4>2. d \in Nat /\ n \in Nat /\ n >= 16 /\ (d + n <= b \/ d >= b + z)
        BY <3>0, <4>1, <1>1, <1>13
      <4> QED BY <4>2, <1>4
    <3>1. CASE c = b
      <4>1. d = b + w \/ (d \in B /\ d # b) BY <2>2, <3>1, <1>4
      <4>2. CASE d = b + w BY <4>2, <3>1, <1>4, <1>12
      <4>3. CASE d \in B /\ d # b
        <5>1. d \in Nat /\ d >= b + z BY <3>0, <3>1, <4>3, <2>2, <1>4
        <5>2. b + w <= d BY <5>1, <1>4
        <5> QED BY <5>2, <3>1, <1>12
      <4> QED BY <4>1, <4>2, <4>3
    <3>2. CASE c = b + w
      <4>1. d \in B /\ d # b BY <2>2, <3>2, <1>4
      <4>2. d \in Nat /\ d >= b + z BY <3>0, <4>1, <3>2, <2>2, <1>4
      <4>3. (b + w) + l <= d BY <4>2, <1>4
      <4> QED BY <4>3, <3>2, <1>12
    <3>3. CASE c \in B \ {b}
      <4>1. PICK n : n = _CVM_SIZE(h, c) OBVIOUS
      <4>2. c \in Nat /\ n \in Nat /\ n = _CVM_SIZE(s, c) /\ (c + n <= b \/ c >= b + z)
        BY <3>3, <4>1, <1>1, <1>13, <1>16
      <4>3. CASE d \in B
        <5>1. c + n <= d BY <2>2, <3>3, <4>1, <4>3, <1>2
        <5> QED BY <5>1, <4>2
      <4>4. CASE d = b + w
        <5>1. c + n <= b BY <4>2, <4>4, <2>2, <1>4
        <5>2. c + n <= d BY <5>1, <4>2, <4>4, <1>4
        <5> QED BY <5>2, <4>2
      <4> QED BY <4>3, <4>4
    <3> QED BY <3>1, <3>2, <3>3
  <2>3. ASSUME NEW c \in M, c # HeapStart
        PROVE  \E d \in M : d + _CVM_SIZE(s, d) = c
    <3>1. CASE c = b + w BY <3>1, <1>12
    <3>2. CASE c \in B
      <4>1. PICK d \in B : d + _CVM_SIZE(h, d) = c BY <2>3, <3>2 DEF Tiles
      <4>2. CASE d = b
        <5>1. (b + w) + l = c BY <4>1, <4>2, <1>3, <1>4
        <5> QED BY <5>1, <1>12
      <4>3. CASE d # b
        BY <4>1, <4>3, <1>16
      <4> QED BY <4>2, <4>3
    <3> QED BY <3>1, <3>2
  <2>4. M \subseteq Region BY <1>0, <1>7
  <2>5. HeapStart \in M \cup {e} BY <1>0
  <2> HIDE DEF M
  <2> QED BY <2>1, <2>2, <2>3, <2>4, <2>5, <1>0 DEF Tiles
<1>18. Cut(h, s, B, e, b, w, l)
  BY <1>10, <1>11, <1>12, <1>14, <1>16, <1>17 DEF Cut
<1> QED BY <1>18 DEF s, t

-----------------------------------------------------------------------------
(* The blocks and the operations of the program.                           *)

FreeOf(h, B) == {b \in B : _CVM_FREE(h, b)}

(* No two free blocks are neighbours.                                      *)
Merged(h, B) ==
  \A b \in B : _CVM_FREE(h, b) /\ b + _CVM_SIZE(h, b) \in B
                 => ~_CVM_FREE(h, b + _CVM_SIZE(h, b))

(* The blocks that are not free are those the program was given, and have  *)
(* room for what it asked for.                                             *)
Fits(h, B, g, p) ==
  /\ p \in Nat /\ p - HDR \in B
  /\ g[p] \in Nat /\ g[p] > 0 /\ g[p] + HDR + FTR <= _CVM_SIZE(h, p - HDR)

Held(h, B, g) ==
  /\ \A b \in B : _CVM_FREE(h, b) <=> b + HDR \notin DOMAIN g
  /\ \A p \in DOMAIN g : Fits(h, B, g, p)

Sound(h, e, g, B) ==
  /\ h \in Heaps /\ Tiles(h, B, e) /\ FreeList(h, FreeOf(h, B))
  /\ Merged(h, B) /\ Held(h, B, g)

(* No call changes a word of a block that is given out.                    *)
Preserves(h, s, G) ==
  \A q \in G : \A k \in Int :
    q - HDR <= k /\ k < q - HDR + _CVM_SIZE(h, q - HDR) => At(s, k) = At(h, k)

-----------------------------------------------------------------------------
LEMMA Int32Small ==
  ASSUME NEW n \in Nat, n < WordMod \div 2
  PROVE  Int32(n) = n
<1>1. PICK w \in Nat : w = WordMod BY Bounds
<1>2. n < w \div 2 /\ n < w BY <1>1
<1>3. n % w = n BY <1>2
<1> QED BY <1>1, <1>2, <1>3 DEF Int32, Signed, ToWord

(* The size a block needs for a request that does not overflow.            *)
LEMMA Wanted ==
  ASSUME NEW n \in Int, n > 0, ~Overflows(n)
  PROVE  want(n) \in Nat /\ want(n) >= 16 /\ want(n) % 4 = 0 /\ n + 8 <= want(n)
<1>1. PICK m \in Nat : m = WordMod \div 2
  <2>1. PICK w \in Nat : w = WordMod BY Bounds
  <2> QED BY <2>1
<1>2. n + 11 < m BY <1>1 DEF Overflows
<1>3. Int32(n + 3) = n + 3 BY <1>1, <1>2, Int32Small
<1>4. PICK r : r = (n + 3) - ((n + 3) % 4) OBVIOUS
<1>5. r \in Nat /\ r >= n /\ r <= n + 3 /\ r % 4 = 0 BY <1>4
<1>6. need(n) = IF r < 8 THEN 8 ELSE r BY <1>3, <1>4 DEF need
<1>7. PICK d \in Nat : d = need(n) /\ d >= n /\ d >= 8 /\ d % 4 = 0 /\ (d <= n + 3 \/ d = 8)
  BY <1>5, <1>6
<1>8. d + 8 < m
  <2>1. CASE d <= n + 3 BY <2>1, <1>2
  <2>2. CASE d = 8
    <3>1. m >= 128
      <4>1. ByteBase \in Nat /\ ByteBase >= 4 BY ByteBaseAssumption
      <4>2. HalfMod \in Nat /\ HalfMod >= 16 BY <4>1 DEF HalfMod
      <4>3. TriMod \in Nat /\ TriMod >= 64
        <5> HIDE DEF HalfMod
        <5> QED BY <4>1, <4>2 DEF TriMod
      <4>4. WordMod \in Nat /\ WordMod >= 256
        <5> HIDE DEF TriMod
        <5> QED BY <4>1, <4>3 DEF WordMod
      <4>5. PICK w \in Nat : w = WordMod /\ w >= 256 BY <4>4
      <4> QED BY <4>5, <1>1
    <3> QED BY <3>1, <2>2
  <2> QED BY <2>1, <2>2, <1>7
<1>9. want(n) = d + 8
  <2>1. need(n) + HDR + FTR = d + 8 BY <1>7
  <2> QED BY <2>1, <1>1, <1>8, Int32Small DEF want
<1> QED BY <1>7, <1>9

-----------------------------------------------------------------------------
(* The region before the first call and after cvm_alloc_init.              *)
LEMMA PreparedSound ==
  ASSUME NEW h \in Heaps, h.head = NULL
  PROVE  /\ Total < 16 => Sound(h, HeapStart, << >>, {})
         /\ Total >= 16 => Sound(_cvm_fl_push(_cvm_stamp(h, HeapStart, Total, 1), HeapStart),
                                 HeapStart + Total, << >>, {HeapStart})
<1>0. /\ HeapStart \in Nat /\ HeapStart > 0 /\ Total \in Nat /\ Total % 4 = 0 /\ 0 % 4 = 0
      /\ HeapStart - HeapStart = 0 /\ (HeapStart + Total) - HeapStart = Total
  BY Bounds
<1>1. \A s : s.head = NULL => FreeList(s, {})
  <2> SUFFICES ASSUME NEW s, s.head = NULL PROVE FreeList(s, {}) OBVIOUS
  <2>1. Roomy({}) BY DEF Roomy
  <2>2. [x \in {} |-> 0] \in [{} -> Nat] OBVIOUS
  <2>3. Linked(s, {}, [x \in {} |-> 0]) BY DEF Linked
  <2> QED BY <2>1, <2>2, <2>3 DEF FreeList
<1>2. DOMAIN << >> = {} OBVIOUS
<1>3. Sound(h, HeapStart, << >>, {})
  <2>1. Tiles(h, {}, HeapStart) BY <1>0 DEF Tiles
  <2>2. FreeOf(h, {}) = {} BY DEF FreeOf
  <2>3. Merged(h, {}) BY DEF Merged
  <2>4. Held(h, {}, << >>) BY <1>2 DEF Held
  <2> QED BY <1>1, <2>1, <2>2, <2>3, <2>4 DEF Sound
<1>4. ASSUME Total >= 16
      PROVE  Sound(_cvm_fl_push(_cvm_stamp(h, HeapStart, Total, 1), HeapStart),
                   HeapStart + Total, << >>, {HeapStart})
  <2> DEFINE b == HeapStart
             B == {HeapStart}
             e == HeapStart + Total
             t == _cvm_stamp(h, b, Total, 1)
             s == _cvm_fl_push(t, b)
  <2>1. b \in Region /\ b + Total - 4 \in Region
    <3>1. /\ b \in Int /\ b >= HeapStart /\ b + 4 <= HeapStart + Total
          /\ (b - HeapStart) % 4 = 0
      BY <1>0, <1>4
    <3>2. /\ b + Total - 4 \in Int /\ b + Total - 4 >= HeapStart
          /\ (b + Total - 4) + 4 <= HeapStart + Total
          /\ ((b + Total - 4) - HeapStart) % 4 = 0
      BY <1>0, <1>4
    <3> QED BY <3>1, <3>2, InRegion
  <2>2. /\ t \in Heaps /\ t.head = h.head
        /\ \A k : At(t, k) = IF k = b + Total - 4 THEN Total
                             ELSE IF k = b THEN Total + 1 ELSE At(h, k)
    BY <1>0, <1>4, <2>1, StampWords
  <2> HIDE DEF t
  <2>3. At(t, b) = Total + 1 /\ At(t, b + Total - 4) = Total
    <3>1. b # b + Total - 4 BY <1>0, <1>4
    <3> QED BY <2>2, <3>1
  <2>4. _CVM_SIZE(t, b) = Total /\ _CVM_FREE(t, b)
    <3>1. (Total + 1) % 2 = 1 /\ (Total + 1) - 1 = Total BY <1>0
    <3> QED BY <2>3, <3>1 DEF _CVM_SIZE, _CVM_FREE
  <2>5. Tiles(t, B, e)
    <3>1. Whole(t, B, e, b) BY <1>0, <1>4, <2>3, <2>4 DEF Whole
    <3>2. /\ e \in Nat /\ HeapStart <= e /\ e <= HeapStart + Total
          /\ (e - HeapStart) % 4 = 0
      BY <1>0
    <3>3. \A x, y \in B : ~(x < y) BY <1>0
    <3>4. B \subseteq Region /\ HeapStart \in B /\ \A x \in B : x = b BY <2>1
    <3> HIDE DEF B, e
    <3> QED BY <3>1, <3>2, <3>3, <3>4 DEF Tiles
  <2>6. FreeList(t, {}) BY <1>1, <2>2
  <2>7. {} \cup {b} = B /\ b \notin {} OBVIOUS
  <2>8. Roomy(B) BY <2>2, <2>5, TilesRoom
  <2>9. s \in Heaps /\ FreeList(s, B) /\ Rewired(t, s, B)
    <3>1. PICK L : L = {} OBVIOUS
    <3>2. L \cup {b} = B /\ b \notin L /\ FreeList(t, L) BY <2>6, <3>1
    <3>3. Roomy(L \cup {b}) BY <2>8, <3>2
    <3> HIDE DEF B
    <3>4. t \in Heaps /\ FreeList(t, L) /\ b \notin L BY <2>2, <3>2
    <3>5. s \in Heaps /\ FreeList(s, L \cup {b}) /\ Rewired(t, s, L \cup {b})
      BY <3>3, <3>4, PushList, Zenon
    <3> QED BY <3>2, <3>5
  <2> HIDE DEF s
  <2>10. /\ Tiles(s, B, e)
         /\ \A c \in B : /\ _CVM_SIZE(s, c) = _CVM_SIZE(t, c)
                         /\ _CVM_FREE(s, c) <=> _CVM_FREE(t, c)
    <3>1. B \subseteq B OBVIOUS
    <3>2. Tiles(s, B, e) /\ Unmoved(t, s, B, B)
      BY <2>2, <2>5, <2>9, <3>1, LinksFrame, Zenon
    <3> QED BY <3>2 DEF Unmoved
  <2>11. FreeOf(s, B) = B BY <2>4, <2>10 DEF FreeOf
  <2>12. Merged(s, B)
    <3>1. b + _CVM_SIZE(s, b) # b BY <2>4, <2>10, <1>0, <1>4
    <3> QED BY <3>1 DEF Merged
  <2>13. Held(s, B, << >>) BY <1>2, <2>4, <2>10 DEF Held
  <2> QED BY <2>9, <2>10, <2>11, <2>12, <2>13 DEF Sound, t, s
<1> QED BY <1>3, <1>4

-----------------------------------------------------------------------------
(* The words from lo to hi are written, in which there is no block of L:   *)
(* the links of these stay.                                                *)
Clear(h, L, lo, hi) == \A c \in L : c + _CVM_SIZE(h, c) <= lo \/ c >= hi

Within(h, s, lo, hi) == \A k \in Int : k < lo \/ k >= hi => At(s, k) = At(h, k)

LEMMA StampFrame ==
  ASSUME NEW h \in Heaps, NEW s \in Heaps, s.head = h.head,
         NEW B, NEW e, Tiles(h, B, e), NEW L, L \subseteq B, FreeList(h, L),
         NEW lo \in Int, NEW hi \in Int,
         Clear(h, L, lo, hi), Within(h, s, lo, hi)
  PROVE  FreeList(s, L)
<1>1. \A c \in L : At(s, c + 4) = At(h, c + 4) /\ At(s, c + 8) = At(h, c + 8)
  <2> SUFFICES ASSUME NEW c \in L
               PROVE  At(s, c + 4) = At(h, c + 4) /\ At(s, c + 8) = At(h, c + 8)
    OBVIOUS
  <2>1. PICK n : n = _CVM_SIZE(h, c) OBVIOUS
  <2>2. c \in Nat /\ n \in Nat /\ n >= 16 BY <2>1, TilesRoom
  <2>3. c + n <= lo \/ c >= hi BY <2>1 DEF Clear
  <2>4. /\ c + 4 \in Int /\ c + 8 \in Int
        /\ c + 4 < lo \/ c + 4 >= hi
        /\ c + 8 < lo \/ c + 8 >= hi
    BY <2>2, <2>3
  <2> QED BY <2>4 DEF Within
<1> QED BY <1>1, ListFrame

(* Where the blocks other than b are.                                      *)
LEMMA Beside ==
  ASSUME NEW h \in Heaps, NEW B, NEW e, Tiles(h, B, e), NEW b \in B, NEW c \in B, b # c
  PROVE  c + _CVM_SIZE(h, c) <= b \/ c >= b + _CVM_SIZE(h, b)
<1>1. b \in Nat /\ c \in Nat BY TilesRoom
<1>2. c < b => c + _CVM_SIZE(h, c) <= b BY DEF Tiles
<1>3. b < c => b + _CVM_SIZE(h, b) <= c BY DEF Tiles
<1> QED BY <1>1, <1>2, <1>3

(* cvm_malloc takes the free block b for a request of n bytes.             *)
LEMMA CarveSound ==
  ASSUME NEW h, NEW e, NEW g, NEW B, Sound(h, e, g, B),
         NEW b \in B, _CVM_FREE(h, b),
         NEW w \in Nat, w >= 16, w % 4 = 0, w <= _CVM_SIZE(h, b),
         NEW n \in Nat, n > 0, n + 8 <= w
  PROVE  LET s == Carve(h, b, w)
             p == b + HDR
             g2 == [q \in DOMAIN g \cup {p} |-> IF q = p THEN n ELSE g[q]]
         IN  /\ p \notin DOMAIN g
             /\ \E M : Sound(s, e, g2, M)
             /\ Preserves(h, s, DOMAIN g)
<1> DEFINE z == _CVM_SIZE(h, b)
           L == FreeOf(h, B)
           K == L \ {b}
           l == z - w
           t == _cvm_fl_remove(h, b)
           p == b + 4
           g2 == [q \in DOMAIN g \cup {p} |-> IF q = p THEN n ELSE g[q]]
<1>0. h \in Heaps /\ Tiles(h, B, e) /\ FreeList(h, L) /\ Merged(h, B) /\ Held(h, B, g)
  BY DEF Sound
<1>1. L \subseteq B /\ b \in L /\ K \subseteq B /\ b \notin K /\ K \subseteq L
  BY DEF FreeOf
<1>2. /\ b \in Nat /\ z \in Nat /\ z >= 16 /\ z % 4 = 0 /\ b + z <= e /\ e \in Nat
      /\ b + z <= HeapStart + Total
  <2>1. /\ b \in Nat /\ z \in Nat /\ z >= 16 /\ z % 4 = 0 /\ b + z <= e
    BY <1>0, TilesRoom
  <2>2. e \in Nat /\ e <= HeapStart + Total BY <1>0 DEF Tiles
  <2>3. PICK y : y = z OBVIOUS
  <2> HIDE DEF z
  <2> QED BY <2>1, <2>2, <2>3, Bounds
<1>3. l \in Nat /\ Int32(l) = l
  <2>1. l \in Nat /\ l <= HeapStart + HeapSize BY <1>2, Bounds
  <2>2. PICK m \in Nat : m = WordMod \div 2
    <3>1. PICK v \in Nat : v = WordMod BY Bounds
    <3> QED BY <3>1
  <2>3. l < m BY <2>1, <2>2, Bounds
  <2> QED BY <2>1, <2>2, <2>3, Int32Small
<1>4. t \in Heaps /\ FreeList(t, K) /\ Rewired(h, t, K)
  <2> HIDE DEF L
  <2> QED BY <1>0, <1>1, RemoveList, Zenon
<1> HIDE DEF t
<1>5. /\ Tiles(t, B, e)
      /\ \A c \in B : /\ _CVM_SIZE(t, c) = _CVM_SIZE(h, c)
                      /\ _CVM_FREE(t, c) <=> _CVM_FREE(h, c)
                      /\ At(t, c) = At(h, c)
      /\ \A c \in B \ K : \A k \in Int :
           c <= k /\ k < c + _CVM_SIZE(h, c) => At(t, k) = At(h, k)
  <2> HIDE DEF K, L
  <2>1. Tiles(t, B, e) /\ Unmoved(h, t, B, K)
    BY <1>0, <1>1, <1>4, LinksFrame, Zenon
  <2> QED BY <2>1 DEF Unmoved
<1>6. p \notin DOMAIN g BY <1>0 DEF Held
<1>7. \A q \in DOMAIN g : q \in Nat /\ q - 4 \in B \ L /\ q - 4 # b
  BY <1>0, <1>1 DEF Held, Fits, FreeOf
<1>8. \A c \in K : c + _CVM_SIZE(t, c) <= b \/ c >= b + z
  <2> SUFFICES ASSUME NEW c \in K PROVE c + _CVM_SIZE(t, c) <= b \/ c >= b + z
    OBVIOUS
  <2>1. c \in B /\ c # b BY <1>1
  <2>2. c + _CVM_SIZE(h, c) <= b \/ c >= b + z BY <2>1, <1>0, Beside
  <2> QED BY <2>1, <2>2, <1>5
<1>9. ASSUME NEW s \in Heaps, NEW M, B \subseteq M, M \subseteq B \cup {b + w},
             Tiles(s, M, e), FreeList(s, FreeOf(s, M)),
             \A c \in B \ {b} : /\ _CVM_SIZE(s, c) = _CVM_SIZE(h, c)
                                /\ _CVM_FREE(s, c) <=> _CVM_FREE(h, c),
             ~_CVM_FREE(s, b), w <= _CVM_SIZE(s, b),
             b + w \in M \ B => /\ _CVM_FREE(s, b + w)
                                /\ (b + w) + _CVM_SIZE(s, b + w) = b + z
                                /\ b + w # e
      PROVE  Sound(s, e, g2, M)
  <2>1. Merged(s, M)
    <3> SUFFICES ASSUME NEW c \in M, _CVM_FREE(s, c), c + _CVM_SIZE(s, c) \in M,
                        _CVM_FREE(s, c + _CVM_SIZE(s, c))
                 PROVE  FALSE
      BY DEF Merged
    <3>1. PICK d \in M : d = c + _CVM_SIZE(s, c) OBVIOUS
    <3>2. c # b /\ d # b BY <1>9, <3>1
    <3>3. CASE c \in B /\ d \in B
      <4>1. _CVM_FREE(h, c) /\ _CVM_FREE(h, d) /\ d = c + _CVM_SIZE(h, c)
        BY <1>9, <3>1, <3>2, <3>3
      <4> QED BY <4>1, <3>3, <1>0 DEF Merged
    <3>4. CASE c \in B /\ d \notin B
      <4>1. d = b + w BY <3>4, <1>9
      <4>2. d = c + _CVM_SIZE(h, c) BY <1>9, <3>1, <3>2, <3>4
      <4>3. Whole(h, B, e, c) BY <1>0, <3>4 DEF Tiles
      <4>4. d \in B \cup {e} BY <4>2, <4>3 DEF Whole
      <4> QED BY <4>1, <4>4, <3>4, <1>9
    <3>5. CASE c \notin B
      <4>1. c = b + w /\ d = b + z BY <3>5, <3>1, <1>9
      <4>2. d \in B
        <5>1. b + z # b + w
          <6>1. PICK j : j = _CVM_SIZE(s, c) OBVIOUS
          <6>2. j \in Nat /\ j >= 16 BY <6>1, <1>9, TilesRoom
          <6>3. (b + w) + j = b + z BY <6>1, <4>1, <3>1
          <6> QED BY <6>2, <6>3, <1>2
        <5> QED BY <5>1, <4>1, <1>9
      <4>3. _CVM_FREE(h, d) BY <4>2, <3>1, <3>2, <1>9
      <4> QED BY <4>1, <4>2, <4>3, <1>0 DEF Merged
    <3> QED BY <3>3, <3>4, <3>5
  <2>2. Held(s, M, g2)
    <3>1. DOMAIN g2 = DOMAIN g \cup {p} OBVIOUS
    <3>2. \A q \in DOMAIN g2 : g2[q] = IF q = p THEN n ELSE g[q] OBVIOUS
    <3> HIDE DEF g2
    <3>3. ASSUME NEW c \in M PROVE _CVM_FREE(s, c) <=> c + 4 \notin DOMAIN g2
      <4>1. CASE c = b BY <4>1, <3>1, <1>9
      <4>2. CASE c \in B \ {b}
        <5>1. _CVM_FREE(s, c) <=> c + 4 \notin DOMAIN g
          BY <4>2, <1>0, <1>9 DEF Held
        <5>2. c + 4 # p BY <4>2, <1>0, <1>2, TilesRoom
        <5> QED BY <5>1, <5>2, <3>1
      <4>3. CASE c \notin B
        <5>1. c = b + w /\ _CVM_FREE(s, c) BY <4>3, <1>9
        <5>2. c + 4 # p BY <5>1, <1>2
        <5>3. c + 4 \notin DOMAIN g
          <6> SUFFICES ASSUME c + 4 \in DOMAIN g PROVE FALSE OBVIOUS
          <6>1. (c + 4) - 4 \in B BY <1>7
          <6>2. (c + 4) - 4 = c BY <5>1, <1>2
          <6> QED BY <6>1, <6>2, <4>3
        <5> QED BY <5>1, <5>2, <5>3, <3>1
      <4> QED BY <4>1, <4>2, <4>3
    <3>4. ASSUME NEW q \in DOMAIN g2 PROVE Fits(s, M, g2, q)
      <4>1. CASE q = p
        <5>1. p - 4 = b /\ p \in Nat /\ b \in M BY <1>2, <1>9
        <5>2. g2[q] = n BY <3>2, <4>1
        <5>3. n + 4 + 4 <= _CVM_SIZE(s, b)
          <6>1. PICK j : j = _CVM_SIZE(s, b) OBVIOUS
          <6>2. j \in Nat /\ w <= j BY <6>1, <1>9, SizeNat
          <6>3. n + 4 + 4 <= j BY <6>2
          <6> QED BY <6>1, <6>3
        <5> QED BY <4>1, <5>1, <5>2, <5>3 DEF Fits
      <4>2. CASE q # p
        <5>1. q \in DOMAIN g /\ g2[q] = g[q] BY <3>1, <3>2, <4>2
        <5>2. Fits(h, B, g, q) BY <5>1, <1>0 DEF Held
        <5>3. q - 4 \in B \ {b} BY <5>1, <1>7
        <5>4. _CVM_SIZE(s, q - 4) = _CVM_SIZE(h, q - 4) /\ q - 4 \in M BY <5>3, <1>9
        <5> QED BY <5>1, <5>2, <5>4 DEF Fits
      <4> QED BY <4>1, <4>2
    <3> QED BY <3>3, <3>4 DEF Held
  <2> QED BY <1>9, <2>1, <2>2 DEF Sound
<1>10. ASSUME NEW s,
              \A q \in DOMAIN g : \A k \in Int :
                q - 4 <= k /\ k < q - 4 + _CVM_SIZE(h, q - 4) => At(s, k) = At(t, k)
       PROVE  Preserves(h, s, DOMAIN g)
  <2> SUFFICES ASSUME NEW q \in DOMAIN g, NEW k \in Int,
                      q - 4 <= k, k < q - 4 + _CVM_SIZE(h, q - 4)
               PROVE  At(s, k) = At(h, k)
    BY DEF Preserves
  <2>1. q - 4 \in B \ K BY <1>1, <1>7
  <2>2. At(t, k) = At(h, k) BY <2>1, <1>5
  <2> QED BY <2>2, <1>10
<1>11. \A q \in DOMAIN g : \A k \in Int :
         q - 4 <= k /\ k < q - 4 + _CVM_SIZE(h, q - 4) => k < b \/ k >= b + z
  <2> SUFFICES ASSUME NEW q \in DOMAIN g, NEW k \in Int,
                      q - 4 <= k, k < q - 4 + _CVM_SIZE(h, q - 4)
               PROVE  k < b \/ k >= b + z
    OBVIOUS
  <2>1. PICK c \in B : c = q - 4 /\ c # b BY <1>7
  <2>2. PICK j : j = _CVM_SIZE(h, c) OBVIOUS
  <2>3. c \in Nat /\ j \in Nat BY <2>2, <1>0, TilesRoom
  <2>4. c + j <= b \/ c >= b + z BY <2>1, <2>2, <1>0, Beside
  <2> QED BY <2>1, <2>2, <2>3, <2>4, <1>2
<1>12. CASE l >= 16
  <2> DEFINE u == _cvm_stamp(_cvm_stamp(t, b, w, 0), b + w, l, 1)
             M == B \cup {b + w}
             J == K \cup {b + w}
             s == _cvm_fl_push(u, b + w)
  <2>1. w + l = _CVM_SIZE(t, b) BY <1>2, <1>5
  <2>2. /\ u \in Heaps /\ u.head = t.head
        /\ Tiles(u, M, e)
        /\ b + w \notin B
        /\ _CVM_SIZE(u, b) = w /\ ~_CVM_FREE(u, b)
        /\ _CVM_SIZE(u, b + w) = l /\ _CVM_FREE(u, b + w)
        /\ \A c \in B \ {b} : /\ _CVM_SIZE(u, c) = _CVM_SIZE(t, c)
                              /\ _CVM_FREE(u, c) <=> _CVM_FREE(t, c)
        /\ \A k : k \notin {b, b + w - 4, b + w, b + w + l - 4} => At(u, k) = At(t, k)
    <3>1. t \in Heaps /\ Tiles(t, B, e) BY <1>4, <1>5
    <3>2. PICK y \in Nat : y = l BY <1>3
    <3>3. y >= 16 /\ w + y = _CVM_SIZE(t, b) BY <1>12, <2>1, <3>2
    <3>4. w \in Nat /\ w >= 16 /\ w % 4 = 0 /\ b \in B OBVIOUS
    <3>5. Cut(t, _cvm_stamp(_cvm_stamp(t, b, w, 0), b + w, y, 1), B, e, b, w, y)
      BY <3>1, <3>2, <3>3, <3>4, TilesSplit, Zenon
    <3>6. Cut(t, u, B, e, b, w, l) BY <3>2, <3>5
    <3> HIDE DEF l, u
    <3> QED BY <3>6 DEF Cut
  <2> HIDE DEF u
  <2>3. \A k \in Int : k < b \/ k >= b + z => At(u, k) = At(t, k)
    <3> SUFFICES ASSUME NEW k \in Int, k < b \/ k >= b + z PROVE At(u, k) = At(t, k)
      OBVIOUS
    <3>1. k \notin {b, b + w - 4, b + w, b + w + l - 4} BY <1>2, <1>3, <1>12
    <3> QED BY <3>1, <2>2
  <2>4. FreeList(u, K)
    <3>1. b + z \in Int /\ b \in Int BY <1>2
    <3>2. u \in Heaps /\ u.head = t.head BY <2>2
    <3>3. t \in Heaps /\ Tiles(t, B, e) /\ FreeList(t, K) /\ K \subseteq B BY <1>1, <1>4, <1>5
    <3>4. PICK lo, hi : lo = b /\ hi = b + z OBVIOUS
    <3>5. lo \in Int /\ hi \in Int BY <3>1, <3>4
    <3>6. Clear(t, K, lo, hi) BY <1>8, <3>4 DEF Clear
    <3>7. Within(t, u, lo, hi) BY <2>3, <3>4 DEF Within
    <3> HIDE DEF K, z
    <3> QED BY <3>2, <3>3, <3>5, <3>6, <3>7, StampFrame, Zenon
  <2>5. J \subseteq M /\ b + w \notin K BY <1>1, <2>2
  <2>6. Roomy(J)
    <3>1. Roomy(M) BY <2>2, TilesRoom
    <3> QED BY <3>1, <2>5 DEF Roomy
  <2>7. s \in Heaps /\ FreeList(s, J) /\ Rewired(u, s, J)
    <3> HIDE DEF K
    <3> QED BY <2>2, <2>4, <2>5, <2>6, PushList, Zenon
  <2> HIDE DEF s
  <2>8. /\ Tiles(s, M, e)
        /\ \A c \in M : /\ _CVM_SIZE(s, c) = _CVM_SIZE(u, c)
                        /\ _CVM_FREE(s, c) <=> _CVM_FREE(u, c)
                        /\ At(s, c) = At(u, c)
        /\ \A c \in M \ J : \A k \in Int :
             c <= k /\ k < c + _CVM_SIZE(u, c) => At(s, k) = At(u, k)
    <3>1. u \in Heaps /\ Tiles(u, M, e) BY <2>2
    <3>2. s \in Heaps /\ J \subseteq M /\ Rewired(u, s, J) BY <2>5, <2>7
    <3> HIDE DEF J, M
    <3>3. Tiles(s, M, e) /\ Unmoved(u, s, M, J) BY <3>1, <3>2, LinksFrame, Zenon
    <3> QED BY <3>3 DEF Unmoved
  <2>9. \A c \in B \ {b} : /\ _CVM_SIZE(s, c) = _CVM_SIZE(h, c)
                           /\ _CVM_FREE(s, c) <=> _CVM_FREE(h, c)
    BY <1>5, <2>2, <2>8
  <2>10. FreeOf(s, M) = J
    <3>1. ASSUME NEW c \in M PROVE _CVM_FREE(s, c) <=> c \in J
      <4>1. CASE c = b BY <4>1, <1>1, <1>2, <2>2, <2>8
      <4>2. CASE c = b + w BY <4>2, <2>2, <2>8
      <4>3. CASE c \in B \ {b}
        <5>1. c # b + w BY <4>3, <2>2
        <5> QED BY <4>3, <5>1, <2>9 DEF FreeOf
      <4> QED BY <4>1, <4>2, <4>3
    <3> QED BY <3>1, <2>5 DEF FreeOf
  <2>11. Sound(s, e, g2, M)
    <3>1. b + w \in M /\ b \in M /\ (b + w) + l = b + z BY <1>2
    <3>2. b + w # e BY <1>2, <1>12
    <3>3. /\ _CVM_SIZE(s, b + w) = l /\ _CVM_FREE(s, b + w)
          /\ _CVM_SIZE(s, b) = w /\ ~_CVM_FREE(s, b)
      BY <3>1, <2>2, <2>8
    <3>4. w <= _CVM_SIZE(s, b) BY <3>3
    <3>5. B \subseteq M /\ M \subseteq B \cup {b + w} OBVIOUS
    <3>6. (b + w) + _CVM_SIZE(s, b + w) = b + z BY <3>1, <3>3
    <3>7. FreeList(s, FreeOf(s, M)) BY <2>7, <2>10
    <3> HIDE DEF M, J, g2
    <3> QED BY <1>9, <2>7, <2>8, <2>9, <3>2, <3>3, <3>4, <3>5, <3>6, <3>7
  <2>12. Preserves(h, s, DOMAIN g)
    <3>1. ASSUME NEW q \in DOMAIN g, NEW k \in Int,
                 q - 4 <= k, k < q - 4 + _CVM_SIZE(h, q - 4)
          PROVE  At(s, k) = At(t, k)
      <4>1. At(u, k) = At(t, k) BY <3>1, <1>11, <2>3
      <4>2. PICK c \in B : c = q - 4 /\ c # b /\ c \notin L BY <1>7
      <4>3. c \in M \ J
        <5>1. c # b + w BY <2>2
        <5> QED BY <4>2, <5>1, <1>1
      <4>4. _CVM_SIZE(u, c) = _CVM_SIZE(h, c) BY <4>2, <2>2, <1>5
      <4>5. At(s, k) = At(u, k) BY <3>1, <4>2, <4>3, <4>4, <2>8
      <4> QED BY <4>1, <4>5
    <3> QED BY <3>1, <1>10
  <2>13. Carve(h, b, w) = s BY <1>3, <1>12 DEF Carve, s, u, t
  <2> QED BY <1>6, <2>11, <2>12, <2>13
<1>13. CASE ~(l >= 16)
  <2> DEFINE s == _cvm_stamp(t, b, z, 0)
             M == {c \in B : c <= b \/ c >= b + z}
  <2>1. b + z \in B \cup {e}
    <3>1. Whole(h, B, e, b) BY <1>0 DEF Tiles
    <3> QED BY <3>1 DEF Whole
  <2>2. /\ s \in Heaps /\ s.head = t.head
        /\ Tiles(s, M, e)
        /\ b \in M /\ _CVM_SIZE(s, b) = z /\ (_CVM_FREE(s, b) <=> 0 = 1)
        /\ \A c \in M \ {b} : /\ _CVM_SIZE(s, c) = _CVM_SIZE(t, c)
                              /\ _CVM_FREE(s, c) <=> _CVM_FREE(t, c)
        /\ \A k : k # b /\ k # b + z - 4 => At(s, k) = At(t, k)
    <3>1. PICK y \in Nat : y = z BY <1>2
    <3>2. y >= 16 /\ y % 4 = 0 /\ b + y \in B \cup {e} BY <1>2, <2>1, <3>1
    <3>3. t \in Heaps /\ Tiles(t, B, e) BY <1>4, <1>5
    <3>4. b \in B /\ 0 \in {0, 1} OBVIOUS
    <3>5. Joined(t, _cvm_stamp(t, b, y, 0), B, {c \in B : c <= b \/ c >= b + y}, e, b, y, 0)
      BY <3>1, <3>2, <3>3, <3>4, TilesJoin, Zenon
    <3>6. Joined(t, s, B, M, e, b, z, 0) BY <3>1, <3>5
    <3> HIDE DEF z, s, M
    <3> QED BY <3>6 DEF Joined
  <2>3. M = B
    <3> SUFFICES ASSUME NEW c \in B PROVE c <= b \/ c >= b + z OBVIOUS
    <3>1. CASE c = b BY <3>1, <1>2
    <3>2. CASE c # b
      <4>1. PICK j : j = _CVM_SIZE(h, c) OBVIOUS
      <4>2. c \in Nat /\ j \in Nat BY <4>1, <1>0, TilesRoom
      <4>3. c + j <= b \/ c >= b + z BY <3>2, <4>1, <1>0, Beside
      <4> QED BY <4>2, <4>3, <1>2
    <3> QED BY <3>1, <3>2
  <2> HIDE DEF s, M
  <2>4. \A k \in Int : k < b \/ k >= b + z => At(s, k) = At(t, k)
    <3> SUFFICES ASSUME NEW k \in Int, k < b \/ k >= b + z PROVE At(s, k) = At(t, k)
      OBVIOUS
    <3>1. k # b /\ k # b + z - 4 BY <1>2
    <3> QED BY <3>1, <2>2
  <2>5. FreeList(s, K)
    <3>1. b + z \in Int /\ b \in Int BY <1>2
    <3>2. s \in Heaps /\ s.head = t.head BY <2>2
    <3>3. t \in Heaps /\ Tiles(t, B, e) /\ FreeList(t, K) /\ K \subseteq B BY <1>1, <1>4, <1>5
    <3>4. PICK lo, hi : lo = b /\ hi = b + z OBVIOUS
    <3>5. lo \in Int /\ hi \in Int BY <3>1, <3>4
    <3>6. Clear(t, K, lo, hi) BY <1>8, <3>4 DEF Clear
    <3>7. Within(t, s, lo, hi) BY <2>4, <3>4 DEF Within
    <3> HIDE DEF K, z
    <3> QED BY <3>2, <3>3, <3>5, <3>6, <3>7, StampFrame, Zenon
  <2>6. \A c \in B \ {b} : /\ _CVM_SIZE(s, c) = _CVM_SIZE(h, c)
                           /\ _CVM_FREE(s, c) <=> _CVM_FREE(h, c)
    BY <1>5, <2>2, <2>3
  <2>7. FreeOf(s, B) = K
    <3>1. ASSUME NEW c \in B PROVE _CVM_FREE(s, c) <=> c \in K
      <4>1. CASE c = b BY <4>1, <1>1, <2>2
      <4>2. CASE c # b BY <4>2, <2>6 DEF FreeOf
      <4> QED BY <4>1, <4>2
    <3> QED BY <3>1, <1>1 DEF FreeOf
  <2>8. Sound(s, e, g2, B)
    <3>1. B \subseteq B /\ B \subseteq B \cup {b + w} /\ ~(b + w \in B \ B) OBVIOUS
    <3>2. w <= _CVM_SIZE(s, b) /\ ~_CVM_FREE(s, b) BY <2>2
    <3>3. FreeList(s, FreeOf(s, B)) /\ Tiles(s, B, e) /\ s \in Heaps
      BY <2>2, <2>3, <2>5, <2>7
    <3> HIDE DEF g2
    <3> QED BY <1>9, <2>6, <3>1, <3>2, <3>3
  <2>9. Preserves(h, s, DOMAIN g)
    <3>1. ASSUME NEW q \in DOMAIN g, NEW k \in Int,
                 q - 4 <= k, k < q - 4 + _CVM_SIZE(h, q - 4)
          PROVE  At(s, k) = At(t, k)
      BY <3>1, <1>11, <2>4
    <3> QED BY <3>1, <1>10
  <2>10. Carve(h, b, w) = s BY <1>3, <1>13 DEF Carve, s, t
  <2> QED BY <1>6, <2>8, <2>9, <2>10
<1> QED BY <1>12, <1>13

-----------------------------------------------------------------------------
(* Freeing a block: the free blocks beside it leave the list one by one,   *)
(* and those from lo to hi become one block.                               *)
Spare(L, lo, hi) == {c \in L : c < lo \/ c >= hi}

Gathered(h, s, B, e, b, lo, hi) ==
  /\ s \in Heaps /\ Tiles(s, B, e) /\ FreeList(s, Spare(FreeOf(h, B), lo, hi))
  /\ lo \in B /\ hi \in B \cup {e} /\ lo <= b /\ b + _CVM_SIZE(h, b) <= hi
  /\ hi \in B => ~_CVM_FREE(h, hi)
  /\ \A c \in B : c # b /\ ~_CVM_FREE(h, c) => c < lo \/ c >= hi
  /\ \A c \in B : _CVM_SIZE(s, c) = _CVM_SIZE(h, c) /\ (_CVM_FREE(s, c) <=> _CVM_FREE(h, c))
  /\ \A c \in B : ~_CVM_FREE(h, c) =>
       \A k \in Int : c <= k /\ k < c + _CVM_SIZE(h, c) => At(s, k) = At(h, k)

LEMMA JoinNext ==
  ASSUME NEW h, NEW e, NEW g, NEW B, Sound(h, e, g, B),
         NEW b \in B, ~_CVM_FREE(h, b),
         NEW nx, nx = b + _CVM_SIZE(h, b),
         NEW s, s = IF nx < e /\ _CVM_FREE(h, nx) THEN _cvm_fl_remove(h, nx) ELSE h,
         NEW hi, hi = b + (_CVM_SIZE(h, b) + IF nx < e /\ _CVM_FREE(h, nx)
                                             THEN _CVM_SIZE(s, nx) ELSE 0)
  PROVE  Gathered(h, s, B, e, b, b, hi)
<1> DEFINE z == _CVM_SIZE(h, b)
           L == FreeOf(h, B)
           K == Spare(L, b, hi)
<1>0. h \in Heaps /\ Tiles(h, B, e) /\ FreeList(h, L) /\ Merged(h, B) /\ Held(h, B, g)
  BY DEF Sound
<1>1. \A c \in B : /\ c \in Nat /\ _CVM_SIZE(h, c) \in Nat /\ _CVM_SIZE(h, c) >= 16
                   /\ c + _CVM_SIZE(h, c) <= e /\ c + _CVM_SIZE(h, c) \in B \cup {e}
  <2> SUFFICES ASSUME NEW c \in B
               PROVE  /\ c \in Nat /\ _CVM_SIZE(h, c) \in Nat /\ _CVM_SIZE(h, c) >= 16
                      /\ c + _CVM_SIZE(h, c) <= e /\ c + _CVM_SIZE(h, c) \in B \cup {e}
    OBVIOUS
  <2>1. Whole(h, B, e, c) BY <1>0 DEF Tiles
  <2> QED BY <2>1, <1>0, TilesRoom DEF Whole
<1>2. /\ b \in Nat /\ z \in Nat /\ z >= 16 /\ nx = b + z /\ nx \in Nat
      /\ e \in Nat /\ nx <= e /\ nx \in B \cup {e} /\ b \notin L /\ L \subseteq B
  BY <1>0, <1>1 DEF FreeOf, Tiles
<1>3. \A c \in B : c < b \/ c = b \/ c >= nx
  <2> SUFFICES ASSUME NEW c \in B PROVE c < b \/ c = b \/ c >= nx OBVIOUS
  <2>1. c \in Nat BY <1>1
  <2>2. b < c => b + z <= c BY <1>0 DEF Tiles
  <2> QED BY <2>1, <2>2, <1>2
<1>4. CASE nx < e /\ _CVM_FREE(h, nx)
  <2>1. nx \in L /\ nx \in B BY <1>2, <1>4 DEF FreeOf
  <2>2. s = _cvm_fl_remove(h, nx) BY <1>4
  <2>3. s \in Heaps /\ FreeList(s, L \ {nx}) /\ Rewired(h, s, L \ {nx})
    <3> HIDE DEF L
    <3>1. LET r == _cvm_fl_remove(h, nx) IN
          r \in Heaps /\ FreeList(r, L \ {nx}) /\ Rewired(h, r, L \ {nx})
      BY <1>0, <2>1, RemoveList, Zenon
    <3> QED BY <3>1, <2>2, Zenon
  <2>4. /\ Tiles(s, B, e)
        /\ \A c \in B : /\ _CVM_SIZE(s, c) = _CVM_SIZE(h, c)
                        /\ _CVM_FREE(s, c) <=> _CVM_FREE(h, c)
                        /\ At(s, c) = At(h, c)
        /\ \A c \in B \ (L \ {nx}) : \A k \in Int :
             c <= k /\ k < c + _CVM_SIZE(h, c) => At(s, k) = At(h, k)
    <3>1. L \ {nx} \subseteq B BY <1>2
    <3> HIDE DEF L
    <3>2. Tiles(s, B, e) /\ Unmoved(h, s, B, L \ {nx})
      BY <1>0, <2>3, <3>1, LinksFrame, Zenon
    <3> QED BY <3>2 DEF Unmoved
  <2>5. PICK y : y = _CVM_SIZE(h, nx) OBVIOUS
  <2>6. /\ y \in Nat /\ y >= 16 /\ hi = nx + y /\ hi \in Nat /\ hi \in B \cup {e}
        /\ nx + y = nx + _CVM_SIZE(h, nx)
    <3>1. y = _CVM_SIZE(s, nx) BY <2>1, <2>4, <2>5
    <3>2. hi = b + (z + y) BY <3>1, <1>4
    <3>3. y \in Nat /\ y >= 16 /\ nx + y \in B \cup {e} BY <2>1, <2>5, <1>1
    <3>4. b + (z + y) = nx + y BY <1>2, <3>3
    <3> QED BY <2>5, <3>2, <3>3, <3>4, <1>2
  <2>7. \A c \in B : c # b /\ c # nx => c < b \/ c >= hi
    <3> SUFFICES ASSUME NEW c \in B, c # b, c # nx PROVE c < b \/ c >= hi OBVIOUS
    <3>1. c \in Nat BY <1>1
    <3>2. nx < c => nx + y <= c BY <1>0, <2>1, <2>5 DEF Tiles
    <3> QED BY <3>1, <3>2, <1>2, <1>3, <2>6
  <2>8. K = L \ {nx}
    <3>1. ~(nx < b) /\ ~(nx >= hi) BY <1>2, <2>6
    <3> QED BY <3>1, <2>7, <1>2 DEF Spare
  <2>9. hi \in B => ~_CVM_FREE(h, hi)
    BY <1>0, <1>4, <2>1, <2>6 DEF Merged
  <2>10. \A c \in B : c # b /\ ~_CVM_FREE(h, c) => c < b \/ c >= hi
    BY <2>7, <1>4
  <2>11. \A c \in B : ~_CVM_FREE(h, c) => c \in B \ (L \ {nx}) BY DEF FreeOf
  <2>12. b <= b /\ b + z <= hi BY <1>2, <2>6
  <2>13. FreeList(s, Spare(FreeOf(h, B), b, hi)) BY <2>3, <2>8
  <2> HIDE DEF L, K
  <2>14. \A c \in B : ~_CVM_FREE(h, c) =>
           \A k \in Int : c <= k /\ k < c + _CVM_SIZE(h, c) => At(s, k) = At(h, k)
    BY <2>4, <2>11
  <2> QED BY <2>3, <2>4, <2>6, <2>9, <2>10, <2>12, <2>13, <2>14 DEF Gathered
<1>5. CASE ~(nx < e /\ _CVM_FREE(h, nx))
  <2>1. s = h /\ hi = nx
    <3>1. s = h /\ hi = b + (z + 0) BY <1>5
    <3> QED BY <3>1, <1>2
  <2>2. K = L
    <3>1. \A c \in L : c < b \/ c >= hi BY <1>2, <1>3, <2>1
    <3> QED BY <3>1 DEF Spare
  <2>3. hi \in B => ~_CVM_FREE(h, hi)
    <3> SUFFICES ASSUME nx \in B PROVE ~_CVM_FREE(h, nx) BY <2>1
    <3>1. PICK y : y = _CVM_SIZE(h, nx) OBVIOUS
    <3>2. y \in Nat /\ y >= 16 /\ nx + y <= e BY <3>1, <1>1
    <3> QED BY <3>2, <1>2, <1>5
  <2>4. \A c \in B : c # b /\ ~_CVM_FREE(h, c) => c < b \/ c >= hi
    BY <1>3, <2>1
  <2>5. b <= b /\ b + z <= hi BY <1>2, <2>1
  <2>6. FreeList(s, Spare(FreeOf(h, B), b, hi)) BY <1>0, <2>1, <2>2
  <2> QED BY <1>0, <1>2, <2>1, <2>3, <2>4, <2>5, <2>6 DEF Gathered
<1> QED BY <1>4, <1>5

(* No free block ends at lo.                                               *)
Fenced(h, B, lo) == \A d \in B : d + _CVM_SIZE(h, d) = lo => ~_CVM_FREE(h, d)

(* What cvm_free does about the block before b: more bytes join it at lo.  *)
Back(t, b, psz, pb, s, lo, more) ==
  LET before == b > HeapStart /\ pb >= HeapStart /\ _CVM_FREE(t, pb)
  IN  /\ psz = At(t, b - FTR) /\ pb = b - psz
      /\ s = IF before THEN _cvm_fl_remove(t, pb) ELSE t
      /\ lo = IF before THEN pb ELSE b
      /\ more = IF before THEN psz ELSE 0

LEMMA JoinPrev ==
  ASSUME NEW h, NEW e, NEW g, NEW B, Sound(h, e, g, B),
         NEW b \in B, ~_CVM_FREE(h, b), NEW t, NEW hi, Gathered(h, t, B, e, b, b, hi),
         NEW psz, NEW pb, NEW s, NEW lo, NEW more, Back(t, b, psz, pb, s, lo, more)
  PROVE  Gathered(h, s, B, e, b, lo, hi) /\ Fenced(h, B, lo) /\ lo + more = b /\ more \in Nat
<1> DEFINE L == FreeOf(h, B)
           before == b > HeapStart /\ pb >= HeapStart /\ _CVM_FREE(t, pb)
<1>6. /\ psz = At(t, b - FTR) /\ pb = b - psz
      /\ s = IF before THEN _cvm_fl_remove(t, pb) ELSE t
      /\ lo = IF before THEN pb ELSE b
      /\ more = IF before THEN psz ELSE 0
  BY DEF Back
<1>0. h \in Heaps /\ Tiles(h, B, e) /\ FreeList(h, L) /\ Merged(h, B) /\ Held(h, B, g)
  BY DEF Sound
<1>1. \A c \in B : /\ c \in Nat /\ _CVM_SIZE(h, c) \in Nat /\ _CVM_SIZE(h, c) >= 16
                   /\ c + _CVM_SIZE(h, c) <= e /\ c >= HeapStart
  BY <1>0, TilesRoom
<1>2. /\ t \in Heaps /\ Tiles(t, B, e) /\ FreeList(t, Spare(L, b, hi))
      /\ hi \in B \cup {e} /\ b + _CVM_SIZE(h, b) <= hi
      /\ hi \in B => ~_CVM_FREE(h, hi)
      /\ \A c \in B : c # b /\ ~_CVM_FREE(h, c) => c < b \/ c >= hi
      /\ \A c \in B : _CVM_SIZE(t, c) = _CVM_SIZE(h, c) /\ (_CVM_FREE(t, c) <=> _CVM_FREE(h, c))
      /\ \A c \in B : ~_CVM_FREE(h, c) =>
           \A k \in Int : c <= k /\ k < c + _CVM_SIZE(h, c) => At(t, k) = At(h, k)
  BY DEF Gathered
<1>3. e \in Nat /\ hi \in Nat /\ b \in Nat /\ HeapStart \in Nat /\ b < hi
  <2>1. e \in Nat /\ HeapStart \in Nat BY <1>0, Bounds DEF Tiles
  <2>2. PICK y : y = _CVM_SIZE(h, b) OBVIOUS
  <2>3. y \in Nat /\ y >= 16 /\ b \in Nat /\ b + y <= hi /\ hi \in Nat BY <2>1, <2>2, <1>1, <1>2
  <2> QED BY <2>1, <2>3
<1>4. CASE b = HeapStart
  <2>1. ~before BY <1>3, <1>4
  <2>2. s = t /\ lo = b /\ more = 0 BY <2>1, <1>6
  <2>3. ASSUME NEW d \in B, d + _CVM_SIZE(h, d) = lo PROVE ~_CVM_FREE(h, d)
    <3>1. PICK y : y = _CVM_SIZE(h, d) OBVIOUS
    <3>2. d \in Nat /\ y \in Nat /\ y >= 16 /\ d >= HeapStart /\ d + y = b
      BY <3>1, <2>2, <2>3, <1>1
    <3> QED BY <3>2, <1>3, <1>4
  <2> QED BY <2>2, <2>3, <1>3 DEF Fenced
<1>5. CASE b # HeapStart
  <2>1. PICK d \in B : d + _CVM_SIZE(h, d) = b BY <1>0, <1>5 DEF Tiles
  <2>2. PICK y : y = _CVM_SIZE(h, d) OBVIOUS
  <2>3. d \in Nat /\ y \in Nat /\ y >= 16 /\ d >= HeapStart /\ d + y = b
    BY <2>1, <2>2, <1>1
  <2>4. psz = y /\ pb = d
    <3>1. Whole(t, B, e, d) BY <1>2 DEF Tiles
    <3>2. At(t, d + y - 4) = y BY <3>1, <2>2, <1>2 DEF Whole
    <3>3. d + y - 4 = b - 4 /\ b - y = d BY <2>3
    <3> QED BY <3>2, <3>3, <1>6
  <2>5. before <=> _CVM_FREE(h, d)
    <3>1. b > HeapStart BY <2>3, <1>3
    <3> QED BY <3>1, <2>3, <2>4, <1>2
  <2>6. ASSUME NEW c \in B, c + _CVM_SIZE(h, c) = b PROVE c = d
    <3>1. PICK x : x = _CVM_SIZE(h, c) OBVIOUS
    <3>2. c \in Nat /\ x \in Nat /\ x >= 16 /\ c + x = b BY <2>6, <3>1, <1>1
    <3>3. (c < d => c + x <= d) /\ (d < c => d + y <= c) BY <3>1, <2>2, <1>0 DEF Tiles
    <3> QED BY <3>2, <3>3, <2>3
  <2>7. CASE _CVM_FREE(h, d)
    <3> DEFINE K == Spare(L, b, hi)
               J == Spare(L, d, hi)
    <3>1. s = _cvm_fl_remove(t, d) /\ lo = d /\ more = y BY <2>4, <2>5, <2>7, <1>6
    <3>2. d \in K /\ K \subseteq B /\ d < b BY <2>3, <2>7 DEF Spare, FreeOf
    <3>3. s \in Heaps /\ FreeList(s, K \ {d}) /\ Rewired(t, s, K \ {d})
      <4>1. t \in Heaps /\ FreeList(t, K) BY <1>2
      <4> HIDE DEF K
      <4>2. LET r == _cvm_fl_remove(t, d) IN
            r \in Heaps /\ FreeList(r, K \ {d}) /\ Rewired(t, r, K \ {d})
        BY <3>2, <4>1, RemoveList, Zenon
      <4> QED BY <3>1, <4>2, Zenon
    <3>4. \A c \in B : c < b /\ c # d => c < d
      <4> SUFFICES ASSUME NEW c \in B, c < b, c # d PROVE c < d OBVIOUS
      <4>1. c \in Nat BY <1>1
      <4>2. d < c => d + y <= c BY <2>2, <1>0 DEF Tiles
      <4> QED BY <4>1, <4>2, <2>3
    <3>5. J = K \ {d}
      <4>1. ~(d < d) /\ ~(d >= hi) BY <2>3, <1>3
      <4>2. ASSUME NEW c \in L PROVE c \in J <=> c \in K \ {d}
        <5>1. c \in B /\ c \in Nat BY <1>1 DEF FreeOf
        <5> QED BY <4>1, <5>1, <3>4, <2>3, <1>3 DEF Spare
      <4> QED BY <4>2 DEF Spare
    <3>6. /\ Tiles(s, B, e)
          /\ \A c \in B : /\ _CVM_SIZE(s, c) = _CVM_SIZE(t, c)
                          /\ _CVM_FREE(s, c) <=> _CVM_FREE(t, c)
                          /\ At(s, c) = At(t, c)
          /\ \A c \in B \ J : \A k \in Int :
               c <= k /\ k < c + _CVM_SIZE(t, c) => At(s, k) = At(t, k)
      <4>1. J \subseteq B /\ Rewired(t, s, J) BY <3>2, <3>3, <3>5
      <4>2. s \in Heaps /\ t \in Heaps /\ Tiles(t, B, e) BY <3>3, <1>2
      <4> HIDE DEF J
      <4>3. Tiles(s, B, e) /\ Unmoved(t, s, B, J) BY <4>1, <4>2, LinksFrame, Zenon
      <4> QED BY <4>3 DEF Unmoved
    <3>7. \A c \in B : _CVM_SIZE(s, c) = _CVM_SIZE(h, c) /\ (_CVM_FREE(s, c) <=> _CVM_FREE(h, c))
      BY <3>6, <1>2
    <3>8. ASSUME NEW c \in B, ~_CVM_FREE(h, c), NEW k \in Int,
                 c <= k, k < c + _CVM_SIZE(h, c)
          PROVE  At(s, k) = At(h, k)
      <4>1. c \in B \ J BY <3>8 DEF Spare, FreeOf
      <4>2. At(s, k) = At(t, k) BY <3>6, <3>8, <4>1, <1>2
      <4> QED BY <4>2, <3>8, <1>2
    <3>9. ASSUME NEW c \in B, c # b, ~_CVM_FREE(h, c) PROVE c < d \/ c >= hi
      <4>1. c # d BY <3>9, <2>7
      <4>2. c < b \/ c >= hi BY <3>9, <1>2
      <4> QED BY <4>1, <4>2, <3>4
    <3>10. d <= b BY <2>3
    <3>11. FreeList(s, Spare(FreeOf(h, B), d, hi)) BY <3>3, <3>5
    <3>12. Gathered(h, s, B, e, b, d, hi)
      <4> HIDE DEF J, K, L
      <4> QED BY <1>2, <3>3, <3>6, <3>7, <3>8, <3>9, <3>10, <3>11 DEF Gathered
    <3>13. ASSUME NEW c \in B, c + _CVM_SIZE(h, c) = d PROVE ~_CVM_FREE(h, c)
      BY <3>13, <2>7, <1>0 DEF Merged
    <3> QED BY <3>1, <3>12, <3>13, <2>3 DEF Fenced
  <2>8. CASE ~_CVM_FREE(h, d)
    <3>1. s = t /\ lo = b /\ more = 0 BY <2>5, <2>8, <1>6
    <3>2. ASSUME NEW c \in B, c + _CVM_SIZE(h, c) = b PROVE ~_CVM_FREE(h, c)
      BY <3>2, <2>6, <2>8
    <3> QED BY <3>1, <3>2, <1>3 DEF Fenced
  <2> QED BY <2>7, <2>8
<1> QED BY <1>4, <1>5

(* The gathered blocks from lo to hi become one free block.                *)
Released(h, s, e, g, p) ==
  /\ \E M : Sound(s, e, [q \in DOMAIN g \ {p} |-> g[q]], M)
  /\ Preserves(h, s, DOMAIN g \ {p})

LEMMA MergeSound ==
  ASSUME NEW h, NEW e, NEW g, NEW B, Sound(h, e, g, B), NEW p \in DOMAIN g,
         NEW b, b = p - HDR, NEW t, NEW lo, NEW hi, Gathered(h, t, B, e, b, lo, hi),
         Fenced(h, B, lo), NEW size, size = hi - lo
  PROVE  Released(h, _cvm_fl_push(_cvm_stamp(t, lo, size, 1), lo), e, g, p)
<1> DEFINE L == FreeOf(h, B)
           K == Spare(L, lo, hi)
           J == K \cup {lo}
           M == {c \in B : c <= lo \/ c >= lo + size}
           u == _cvm_stamp(t, lo, size, 1)
           s == _cvm_fl_push(u, lo)
           g2 == [q \in DOMAIN g \ {p} |-> g[q]]
<1>0. h \in Heaps /\ Tiles(h, B, e) /\ FreeList(h, L) /\ Merged(h, B) /\ Held(h, B, g)
  BY DEF Sound
<1>1. \A c \in B : /\ c \in Nat /\ _CVM_SIZE(h, c) \in Nat /\ _CVM_SIZE(h, c) >= 16
                   /\ c + _CVM_SIZE(h, c) <= e /\ c >= HeapStart
                   /\ (c - HeapStart) % 4 = 0
  BY <1>0, TilesRoom
<1>2. /\ t \in Heaps /\ Tiles(t, B, e) /\ FreeList(t, K)
      /\ lo \in B /\ hi \in B \cup {e} /\ lo <= b /\ b + _CVM_SIZE(h, b) <= hi
      /\ hi \in B => ~_CVM_FREE(h, hi)
      /\ \A c \in B : c # b /\ ~_CVM_FREE(h, c) => c < lo \/ c >= hi
      /\ \A c \in B : _CVM_SIZE(t, c) = _CVM_SIZE(h, c) /\ (_CVM_FREE(t, c) <=> _CVM_FREE(h, c))
      /\ \A c \in B : ~_CVM_FREE(h, c) =>
           \A k \in Int : c <= k /\ k < c + _CVM_SIZE(h, c) => At(t, k) = At(h, k)
  BY DEF Gathered
<1>3. b \in B /\ p \in Nat /\ p = b + 4 /\ ~_CVM_FREE(h, b)
  <2>1. Fits(h, B, g, p) BY <1>0 DEF Held
  <2>2. b \in B /\ p \in Nat /\ p = b + 4 BY <2>1 DEF Fits
  <2>3. b + 4 \in DOMAIN g BY <2>2
  <2> QED BY <2>2, <2>3, <1>0 DEF Held
<1>4. /\ lo \in Nat /\ hi \in Nat /\ b \in Nat /\ e \in Nat /\ b + 16 <= hi
      /\ size \in Nat /\ size >= 16 /\ lo + size = hi /\ size % 4 = 0
  <2>1. e \in Nat /\ HeapStart <= e /\ (e - HeapStart) % 4 = 0 /\ HeapStart \in Nat
    BY <1>0, Bounds DEF Tiles
  <2>2. lo \in Nat /\ (lo - HeapStart) % 4 = 0 /\ b \in Nat BY <1>1, <1>2, <1>3
  <2>3. hi \in Nat /\ (hi - HeapStart) % 4 = 0 BY <1>1, <1>2, <2>1
  <2>4. PICK y : y = _CVM_SIZE(h, b) OBVIOUS
  <2>5. y \in Nat /\ y >= 16 /\ b + y <= hi BY <2>4, <1>1, <1>2, <1>3
  <2>6. b + 16 <= hi /\ lo + 16 <= hi BY <2>2, <2>3, <2>5, <1>2
  <2>7. size % 4 = 0 BY <2>1, <2>2, <2>3, <2>6
  <2> QED BY <2>1, <2>2, <2>3, <2>6, <2>7
<1>5. Joined(t, u, B, M, e, lo, size, 1)
  <2>1. lo + size \in B \cup {e} /\ 1 \in {0, 1} BY <1>2, <1>4
  <2>2. t \in Heaps /\ Tiles(t, B, e) /\ lo \in B BY <1>2
  <2>3. size \in Nat /\ size >= 16 /\ size % 4 = 0 BY <1>4
  <2>4. Joined(t, _cvm_stamp(t, lo, size, 1), B, {c \in B : c <= lo \/ c >= lo + size},
               e, lo, size, 1)
    BY <2>1, <2>2, <2>3, TilesJoin, Zenon
  <2> QED BY <2>4, Zenon
<1>6. K \subseteq B /\ lo \notin K /\ K \subseteq M /\ lo \in M /\ J \subseteq M /\ M \subseteq B
  <2>1. K \subseteq B BY DEF Spare, FreeOf
  <2>2. lo \notin K BY <1>4 DEF Spare
  <2>3. \A c \in B : c \in Nat BY <1>1
  <2>4. \A c \in K : c < lo \/ c >= hi BY DEF Spare
  <2>5. K \subseteq M BY <2>1, <2>3, <2>4, <1>4
  <2>6. lo \in M BY <1>2, <1>4
  <2>7. M \subseteq B OBVIOUS
  <2> QED BY <2>1, <2>2, <2>5, <2>6, <2>7
<1> HIDE DEF u, M
<1>7. /\ u \in Heaps /\ u.head = t.head /\ Tiles(u, M, e)
      /\ _CVM_SIZE(u, lo) = size /\ _CVM_FREE(u, lo)
      /\ \A c \in M \ {lo} : /\ _CVM_SIZE(u, c) = _CVM_SIZE(t, c)
                             /\ _CVM_FREE(u, c) <=> _CVM_FREE(t, c)
      /\ \A k : k # lo /\ k # lo + size - 4 => At(u, k) = At(t, k)
  BY <1>5 DEF Joined
<1>8. \A c \in B : c < lo => c + _CVM_SIZE(h, c) <= lo BY <1>0, <1>2 DEF Tiles
<1>9. Clear(t, K, lo, hi)
  <2> SUFFICES ASSUME NEW c \in K PROVE c + _CVM_SIZE(t, c) <= lo \/ c >= hi
    BY DEF Clear
  <2> QED BY <1>2, <1>6, <1>8 DEF Spare
<1>10. Within(t, u, lo, hi)
  <2> SUFFICES ASSUME NEW k \in Int, k < lo \/ k >= hi PROVE At(u, k) = At(t, k)
    BY DEF Within
  <2>1. k # lo /\ k # lo + size - 4 BY <1>4
  <2> QED BY <2>1, <1>7
<1>11. FreeList(u, K)
  <2>1. lo \in Int /\ hi \in Int BY <1>4
  <2> HIDE DEF K
  <2> QED BY <2>1, <1>2, <1>6, <1>7, <1>9, <1>10, StampFrame, Zenon
<1>12. Roomy(J)
  <2>1. Roomy(M) BY <1>7, TilesRoom
  <2> QED BY <2>1, <1>6 DEF Roomy
<1>13. s \in Heaps /\ FreeList(s, J) /\ Rewired(u, s, J)
  <2> HIDE DEF K
  <2> QED BY <1>6, <1>7, <1>11, <1>12, PushList, Zenon
<1> HIDE DEF s
<1>14. Tiles(s, M, e) /\ Unmoved(u, s, M, J)
  <2> HIDE DEF J
  <2> QED BY <1>6, <1>7, <1>13, LinksFrame, Zenon
<1>15. /\ _CVM_SIZE(s, lo) = size /\ _CVM_FREE(s, lo)
       /\ \A c \in M \ {lo} : /\ _CVM_SIZE(s, c) = _CVM_SIZE(h, c)
                              /\ _CVM_FREE(s, c) <=> _CVM_FREE(h, c)
  BY <1>2, <1>6, <1>7, <1>14 DEF Unmoved
<1>16. \A c \in M : c \in Nat /\ (c = lo \/ c < lo \/ c >= hi)
  BY <1>1, <1>4, <1>5, <1>6 DEF Joined
<1>17. FreeOf(s, M) = J
  <2>1. ASSUME NEW c \in M PROVE _CVM_FREE(s, c) <=> c \in J
    <3>1. CASE c = lo BY <3>1, <1>15
    <3>2. CASE c # lo
      BY <3>2, <1>6, <1>15, <1>16 DEF Spare, FreeOf
    <3> QED BY <3>1, <3>2
  <2> QED BY <2>1, <1>6 DEF FreeOf
<1>18. Merged(s, M)
  <2> SUFFICES ASSUME NEW c \in M, _CVM_FREE(s, c), c + _CVM_SIZE(s, c) \in M,
                      _CVM_FREE(s, c + _CVM_SIZE(s, c))
               PROVE  FALSE
    BY DEF Merged
  <2>1. PICK d \in M : d = c + _CVM_SIZE(s, c) /\ _CVM_FREE(s, d) OBVIOUS
  <2>2. CASE c = lo
    <3>1. d = hi BY <2>1, <2>2, <1>4, <1>15
    <3>2. d # lo /\ d \in B BY <3>1, <1>4, <1>6
    <3> QED BY <3>1, <3>2, <2>1, <1>2, <1>15
  <2>3. CASE c # lo
    <3>1. c \in B /\ _CVM_FREE(h, c) /\ d = c + _CVM_SIZE(h, c) BY <2>1, <2>3, <1>6, <1>15
    <3>2. CASE d = lo BY <3>1, <3>2 DEF Fenced
    <3>3. CASE d # lo
      <4>1. d \in B /\ _CVM_FREE(h, d) BY <3>3, <2>1, <1>6, <1>15
      <4> QED BY <3>1, <4>1, <1>0 DEF Merged
    <3> QED BY <3>2, <3>3
  <2> QED BY <2>2, <2>3
<1>19. \A q \in DOMAIN g \ {p} : /\ q \in Nat /\ q - 4 \in M \ {lo} /\ q - 4 \in B
                                 /\ ~_CVM_FREE(h, q - 4) /\ (q - 4 < lo \/ q - 4 >= hi)
  <2> SUFFICES ASSUME NEW q \in DOMAIN g, q # p
               PROVE  /\ q \in Nat /\ q - 4 \in M \ {lo} /\ q - 4 \in B
                      /\ ~_CVM_FREE(h, q - 4) /\ (q - 4 < lo \/ q - 4 >= hi)
    OBVIOUS
  <2>1. Fits(h, B, g, q) BY <1>0 DEF Held
  <2>2. q \in Nat /\ q - 4 \in B BY <2>1 DEF Fits
  <2>3. (q - 4) + 4 = q /\ q - 4 # b BY <2>2, <1>3
  <2>4. ~_CVM_FREE(h, q - 4) BY <2>2, <2>3, <1>0 DEF Held
  <2>5. q - 4 < lo \/ q - 4 >= hi BY <2>2, <2>3, <2>4, <1>2
  <2>6. q - 4 \in M /\ q - 4 # lo BY <2>2, <2>5, <1>4, <1>5 DEF Joined
  <2> QED BY <2>2, <2>4, <2>5, <2>6
<1>20. Held(s, M, g2)
  <2>1. DOMAIN g2 = DOMAIN g \ {p} /\ \A q \in DOMAIN g2 : g2[q] = g[q] OBVIOUS
  <2> HIDE DEF g2
  <2>2. ASSUME NEW c \in M PROVE _CVM_FREE(s, c) <=> c + 4 \notin DOMAIN g2
    <3>1. CASE c = lo
      <4>1. c + 4 \notin DOMAIN g \ {p}
        <5> SUFFICES ASSUME c + 4 \in DOMAIN g \ {p} PROVE FALSE OBVIOUS
        <5>1. (c + 4) - 4 # lo BY <1>19
        <5> QED BY <5>1, <3>1, <1>4
      <4> QED BY <3>1, <4>1, <2>1, <1>15
    <3>2. CASE c # lo
      <4>1. _CVM_FREE(s, c) <=> c + 4 \notin DOMAIN g
        BY <3>2, <1>0, <1>6, <1>15 DEF Held
      <4>2. c # b BY <3>2, <1>4, <1>16, <1>2
      <4>3. c + 4 # p BY <4>2, <1>3, <1>4, <1>16
      <4> QED BY <4>1, <4>3, <2>1
    <3> QED BY <3>1, <3>2
  <2>3. ASSUME NEW q \in DOMAIN g2 PROVE Fits(s, M, g2, q)
    <3>1. q \in DOMAIN g \ {p} /\ g2[q] = g[q] BY <2>1
    <3>2. Fits(h, B, g, q) BY <3>1, <1>0 DEF Held
    <3>3. q - 4 \in M /\ _CVM_SIZE(s, q - 4) = _CVM_SIZE(h, q - 4) BY <3>1, <1>15, <1>19
    <3> QED BY <3>1, <3>2, <3>3 DEF Fits
  <2> QED BY <2>2, <2>3 DEF Held
<1>21. Sound(s, e, g2, M)
  BY <1>13, <1>14, <1>17, <1>18, <1>20 DEF Sound
<1>22. Preserves(h, s, DOMAIN g \ {p})
  <2> SUFFICES ASSUME NEW q \in DOMAIN g \ {p}, NEW k \in Int,
                      q - 4 <= k, k < q - 4 + _CVM_SIZE(h, q - 4)
               PROVE  At(s, k) = At(h, k)
    BY DEF Preserves
  <2>1. PICK c : c = q - 4 OBVIOUS
  <2>2. c \in M \ {lo} /\ c \in B /\ ~_CVM_FREE(h, c) /\ (c < lo \/ c >= hi)
    BY <2>1, <1>19
  <2>3. PICK y : y = _CVM_SIZE(h, c) OBVIOUS
  <2>4. c <= k /\ k < c + y BY <2>1, <2>3
  <2>5. k < lo \/ k >= hi
    <3>1. c \in Nat /\ y \in Nat BY <2>2, <2>3, <1>1
    <3>2. c < lo => c + y <= lo BY <2>2, <2>3, <1>8
    <3> QED BY <3>1, <3>2, <2>2, <2>4, <1>4
  <2>6. At(t, k) = At(h, k) BY <2>2, <2>3, <2>4, <1>2
  <2>7. At(u, k) = At(t, k) BY <2>5, <1>10 DEF Within
  <2>8. c \in M \ J BY <2>2 DEF Spare, FreeOf
  <2>9. _CVM_SIZE(u, c) = y BY <2>2, <2>3, <1>2, <1>7
  <2>10. At(s, k) = At(u, k) BY <2>4, <2>8, <2>9, <1>14 DEF Unmoved
  <2> QED BY <2>6, <2>7, <2>10
<1>23. Released(h, s, e, g, p) BY <1>21, <1>22 DEF Released
<1> QED BY <1>23 DEF s, u

(* cvm_free(p).                                                            *)
LEMMA FreedSound ==
  ASSUME NEW B, Sound(H, heap_end, given, B), NEW p \in DOMAIN given
  PROVE  Released(H, Freed(p), heap_end, given, p)
<1> DEFINE b == p - HDR
           nx == b + _CVM_SIZE(H, b)
           after == nx < heap_end /\ _CVM_FREE(H, nx)
           h1 == IF after THEN _cvm_fl_remove(H, nx) ELSE H
           sz1 == _CVM_SIZE(H, b) + IF after THEN _CVM_SIZE(h1, nx) ELSE 0
           psz == At(h1, b - FTR)
           pb == b - psz
           before == b > HeapStart /\ pb >= HeapStart /\ _CVM_FREE(h1, pb)
           h2 == IF before THEN _cvm_fl_remove(h1, pb) ELSE h1
           start == IF before THEN pb ELSE b
           more == IF before THEN psz ELSE 0
           sz2 == sz1 + more
           hi == b + sz1
<1>1. Freed(p) = _cvm_fl_push(_cvm_stamp(h2, start, sz2, 1), start)
  BY Zenon DEF Freed
<1>2. b \in B /\ ~_CVM_FREE(H, b)
  <2>1. Fits(H, B, given, p) BY DEF Sound, Held
  <2>2. b \in B /\ b + 4 = p BY <2>1 DEF Fits
  <2> QED BY <2>2 DEF Sound, Held
<1>3. Gathered(H, h1, B, heap_end, b, b, hi)
  <2>1. PICK x : x = nx OBVIOUS
  <2>2. PICK t : t = h1 OBVIOUS
  <2>3. PICK y : y = hi OBVIOUS
  <2>4. x = b + _CVM_SIZE(H, b) BY <2>1
  <2>5. t = IF x < heap_end /\ _CVM_FREE(H, x) THEN _cvm_fl_remove(H, x) ELSE H
    BY <2>1, <2>2
  <2>6. y = b + (_CVM_SIZE(H, b) + IF x < heap_end /\ _CVM_FREE(H, x)
                                   THEN _CVM_SIZE(t, x) ELSE 0)
    BY <2>1, <2>2, <2>3
  <2> HIDE DEF b, h1, hi
  <2>7. Gathered(H, t, B, heap_end, b, b, y)
    BY <1>2, <2>4, <2>5, <2>6, JoinNext, Zenon
  <2> QED BY <2>2, <2>3, <2>7
<1>4. /\ Gathered(H, h2, B, heap_end, b, start, hi) /\ Fenced(H, B, start)
      /\ start + more = b /\ more \in Nat
  <2>1. PICK x, y, t, s, lo, mo :
          x = psz /\ y = pb /\ t = h1 /\ s = h2 /\ lo = start /\ mo = more
    OBVIOUS
  <2>2. Back(t, b, x, y, s, lo, mo) BY <2>1 DEF Back
  <2>3. Gathered(H, t, B, heap_end, b, b, hi) BY <1>3, <2>1
  <2> HIDE DEF b, h1, hi
  <2>4. Gathered(H, s, B, heap_end, b, lo, hi) /\ Fenced(H, B, lo) /\ lo + mo = b /\ mo \in Nat
    BY <1>2, <2>2, <2>3, JoinPrev, Zenon
  <2> QED BY <2>1, <2>4, Zenon
<1>5. sz2 = hi - start
  <2> HIDE DEF start, more, h1, after
  <2>1. PICK z : z = _CVM_SIZE(H, b) OBVIOUS
  <2>2. PICK y : y = IF after THEN _CVM_SIZE(h1, nx) ELSE 0 OBVIOUS
  <2>3. b \in Nat /\ z \in Nat /\ start \in Nat
    <3>1. Tiles(H, B, heap_end) /\ H \in Heaps /\ start \in B BY <1>4 DEF Sound, Gathered
    <3> QED BY <1>2, <2>1, <3>1, TilesRoom
  <2>4. y \in Nat
    <3>1. h1 \in Heaps BY <1>3 DEF Gathered
    <3> QED BY <2>2, <3>1, SizeNat
  <2>5. sz2 = z + y + more /\ hi = b + (z + y) BY <2>1, <2>2
  <2>6. start + more = b /\ more \in Nat BY <1>4
  <2> HIDE DEF b, sz2, hi
  <2> QED BY <2>3, <2>4, <2>5, <2>6
<1> HIDE DEF h2, start, sz2, hi, h1
<1>6. Released(H, _cvm_fl_push(_cvm_stamp(h2, start, sz2, 1), start), heap_end, given, p)
  <2>1. b = p - HDR OBVIOUS
  <2> HIDE DEF b
  <2> QED BY <1>4, <1>5, <2>1, MergeSound, Zenon
<1> QED BY <1>1, <1>6

-----------------------------------------------------------------------------
(* No request overflows when header and footer are added to it.            *)
NoOverflow == \A bytes \in Requests : ~Overflows(bytes)

(* The inductive invariant.                                                *)
AllocInv ==
  /\ H \in Heaps /\ inited \in BOOLEAN
  /\ ~inited => H.head = NULL /\ given = << >>
  /\ inited => \E B : Sound(H, heap_end, given, B)

Steps == HeapSize \div MIN

-----------------------------------------------------------------------------
(* Chain and BlockAt are defined by recursion; the functions exist.        *)
LEMMA StepsNat == Steps \in Nat
BY Bounds DEF Steps

(* The walk along the free list.                                           *)
LEMMA ChainSteps ==
  ASSUME NEW h \in Heaps
  PROVE  /\ DOMAIN Chain(h) = 0 .. Steps
         /\ Chain(h)[0] = h.head
         /\ \A n \in 1 .. Steps :
              Chain(h)[n] = IF Chain(h)[n - 1] = NULL THEN NULL
                            ELSE fl_next(h, Chain(h)[n - 1])
<1> DEFINE g == [x \in Word |-> IF x = NULL THEN NULL ELSE fl_next(h, x)]
           F(f) == [n \in 0 .. HeapSize \div MIN |->
                      IF n = 0 THEN h.head
                      ELSE IF f[n - 1] = NULL THEN NULL ELSE fl_next(h, f[n - 1])]
<1>1. h.head \in Word /\ 0 \in Word
  <2>1. h.head \in {NULL} \cup Region /\ 0 \in Word BY Bounds DEF Heaps, Word
  <2> QED BY <2>1, RegionWords
<1>2. g \in [Word -> Word] BY <1>1, ReadWord DEF fl_next
<1>3. \E f : f = F(f)
  <2> HIDE DEF g
  <2>1. PICK f : Iterated(f, Word, h.head, g, Steps) BY <1>1, <1>2, StepsNat, Iterates
  <2>2. /\ f \in [0 .. Steps -> Word] /\ f[0] = h.head
        /\ \A i \in 1 .. Steps : f[i] = g[f[i - 1]] BY <2>1 DEF Iterated
  <2>3. ASSUME NEW n \in 0 .. Steps PROVE f[n] = F(f)[n]
    <3>1. CASE n = 0 BY <2>2, <3>1 DEF Steps
    <3>2. CASE n # 0
      <4>1. n \in 1 .. Steps /\ n - 1 \in 0 .. Steps BY <3>2, StepsNat
      <4>2. f[n] = g[f[n - 1]] /\ f[n - 1] \in Word BY <2>2, <4>1
      <4> QED BY <4>2, <3>2 DEF g, Steps
    <3> QED BY <3>1, <3>2
  <2>4. f = F(f) BY <2>2, <2>3 DEF Steps
  <2> QED BY <2>4
<1>4. Chain(h) = F(Chain(h))
  BY <1>3, Zenon DEF Chain
<1>5. PICK c : c = Chain(h) OBVIOUS
<1>6. c = F(c) BY <1>4, <1>5
<1>7. DOMAIN c = 0 .. Steps BY <1>6 DEF Steps
<1>8. \A n \in 0 .. Steps :
        c[n] = IF n = 0 THEN h.head
               ELSE IF c[n - 1] = NULL THEN NULL ELSE fl_next(h, c[n - 1])
  BY <1>6 DEF Steps
<1>9. c[0] = h.head BY <1>8, StepsNat
<1>10. \A n \in 1 .. Steps : c[n] = IF c[n - 1] = NULL THEN NULL ELSE fl_next(h, c[n - 1])
  BY <1>8, StepsNat
<1> QED BY <1>5, <1>7, <1>9, <1>10

(* The walk stays in the list.                                             *)
LEMMA ChainInList ==
  ASSUME NEW h \in Heaps, NEW L, FreeList(h, L)
  PROVE  \A n \in 0 .. Steps : Chain(h)[n] \in L \cup {NULL}
<1> DEFINE S == {n \in 0 .. Steps : Chain(h)[n] \in L \cup {NULL}}
<1>1. PICK r \in [L -> Nat] : Linked(h, L, r) BY DEF FreeList
<1>2. 0 \in S BY <1>1, ChainSteps, StepsNat DEF Linked
<1>3. \A n \in 1 .. Steps : n - 1 \in S => n \in S
  <2> SUFFICES ASSUME NEW n \in 1 .. Steps, n - 1 \in S
               PROVE  Chain(h)[n] \in L \cup {NULL}
    BY StepsNat
  <2>1. PICK x : x = Chain(h)[n - 1] OBVIOUS
  <2>2. x \in L \cup {NULL} BY <2>1
  <2>3. Chain(h)[n] = IF x = NULL THEN NULL ELSE fl_next(h, x) BY <2>1, ChainSteps
  <2> QED BY <2>2, <2>3, <1>1 DEF Linked
<1> HIDE DEF S
<1>4. \A n \in 0 .. Steps : n \in S BY <1>2, <1>3, StepsNat, UpTo
<1> QED BY <1>4 DEF S
(* Blocks of the region are at least MIN apart, so the list ends within    *)
(* the Steps of the walk: its blocks have different ranks, and there are   *)
(* not so many of them.                                                    *)
LEMMA ChainEnds ==
  ASSUME NEW h \in Heaps, NEW B, NEW e, Tiles(h, B, e), NEW L, L \subseteq B, FreeList(h, L)
  PROVE  Chain(h)[Steps] = NULL
<1> SUFFICES ASSUME Chain(h)[Steps] # NULL PROVE FALSE OBVIOUS
<1>1. PICK r \in [L -> Nat] : Linked(h, L, r) BY DEF FreeList
<1>2. PICK c : c = Chain(h) OBVIOUS
<1>3. /\ c[0] = h.head
      /\ \A n \in 1 .. Steps : c[n] = IF c[n - 1] = NULL THEN NULL ELSE fl_next(h, c[n - 1])
  BY <1>2, ChainSteps
<1>4. \A n \in 0 .. Steps : c[n] \in L \cup {NULL} BY <1>2, ChainInList
<1> DEFINE Before(n) == \A i \in 0 .. n - 1 : c[i] \in L /\ r[c[i]] < r[c[n]]
           S == {n \in 0 .. Steps : c[n] # NULL => Before(n)}
<1>5. 0 \in S BY StepsNat
<1>6. \A n \in 1 .. Steps : n - 1 \in S => n \in S
  <2> SUFFICES ASSUME NEW n \in 1 .. Steps, n - 1 \in S, c[n] # NULL,
                      NEW i \in 0 .. n - 1
               PROVE  c[i] \in L /\ r[c[i]] < r[c[n]]
    BY StepsNat
  <2>1. PICK x, y : x = c[n - 1] /\ y = c[n] OBVIOUS
  <2>2. x # NULL /\ y # NULL /\ y = fl_next(h, x) BY <2>1, <1>3
  <2>3. x \in L /\ y \in L
    <3>1. n - 1 \in 0 .. Steps /\ n \in 0 .. Steps BY StepsNat
    <3> QED BY <3>1, <2>1, <2>2, <1>4
  <2>4. r[x] < r[y] /\ r[x] \in Nat /\ r[y] \in Nat BY <2>2, <2>3, <1>1 DEF Linked
  <2>5. CASE i = n - 1 BY <2>5, <2>1, <2>3, <2>4
  <2>6. CASE i # n - 1
    <3>1. i \in 0 .. (n - 1) - 1 BY <2>6, StepsNat
    <3>2. Before(n - 1) BY <2>1, <2>2
    <3>3. c[i] \in L /\ r[c[i]] < r[x] BY <3>1, <3>2, <2>1
    <3>4. r[c[i]] \in Nat BY <3>3
    <3> QED BY <3>3, <3>4, <2>1, <2>4
  <2> QED BY <2>5, <2>6
<1>7. Before(Steps) /\ c[Steps] \in L
  <2> HIDE DEF S
  <2>1. \A n \in 0 .. Steps : n \in S BY <1>5, <1>6, StepsNat, UpTo
  <2>2. Steps \in S BY <2>1, StepsNat
  <2> QED BY <2>2, <1>2, <1>4, StepsNat DEF S
<1>8. \A n \in 0 .. Steps : c[n] \in L /\ c[n] \in B
  <2> SUFFICES ASSUME NEW n \in 0 .. Steps PROVE c[n] \in L OBVIOUS
  <2>1. n = Steps \/ n \in 0 .. Steps - 1 BY StepsNat
  <2> QED BY <2>1, <1>7
<1>9. \A i, n \in 0 .. Steps : i < n => c[i] # c[n]
  <2> SUFFICES ASSUME NEW i \in 0 .. Steps, NEW n \in 0 .. Steps, i < n, c[i] = c[n]
               PROVE  FALSE
    OBVIOUS
  <2> HIDE DEF S
  <2>1. n \in S BY <1>5, <1>6, StepsNat, UpTo
  <2>2. c[n] # NULL
    <3>1. Roomy(L) /\ c[n] \in L BY <1>8 DEF FreeList
    <3> QED BY <3>1, RoomyApart
  <2>3. i \in 0 .. n - 1 BY StepsNat
  <2>4. r[c[i]] < r[c[n]] BY <2>1, <2>2, <2>3 DEF S
  <2>5. r[c[n]] \in Nat BY <1>8
  <2> QED BY <2>4, <2>5
<1>10. \A b \in B : /\ b \in Nat /\ b >= HeapStart
                    /\ b + 16 <= HeapStart + HeapSize
  <2> SUFFICES ASSUME NEW b \in B
               PROVE  b \in Nat /\ b >= HeapStart /\ b + 16 <= HeapStart + HeapSize
    OBVIOUS
  <2>1. PICK z : z = _CVM_SIZE(h, b) OBVIOUS
  <2>2. b \in Nat /\ z \in Nat /\ z >= 16 /\ b + z <= e /\ HeapStart <= b
    BY <2>1, TilesRoom
  <2>3. e \in Nat /\ e <= HeapStart + Total BY DEF Tiles
  <2> QED BY <2>2, <2>3, Bounds
<1>11. \A b, d \in B : b < d => b + 16 <= d
  BY TilesRoom DEF Roomy
<1> DEFINE f == [n \in 0 .. Steps |-> (c[n] - HeapStart) \div 16]
<1>12. f \in [0 .. Steps -> 0 .. Steps - 1]
  <2> SUFFICES ASSUME NEW n \in 0 .. Steps
               PROVE  (c[n] - HeapStart) \div 16 \in 0 .. Steps - 1
    OBVIOUS
  <2>1. PICK b \in B : b = c[n] BY <1>8
  <2>2. b \in Nat /\ b >= HeapStart /\ b + 16 <= HeapStart + HeapSize BY <1>10
  <2>3. (b - HeapStart) \div 16 \in 0 .. HeapSize \div 16 - 1 BY <2>2, Bounds
  <2> QED BY <2>1, <2>3 DEF Steps
<1>13. PICK i, n \in 0 .. Steps : i # n /\ f[i] = f[n]
  <2>1. /\ IsFiniteSet(0 .. Steps) /\ Cardinality(0 .. Steps) = Steps + 1
        /\ IsFiniteSet(0 .. Steps - 1) /\ Cardinality(0 .. Steps - 1) = Steps
    <3>1. /\ 0 \in Int /\ Steps \in Int /\ Steps - 1 \in Int
          /\ Steps - 0 + 1 = Steps + 1 /\ Steps - 1 - 0 + 1 = Steps
          /\ ~(0 > Steps) /\ (0 > Steps - 1 => Steps = 0)
      BY StepsNat
    <3> QED BY <3>1, FS_Interval
  <2>2. Cardinality(0 .. Steps - 1) < Cardinality(0 .. Steps) BY <2>1, StepsNat
  <2> HIDE DEF f
  <2> QED BY <2>1, <2>2, <1>12, FS_PigeonHole, Zenon
<1>14. PICK b, d \in B : b = c[i] /\ d = c[n] BY <1>8
<1>15. (b - HeapStart) \div 16 = (d - HeapStart) \div 16 /\ b # d
  <2>1. i < n \/ n < i BY <1>13
  <2> QED BY <2>1, <1>9, <1>13, <1>14
<1>16. b < d \/ d < b BY <1>10, <1>15
<1>17. b + 16 <= d \/ d + 16 <= b BY <1>11, <1>16
<1> QED BY <1>10, <1>15, <1>17, Bounds

(* Every block of the list is reached, before the walk ends.               *)
LEMMA ChainReaches ==
  ASSUME NEW h \in Heaps, NEW B, NEW e, Tiles(h, B, e), NEW L, L \subseteq B, FreeList(h, L),
         NEW b \in L
  PROVE  \E n \in 0 .. Steps : Chain(h)[n] = b
<1>1. PICK r \in [L -> Nat] : Linked(h, L, r) BY DEF FreeList
<1>2. PICK c : c = Chain(h) OBVIOUS
<1>3. /\ c[0] = h.head
      /\ \A n \in 1 .. Steps : c[n] = IF c[n - 1] = NULL THEN NULL ELSE fl_next(h, c[n - 1])
      /\ c[Steps] = NULL
  BY <1>2, ChainSteps, ChainEnds
<1> DEFINE Lost == {d \in L : \A n \in 0 .. Steps : c[n] # d}
           T == {r[d] : d \in Lost}
<1> SUFFICES ASSUME b \in Lost PROVE FALSE BY <1>2
<1>4. T \subseteq Nat /\ T # {} OBVIOUS
<1>5. PICK x \in T : \A y \in T : x <= y
  <2> HIDE DEF T
  <2> QED BY <1>4, Least, Zenon
<1>6. PICK d \in Lost : x = r[d] OBVIOUS
<1>7. d \in L /\ \A n \in 0 .. Steps : c[n] # d BY <1>6
<1>8. h.head # d BY <1>3, <1>7, StepsNat
<1>9. PICK p \in L : p = fl_prev(h, d) /\ fl_next(h, p) = d /\ r[p] < r[d]
  BY <1>1, <1>7, <1>8 DEF Linked
<1>10. p \notin Lost
  <2>1. p \in Lost => r[d] <= r[p] BY <1>5, <1>6
  <2>2. r[p] \in Nat /\ r[d] \in Nat BY <1>7
  <2> QED BY <2>1, <2>2, <1>9
<1>11. PICK n \in 0 .. Steps : c[n] = p BY <1>10
<1>12. p # NULL
  <2>1. Roomy(L) BY DEF FreeList
  <2> QED BY <2>1, RoomyApart
<1>13. n # Steps BY <1>3, <1>11, <1>12
<1>14. n + 1 \in 1 .. Steps /\ n + 1 \in 0 .. Steps /\ (n + 1) - 1 = n BY <1>13, StepsNat
<1>15. c[n + 1] = d BY <1>3, <1>9, <1>11, <1>12, <1>14
<1> QED BY <1>7, <1>14, <1>15

(* The walk over the blocks of a tiled region sees each, then its end.     *)
LEMMA BlockSteps ==
  ASSUME NEW h \in Heaps, heap_end \in Nat
  PROVE  /\ BlockAt(h)[0] = HeapStart
         /\ \A n \in 1 .. Steps :
              BlockAt(h)[n] = IF BlockAt(h)[n - 1] >= heap_end THEN heap_end
                              ELSE BlockAt(h)[n - 1] + _CVM_SIZE(h, BlockAt(h)[n - 1])
<1> DEFINE g == [x \in Nat |-> IF x >= heap_end THEN heap_end ELSE x + _CVM_SIZE(h, x)]
           F(f) == [n \in 0 .. HeapSize \div MIN |->
                      IF n = 0 THEN HeapStart
                      ELSE IF f[n - 1] >= heap_end THEN heap_end
                           ELSE f[n - 1] + _CVM_SIZE(h, f[n - 1])]
<1>1. HeapStart \in Nat BY Bounds
<1>2. g \in [Nat -> Nat]
  <2> SUFFICES ASSUME NEW x \in Nat
               PROVE  (IF x >= heap_end THEN heap_end ELSE x + _CVM_SIZE(h, x)) \in Nat
    OBVIOUS
  <2>1. PICK z \in Nat : z = _CVM_SIZE(h, x) BY SizeNat
  <2> QED BY <2>1
<1>3. \E f : f = F(f)
  <2> HIDE DEF g, F
  <2>1. PICK f : Iterated(f, Nat, HeapStart, g, Steps) BY <1>1, <1>2, StepsNat, Iterates
  <2>2. /\ f \in [0 .. Steps -> Nat] /\ f[0] = HeapStart
        /\ \A i \in 1 .. Steps : f[i] = g[f[i - 1]] BY <2>1 DEF Iterated
  <2>3. ASSUME NEW n \in 0 .. Steps PROVE f[n] = F(f)[n]
    <3>1. CASE n = 0 BY <2>2, <3>1 DEF F, Steps
    <3>2. CASE n # 0
      <4>1. n \in 1 .. Steps /\ n - 1 \in 0 .. Steps BY <3>2, StepsNat
      <4>2. f[n] = g[f[n - 1]] /\ f[n - 1] \in Nat BY <2>2, <4>1
      <4> QED BY <4>2, <3>2 DEF F, g, Steps
    <3> QED BY <3>1, <3>2
  <2>4. f = F(f) BY <2>2, <2>3 DEF F, Steps
  <2> QED BY <2>4
<1>4. BlockAt(h) = F(BlockAt(h))
  BY <1>3, Zenon DEF BlockAt
<1>5. PICK c : c = BlockAt(h) OBVIOUS
<1>6. c = F(c) BY <1>4, <1>5
<1>7. \A n \in 0 .. Steps :
        c[n] = IF n = 0 THEN HeapStart
               ELSE IF c[n - 1] >= heap_end THEN heap_end
                    ELSE c[n - 1] + _CVM_SIZE(h, c[n - 1])
  BY <1>6 DEF Steps
<1>8. c[0] = HeapStart BY <1>7, StepsNat
<1>9. \A n \in 1 .. Steps : c[n] = IF c[n - 1] >= heap_end THEN heap_end
                                   ELSE c[n - 1] + _CVM_SIZE(h, c[n - 1])
  BY <1>7, StepsNat
<1> QED BY <1>5, <1>8, <1>9

LEMMA BlocksExact ==
  ASSUME NEW B, H \in Heaps, Tiles(H, B, heap_end)
  PROVE  Blocks = B
<1>1. heap_end \in Nat /\ heap_end <= HeapStart + Total BY DEF Tiles
<1>2. PICK c : c = BlockAt(H) OBVIOUS
<1>3. /\ c[0] = HeapStart
      /\ \A n \in 1 .. Steps : c[n] = IF c[n - 1] >= heap_end THEN heap_end
                                      ELSE c[n - 1] + _CVM_SIZE(H, c[n - 1])
  BY <1>1, <1>2, BlockSteps
<1>4. \A b \in B : /\ b \in Nat /\ b < heap_end /\ b + 16 <= HeapStart + HeapSize
                   /\ b + _CVM_SIZE(H, b) \in B \cup {heap_end}
                   /\ _CVM_SIZE(H, b) \in Nat /\ _CVM_SIZE(H, b) >= 16
                   /\ ~(b >= heap_end)
  <2> SUFFICES ASSUME NEW b \in B
               PROVE  /\ b \in Nat /\ b < heap_end /\ b + 16 <= HeapStart + HeapSize
                      /\ b + _CVM_SIZE(H, b) \in B \cup {heap_end}
                      /\ _CVM_SIZE(H, b) \in Nat /\ _CVM_SIZE(H, b) >= 16
                      /\ ~(b >= heap_end)
    OBVIOUS
  <2>1. PICK z : z = _CVM_SIZE(H, b) OBVIOUS
  <2>2. b \in Nat /\ z \in Nat /\ z >= 16 /\ b + z <= heap_end BY <2>1, TilesRoom
  <2>3. Whole(H, B, heap_end, b) BY DEF Tiles
  <2>4. b + z \in B \cup {heap_end} BY <2>1, <2>3 DEF Whole
  <2> QED BY <1>1, <2>1, <2>2, <2>4, Bounds
<1> DEFINE S == {n \in 0 .. Steps : /\ c[n] \in B \cup {heap_end}
                                    /\ c[n] = heap_end \/ c[n] >= HeapStart + 16 * n}
<1>5. 0 \in S
  <2>1. HeapStart \in B \cup {heap_end} BY DEF Tiles
  <2> QED BY <1>3, <2>1, StepsNat, Bounds
<1>6. \A n \in 1 .. Steps : n - 1 \in S => n \in S
  <2> SUFFICES ASSUME NEW n \in 1 .. Steps, n - 1 \in S
               PROVE  /\ c[n] \in B \cup {heap_end}
                      /\ c[n] = heap_end \/ c[n] >= HeapStart + 16 * n
    BY StepsNat
  <2>1. PICK x : x = c[n - 1] OBVIOUS
  <2>2. x \in B \cup {heap_end} /\ (x = heap_end \/ x >= HeapStart + 16 * (n - 1)) BY <2>1
  <2>3. c[n] = IF x >= heap_end THEN heap_end ELSE x + _CVM_SIZE(H, x) BY <1>3, <2>1
  <2>4. CASE x = heap_end BY <2>3, <2>4, <1>1
  <2>5. CASE x # heap_end
    <3>1. x \in B BY <2>2, <2>5
    <3>2. PICK z : z = _CVM_SIZE(H, x) OBVIOUS
    <3>3. x \in Nat /\ z \in Nat /\ z >= 16 /\ ~(x >= heap_end) /\ x + z \in B \cup {heap_end}
      BY <3>1, <3>2, <1>4
    <3>4. c[n] = x + z BY <2>3, <3>2, <3>3
    <3>5. x + z >= HeapStart + 16 * n BY <2>2, <2>5, <3>3, Bounds
    <3> QED BY <3>3, <3>4, <3>5
  <2> QED BY <2>4, <2>5
<1>7. \A n \in 0 .. Steps : n \in S
  <2> HIDE DEF S
  <2> QED BY <1>5, <1>6, StepsNat, UpTo
<1>8. c[Steps] \notin B
  <2> SUFFICES ASSUME c[Steps] \in B PROVE FALSE OBVIOUS
  <2>1. PICK x \in B : x = c[Steps] OBVIOUS
  <2>2. x \in Nat /\ x < heap_end /\ x + 16 <= HeapStart + HeapSize BY <1>4
  <2>3. Steps \in S BY <1>7, StepsNat
  <2>4. x = heap_end \/ x >= HeapStart + 16 * Steps BY <2>1, <2>3
  <2> HIDE DEF S
  <2> QED BY <2>2, <2>4, <1>1, Bounds DEF Steps
<1>9. ASSUME NEW b \in B PROVE \E n \in 0 .. Steps : c[n] = b
  <2> DEFINE Lost == {d \in B : \A n \in 0 .. Steps : c[n] # d}
  <2> SUFFICES ASSUME b \in Lost PROVE FALSE OBVIOUS
  <2>1. Lost \subseteq Nat /\ Lost # {} BY <1>4
  <2>2. PICK d \in Lost : \A y \in Lost : d <= y
    <3> HIDE DEF Lost
    <3> QED BY <2>1, Least, Zenon
  <2>3. d \in B /\ \A n \in 0 .. Steps : c[n] # d OBVIOUS
  <2>4. d # HeapStart BY <2>3, <1>3, StepsNat
  <2>5. PICK p \in B : p + _CVM_SIZE(H, p) = d BY <2>3, <2>4 DEF Tiles
  <2>6. PICK z : z = _CVM_SIZE(H, p) OBVIOUS
  <2>7. p \in Nat /\ z \in Nat /\ z >= 16 /\ ~(p >= heap_end) /\ p + z = d /\ d \in Nat
    BY <2>3, <2>5, <2>6, <1>4
  <2>8. p \notin Lost
    <3>1. p \in Lost => d <= p BY <2>2
    <3> QED BY <3>1, <2>7
  <2>9. PICK n \in 0 .. Steps : c[n] = p BY <2>8
  <2>10. n # Steps BY <2>9, <1>8
  <2>11. n + 1 \in 1 .. Steps /\ n + 1 \in 0 .. Steps /\ (n + 1) - 1 = n BY <2>10, StepsNat
  <2>12. c[n + 1] = d BY <1>3, <2>6, <2>7, <2>9, <2>11
  <2> QED BY <2>3, <2>11, <2>12
<1>10. \A n \in 0 .. Steps : c[n] \in B \cup {heap_end} BY <1>7
<1>11. Blocks = {c[n] : n \in 0 .. Steps} \ {heap_end} BY <1>2 DEF Blocks, Steps
<1>12. heap_end \notin B BY <1>1, <1>4
<1> HIDE DEF S
<1> QED BY <1>9, <1>10, <1>11, <1>12

-----------------------------------------------------------------------------
(* What the inductive invariant says of the properties.                    *)
LEMMA InvTypes ==
  ASSUME AllocInv
  PROVE  TypeOK
<1>1. H.mem \in [Region -> Word] /\ H.head \in {NULL} \cup Region BY DEF AllocInv, Heaps
<1>2. DOMAIN given \subseteq Region
  <2>1. CASE ~inited BY <2>1 DEF AllocInv
  <2>2. CASE inited
    <3>1. PICK B : Sound(H, heap_end, given, B) BY <2>2 DEF AllocInv
    <3>2. ASSUME NEW p \in DOMAIN given PROVE p \in Region
      <4>1. Fits(H, B, given, p) BY <3>1 DEF Sound, Held
      <4>2. PICK b \in B : b = p - 4 BY <4>1 DEF Fits
      <4>3. p \in Nat /\ p = b + 4 BY <4>1, <4>2 DEF Fits
      <4>4. Roomy(B) BY <3>1, TilesRoom DEF Sound
      <4> QED BY <4>2, <4>3, <4>4 DEF Roomy
    <3> QED BY <3>2
  <2> QED BY <2>1, <2>2 DEF AllocInv
<1>3. inited \in BOOLEAN BY DEF AllocInv
<1> QED BY <1>1, <1>2, <1>3 DEF TypeOK, Region

LEMMA InvTiles ==
  ASSUME AllocInv
  PROVE  BlocksTile
<1> SUFFICES ASSUME inited
             PROVE  /\ \A b \in Blocks :
                         /\ b + _CVM_SIZE(H, b) <= heap_end /\ _CVM_SIZE(H, b) >= MIN
                         /\ At(H, b + _CVM_SIZE(H, b) - FTR) = _CVM_SIZE(H, b)
                         /\ _CVM_FREE(H, b) # (b + HDR \in DOMAIN given)
                         /\ _CVM_FREE(H, b) => (b + _CVM_SIZE(H, b)) \notin FreeBlocks
                    /\ \A p \in DOMAIN given : p - HDR \in Blocks
  BY DEF BlocksTile
<1>1. PICK B : Sound(H, heap_end, given, B) BY DEF AllocInv
<1>2. Blocks = B BY <1>1, BlocksExact DEF Sound
<1>3. ASSUME NEW b \in B
      PROVE  /\ b + _CVM_SIZE(H, b) <= heap_end /\ _CVM_SIZE(H, b) >= MIN
             /\ At(H, b + _CVM_SIZE(H, b) - FTR) = _CVM_SIZE(H, b)
             /\ _CVM_FREE(H, b) # (b + HDR \in DOMAIN given)
             /\ _CVM_FREE(H, b) => (b + _CVM_SIZE(H, b)) \notin FreeBlocks
  <2>1. Whole(H, B, heap_end, b) BY <1>1 DEF Sound, Tiles
  <2>2. _CVM_FREE(H, b) <=> b + HDR \notin DOMAIN given BY <1>1 DEF Sound, Held
  <2>3. _CVM_FREE(H, b) # (b + HDR \in DOMAIN given) BY <2>2, Zenon DEF _CVM_FREE
  <2>4. _CVM_FREE(H, b) => (b + _CVM_SIZE(H, b)) \notin FreeBlocks
    BY <1>1, <1>2 DEF Sound, Merged, FreeBlocks
  <2> QED BY <2>1, <2>3, <2>4 DEF Whole
<1>4. \A p \in DOMAIN given : p - HDR \in B BY <1>1 DEF Sound, Held, Fits
<1> QED BY <1>2, <1>3, <1>4

LEMMA InvList ==
  ASSUME AllocInv
  PROVE  FreeListExact
<1>1. H \in Heaps BY DEF AllocInv
<1>2. PICK B, e, L : /\ Tiles(H, B, e) /\ L \subseteq B /\ FreeList(H, L)
                     /\ L = IF inited THEN FreeBlocks ELSE {}
  <2>1. CASE ~inited
    <3>1. Tiles(H, {}, HeapStart)
      <4>1. HeapStart - HeapStart = 0 /\ 0 % 4 = 0 /\ HeapStart \in Nat
            /\ HeapStart <= HeapStart + Total
        BY Bounds
      <4> QED BY <4>1 DEF Tiles
    <3>2. FreeList(H, {})
      <4>1. Roomy({}) BY DEF Roomy
      <4>2. [x \in {} |-> 0] \in [{} -> Nat] OBVIOUS
      <4>3. Linked(H, {}, [x \in {} |-> 0]) BY <2>1 DEF Linked, AllocInv
      <4> QED BY <4>1, <4>2, <4>3 DEF FreeList
    <3> QED BY <2>1, <3>1, <3>2
  <2>2. CASE inited
    <3>1. PICK B : Sound(H, heap_end, given, B) BY <2>2 DEF AllocInv
    <3>2. Blocks = B BY <3>1, BlocksExact DEF Sound
    <3>3. FreeOf(H, B) = FreeBlocks BY <3>2 DEF FreeOf, FreeBlocks
    <3>4. FreeOf(H, B) \subseteq B BY DEF FreeOf
    <3> QED BY <2>2, <3>1, <3>3, <3>4 DEF Sound
  <2> QED BY <2>1, <2>2 DEF AllocInv
<1>3. PICK r \in [L -> Nat] : Linked(H, L, r) BY <1>2 DEF FreeList
<1>4. PICK c : c = Chain(H) OBVIOUS
<1>5. /\ DOMAIN c = 0 .. Steps /\ c[0] = H.head /\ c[Steps] = NULL
      /\ \A n \in 1 .. Steps : c[n] = IF c[n - 1] = NULL THEN NULL ELSE fl_next(H, c[n - 1])
  BY <1>1, <1>2, <1>4, ChainSteps, ChainEnds
<1>6. \A n \in 0 .. Steps : c[n] \in L \cup {NULL} BY <1>1, <1>2, <1>4, ChainInList
<1>7. \A b \in L : \E n \in 0 .. Steps : c[n] = b BY <1>1, <1>2, <1>4, ChainReaches
<1>8. NULL \notin L
  <2>1. Roomy(L) BY <1>2 DEF FreeList
  <2> QED BY <2>1, RoomyApart
<1>9. Listed = L
  <2>1. Listed = {c[n] : n \in 0 .. Steps} \ {NULL} BY <1>4 DEF Listed, Steps
  <2> QED BY <2>1, <1>6, <1>7, <1>8
<1>10. ASSUME NEW n \in DOMAIN c \ {0}, c[n] # NULL PROVE fl_prev(H, c[n]) = c[n - 1]
  <2>1. n \in 1 .. Steps /\ n - 1 \in 0 .. Steps BY <1>5, StepsNat
  <2>2. PICK x : x = c[n - 1] OBVIOUS
  <2>3. x # NULL /\ c[n] = fl_next(H, x) /\ x \in L BY <1>5, <1>6, <1>10, <2>1, <2>2
  <2> QED BY <1>3, <1>10, <2>2, <2>3 DEF Linked
<1>11. H.head # NULL => fl_prev(H, H.head) = NULL BY <1>3 DEF Linked
<1>12. c[HeapSize \div MIN] = NULL BY <1>5 DEF Steps
<1> QED BY <1>2, <1>4, <1>9, <1>10, <1>11, <1>12 DEF FreeListExact

-----------------------------------------------------------------------------
(* The words the program may use, and what a step leaves of them.          *)
LEMMA PayloadInside ==
  ASSUME NEW B, Sound(H, heap_end, given, B), NEW p \in DOMAIN given, NEW k \in Payload(p)
  PROVE  /\ k \in Region /\ k \in Nat /\ p \in Nat /\ p - 4 \in B /\ given[p] \in Nat
         /\ p <= k /\ k + 4 <= p + given[p]
         /\ p + given[p] + 4 <= (p - 4) + _CVM_SIZE(H, p - 4)
<1>1. Fits(H, B, given, p) /\ H \in Heaps BY DEF Sound, Held
<1>2. PICK z, n : z = _CVM_SIZE(H, p - 4) /\ n = given[p] OBVIOUS
<1>3. z \in Nat BY <1>1, <1>2, SizeNat
<1>4. p \in Nat /\ p - 4 \in B /\ n \in Nat /\ n + 8 <= z
  <2>1. p \in Nat /\ p - 4 \in B /\ n \in Nat /\ n + 4 + 4 <= z BY <1>1, <1>2 DEF Fits
  <2> QED BY <2>1, <1>3
<1>5. k \in Region /\ k >= p /\ k + 4 <= p + n BY <1>1, <1>2 DEF Payload, Heaps
<1>6. k \in Nat BY <1>5, RegionWords
<1>7. p + n + 4 <= (p - 4) + z BY <1>3, <1>4
<1>8. p <= k BY <1>4, <1>5, <1>6
<1> QED BY <1>2, <1>4, <1>5, <1>6, <1>7, <1>8

(* The words of the blocks in G, which are given out before and after.     *)
LEMMA WordsKept ==
  ASSUME NEW B, Sound(H, heap_end, given, B), H' \in Heaps,
         NEW G, G \subseteq DOMAIN given, G \subseteq DOMAIN given',
         \A q \in G : given'[q] = given[q], Preserves(H, H', G),
         NEW q \in G
  PROVE  Words'[q] = Words[q] /\ Payload(q)' = Payload(q)
<1>1. DOMAIN H.mem = Region /\ DOMAIN H'.mem = Region BY DEF Sound, Heaps
<1>2. Payload(q)' = Payload(q) BY <1>1 DEF Payload
<1>3. ASSUME NEW k \in Payload(q) PROVE H'.mem[k] = H.mem[k]
  <2>1. /\ k \in Region /\ k \in Nat /\ q \in Nat /\ given[q] \in Nat
        /\ q <= k /\ k + 4 <= q + given[q]
        /\ q + given[q] + 4 <= (q - 4) + _CVM_SIZE(H, q - 4)
    BY <1>3, PayloadInside
  <2>2. PICK z, n : z = _CVM_SIZE(H, q - 4) /\ n = given[q] OBVIOUS
  <2>3. z \in Nat BY <2>2, SizeNat DEF Sound
  <2>4. q - 4 <= k /\ k < (q - 4) + z /\ k \in Int BY <2>1, <2>2, <2>3
  <2>5. At(H', k) = At(H, k)
    <3>1. q - HDR <= k /\ k < q - HDR + _CVM_SIZE(H, q - HDR) BY <2>2, <2>4
    <3> QED BY <3>1, <2>4 DEF Preserves
  <2> QED BY <1>1, <2>1, <2>5 DEF At, Peek
<1>4. Words[q] = [k \in Payload(q) |-> H.mem[k]] BY DEF Words
<1>5. Words'[q] = [k \in Payload(q)' |-> H'.mem[k]] BY DEF Words
<1> QED BY <1>2, <1>3, <1>4, <1>5

(* Prepared is the region every call of cvm_malloc starts with.            *)
LEMMA PreparedInv ==
  ASSUME AllocInv
  PROVE  /\ \E B : Sound(Prepared, PreparedEnd, given, B)
         /\ inited => Prepared = H /\ PreparedEnd = heap_end
<1>1. CASE inited BY <1>1 DEF AllocInv, Prepared, PreparedEnd
<1>2. CASE ~inited
  <2>1. H \in Heaps /\ H.head = NULL /\ given = << >> BY <1>2 DEF AllocInv
  <2>2. CASE Total < 16
    <3>1. Prepared = H /\ PreparedEnd = HeapStart BY <1>2, <2>2 DEF Prepared, PreparedEnd
    <3>2. Sound(H, HeapStart, << >>, {}) BY <2>1, <2>2, PreparedSound
    <3> QED BY <1>2, <2>1, <3>1, <3>2
  <2>3. CASE ~(Total < 16)
    <3>1. /\ Prepared = _cvm_fl_push(_cvm_stamp(H, HeapStart, Total, 1), HeapStart)
          /\ PreparedEnd = HeapStart + Total
      BY <1>2, <2>3 DEF Prepared, PreparedEnd
    <3>2. Total >= 16 BY <2>3, Bounds
    <3>3. Sound(_cvm_fl_push(_cvm_stamp(H, HeapStart, Total, 1), HeapStart),
                HeapStart + Total, << >>, {HeapStart})
      BY <2>1, <3>2, PreparedSound
    <3> QED BY <1>2, <2>1, <3>1, <3>3
  <2> QED BY <2>2, <2>3
<1> QED BY <1>1, <1>2 DEF AllocInv

-----------------------------------------------------------------------------
(* The steps keep the invariant, and are steps of an allocator that keeps  *)
(* its promise.                                                            *)
NewGiven(bytes, p) ==
  [q \in DOMAIN given \cup {p} |-> IF q = p THEN bytes ELSE given[q]]

(* cvm_malloc returns NULL with the region as it was prepared, or a block. *)
LEMMA MallocOutcome ==
  ASSUME AllocInv, NoOverflow, NEW bytes \in Requests, NEW p, Malloc(bytes, p)
  PROVE  /\ inited' = TRUE /\ heap_end' = PreparedEnd
         /\ \/ p = NULL /\ H' = Prepared
            \/ /\ bytes \in Nat /\ bytes > 0 /\ p # NULL
               /\ p \notin DOMAIN given /\ Preserves(H, H', DOMAIN given)
               /\ \E M : Sound(H', heap_end', NewGiven(bytes, p), M)
<1>1. inited' = TRUE /\ heap_end' = PreparedEnd BY DEF Malloc
<1> DEFINE at == Chain(Prepared)
           w == want(bytes)
           fit == {n \in DOMAIN at : at[n] # NULL /\ _CVM_SIZE(Prepared, at[n]) >= w}
<1>2. \/ p = NULL /\ H' = Prepared
      \/ bytes > 0 /\ \E n \in fit : p = at[n] + HDR /\ H' = Carve(Prepared, at[n], w)
  BY DEF Malloc
<1>3. ASSUME bytes > 0, NEW n \in fit, p = at[n] + HDR, H' = Carve(Prepared, at[n], w)
      PROVE  /\ bytes \in Nat /\ bytes > 0 /\ p # NULL
             /\ p \notin DOMAIN given /\ Preserves(H, H', DOMAIN given)
             /\ \E M : Sound(H', heap_end', NewGiven(bytes, p), M)
  <2>1. PICK B : Sound(Prepared, PreparedEnd, given, B) BY PreparedInv
  <2>2. /\ Prepared \in Heaps /\ Tiles(Prepared, B, PreparedEnd)
        /\ FreeList(Prepared, FreeOf(Prepared, B))
    BY <2>1 DEF Sound
  <2>3. PICK b : b = at[n] OBVIOUS
  <2>4. b \in FreeOf(Prepared, B) /\ _CVM_SIZE(Prepared, b) >= w
    <3>1. DOMAIN at = 0 .. Steps BY <2>2, ChainSteps
    <3>2. n \in 0 .. Steps /\ at[n] # NULL BY <3>1
    <3>3. at[n] \in FreeOf(Prepared, B) \cup {NULL} BY <2>2, <3>2, ChainInList
    <3> QED BY <2>3, <3>2, <3>3
  <2>5. b \in B /\ _CVM_FREE(Prepared, b) BY <2>4 DEF FreeOf
  <2>6. bytes \in Nat /\ bytes \in Int /\ ~Overflows(bytes)
    BY <1>3, RegionAssumption DEF NoOverflow
  <2>7. w \in Nat /\ w >= 16 /\ w % 4 = 0 /\ bytes + 8 <= w BY <1>3, <2>6, Wanted
  <2>8. w <= _CVM_SIZE(Prepared, b)
    <3>1. PICK z \in Nat : z = _CVM_SIZE(Prepared, b) BY <2>2, SizeNat
    <3> QED BY <3>1, <2>4, <2>7
  <2>9. PICK s : s = Carve(Prepared, b, w) OBVIOUS
  <2>10. /\ p \notin DOMAIN given
         /\ \E M : Sound(s, PreparedEnd, NewGiven(bytes, p), M)
         /\ Preserves(Prepared, s, DOMAIN given)
    <3> HIDE DEF at, w, fit
    <3>1. PICK x : x = w OBVIOUS
    <3>2. x \in Nat /\ x >= 16 /\ x % 4 = 0 /\ bytes + 8 <= x /\ x <= _CVM_SIZE(Prepared, b)
      BY <3>1, <2>7, <2>8
    <3>3. PICK y : y = b + HDR OBVIOUS
    <3>4. /\ b + HDR \notin DOMAIN given
          /\ \E M : Sound(Carve(Prepared, b, x), PreparedEnd,
                          [q \in DOMAIN given \cup {b + HDR} |->
                             IF q = b + HDR THEN bytes ELSE given[q]], M)
          /\ Preserves(Prepared, Carve(Prepared, b, x), DOMAIN given)
      BY <1>3, <2>1, <2>5, <2>6, <3>2, CarveSound
    <3> QED BY <1>3, <2>3, <2>9, <3>1, <3>4 DEF NewGiven
  <2>11. Preserves(H, s, DOMAIN given)
    <3>1. CASE inited BY <3>1, <2>10, PreparedInv
    <3>2. CASE ~inited BY <3>2 DEF AllocInv, Preserves
    <3> QED BY <3>1, <3>2 DEF AllocInv
  <2>12. H' = s BY <1>3, <2>3, <2>9
  <2>13. p # NULL
    <3>1. b \in Nat BY <2>2, <2>5, TilesRoom
    <3> QED BY <3>1, <1>3, <2>3
  <2> QED BY <1>1, <1>3, <2>6, <2>10, <2>11, <2>12, <2>13
<1> QED BY <1>1, <1>2, <1>3

(* The program writes into its own block only.                             *)
LEMMA WriteSound ==
  ASSUME NEW B, Sound(H, heap_end, given, B), NEW p \in DOMAIN given, NEW v \in Word
  PROVE  LET s == [H EXCEPT !.mem = [k \in DOMAIN @ |-> IF k \in Payload(p) THEN v ELSE @[k]]]
         IN  /\ Sound(s, heap_end, given, B)
             /\ \A k : At(s, k) = IF k \in Payload(p) THEN v ELSE At(H, k)
             /\ Preserves(H, s, DOMAIN given \ {p})
<1> DEFINE s == [H EXCEPT !.mem = [k \in DOMAIN @ |-> IF k \in Payload(p) THEN v ELSE @[k]]]
<1>0. /\ H \in Heaps /\ Tiles(H, B, heap_end) /\ FreeList(H, FreeOf(H, B))
      /\ Merged(H, B) /\ Held(H, B, given)
  BY DEF Sound
<1>1. /\ H.mem \in [Region -> Word] /\ H.head \in {NULL} \cup Region
      /\ H = [mem |-> H.mem, head |-> H.head]
  BY <1>0 DEF Heaps
<1>2. s = [mem |-> [k \in Region |-> IF k \in Payload(p) THEN v ELSE H.mem[k]],
           head |-> H.head]
  BY <1>1
<1>3. s \in Heaps /\ s.head = H.head BY <1>1, <1>2 DEF Heaps
<1>4. Payload(p) \subseteq Region BY <1>1 DEF Payload
<1>5. \A k : At(s, k) = IF k \in Payload(p) THEN v ELSE At(H, k)
  BY <1>1, <1>2, <1>4 DEF At, Peek
<1> HIDE DEF s
<1>6. PICK b : b = p - 4 OBVIOUS
<1>7. \A k \in Payload(p) : /\ k \in Nat /\ b \in B /\ b < k /\ k < b + _CVM_SIZE(H, b) - 4
  <2> SUFFICES ASSUME NEW k \in Payload(p)
               PROVE  k \in Nat /\ b \in B /\ b < k /\ k < b + _CVM_SIZE(H, b) - 4
    OBVIOUS
  <2>1. /\ k \in Nat /\ p \in Nat /\ b \in B /\ given[p] \in Nat
        /\ p <= k /\ k + 4 <= p + given[p] /\ p + given[p] + 4 <= b + _CVM_SIZE(H, b)
    BY <1>6, PayloadInside
  <2>2. PICK z \in Nat : z = _CVM_SIZE(H, b) BY <1>0, SizeNat
  <2>3. PICK n : n = given[p] OBVIOUS
  <2> QED BY <2>1, <2>2, <2>3, <1>6
<1>8. \A c \in B : \A k \in Int :
        c # b /\ c <= k /\ k < c + _CVM_SIZE(H, c) => At(s, k) = At(H, k)
  <2> SUFFICES ASSUME NEW c \in B, NEW k \in Int, c # b, c <= k, k < c + _CVM_SIZE(H, c)
               PROVE  k \notin Payload(p)
    BY <1>5
  <2> SUFFICES ASSUME k \in Payload(p) PROVE FALSE OBVIOUS
  <2>1. b \in B /\ b < k /\ k < b + _CVM_SIZE(H, b) - 4 BY <1>7
  <2>2. PICK z \in Nat : z = _CVM_SIZE(H, b) BY <1>0, SizeNat
  <2>3. b \in Nat BY <2>1, <1>0, TilesRoom
  <2>4. b <= k /\ k < b + _CVM_SIZE(H, b) BY <2>1, <2>2, <2>3
  <2> QED BY <2>1, <2>4, <1>0, BlocksApart
<1>9. \A c \in B : /\ At(s, c) = At(H, c)
                   /\ At(s, c + _CVM_SIZE(H, c) - 4) = At(H, c + _CVM_SIZE(H, c) - 4)
  <2> SUFFICES ASSUME NEW c \in B
               PROVE  /\ At(s, c) = At(H, c)
                      /\ At(s, c + _CVM_SIZE(H, c) - 4) = At(H, c + _CVM_SIZE(H, c) - 4)
    OBVIOUS
  <2>1. PICK z : z = _CVM_SIZE(H, c) OBVIOUS
  <2>2. c \in Nat /\ z \in Nat /\ z >= 16 BY <2>1, <1>0, TilesRoom
  <2>3. CASE c = b
    <3>1. c \notin Payload(p) /\ c + z - 4 \notin Payload(p) BY <2>1, <2>2, <2>3, <1>7
    <3> QED BY <3>1, <2>1, <1>5
  <2>4. CASE c # b
    <3>1. /\ c \in Int /\ c <= c /\ c < c + z
          /\ c + z - 4 \in Int /\ c <= c + z - 4 /\ c + z - 4 < c + z
      BY <2>2
    <3> QED BY <3>1, <2>1, <2>4, <1>8
  <2> QED BY <2>3, <2>4
<1>10. /\ Tiles(s, B, heap_end)
       /\ \A c \in B : /\ _CVM_SIZE(s, c) = _CVM_SIZE(H, c)
                       /\ _CVM_FREE(s, c) <=> _CVM_FREE(H, c)
  BY <1>0, <1>3, <1>9, TilesFrame
<1>11. p \in Nat /\ b \in B /\ p = b + 4 /\ ~_CVM_FREE(H, b)
  <2>1. Fits(H, B, given, p) BY <1>0 DEF Held
  <2>2. p \in Nat /\ b \in B /\ p = b + 4 BY <2>1, <1>6 DEF Fits
  <2>3. b + 4 \in DOMAIN given BY <2>2
  <2> QED BY <2>2, <2>3, <1>0 DEF Held
<1>12. FreeOf(s, B) = FreeOf(H, B) BY <1>10 DEF FreeOf
<1>13. FreeList(s, FreeOf(s, B))
  <2>1. ASSUME NEW c \in FreeOf(H, B)
        PROVE  At(s, c + 4) = At(H, c + 4) /\ At(s, c + 8) = At(H, c + 8)
    <3>1. c \in B /\ c # b BY <1>11 DEF FreeOf
    <3>2. PICK z : z = _CVM_SIZE(H, c) OBVIOUS
    <3>3. c \in Nat /\ z \in Nat /\ z >= 16 BY <3>1, <3>2, <1>0, TilesRoom
    <3>4. /\ c + 4 \in Int /\ c <= c + 4 /\ c + 4 < c + z
          /\ c + 8 \in Int /\ c <= c + 8 /\ c + 8 < c + z
      BY <3>3
    <3> QED BY <3>1, <3>2, <3>4, <1>8
  <2> QED BY <2>1, <1>0, <1>3, <1>12, ListFrame
<1>14. Merged(s, B) BY <1>0, <1>10 DEF Merged
<1>15. Held(s, B, given) BY <1>0, <1>10 DEF Held, Fits
<1>16. Preserves(H, s, DOMAIN given \ {p})
  <2> SUFFICES ASSUME NEW q \in DOMAIN given \ {p}, NEW k \in Int,
                      q - 4 <= k, k < q - 4 + _CVM_SIZE(H, q - 4)
               PROVE  At(s, k) = At(H, k)
    BY DEF Preserves
  <2>1. Fits(H, B, given, q) BY <1>0 DEF Held
  <2>2. q \in Nat /\ q - 4 \in B BY <2>1 DEF Fits
  <2>3. q - 4 # b BY <2>2, <1>11
  <2> QED BY <2>2, <2>3, <1>8
<1> QED BY <1>3, <1>5, <1>10, <1>13, <1>14, <1>15, <1>16 DEF Sound, s

LEMMA InitInv ==
  ASSUME Init
  PROVE  AllocInv
<1>1. H = [mem |-> [k \in Region |-> 0], head |-> NULL] BY DEF Init, Region
<1>2. 0 \in Word BY Bounds DEF Word
<1>3. H \in Heaps /\ H.head = NULL BY <1>1, <1>2 DEF Heaps
<1> QED BY <1>3 DEF Init, AllocInv

(* A step is one of the program's requests, or changes nothing the program *)
(* holds.                                                                  *)
Kept == given' = given /\ Words' = Words

LEMMA NothingHeld ==
  ASSUME given = << >>, given' = given
  PROVE  Kept
<1>1. DOMAIN given = {} /\ DOMAIN given' = {} OBVIOUS
<1>2. Words = [p \in DOMAIN given |-> [k \in Payload(p) |-> H.mem[k]]] BY DEF Words
<1>3. Words' = [p \in DOMAIN given' |-> [k \in Payload(p)' |-> H'.mem[k]]] BY DEF Words
<1>4. Words = [p \in {} |-> 0] BY <1>1, <1>2
<1>5. Words' = [p \in {} |-> 0] BY <1>1, <1>3
<1> QED BY <1>4, <1>5 DEF Kept

LEMMA Unchanged ==
  ASSUME H' = H, given' = given
  PROVE  Kept
BY DEF Kept, Words, Payload

(* cvm_alloc_init.                                                         *)
LEMMA StepInit ==
  ASSUME AllocInv, cvm_alloc_init
  PROVE  AllocInv' /\ Kept
<1>1. PICK B : Sound(Prepared, PreparedEnd, given, B) BY PreparedInv
<1>2. H' = Prepared /\ heap_end' = PreparedEnd /\ inited' = TRUE /\ given' = given /\ ~inited
  BY DEF cvm_alloc_init
<1>3. Sound(H', heap_end', given', B) BY <1>1, <1>2
<1>4. AllocInv' BY <1>2, <1>3 DEF AllocInv, Sound
<1>5. given = << >> BY <1>2 DEF AllocInv
<1> QED BY <1>2, <1>4, <1>5, NothingHeld

(* cvm_malloc: the new block is apart from the others.                     *)
LEMMA StepMalloc ==
  ASSUME AllocInv, NoOverflow, NEW bytes \in Requests, cvm_malloc(bytes)
  PROVE  AllocInv' /\ (Kept \/ Promise!Give(bytes))
<1>1. PICK p : /\ Malloc(bytes, p)
               /\ given' = IF p = NULL THEN given ELSE NewGiven(bytes, p)
  BY DEF cvm_malloc, NewGiven
<1>2. inited' = TRUE /\ heap_end' = PreparedEnd BY <1>1, MallocOutcome
<1>3. CASE p = NULL
  <2>1. H' = Prepared /\ given' = given BY <1>1, <1>3, MallocOutcome
  <2>2. PICK B : Sound(Prepared, PreparedEnd, given, B) BY PreparedInv
  <2>3. Sound(H', heap_end', given', B) BY <1>2, <2>1, <2>2
  <2>4. AllocInv' BY <1>2, <2>3 DEF AllocInv, Sound
  <2>5. CASE inited BY <2>1, <2>4, <2>5, PreparedInv, Unchanged
  <2>6. CASE ~inited
    <3>1. given = << >> BY <2>6 DEF AllocInv
    <3> QED BY <2>1, <2>4, <3>1, NothingHeld
  <2> QED BY <2>5, <2>6 DEF AllocInv
<1>4. CASE p # NULL
  <2>1. /\ bytes \in Nat /\ bytes > 0
        /\ p \notin DOMAIN given /\ Preserves(H, H', DOMAIN given)
        /\ \E M : Sound(H', heap_end', NewGiven(bytes, p), M)
    <3>1. Malloc(bytes, p) BY <1>1
    <3>2. \/ p = NULL /\ H' = Prepared
          \/ /\ bytes \in Nat /\ bytes > 0 /\ p # NULL
             /\ p \notin DOMAIN given /\ Preserves(H, H', DOMAIN given)
             /\ \E M : Sound(H', heap_end', NewGiven(bytes, p), M)
      BY <3>1, MallocOutcome
    <3> QED BY <3>2, <1>4
  <2>2. given' = NewGiven(bytes, p) BY <1>1, <1>4
  <2>3. PICK M : Sound(H', heap_end', given', M) BY <2>1, <2>2
  <2>4. AllocInv' BY <1>2, <2>3 DEF AllocInv, Sound
  <2>5. /\ DOMAIN given' = DOMAIN given \cup {p} /\ given'[p] = bytes
        /\ \A q \in DOMAIN given : given'[q] = given[q]
    BY <2>1, <2>2 DEF NewGiven
  <2>6. PICK g, h, e : g = given' /\ h = H' /\ e = heap_end' OBVIOUS
  <2>7. /\ Sound(h, e, g, M) /\ h \in Heaps /\ Tiles(h, M, e) /\ Held(h, M, g)
    BY <2>3, <2>6 DEF Sound
  <2>8. ASSUME NEW q \in DOMAIN g
        PROVE  /\ q \in Nat /\ q - 4 \in M /\ g[q] \in Nat /\ q >= HeapStart + 4
               /\ g[q] + 8 <= _CVM_SIZE(h, q - 4) /\ _CVM_SIZE(h, q - 4) \in Nat
               /\ (q - 4) + _CVM_SIZE(h, q - 4) <= HeapStart + HeapSize
    <3>1. Fits(h, M, g, q) BY <2>7, <2>8 DEF Held
    <3>2. PICK b, z, n : b = q - 4 /\ z = _CVM_SIZE(h, b) /\ n = g[q] OBVIOUS
    <3>3. q \in Nat /\ b \in M /\ n \in Nat /\ n + 4 + 4 <= z BY <3>1, <3>2 DEF Fits
    <3>4. b \in Nat /\ HeapStart <= b /\ b + z <= e /\ z \in Nat
      BY <2>7, <3>2, <3>3, TilesRoom
    <3>5. e \in Nat /\ e <= HeapStart + Total BY <2>7 DEF Tiles
    <3> QED BY <3>2, <3>3, <3>4, <3>5, Bounds
  <2>9. p \in HeapStart .. (HeapStart + HeapSize) - bytes
    <3>1. p \in DOMAIN g /\ g[p] = bytes BY <2>5, <2>6
    <3>2. PICK z : z = _CVM_SIZE(h, p - 4) OBVIOUS
    <3>3. /\ p \in Nat /\ p >= HeapStart + 4 /\ z \in Nat /\ bytes + 8 <= z
          /\ (p - 4) + z <= HeapStart + HeapSize
      BY <2>8, <3>1, <3>2
    <3> QED BY <2>1, <3>3, Bounds
  <2>10. ASSUME NEW q \in DOMAIN given
         PROVE  Promise!Bytes(p, bytes) \cap Promise!Bytes(q, given[q]) = {}
    <3>1. q \in DOMAIN g /\ p \in DOMAIN g /\ q # p /\ g[q] = given[q] /\ g[p] = bytes
      BY <2>1, <2>5, <2>6
    <3>2. PICK y, z, n : y = _CVM_SIZE(h, p - 4) /\ z = _CVM_SIZE(h, q - 4) /\ n = given[q]
      OBVIOUS
    <3>3. p \in Nat /\ p - 4 \in M /\ y \in Nat /\ bytes + 8 <= y BY <2>8, <3>1, <3>2
    <3>4. q \in Nat /\ q - 4 \in M /\ z \in Nat /\ n \in Nat /\ n + 8 <= z
      BY <2>8, <3>1, <3>2
    <3>5. (p - 4) + y <= q - 4 \/ p - 4 >= (q - 4) + z
      <4>1. p - 4 # q - 4 BY <3>1, <3>3, <3>4
      <4> QED BY <2>7, <3>2, <3>3, <3>4, <4>1, Beside
    <3>6. (p .. p + bytes - 1) \cap (q .. q + n - 1) = {}
      BY <2>1, <3>3, <3>4, <3>5
    <3> QED BY <3>2, <3>6 DEF Promise!Bytes
  <2>11. \A q \in DOMAIN given : Words'[q] = Words[q]
    <3>1. CASE inited
      <4>1. PICK B : Sound(H, heap_end, given, B) BY <3>1 DEF AllocInv
      <4>2. H' \in Heaps BY <2>6, <2>7
      <4>3. DOMAIN given \subseteq DOMAIN given /\ DOMAIN given \subseteq DOMAIN given'
        BY <2>5
      <4> QED BY <2>1, <2>5, <4>1, <4>2, <4>3, WordsKept
    <3>2. CASE ~inited BY <3>2 DEF AllocInv
    <3> QED BY <3>1, <3>2 DEF AllocInv
  <2>12. DOMAIN Words' = DOMAIN given' BY DEF Words
  <2>13. Promise!Give(bytes)
    <3>1. /\ p \notin DOMAIN given
          /\ \A q \in DOMAIN given : Promise!Bytes(p, bytes) \cap Promise!Bytes(q, given[q]) = {}
          /\ given' = [q \in DOMAIN given \cup {p} |-> IF q = p THEN bytes ELSE given[q]]
          /\ DOMAIN Words' = DOMAIN given'
          /\ \A q \in DOMAIN given : Words'[q] = Words[q]
      BY <2>1, <2>2, <2>10, <2>11, <2>12 DEF NewGiven
    <3> QED BY <2>9, <3>1, Zenon DEF Promise!Give
  <2> QED BY <2>4, <2>13
<1> QED BY <1>3, <1>4

(* cvm_free(p) of a block the program was given.                           *)
LEMMA StepFree ==
  ASSUME AllocInv, NEW p, p # NULL \/ ~UNCHANGED <<H, given>>, cvm_free(p)
  PROVE  AllocInv' /\ p \in DOMAIN given /\ Promise!Take(p)
<1>1. /\ p \in DOMAIN given /\ H' = Freed(p)
      /\ given' = [q \in DOMAIN given \ {p} |-> given[q]]
      /\ inited' = inited /\ heap_end' = heap_end
  BY DEF cvm_free
<1>2. inited
  <2> SUFFICES ASSUME ~inited PROVE FALSE BY DEF AllocInv
  <2> QED BY <1>1 DEF AllocInv
<1>3. PICK B : Sound(H, heap_end, given, B) BY <1>2 DEF AllocInv
<1>4. Released(H, Freed(p), heap_end, given, p) BY <1>1, <1>3, FreedSound
<1>5. PICK M : Sound(H', heap_end', given', M) BY <1>1, <1>4 DEF Released
<1>6. AllocInv' BY <1>1, <1>2, <1>5 DEF AllocInv, Sound
<1>7. Preserves(H, H', DOMAIN given \ {p}) BY <1>1, <1>4 DEF Released
<1>8. /\ DOMAIN given' = DOMAIN given \ {p}
      /\ \A q \in DOMAIN given \ {p} : given'[q] = given[q]
  BY <1>1
<1>9. \A q \in DOMAIN given \ {p} : Words'[q] = Words[q]
  <2>1. H' \in Heaps BY <1>5 DEF Sound
  <2>2. PICK G : G = DOMAIN given \ {p} OBVIOUS
  <2>3. G \subseteq DOMAIN given /\ G \subseteq DOMAIN given'
    BY <1>8, <2>2
  <2>4. Preserves(H, H', G) /\ \A q \in G : given'[q] = given[q] BY <1>7, <1>8, <2>2
  <2>5. \A q \in G : Words'[q] = Words[q] BY <1>3, <2>1, <2>3, <2>4, WordsKept
  <2> QED BY <2>2, <2>5
<1>10. Words' = [q \in DOMAIN given \ {p} |-> Words[q]]
  <2>1. Words' = [q \in DOMAIN given' |-> [k \in Payload(q)' |-> H'.mem[k]]] BY DEF Words
  <2>2. DOMAIN Words' = DOMAIN given' BY <2>1
  <2>3. Words' = [q \in DOMAIN given' |-> Words'[q]] BY <2>1
  <2> QED BY <1>8, <1>9, <2>3
<1> QED BY <1>1, <1>6, <1>10 DEF Promise!Take

(* The program fills a block of its own.                                   *)
LEMMA StepWrite ==
  ASSUME AllocInv, NEW p, NEW v \in UserWords, UserWrite(p, v)
  PROVE  AllocInv' /\ p \in DOMAIN given /\ Promise!Fill(p, v)
<1>1. /\ p \in DOMAIN given /\ inited' = inited /\ heap_end' = heap_end /\ given' = given
      /\ H' = [H EXCEPT !.mem = [k \in DOMAIN @ |-> IF k \in Payload(p) THEN v ELSE @[k]]]
  BY DEF UserWrite
<1>2. inited
  <2> SUFFICES ASSUME ~inited PROVE FALSE BY DEF AllocInv
  <2> QED BY <1>1 DEF AllocInv
<1>3. PICK B : Sound(H, heap_end, given, B) BY <1>2 DEF AllocInv
<1>4. v \in Word BY RegionAssumption
<1>5. /\ Sound(H', heap_end, given, B)
      /\ \A k : At(H', k) = IF k \in Payload(p) THEN v ELSE At(H, k)
      /\ Preserves(H, H', DOMAIN given \ {p})
  BY <1>1, <1>3, <1>4, WriteSound
<1>6. H' \in Heaps /\ H \in Heaps BY <1>3, <1>5 DEF Sound
<1>7. AllocInv' BY <1>1, <1>2, <1>5, <1>6 DEF AllocInv
<1>8. \A q \in DOMAIN given \ {p} : Words'[q] = Words[q]
  <2>1. PICK G : G = DOMAIN given \ {p} OBVIOUS
  <2>2. G \subseteq DOMAIN given /\ G \subseteq DOMAIN given'
    BY <1>1, <2>1
  <2>3. Preserves(H, H', G) /\ \A q \in G : given'[q] = given[q] BY <1>1, <1>5, <2>1
  <2>4. \A q \in G : Words'[q] = Words[q] BY <1>3, <1>6, <2>2, <2>3, WordsKept
  <2> QED BY <2>1, <2>4
<1>9. Words'[p] = [k \in DOMAIN Words[p] |-> v]
  <2>1. DOMAIN H.mem = Region /\ DOMAIN H'.mem = Region BY <1>6 DEF Heaps
  <2>2. Payload(p)' = Payload(p) BY <1>1, <2>1 DEF Payload
  <2>3. \A k \in Payload(p) : H'.mem[k] = v
    <3> SUFFICES ASSUME NEW k \in Payload(p) PROVE H'.mem[k] = v OBVIOUS
    <3>1. k \in Region BY <2>1 DEF Payload
    <3>2. At(H', k) = v BY <1>5
    <3> QED BY <2>1, <3>1, <3>2 DEF At, Peek
  <2>4. Words[p] = [k \in Payload(p) |-> H.mem[k]] BY <1>1 DEF Words
  <2>5. Words'[p] = [k \in Payload(p)' |-> H'.mem[k]] BY <1>1 DEF Words
  <2>6. DOMAIN Words[p] = Payload(p) BY <2>4
  <2> QED BY <2>2, <2>3, <2>5, <2>6
<1>10. Words' = [Words EXCEPT ![p] = [k \in DOMAIN Words[p] |-> v]]
  <2>1. Words' = [q \in DOMAIN given' |-> [k \in Payload(q)' |-> H'.mem[k]]] BY DEF Words
  <2>2. Words = [q \in DOMAIN given |-> [k \in Payload(q) |-> H.mem[k]]] BY DEF Words
  <2>3. /\ Words' = [q \in DOMAIN given |-> Words'[q]] /\ DOMAIN Words = DOMAIN given
        /\ Words = [q \in DOMAIN given |-> Words[q]]
    BY <1>1, <2>1, <2>2
  <2>4. PICK x : x = [k \in DOMAIN Words[p] |-> v] OBVIOUS
  <2>5. PICK f, g, D : f = Words' /\ g = Words /\ D = DOMAIN given OBVIOUS
  <2>6. /\ f = [q \in D |-> f[q]] /\ g = [q \in D |-> g[q]] /\ p \in D
        /\ f[p] = x /\ \A q \in D \ {p} : f[q] = g[q]
    BY <1>1, <1>8, <1>9, <2>3, <2>4, <2>5
  <2>7. f = [g EXCEPT ![p] = x] BY <2>6
  <2> QED BY <2>4, <2>5, <2>7
<1> QED BY <1>1, <1>7, <1>10 DEF Promise!Fill

(* Every step.                                                             *)
LEMMA EveryStep ==
  ASSUME AllocInv, NoOverflow, Next
  PROVE  AllocInv' /\ (Kept \/ Promise!NextArena)
<1>1. CASE cvm_alloc_init BY <1>1, StepInit
<1>2. ASSUME NEW bytes \in Requests, cvm_malloc(bytes)
      PROVE  AllocInv' /\ (Kept \/ Promise!NextArena)
  BY <1>2, StepMalloc DEF Promise!NextArena
<1>3. ASSUME NEW p, cvm_free(p)
      PROVE  AllocInv' /\ (Kept \/ Promise!NextArena)
  <2>1. CASE UNCHANGED <<H, given>>
    <3>1. H' = H /\ given' = given /\ inited' = inited /\ heap_end' = heap_end
      BY <1>3, <2>1 DEF cvm_free
    <3>2. AllocInv' BY <3>1 DEF AllocInv
    <3> QED BY <3>1, <3>2, Unchanged
  <2>2. CASE ~UNCHANGED <<H, given>>
    BY <1>3, <2>2, StepFree DEF Promise!NextArena
  <2> QED BY <2>1, <2>2
<1>4. ASSUME NEW p, NEW v \in UserWords, UserWrite(p, v)
      PROVE  AllocInv' /\ (Kept \/ Promise!NextArena)
  BY <1>4, StepWrite DEF Promise!NextArena
<1> QED BY <1>1, <1>2, <1>3, <1>4 DEF Next

LEMMA AllocInvariant ==
  ASSUME NoOverflow
  PROVE  Spec => []AllocInv
<1>1. Init => AllocInv BY InitInv
<1>2. AllocInv /\ [Next]_vars => AllocInv'
  <2>1. ASSUME AllocInv, UNCHANGED vars PROVE AllocInv' BY <2>1 DEF vars, AllocInv
  <2> QED BY <2>1, EveryStep
<1> QED BY <1>1, <1>2, PTL DEF Spec

(* The words of the region stay words, and the pointers of the allocator   *)
(* (_cvm_free_head, what cvm_malloc returned) NULL or in it.               *)
THEOREM TypeCorrect ==
  ASSUME NoOverflow
  PROVE  Spec => []TypeOK
<1>1. AllocInv => TypeOK BY InvTypes
<1> QED BY <1>1, AllocInvariant, PTL

(* Whatever is allocated, freed and written, _cvm_stamp, the split of      *)
(* cvm_malloc and the joins of cvm_free leave blocks that tile the region, *)
(* free or given out, no two free ones side by side.                       *)
THEOREM Tiled ==
  ASSUME NoOverflow
  PROVE  Spec => []BlocksTile
<1>1. AllocInv => BlocksTile BY InvTiles
<1> QED BY <1>1, AllocInvariant, PTL

(* _cvm_fl_push and _cvm_fl_remove keep every free block on the list once, *)
(* and the walk of cvm_malloc ends.                                        *)
THEOREM FreeListHolds ==
  ASSUME NoOverflow
  PROVE  Spec => []FreeListExact
<1>1. AllocInv => FreeListExact BY InvList
<1> QED BY <1>1, AllocInvariant, PTL

(* cvm_malloc and cvm_free implement the abstract allocator.               *)
THEOREM PromiseKept ==
  ASSUME NoOverflow
  PROVE  Spec => KeepsPromise
<1>1. Init => Promise!InitArena
  <2> SUFFICES ASSUME Init PROVE Promise!InitArena OBVIOUS
  <2>1. given = << >> BY DEF Init
  <2>2. DOMAIN << >> = {} OBVIOUS
  <2>3. Words = [p \in {} |-> [k \in Payload(p) |-> H.mem[k]]] BY <2>1, <2>2 DEF Words
  <2>4. Words = << >> BY <2>3
  <2> QED BY <2>1, <2>4 DEF Promise!InitArena
<1>2. AllocInv /\ [Next]_vars => [Promise!NextArena]_(Promise!avars)
  <2>1. ASSUME AllocInv, UNCHANGED vars PROVE UNCHANGED Promise!avars
    <3>1. H' = H /\ given' = given BY <2>1 DEF vars
    <3> QED BY <3>1, Unchanged DEF Kept, Promise!avars
  <2>2. ASSUME AllocInv, Next PROVE Promise!NextArena \/ UNCHANGED Promise!avars
    BY <2>2, EveryStep DEF Kept, Promise!avars
  <2> QED BY <2>1, <2>2
<1> QED BY <1>1, <1>2, AllocInvariant, PTL DEF Spec, KeepsPromise, Promise!ArenaSpec
=============================================================================
