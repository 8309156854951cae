------------------------- MODULE CvmWriteBinProofs -------------------------
(***************************************************************************)
(* Theorems about what the translator writes and the loader reads, for     *)
(* every word size and every program: the loader takes every binary that   *)
(* write_bin writes unless a limit is exceeded, and what it loads is what  *)
(* the numbers in the code and in the initialisers stand for.              *)
(***************************************************************************)
EXTENDS CvmWriteBin, CvmLoaderProofs, NatLemmas

(* The running sums of the writer.                                         *)

LEMMA ProgramFacts ==
  ASSUME NEW p \in Programs
  PROVE  /\ IsProgram(p)
         /\ p.code \in Seq(Instruction) /\ Len(p.code) \in Nat \ {0}
         /\ p.globals \in Seq(Global) /\ Len(p.globals) \in Nat
         /\ p.funcs \in Seq(Nat) /\ Len(p.funcs) \in Nat
         /\ \A k \in DOMAIN p.funcs : p.funcs[k] \in Nat /\ p.funcs[k] < Len(p.code)
         /\ p.main \in 1 .. Len(p.funcs)
         /\ p.heap_reserve \in Nat /\ p.stack_reserve \in Nat
         /\ Len(p.imports) \in Nat /\ Len(p.regions) \in Nat
         /\ \A k \in 1 .. Len(p.imports) : p.imports[k].len \in Nat \ {0}
         /\ \A k \in 1 .. Len(p.regions) : p.regions[k].size \in Nat \ {0}
         /\ p.rom \in Seq(Byte) /\ Len(p.rom) \in Nat /\ p.meta \in Nat
         /\ p.seal \in BOOLEAN /\ p.calls \in BOOLEAN
<1>1. IsProgram(p) BY ProgramsAssumption
<1>2. p.code \in Seq(Instruction) /\ Len(p.code) \in Nat \ {0}
  BY <1>1 DEF IsProgram
<1>3. p.globals \in Seq(Global) /\ Len(p.globals) \in Nat BY <1>1 DEF IsProgram
<1>4. /\ p.funcs \in Seq(Nat) /\ Len(p.funcs) \in Nat
      /\ \A k \in DOMAIN p.funcs : p.funcs[k] \in Nat /\ p.funcs[k] < Len(p.code)
      /\ p.main \in 1 .. Len(p.funcs)
  <2>1. p.funcs \in Seq(0 .. Len(p.code) - 1) /\ p.main \in DOMAIN p.funcs
    BY <1>1 DEF IsProgram
  <2>2. \A k \in DOMAIN p.funcs : p.funcs[k] \in 0 .. Len(p.code) - 1 BY <2>1
  <2>3. 0 .. Len(p.code) - 1 \subseteq Nat BY <1>2
  <2>4. p.funcs \in Seq(Nat) BY <2>1, <2>3
  <2>5. DOMAIN p.funcs = 1 .. Len(p.funcs) /\ Len(p.funcs) \in Nat BY <2>1
  <2> QED BY <2>1, <2>2, <2>4, <2>5, <1>2
<1>5. p.heap_reserve \in Nat /\ p.stack_reserve \in Nat
  BY <1>1, WordFacts DEF IsProgram
<1>6. /\ Len(p.imports) \in Nat
      /\ \A k \in 1 .. Len(p.imports) : p.imports[k].len \in Nat \ {0}
  <2> DEFINE I == [name : STRING, len : Nat \ {0}]
  <2>1. p.imports \in Seq(I) BY <1>1 DEF IsProgram
  <2>2. \A e \in I : e.len \in Nat \ {0} OBVIOUS
  <2> HIDE DEF I
  <2>3. \A k \in 1 .. Len(p.imports) : p.imports[k] \in I BY <2>1
  <2> QED BY <2>1, <2>2, <2>3
<1>7. /\ Len(p.regions) \in Nat
      /\ \A k \in 1 .. Len(p.regions) : p.regions[k].size \in Nat \ {0}
  <2> DEFINE I == [name : Seq(Byte \ {0}), size : 1 .. WordMod \div 2 - 1, dir : 1 .. 3]
  <2>1. p.regions \in Seq(I) BY <1>1 DEF IsProgram
  <2>2. WordMod \div 2 \in Int BY WordFacts
  <2>3. \A e \in I : e.size \in Nat \ {0} BY <2>2
  <2> HIDE DEF I
  <2>4. \A k \in 1 .. Len(p.regions) : p.regions[k] \in I BY <2>1
  <2> QED BY <2>1, <2>3, <2>4
<1>8. /\ p.rom \in Seq(Byte) /\ Len(p.rom) \in Nat /\ p.meta \in Nat
      /\ p.seal \in BOOLEAN /\ p.calls \in BOOLEAN
  BY <1>1 DEF IsProgram
<1> QED BY <1>1, <1>2, <1>3, <1>4, <1>5, <1>6, <1>7, <1>8

LEMMA GlobalFacts ==
  ASSUME NEW gs \in Seq(Global), NEW k \in 1 .. Len(gs)
  PROVE  /\ gs[k] \in Global /\ gs[k].align \in Nat \ {0} /\ Len(gs[k].bytes) \in Nat
         /\ SizeOf(gs[k]) \in Nat
<1>1. gs[k] \in Global OBVIOUS
<1>2. gs[k].align \in Nat \ {0} /\ gs[k].bytes \in Seq(Byte) BY <1>1 DEF Global
<1>3. Len(gs[k].bytes) \in Nat BY <1>2
<1>4. SizeOf(gs[k]) \in Nat
  <2>1. PICK n \in Nat : n = Len(gs[k].bytes) BY <1>3
  <2>2. SizeOf(gs[k]) = n + IF gs[k].pointer = "none" THEN 0 ELSE 4 BY <2>1 DEF SizeOf
  <2> QED BY <2>2
<1> QED BY <1>1, <1>2, <1>3, <1>4

LEMMA RoundUpFacts ==
  ASSUME NEW n \in Nat, NEW d \in Nat \ {0}
  PROVE  RoundUp(n, d) \in Nat /\ n <= RoundUp(n, d) /\ RoundUp(n, d) % d = 0
<1>1. PICK m \in Int : m = n + d - 1 OBVIOUS
<1>2. d \in Nat /\ d > 0 OBVIOUS
<1>3. PICK q \in Int, r \in Nat : Division(m, d, q, r) BY <1>1, <1>2, Divided
<1>4. m \div d = q BY <1>3, DivisionIs
<1>5. RoundUp(n, d) = d * q BY <1>1, <1>4 DEF RoundUp
<1>6. m = d * q + r /\ r < d BY <1>3 DEF Division
<1>7. PICK t \in Int : t = d * q OBVIOUS
<1>8. t >= n BY <1>1, <1>6, <1>7
<1>9. Division(t, d, q, 0) BY <1>2, <1>7 DEF Division
<1>10. t % d = 0 BY <1>9, DivisionIs
<1> QED BY <1>5, <1>7, <1>8, <1>10

Cursor(gs, k, n) == RoundUp(n + IF k = 1 THEN 0 ELSE SizeOf(gs[k - 1]), gs[k].align)

LEMMA CursorFacts ==
  ASSUME NEW gs \in Seq(Global), NEW k \in 1 .. Len(gs), NEW n \in Nat
  PROVE  /\ Cursor(gs, k, n) \in Nat /\ Cursor(gs, k, n) % gs[k].align = 0
         /\ n <= Cursor(gs, k, n)
         /\ k # 1 => n + SizeOf(gs[k - 1]) <= Cursor(gs, k, n)
<1>1. PICK m \in Nat : m = n + IF k = 1 THEN 0 ELSE SizeOf(gs[k - 1])
  <2>1. CASE k = 1 BY <2>1
  <2>2. CASE k # 1
    <3>1. k - 1 \in 1 .. Len(gs) BY <2>2
    <3>2. SizeOf(gs[k - 1]) \in Nat BY <3>1, GlobalFacts
    <3> QED BY <2>2, <3>2
  <2> QED BY <2>1, <2>2
<1>2. gs[k].align \in Nat \ {0} BY GlobalFacts
<1>3. Cursor(gs, k, n) = RoundUp(m, gs[k].align) BY <1>1 DEF Cursor
<1>4. n <= m /\ (k # 1 => m = n + SizeOf(gs[k - 1]))
  <2>1. CASE k = 1 BY <1>1, <2>1
  <2>2. CASE k # 1
    <3>1. k - 1 \in 1 .. Len(gs) BY <2>2
    <3>2. SizeOf(gs[k - 1]) \in Nat BY <3>1, GlobalFacts
    <3> QED BY <1>1, <2>2, <3>2
  <2> QED BY <2>1, <2>2
<1>5. /\ RoundUp(m, gs[k].align) \in Nat /\ m <= RoundUp(m, gs[k].align)
      /\ RoundUp(m, gs[k].align) % gs[k].align = 0
  BY <1>2, RoundUpFacts
<1> QED BY <1>1, <1>3, <1>4, <1>5

(* The cursor of cg_collect_globals.                                       *)
LEMMA AddressSteps ==
  ASSUME NEW gs \in Seq(Global)
  PROVE  /\ Addresses(gs) \in [0 .. Len(gs) -> Nat] /\ Addresses(gs)[0] = 8
         /\ \A k \in 1 .. Len(gs) : Addresses(gs)[k] = Cursor(gs, k, Addresses(gs)[k - 1])
<1> DEFINE N == Len(gs)
           g == [w \in Nat \X Nat |-> IF w[1] \in 1 .. N THEN Cursor(gs, w[1], w[2]) ELSE 0]
           F(f) == [k \in 0 .. Len(gs) |->
                      IF k = 0 THEN 8
                      ELSE RoundUp(f[k - 1] + IF k = 1 THEN 0 ELSE SizeOf(gs[k - 1]), gs[k].align)]
<1>1. N \in Nat OBVIOUS
<1>2. g \in [Nat \X Nat -> Nat] BY CursorFacts
<1>3. \E f : f = F(f)
  <2>1. PICK f \in [0 .. N -> Nat] : f[0] = 8 /\ \A i \in 1 .. N : f[i] = g[<<i, f[i - 1]>>]
    <3> HIDE DEF g, N
    <3>1. 8 \in Nat OBVIOUS
    <3>2. \E f : Recursive(f, Nat, 8, g, N) BY <1>1, <1>2, <3>1, Recursion
    <3> QED BY <3>2 DEF Recursive
  <2>2. ASSUME NEW k \in 0 .. N PROVE f[k] = F(f)[k]
    <3>1. CASE k = 0 BY <2>1, <3>1
    <3>2. CASE k # 0
      <4>1. k \in 1 .. N /\ k - 1 \in 0 .. N /\ k \in Nat BY <3>2
      <4>2. f[k] = g[<<k, f[k - 1]>>] /\ f[k - 1] \in Nat BY <2>1, <4>1
      <4>3. g[<<k, f[k - 1]>>] = Cursor(gs, k, f[k - 1]) BY <4>1, <4>2
      <4> QED BY <4>2, <4>3, <3>2 DEF Cursor
    <3> QED BY <3>1, <3>2
  <2>3. f = F(f) BY <2>1, <2>2
  <2> QED BY <2>3
<1>4. Addresses(gs) = F(Addresses(gs)) BY <1>3, Zenon DEF Addresses
<1>5. PICK c : c = Addresses(gs) OBVIOUS
<1>6. c = F(c) BY <1>4, <1>5
<1>7. c[0] = 8 BY <1>6, <1>1
<1>8. ASSUME NEW k \in 1 .. N PROVE c[k] = Cursor(gs, k, c[k - 1])
  <2>1. k \in 0 .. N /\ k # 0 BY <1>1
  <2> QED BY <1>6, <2>1 DEF Cursor
<1>9. \A k \in 0 .. N : c[k] \in Nat
  <2> DEFINE S == {k \in Nat : c[k] \in Nat}
  <2>1. 0 \in S BY <1>7
  <2>2. \A k \in 1 .. N : k - 1 \in S => k \in S
    <3> SUFFICES ASSUME NEW k \in 1 .. N, c[k - 1] \in Nat PROVE c[k] \in Nat
      BY <1>1
    <3>1. Cursor(gs, k, c[k - 1]) \in Nat BY CursorFacts
    <3> QED BY <3>1, <1>8
  <2> HIDE DEF S, N
  <2>3. \A k \in 0 .. N : k \in S BY <1>1, <2>1, <2>2, UpTo
  <2> QED BY <2>3 DEF S
<1>10. c \in [0 .. N -> Nat]
  <2>1. DOMAIN c = 0 .. N /\ c = [k \in 0 .. N |-> c[k]] BY <1>6
  <2> QED BY <2>1, <1>9
<1> QED BY <1>5, <1>7, <1>8, <1>10

(* Sums of natural numbers, which only grow.                               *)
Running(f, x, d, N) ==
  /\ f \in [0 .. N -> Nat] /\ f[0] = x
  /\ \A k \in 1 .. N : f[k] = f[k - 1] + d[k]

LEMMA Runs ==
  ASSUME NEW N \in Nat, NEW x \in Nat, NEW d \in [1 .. N -> Nat]
  PROVE  \E f : Running(f, x, d, N)
<1> DEFINE g == [w \in Nat \X Nat |-> IF w[1] \in 1 .. N THEN w[2] + d[w[1]] ELSE 0]
<1>1. g \in [Nat \X Nat -> Nat] OBVIOUS
<1>2. PICK f : Recursive(f, Nat, x, g, N)
  <2> HIDE DEF g
  <2> QED BY <1>1, Recursion
<1>3. /\ f \in [0 .. N -> Nat] /\ f[0] = x
      /\ \A i \in 1 .. N : f[i] = g[<<i, f[i - 1]>>]
  BY <1>2 DEF Recursive
<1>4. ASSUME NEW k \in 1 .. N PROVE f[k] = f[k - 1] + d[k]
  <2>1. k - 1 \in 0 .. N /\ k \in Nat OBVIOUS
  <2>2. f[k - 1] \in Nat BY <2>1, <1>3
  <2>3. g[<<k, f[k - 1]>>] = f[k - 1] + d[k] BY <2>1, <2>2
  <2> QED BY <2>3, <1>3
<1> QED BY <1>3, <1>4 DEF Running

LEMMA RunningGrows ==
  ASSUME NEW N \in Nat, NEW x \in Nat, NEW d \in [1 .. N -> Nat],
         NEW f, Running(f, x, d, N), NEW j \in 0 .. N, NEW k \in 0 .. N, j <= k
  PROVE  f[j] <= f[k] /\ f[j] \in Nat /\ f[k] \in Nat
<1> DEFINE S == {n \in Nat : n >= j => f[n] >= f[j]}
<1>1. /\ f \in [0 .. N -> Nat]
      /\ \A n \in 1 .. N : f[n] = f[n - 1] + d[n]
  BY DEF Running
<1>2. 0 \in S
  <2>1. 0 >= j => j = 0 OBVIOUS
  <2>2. f[j] >= f[j] BY <1>1
  <2> QED BY <2>1, <2>2
<1>3. \A n \in 1 .. N : n - 1 \in S => n \in S
  <2> SUFFICES ASSUME NEW n \in 1 .. N, n - 1 \in S, n >= j PROVE f[n] >= f[j] OBVIOUS
  <2>1. n - 1 \in 0 .. N OBVIOUS
  <2>2. f[n] = f[n - 1] + d[n] /\ f[n - 1] \in Nat /\ d[n] \in Nat /\ f[j] \in Nat
    BY <2>1, <1>1
  <2>3. CASE n = j BY <2>2, <2>3, <1>1
  <2>4. CASE n # j
    <3>1. n - 1 >= j BY <2>4
    <3> QED BY <3>1, <2>2
  <2> QED BY <2>3, <2>4
<1>4. k \in S
  <2> HIDE DEF S
  <2> QED BY <1>2, <1>3, UpTo
<1> QED BY <1>1, <1>4

(* The same first value and the same summands give the same sums.          *)
LEMMA RunningSame ==
  ASSUME NEW f, NEW h, NEW n \in Nat, f[0] = h[0],
         \A k \in 1 .. n : f[k - 1] = h[k - 1] => f[k] = h[k]
  PROVE  \A k \in 0 .. n : f[k] = h[k]
<1> DEFINE S == {k \in Nat : f[k] = h[k]}
<1>1. 0 \in S OBVIOUS
<1>2. \A k \in 1 .. n : k - 1 \in S => k \in S OBVIOUS
<1>3. \A k \in 0 .. n : k \in S
  <2> HIDE DEF S
  <2> QED BY <1>1, <1>2, UpTo
<1> QED BY <1>3

NameBytes(ims) == [k \in 1 .. Len(ims) |-> ims[k].len + 1]

LEMMA NameSteps ==
  ASSUME NEW ims, Len(ims) \in Nat, \A k \in 1 .. Len(ims) : ims[k].len \in Nat
  PROVE  /\ Running(NameEnds(ims), 4 + 4 * Len(ims), NameBytes(ims), Len(ims))
         /\ NameBytes(ims) \in [1 .. Len(ims) -> Nat]
<1> DEFINE N == Len(ims)
           F(f) == [k \in 0 .. Len(ims) |->
                      IF k = 0 THEN 4 + 4 * Len(ims) ELSE f[k - 1] + ims[k].len + 1]
           d == NameBytes(ims)
<1>1. d \in [1 .. N -> Nat] /\ 4 + 4 * N \in Nat BY DEF NameBytes
<1>2. PICK f : Running(f, 4 + 4 * N, d, N)
  <2> HIDE DEF d
  <2> QED BY <1>1, Runs
<1>3. /\ f \in [0 .. N -> Nat] /\ f[0] = 4 + 4 * N
      /\ \A k \in 1 .. N : f[k] = f[k - 1] + d[k]
  BY <1>2 DEF Running
<1>4. ASSUME NEW k \in 0 .. N PROVE f[k] = F(f)[k]
  <2>1. CASE k = 0 BY <2>1, <1>3
  <2>2. CASE k # 0
    <3>1. k \in 1 .. N /\ k - 1 \in 0 .. N BY <2>2
    <3>2. f[k] = f[k - 1] + (ims[k].len + 1) BY <3>1, <1>3 DEF NameBytes
    <3>3. f[k - 1] \in Nat /\ ims[k].len \in Nat BY <3>1, <1>3
    <3> QED BY <3>2, <3>3, <2>2
  <2> QED BY <2>1, <2>2
<1>5. f = F(f) BY <1>3, <1>4
<1>6. NameEnds(ims) = F(NameEnds(ims))
  <2>1. \E e : e = F(e) BY <1>5
  <2> QED BY <2>1, Zenon DEF NameEnds
<1>7. PICK c : c = NameEnds(ims) OBVIOUS
<1>8. c = F(c) BY <1>6, <1>7
<1>9. \A k \in 1 .. N : f[k - 1] = c[k - 1] => f[k] = c[k]
  <2> SUFFICES ASSUME NEW k \in 1 .. N, f[k - 1] = c[k - 1] PROVE f[k] = c[k] OBVIOUS
  <2>1. k \in 0 .. N /\ k # 0 /\ k - 1 \in 0 .. N OBVIOUS
  <2>2. c[k] = c[k - 1] + ims[k].len + 1 BY <1>8, <2>1
  <2>3. f[k] = f[k - 1] + ims[k].len + 1 BY <1>5, <2>1
  <2> QED BY <2>2, <2>3
<1>10. f[0] = c[0] BY <1>3, <1>8
<1>11. \A k \in 0 .. N : f[k] = c[k]
  <2> HIDE DEF d, F, N
  <2>1. N \in Nat BY DEF N
  <2> QED BY <2>1, <1>9, <1>10, RunningSame
<1>12. DOMAIN c = 0 .. N /\ c = [k \in 0 .. N |-> c[k]] BY <1>8
<1>13. f = c BY <1>3, <1>11, <1>12
<1> QED BY <1>1, <1>2, <1>7, <1>13

RegionBytes(p) == [k \in 1 .. Len(p.regions) |-> Aligned(p.regions[k].size)]

LEMMA RegionSteps ==
  ASSUME NEW p, Len(p.regions) \in Nat,
         \A k \in 1 .. Len(p.regions) : p.regions[k].size \in Nat
  PROVE  /\ Running(RegionTotals(p), 0, RegionBytes(p), Len(p.regions))
         /\ RegionBytes(p) \in [1 .. Len(p.regions) -> Nat]
<1> DEFINE N == Len(p.regions)
           F(f) == [k \in 0 .. Len(p.regions) |->
                      IF k = 0 THEN 0 ELSE f[k - 1] + Aligned(p.regions[k].size)]
           d == RegionBytes(p)
<1>1. d \in [1 .. N -> Nat] /\ 0 \in Nat BY AlignedFacts DEF RegionBytes
<1>2. PICK f : Running(f, 0, d, N)
  <2> HIDE DEF d
  <2> QED BY <1>1, Runs
<1>3. /\ f \in [0 .. N -> Nat] /\ f[0] = 0
      /\ \A k \in 1 .. N : f[k] = f[k - 1] + d[k]
  BY <1>2 DEF Running
<1>4. ASSUME NEW k \in 0 .. N PROVE f[k] = F(f)[k]
  <2>1. CASE k = 0 BY <2>1, <1>3
  <2>2. CASE k # 0
    <3>1. k \in 1 .. N /\ k - 1 \in 0 .. N BY <2>2
    <3>2. f[k] = f[k - 1] + Aligned(p.regions[k].size) BY <3>1, <1>3 DEF RegionBytes
    <3> QED BY <3>2, <2>2
  <2> QED BY <2>1, <2>2
<1>5. f = F(f) BY <1>3, <1>4
<1>6. RegionTotals(p) = F(RegionTotals(p))
  <2>1. \E e : e = F(e) BY <1>5
  <2> QED BY <2>1, Zenon DEF RegionTotals
<1>7. PICK c : c = RegionTotals(p) OBVIOUS
<1>8. c = F(c) BY <1>6, <1>7
<1>9. \A k \in 1 .. N : f[k - 1] = c[k - 1] => f[k] = c[k]
  <2> SUFFICES ASSUME NEW k \in 1 .. N, f[k - 1] = c[k - 1] PROVE f[k] = c[k] OBVIOUS
  <2>1. k \in 0 .. N /\ k # 0 /\ k - 1 \in 0 .. N OBVIOUS
  <2>2. c[k] = c[k - 1] + Aligned(p.regions[k].size) BY <1>8, <2>1
  <2>3. f[k] = f[k - 1] + Aligned(p.regions[k].size) BY <1>5, <2>1
  <2> QED BY <2>2, <2>3
<1>10. f[0] = c[0] BY <1>3, <1>8
<1>11. \A k \in 0 .. N : f[k] = c[k]
  <2> HIDE DEF d, F, N
  <2>1. N \in Nat BY DEF N
  <2> QED BY <2>1, <1>9, <1>10, RunningSame
<1>12. DOMAIN c = 0 .. N /\ c = [k \in 0 .. N |-> c[k]] BY <1>8
<1>13. f = c BY <1>3, <1>11, <1>12
<1> QED BY <1>1, <1>2, <1>7, <1>13

-----------------------------------------------------------------------------
(* The section table.                                                      *)

LEMMA DataSizeFacts ==
  ASSUME NEW gs \in Seq(Global)
  PROVE  /\ data_size(gs) \in Nat /\ (gs = <<>> => data_size(gs) = 0)
         /\ Len(gs) \in 1 .. Len(gs) =>
              data_size(gs) = Addresses(gs)[Len(gs)] + SizeOf(gs[Len(gs)])
<1>1. CASE gs = <<>> BY <1>1 DEF data_size
<1>2. CASE gs # <<>>
  <2>1. Len(gs) \in 1 .. Len(gs) /\ Len(gs) \in 0 .. Len(gs) BY <1>2
  <2>2. Addresses(gs)[Len(gs)] \in Nat BY <2>1, AddressSteps
  <2>3. SizeOf(gs[Len(gs)]) \in Nat BY <2>1, GlobalFacts
  <2> QED BY <1>2, <2>2, <2>3 DEF data_size
<1> QED BY <1>1, <1>2

LEMMA PayloadSizes ==
  ASSUME NEW p \in Programs
  PROVE  /\ PayloadSize(p)["CODE"] = 4 * Len(p.code)
         /\ PayloadSize(p)["DATA"] = data_size(p.globals)
         /\ PayloadSize(p)["IMPORTS"] = IF p.imports = <<>> THEN 0
                                        ELSE NameEnds(p.imports)[Len(p.imports)]
         /\ PayloadSize(p)["HEAP_RESERVE"] = p.heap_reserve
         /\ PayloadSize(p)["STACK_RESERVE"] = p.stack_reserve
         /\ PayloadSize(p)["FUNCS"] = 4 * Len(FuncsTable(p))
         /\ PayloadSize(p)["HOST_REGION"] = RegionsSize(p.regions)
         /\ PayloadSize(p)["ROM"] = Len(p.rom)
         /\ PayloadSize(p)["META"] = p.meta
         /\ PayloadSize(p)["SEAL"] = IF p.seal THEN 12 ELSE 0
         /\ PayloadSize(p)["BSS"] = 0 /\ PayloadSize(p)["DEBUG"] = 0
BY DEF PayloadSize, SecTypes, NoPayload, HostOnly

LEMMA FuncsTableFacts ==
  ASSUME NEW p \in Programs
  PROVE  /\ Len(FuncsTable(p)) \in Nat
         /\ ~p.calls => FuncsTable(p) = <<>>
         /\ p.calls => /\ Len(FuncsTable(p)) = CVM_FN_SLOT(Len(p.funcs)) + 1
                       /\ \A k \in 1 .. Len(p.funcs) :
                            FuncsTable(p)[CVM_FN_SLOT(k) + 1] = p.funcs[k]
         /\ \A i \in 1 .. Len(FuncsTable(p)) :
              FuncsTable(p)[i] \in Nat /\ FuncsTable(p)[i] < Len(p.code)
<1>1. CASE ~p.calls BY <1>1 DEF FuncsTable
<1>2. CASE p.calls
  <2> DEFINE N == Len(p.funcs)
             e(i) == IF \E k \in DOMAIN p.funcs : i = CVM_FN_SLOT(k) + 1
                     THEN p.funcs[(i - 1) \div 2] ELSE 0
  <2>1. N \in Nat /\ DOMAIN p.funcs = 1 .. N BY ProgramFacts
  <2>2. FuncsTable(p) = [i \in 1 .. 2 * N + 1 |-> e(i)]
    BY <1>2 DEF FuncsTable, CVM_FN_SLOT
  <2>3. Len(FuncsTable(p)) = 2 * N + 1
    <3> HIDE DEF e
    <3>1. 2 * N + 1 \in Nat BY <2>1
    <3>2. FuncsTable(p) \in Seq({e(i) : i \in 1 .. 2 * N + 1})
          /\ DOMAIN FuncsTable(p) = 1 .. 2 * N + 1
      BY <2>2, <3>1
    <3> QED BY <3>1, <3>2
  <2>4. ASSUME NEW k \in 1 .. N PROVE FuncsTable(p)[2 * k + 1] = p.funcs[k]
    <3>1. 2 * k + 1 \in 1 .. 2 * N + 1 BY <2>1
    <3>2. ((2 * k + 1) - 1) \div 2 = k OBVIOUS
    <3>3. \E j \in DOMAIN p.funcs : 2 * k + 1 = CVM_FN_SLOT(j) + 1
      BY <2>1 DEF CVM_FN_SLOT
    <3> QED BY <2>2, <3>1, <3>2, <3>3
  <2>5. ASSUME NEW i \in 1 .. 2 * N + 1
        PROVE  FuncsTable(p)[i] \in Nat /\ FuncsTable(p)[i] < Len(p.code)
    <3>1. CASE \E k \in 1 .. N : i = 2 * k + 1
      <4>1. PICK k \in 1 .. N : i = 2 * k + 1 BY <3>1
      <4>2. FuncsTable(p)[i] = p.funcs[k] BY <4>1, <2>4
      <4> QED BY <4>2, <2>1, ProgramFacts
    <3>2. CASE ~\E k \in 1 .. N : i = 2 * k + 1
      <4>1. e(i) = 0 BY <3>2, <2>1 DEF CVM_FN_SLOT
      <4>2. FuncsTable(p)[i] = 0 BY <4>1, <2>2
      <4> QED BY <4>2, ProgramFacts
    <3> QED BY <3>1, <3>2
  <2> QED BY <1>2, <2>1, <2>3, <2>4, <2>5 DEF CVM_FN_SLOT
<1> QED BY <1>1, <1>2, ProgramFacts

LEMMA SizesAreNat ==
  ASSUME NEW p \in Programs
  PROVE  \A t \in SecTypes : PayloadSize(p)[t] \in Nat
<1>1. PayloadSize(p)["CODE"] \in Nat BY PayloadSizes, ProgramFacts
<1>2. PayloadSize(p)["DATA"] \in Nat BY PayloadSizes, ProgramFacts, DataSizeFacts
<1>3. PayloadSize(p)["IMPORTS"] \in Nat
  <2>1. /\ Len(p.imports) \in Nat
        /\ \A k \in 1 .. Len(p.imports) : p.imports[k].len \in Nat
    BY ProgramFacts
  <2>2. NameEnds(p.imports) \in [0 .. Len(p.imports) -> Nat]
    BY <2>1, NameSteps DEF Running
  <2>3. NameEnds(p.imports)[Len(p.imports)] \in Nat BY <2>1, <2>2
  <2> QED BY <2>3, PayloadSizes
<1>4. PayloadSize(p)["HEAP_RESERVE"] \in Nat /\ PayloadSize(p)["STACK_RESERVE"] \in Nat
  BY PayloadSizes, ProgramFacts
<1>5. PayloadSize(p)["FUNCS"] \in Nat BY PayloadSizes, FuncsTableFacts
<1>6. PayloadSize(p)["HOST_REGION"] \in Nat
  BY PayloadSizes, ProgramFacts DEF RegionsSize, REGION_ENTRY_SIZE
<1>7. PayloadSize(p)["ROM"] \in Nat /\ PayloadSize(p)["META"] \in Nat
  BY PayloadSizes, ProgramFacts
<1>8. PayloadSize(p)["SEAL"] \in Nat BY PayloadSizes
<1>9. PayloadSize(p)["BSS"] \in Nat /\ PayloadSize(p)["DEBUG"] \in Nat BY PayloadSizes
<1> QED
  BY <1>1, <1>2, <1>3, <1>4, <1>5, <1>6, <1>7, <1>8, <1>9
     DEF SecTypes, NoPayload, HostOnly

Row(p, t) == [type |-> t, size |-> PayloadSize(p)[t], flags |-> 0,
              off |-> PayloadOffset(p, t)]

Rows(p) == {Row(p, t) : t \in SecTypes}

(* s is a table of the sections of p of the types of T.                    *)
Lists(p, s, T) ==
  /\ s \in Seq(Rows(p))
  /\ \A k \in 1 .. Len(s) : /\ s[k].type \in T /\ PayloadSize(p)[s[k].type] # 0
                             /\ s[k] = Row(p, s[k].type)
  /\ \A j, k \in 1 .. Len(s) : s[j].type = s[k].type => j = k
  /\ \A t \in T : PayloadSize(p)[t] # 0 => \E k \in 1 .. Len(s) : s[k].type = t

One(p, t) == IF PayloadSize(p)[t] = 0 THEN 0 ELSE 1

LEMMA ListsFirst ==
  ASSUME NEW p, NEW t \in SecTypes
  PROVE  Lists(p, Entry(p, t), {t}) /\ Len(Entry(p, t)) = One(p, t)
<1>1. CASE PayloadSize(p)[t] = 0
  <2>1. Entry(p, t) = <<>> BY <1>1 DEF Entry
  <2> QED BY <1>1, <2>1 DEF Lists, One
<1>2. CASE PayloadSize(p)[t] # 0
  <2>1. Entry(p, t) = <<Row(p, t)>> BY <1>2 DEF Entry, Row
  <2>2. Row(p, t) \in Rows(p) /\ Row(p, t).type = t BY DEF Rows, Row
  <2> QED BY <1>2, <2>1, <2>2 DEF Lists, One
<1> QED BY <1>1, <1>2

LEMMA ListsMore ==
  ASSUME NEW p, NEW s, NEW T, Lists(p, s, T), NEW t \in SecTypes, t \notin T
  PROVE  /\ Lists(p, s \o Entry(p, t), T \cup {t})
         /\ Len(s \o Entry(p, t)) = Len(s) + One(p, t)
<1>0. /\ s \in Seq(Rows(p)) /\ Len(s) \in Nat
      /\ \A k \in 1 .. Len(s) : /\ s[k].type \in T /\ PayloadSize(p)[s[k].type] # 0
                                 /\ s[k] = Row(p, s[k].type)
      /\ \A j, k \in 1 .. Len(s) : s[j].type = s[k].type => j = k
      /\ \A u \in T : PayloadSize(p)[u] # 0 => \E k \in 1 .. Len(s) : s[k].type = u
  BY DEF Lists
<1>1. CASE PayloadSize(p)[t] = 0
  <2>1. Entry(p, t) = <<>> /\ s \o <<>> = s BY <1>0, <1>1 DEF Entry
  <2>2. Lists(p, s, T \cup {t}) BY <1>0, <1>1 DEF Lists
  <2> QED BY <1>0, <1>1, <2>1, <2>2 DEF One
<1>2. CASE PayloadSize(p)[t] # 0
  <2>1. Entry(p, t) = <<Row(p, t)>> BY <1>2 DEF Entry, Row
  <2>2. Row(p, t) \in Rows(p) /\ Row(p, t).type = t BY DEF Rows, Row
  <2>3. PICK n \in Nat : n = Len(s) BY <1>0
  <2>4. PICK r : r = s \o Entry(p, t) OBVIOUS
  <2>5. /\ r \in Seq(Rows(p)) /\ Len(r) = n + 1
        /\ \A k \in 1 .. n : r[k] = s[k]
        /\ r[n + 1] = Row(p, t)
    BY <1>0, <2>1, <2>2, <2>3, <2>4
  <2>6. \A k \in 1 .. n + 1 : k \in 1 .. n \/ k = n + 1 BY <2>3
  <2>7. ASSUME NEW k \in 1 .. n + 1
        PROVE  /\ r[k].type \in T \cup {t} /\ PayloadSize(p)[r[k].type] # 0
               /\ r[k] = Row(p, r[k].type)
    BY <1>0, <1>2, <2>2, <2>3, <2>5, <2>6
  <2>8. ASSUME NEW j \in 1 .. n + 1, NEW k \in 1 .. n + 1, r[j].type = r[k].type
        PROVE  j = k
    <3>1. \A i \in 1 .. n : r[i].type \in T BY <1>0, <2>3, <2>5
    <3>2. r[n + 1].type = t BY <2>2, <2>5
    <3>3. CASE j \in 1 .. n /\ k \in 1 .. n BY <3>3, <1>0, <2>3, <2>5, <2>8
    <3>4. CASE ~(j \in 1 .. n /\ k \in 1 .. n) BY <3>1, <3>2, <3>4, <2>6, <2>8
    <3> QED BY <3>3, <3>4
  <2>9. ASSUME NEW u \in T \cup {t}, PayloadSize(p)[u] # 0
        PROVE  \E k \in 1 .. n + 1 : r[k].type = u
    <3>1. CASE u = t
      <4>1. n + 1 \in 1 .. n + 1 BY <2>3
      <4> QED BY <3>1, <4>1, <2>2, <2>5
    <3>2. CASE u # t
      <4>1. PICK k \in 1 .. n : s[k].type = u BY <3>2, <1>0, <2>3, <2>9
      <4>2. k \in 1 .. n + 1 BY <2>3
      <4> QED BY <4>1, <4>2, <2>5
    <3> QED BY <3>1, <3>2
  <2>10. Lists(p, r, T \cup {t}) BY <2>5, <2>7, <2>8, <2>9 DEF Lists
  <2> QED BY <1>2, <2>3, <2>4, <2>5, <2>10 DEF One
<1> QED BY <1>1, <1>2

WrittenTypes == SecTypes \ {"BSS", "DEBUG"}

(* The table that write_bin writes.                                        *)
LEMMA TableLists ==
  ASSUME NEW p \in Programs
  PROVE  Lists(p, SectionTable(p), WrittenTypes) /\ Len(SectionTable(p)) = section_count(p)
<1> DEFINE s1 == Entry(p, "CODE")
           s2 == s1 \o Entry(p, "DATA")
           s3 == s2 \o Entry(p, "IMPORTS")
           s4 == s3 \o Entry(p, "HEAP_RESERVE")
           s5 == s4 \o Entry(p, "STACK_RESERVE")
           s6 == s5 \o Entry(p, "FUNCS")
           s7 == s6 \o Entry(p, "HOST_REGION")
           s8 == s7 \o Entry(p, "ROM")
           s9 == s8 \o Entry(p, "META")
           s10 == s9 \o Entry(p, "SEAL")
           T2 == {"CODE"} \cup {"DATA"}
           T3 == T2 \cup {"IMPORTS"}
           T4 == T3 \cup {"HEAP_RESERVE"}
           T5 == T4 \cup {"STACK_RESERVE"}
           T6 == T5 \cup {"FUNCS"}
           T7 == T6 \cup {"HOST_REGION"}
           T8 == T7 \cup {"ROM"}
           T9 == T8 \cup {"META"}
           T10 == T9 \cup {"SEAL"}
<1>0. SectionTable(p) = s10 BY DEF SectionTable
<1>00. T10 = WrittenTypes BY DEF WrittenTypes, SecTypes, NoPayload, HostOnly
<1>01. /\ {"CODE", "DATA", "IMPORTS", "HEAP_RESERVE", "STACK_RESERVE", "FUNCS",
           "HOST_REGION", "ROM", "META", "SEAL"} \subseteq SecTypes
       /\ "DATA" \notin {"CODE"} /\ "IMPORTS" \notin T2 /\ "HEAP_RESERVE" \notin T3
       /\ "STACK_RESERVE" \notin T4 /\ "FUNCS" \notin T5 /\ "HOST_REGION" \notin T6
       /\ "ROM" \notin T7 /\ "META" \notin T8 /\ "SEAL" \notin T9
  BY DEF SecTypes, NoPayload, HostOnly
<1> HIDE DEF T2, T3, T4, T5, T6, T7, T8, T9, T10
<1>1. Lists(p, s1, {"CODE"}) /\ Len(s1) = One(p, "CODE") BY <1>01, ListsFirst
<1> HIDE DEF s1
<1>2. Lists(p, s2, T2) /\ Len(s2) = Len(s1) + One(p, "DATA")
  BY <1>1, <1>01, ListsMore DEF T2
<1> HIDE DEF s2
<1>3. Lists(p, s3, T3) /\ Len(s3) = Len(s2) + One(p, "IMPORTS")
  BY <1>2, <1>01, ListsMore DEF T3
<1> HIDE DEF s3
<1>4. Lists(p, s4, T4) /\ Len(s4) = Len(s3) + One(p, "HEAP_RESERVE")
  BY <1>3, <1>01, ListsMore DEF T4
<1> HIDE DEF s4
<1>5. Lists(p, s5, T5) /\ Len(s5) = Len(s4) + One(p, "STACK_RESERVE")
  BY <1>4, <1>01, ListsMore DEF T5
<1> HIDE DEF s5
<1>6. Lists(p, s6, T6) /\ Len(s6) = Len(s5) + One(p, "FUNCS")
  BY <1>5, <1>01, ListsMore DEF T6
<1> HIDE DEF s6
<1>7. Lists(p, s7, T7) /\ Len(s7) = Len(s6) + One(p, "HOST_REGION")
  BY <1>6, <1>01, ListsMore DEF T7
<1> HIDE DEF s7
<1>8. Lists(p, s8, T8) /\ Len(s8) = Len(s7) + One(p, "ROM")
  BY <1>7, <1>01, ListsMore DEF T8
<1> HIDE DEF s8
<1>9. Lists(p, s9, T9) /\ Len(s9) = Len(s8) + One(p, "META")
  BY <1>8, <1>01, ListsMore DEF T9
<1> HIDE DEF s9
<1>10. Lists(p, s10, T10) /\ Len(s10) = Len(s9) + One(p, "SEAL")
  BY <1>9, <1>01, ListsMore DEF T10
<1>11. \A t \in SecTypes : One(p, t) = IF PayloadSize(p)[t] > 0 THEN 1 ELSE 0
  BY SizesAreNat DEF One
<1>12. One(p, "CODE") = 1
  BY PayloadSizes, ProgramFacts DEF One
<1>13. Len(s10) = section_count(p)
  <2> HIDE DEF s10
  <2>1. \A t \in SecTypes : One(p, t) \in Nat BY DEF One
  <2>2. section_count(p) = 1 + One(p, "DATA") + One(p, "IMPORTS") + One(p, "HEAP_RESERVE")
          + One(p, "STACK_RESERVE") + One(p, "FUNCS") + One(p, "HOST_REGION")
          + One(p, "ROM") + One(p, "META") + One(p, "SEAL")
    BY <1>01, <1>11 DEF section_count
  <2> QED
    BY <1>01, <1>1, <1>2, <1>3, <1>4, <1>5, <1>6, <1>7, <1>8, <1>9, <1>10, <1>12, <2>1, <2>2
<1> QED BY <1>0, <1>00, <1>10, <1>13

-----------------------------------------------------------------------------
(* The offsets: the sums of the code add up what is written before.        *)

FileTypes == WrittenTypes \ NoPayload

LEMMA BytesFacts ==
  ASSUME NEW p \in Programs
  PROVE  /\ \A T : Bytes(p, T) \in Nat
         /\ \A t \in FileTypes : /\ PayloadSize(p)[t] \in Nat
                                /\ Bytes(p, Added(t)) + PayloadSize(p)[t] <= Bytes(p, SecTypes)
         /\ Bytes(p, Added("HOST_REGION")) + PayloadSize(p)["HOST_REGION"] <= Bytes(p, SecTypes)
<1> DEFINE n(t) == PayloadSize(p)[t]
<1>1. /\ n("CODE") \in Nat /\ n("DATA") \in Nat /\ n("IMPORTS") \in Nat
      /\ n("FUNCS") \in Nat /\ n("HOST_REGION") \in Nat /\ n("ROM") \in Nat
      /\ n("META") \in Nat /\ n("SEAL") \in Nat
  BY SizesAreNat DEF SecTypes, HostOnly
<1>2. ASSUME NEW T PROVE Bytes(p, T) \in Nat
  <2> DEFINE of(t) == IF t \in T THEN n(t) ELSE 0
  <2>1. /\ of("CODE") \in Nat /\ of("DATA") \in Nat /\ of("IMPORTS") \in Nat
        /\ of("FUNCS") \in Nat /\ of("HOST_REGION") \in Nat /\ of("ROM") \in Nat
        /\ of("META") \in Nat /\ of("SEAL") \in Nat
    BY <1>1
  <2>2. Bytes(p, T) = of("CODE") + of("DATA") + of("IMPORTS") + of("FUNCS")
          + of("HOST_REGION") + of("ROM") + of("META") + of("SEAL")
    BY DEF Bytes
  <2> HIDE DEF of
  <2> QED BY <2>1, <2>2
<1>3. Bytes(p, SecTypes) = n("CODE") + n("DATA") + n("IMPORTS") + n("FUNCS")
        + n("HOST_REGION") + n("ROM") + n("META") + n("SEAL")
  BY DEF Bytes, SecTypes, HostOnly
<1>4. /\ Bytes(p, Added("CODE")) = 0
      /\ Bytes(p, Added("DATA")) = n("CODE")
      /\ Bytes(p, Added("IMPORTS")) = n("CODE") + n("DATA")
      /\ Bytes(p, Added("FUNCS")) = n("CODE") + n("DATA") + n("IMPORTS")
      /\ Bytes(p, Added("HOST_REGION")) = n("CODE") + n("DATA") + n("IMPORTS") + n("FUNCS")
  BY <1>1 DEF Bytes, Added
<1>5. /\ Bytes(p, Added("ROM")) = n("CODE") + n("DATA") + n("IMPORTS") + n("FUNCS")
                                   + n("HOST_REGION")
      /\ Bytes(p, Added("META")) = n("CODE") + n("DATA") + n("IMPORTS") + n("FUNCS")
                                   + n("HOST_REGION") + n("ROM")
      /\ Bytes(p, Added("SEAL")) = n("CODE") + n("DATA") + n("IMPORTS") + n("FUNCS")
                                   + n("HOST_REGION") + n("ROM") + n("META")
  BY <1>1 DEF Bytes, Added
<1>6. \A t \in FileTypes : t \in {"CODE", "DATA", "IMPORTS", "FUNCS", "HOST_REGION",
                                  "ROM", "META", "SEAL"}
  BY DEF FileTypes, WrittenTypes, SecTypes, NoPayload, HostOnly
<1>7. ASSUME NEW t \in FileTypes
      PROVE  n(t) \in Nat /\ Bytes(p, Added(t)) + n(t) <= Bytes(p, SecTypes)
  BY <1>1, <1>3, <1>4, <1>5, <1>6
<1> QED BY <1>1, <1>2, <1>3, <1>4, <1>7

(* What precedes a payload in the file is what its offset adds up.         *)
LEMMA WrittenAtAdded ==
  ASSUME NEW p \in Programs, NEW t \in FileTypes
  PROVE  WrittenAt(p, t) = code_off(p) + Bytes(p, Added(t))
<1> DEFINE before(u) == {WriteOrder[j] : j \in {i \in DOMAIN WriteOrder :
                   \E k \in DOMAIN WriteOrder : WriteOrder[k] = u /\ i < k}}
<1>1. DOMAIN WriteOrder = 1 .. 8 BY DEF WriteOrder
<1>2. /\ WriteOrder[1] = "CODE" /\ WriteOrder[2] = "DATA" /\ WriteOrder[3] = "IMPORTS"
      /\ WriteOrder[4] = "FUNCS" /\ WriteOrder[5] = "HOST_REGION" /\ WriteOrder[6] = "ROM"
      /\ WriteOrder[7] = "META" /\ WriteOrder[8] = "SEAL"
  BY DEF WriteOrder
<1>3. \A k \in 1 .. 8 : k = 1 \/ k = 2 \/ k = 3 \/ k = 4 \/ k = 5 \/ k = 6 \/ k = 7 \/ k = 8
  OBVIOUS
<1>4. ASSUME NEW n \in 1 .. 8
      PROVE  before(WriteOrder[n]) = {WriteOrder[j] : j \in 1 .. n - 1}
  <2>1. \A k \in 1 .. 8 : WriteOrder[k] = WriteOrder[n] => k = n BY <1>2, <1>3
  <2>2. {i \in DOMAIN WriteOrder : \E k \in DOMAIN WriteOrder :
            WriteOrder[k] = WriteOrder[n] /\ i < k} = 1 .. n - 1
    BY <1>1, <2>1
  <2> QED BY <2>2
<1>5. /\ {WriteOrder[j] : j \in 1 .. 0} = Added("CODE")
      /\ {WriteOrder[j] : j \in 1 .. 1} = Added("DATA")
      /\ {WriteOrder[j] : j \in 1 .. 2} = Added("IMPORTS")
  BY <1>2 DEF Added
<1>6. /\ {WriteOrder[j] : j \in 1 .. 3} = Added("FUNCS")
      /\ {WriteOrder[j] : j \in 1 .. 4} = Added("HOST_REGION")
  <2>1. 1 .. 3 = {1, 2, 3} /\ 1 .. 4 = {1, 2, 3, 4} OBVIOUS
  <2> QED BY <1>2, <2>1 DEF Added
<1>7. {WriteOrder[j] : j \in 1 .. 5} = Added("ROM")
  <2>1. 1 .. 5 = {1, 2, 3, 4, 5} OBVIOUS
  <2> QED BY <1>2, <2>1 DEF Added
<1>8. {WriteOrder[j] : j \in 1 .. 6} = Added("META")
  <2>1. 1 .. 6 = {1, 2, 3, 4, 5, 6} OBVIOUS
  <2> QED BY <1>2, <2>1 DEF Added
<1>9. {WriteOrder[j] : j \in 1 .. 7} = Added("SEAL")
  <2>1. 1 .. 7 = {1, 2, 3, 4, 5, 6, 7} OBVIOUS
  <2> QED BY <1>2, <2>1 DEF Added
<1>10. PICK n \in 1 .. 8 : t = WriteOrder[n]
  <2>1. t \in {"CODE", "DATA", "IMPORTS", "FUNCS", "HOST_REGION", "ROM", "META", "SEAL"}
    BY DEF FileTypes, WrittenTypes, SecTypes, NoPayload, HostOnly
  <2> QED BY <1>2, <2>1
<1>11. before(t) = Added(t)
  <2>1. before(t) = {WriteOrder[j] : j \in 1 .. n - 1} BY <1>4, <1>10
  <2> HIDE DEF before
  <2>2. CASE n = 1 BY <2>1, <2>2, <1>2, <1>5, <1>10
  <2>3. CASE n = 2 BY <2>1, <2>3, <1>2, <1>5, <1>10
  <2>4. CASE n = 3 BY <2>1, <2>4, <1>2, <1>5, <1>10
  <2>5. CASE n = 4 BY <2>1, <2>5, <1>2, <1>6, <1>10
  <2>6. CASE n = 5 BY <2>1, <2>6, <1>2, <1>6, <1>10
  <2>7. CASE n = 6 BY <2>1, <2>7, <1>2, <1>7, <1>10
  <2>8. CASE n = 7 BY <2>1, <2>8, <1>2, <1>8, <1>10
  <2>9. CASE n = 8 BY <2>1, <2>9, <1>2, <1>9, <1>10
  <2> QED BY <1>3, <2>2, <2>3, <2>4, <2>5, <2>6, <2>7, <2>8, <2>9
<1> QED BY <1>11 DEF WrittenAt

(* The entry of a section, in a file that is not larger than a word says.  *)
EntryOf(p, s) ==
  /\ s.type \in WrittenTypes /\ s.size = PayloadSize(p)[s.type]
  /\ s.size \in Nat /\ s.size > 0 /\ s.flags = 0
  /\ s.type \in NoPayload => s.off = 0
  /\ s.type \notin NoPayload =>
       s.off = WrittenAt(p, s.type) /\ s.off \in Nat /\ s.off + s.size <= write_bin(p).len

LEMMA WrittenTable ==
  ASSUME NEW p \in Programs, NEW f, f = write_bin(p), f.len <= MAX_U32
  PROVE  /\ Len(f.sections) \in Nat /\ DOMAIN f.sections = 1 .. Len(f.sections)
         /\ f.len \in Nat /\ f.len >= HEADER_SIZE /\ TableFits(f)
         /\ \A k \in 1 .. Len(f.sections) : EntryOf(p, f.sections[k])
         /\ \A j, k \in 1 .. Len(f.sections) :
              f.sections[j].type = f.sections[k].type => j = k
         /\ \A t \in WrittenTypes : PayloadSize(p)[t] # 0 =>
              \E k \in 1 .. Len(f.sections) : f.sections[k].type = t
<1>1. f.sections = SectionTable(p) /\ f.len = code_off(p) + Bytes(p, SecTypes)
      /\ f.table_off = HEADER_SIZE
  BY DEF write_bin
<1>2. PICK s : s = f.sections OBVIOUS
<1>3. Lists(p, s, WrittenTypes) /\ Len(s) = section_count(p) BY <1>1, <1>2, TableLists
<1>4. /\ s \in Seq(Rows(p)) /\ Len(s) \in Nat
      /\ \A k \in 1 .. Len(s) : /\ s[k].type \in WrittenTypes /\ PayloadSize(p)[s[k].type] # 0
                                 /\ s[k] = Row(p, s[k].type)
      /\ \A j, k \in 1 .. Len(s) : s[j].type = s[k].type => j = k
      /\ \A t \in WrittenTypes : PayloadSize(p)[t] # 0 => \E k \in 1 .. Len(s) : s[k].type = t
  BY <1>3 DEF Lists
<1>5. code_off(p) = HEADER_SIZE + SECTION_SIZE * Len(s) /\ code_off(p) \in Nat
      /\ code_off(p) >= HEADER_SIZE
  BY <1>3, <1>4 DEF code_off, HEADER_SIZE, SECTION_SIZE
<1>6. Bytes(p, SecTypes) \in Nat BY BytesFacts
<1>7. f.len \in Nat /\ f.len >= HEADER_SIZE BY <1>1, <1>5, <1>6 DEF HEADER_SIZE
<1>8. TableFits(f)
  BY <1>1, <1>2, <1>4, <1>5, <1>6 DEF TableFits, HEADER_SIZE, SECTION_SIZE
<1>9. ASSUME NEW k \in 1 .. Len(s) PROVE EntryOf(p, s[k])
  <2>1. PICK t : t = s[k].type OBVIOUS
  <2>2. t \in WrittenTypes /\ PayloadSize(p)[t] # 0 /\ s[k] = Row(p, t) BY <1>4, <2>1
  <2>3. /\ s[k].size = PayloadSize(p)[t] /\ s[k].flags = 0
        /\ s[k].off = PayloadOffset(p, t)
    BY <2>2 DEF Row
  <2>4. PayloadSize(p)[t] \in Nat BY <2>2, SizesAreNat DEF WrittenTypes
  <2>7. /\ s[k].type = t /\ t \in WrittenTypes /\ s[k].size = PayloadSize(p)[t]
        /\ s[k].size \in Nat /\ s[k].size > 0 /\ s[k].flags = 0
    <3>1. PICK n \in Nat : n = PayloadSize(p)[t] BY <2>4
    <3>2. n > 0 BY <3>1, <2>2
    <3>3. s[k].type = t /\ s[k].size = n /\ s[k].flags = 0 BY <3>1, <2>1, <2>3
    <3> QED BY <3>1, <3>2, <3>3, <2>2
  <2>5. CASE t \in NoPayload
    <3>1. s[k].off = 0 BY <2>3, <2>5 DEF PayloadOffset
    <3> QED BY <2>5, <2>7, <3>1 DEF EntryOf
  <2>6. CASE t \notin NoPayload
    <3>1. t \in FileTypes BY <2>2, <2>6 DEF FileTypes
    <3>2. Bytes(p, Added(t)) \in Nat
          /\ Bytes(p, Added(t)) + PayloadSize(p)[t] <= Bytes(p, SecTypes)
      BY <3>1, BytesFacts
    <3>3. PICK n \in Nat : n = code_off(p) + Bytes(p, Added(t)) BY <1>5, <3>2
    <3>4. n + PayloadSize(p)[t] <= f.len BY <1>1, <1>5, <1>6, <2>4, <3>2, <3>3
    <3>5. n \in Word BY <1>7, <2>4, <3>4, WordFacts DEF MAX_U32, Word
    <3>6. s[k].off = n BY <2>3, <2>6, <3>3, <3>5, ToWordFacts DEF PayloadOffset
    <3>7. n = WrittenAt(p, t) BY <3>1, <3>3, WrittenAtAdded
    <3>8. s[k].off \in Nat /\ s[k].off + s[k].size <= write_bin(p).len
      BY <2>7, <3>3, <3>4, <3>6
    <3>9. s[k].off = WrittenAt(p, t) BY <3>6, <3>7
    <3> HIDE DEF NoPayload
    <3> QED BY <2>6, <2>7, <3>8, <3>9 DEF EntryOf
  <2> QED BY <2>5, <2>6
<1>10. DOMAIN s = 1 .. Len(s) BY <1>4
<1> QED BY <1>2, <1>4, <1>7, <1>8, <1>9, <1>10

-----------------------------------------------------------------------------
(* The loader on a file of the writer.                                     *)

(* A program whose binary is the file, which 32 bits can address.          *)
Loads(p) == p \in Programs /\ file = write_bin(p) /\ file.len <= MAX_U32

(* A type is seen when its section is read.                                *)
SeenRead ==
  stage = "sections" => \A t \in L.seen : \E k \in 1 .. L.i - 1 : file.sections[k].type = t

LEMMA SeenStep ==
  ASSUME Typed, SeenRead, [Next]_vars PROVE SeenRead'
<1> SUFFICES ASSUME stage' = "sections" PROVE SeenRead'
  BY DEF SeenRead
<1>0. stage' # "none" /\ stage' \notin Late BY DEF Late
<1>1. CASE UNCHANGED vars
  BY <1>1 DEF vars, SeenRead
<1>2. CASE \E f \in Files, a \in Allocators : cvm_load_ex(f, a)
  BY <1>2, <1>0, LoadCases DEF SeenRead, NoLocals
<1>3. CASE ReadSection
  <2>1. PICK s : s = file.sections[L.i] OBVIOUS
  <2>2. /\ stage = "sections" /\ file' = file /\ L'.i = L.i + 1
        /\ L'.seen = L.seen \cup ({s.type} \ {"DEBUG"}) /\ L.i \in Nat \ {0}
    BY <1>0, <1>3, <2>1, ReadSectionCases DEF Typed, TypeOK
  <2>3. ASSUME NEW t \in L'.seen
        PROVE  \E k \in 1 .. L'.i - 1 : file'.sections[k].type = t
    <3>1. CASE t \in L.seen
      <4>1. PICK k \in 1 .. L.i - 1 : file.sections[k].type = t BY <2>2, <3>1 DEF SeenRead
      <4> QED BY <2>2, <4>1
    <3>2. CASE t = s.type
      <4>1. L.i \in 1 .. L'.i - 1 BY <2>2
      <4> QED BY <2>1, <2>2, <3>2, <4>1
    <3> QED BY <2>2, <2>3, <3>1, <3>2
  <2> QED BY <2>3 DEF SeenRead
<1>4. CASE EndOfSections BY <1>0, <1>4, EndOfSectionsCases
<1>5. CASE CheckRegion BY <1>0, <1>5, CheckRegionCases
<1>6. CASE EndOfRegions BY <1>0, <1>6, EndOfRegionsCases
<1>7. CASE stage \in Late BY <1>0, <1>7, LateCases
<1> QED
  BY <1>0, <1>1, <1>2, <1>3, <1>4, <1>5, <1>6, <1>7, EarlyCases

(* Once the table is read, the loader knows the sizes of the program.      *)
LEMMA SizesLoaded ==
  ASSUME Typed, TableScanned, stage # "none", Scanned = Len(file.sections),
         NEW p, Loads(p), NEW t \in SecTypes \ HostOnly
  PROVE  /\ size(t) = PayloadSize(p)[t]
         /\ t \in L.seen <=> PayloadSize(p)[t] # 0
<1>1. /\ \A k \in 1 .. Len(file.sections) : EntryOf(p, file.sections[k])
      /\ \A u \in WrittenTypes : PayloadSize(p)[u] # 0 =>
            \E k \in 1 .. Len(file.sections) : file.sections[k].type = u
  BY WrittenTable DEF Loads
<1>2. Absent(t) \/ Present(t) BY DEF TableScanned
<1>3. CASE Absent(t)
  <2>1. size(t) = 0 /\ t \notin L.seen
        /\ \A k \in 1 .. Len(file.sections) : file.sections[k].type # t
    BY <1>3 DEF Absent, size
  <2>2. PayloadSize(p)[t] = 0
    <3>1. CASE t \in WrittenTypes BY <1>1, <2>1, <3>1
    <3>2. CASE t \notin WrittenTypes
      <4>1. t = "BSS" BY <3>2 DEF WrittenTypes, HostOnly
      <4>2. p \in Programs BY DEF Loads
      <4> QED BY <4>1, <4>2, PayloadSizes
    <3> QED BY <3>1, <3>2
  <2> QED BY <2>1, <2>2
<1>4. CASE Present(t)
  <2>1. PICK k \in 1 .. Len(file.sections) :
          file.sections[k].type = t /\ L.sec[t] = [off |-> file.sections[k].off,
                                                  size |-> file.sections[k].size]
    BY <1>4 DEF Present, StoredFrom
  <2>2. EntryOf(p, file.sections[k]) BY <1>1
  <2>3. size(t) = file.sections[k].size BY <2>1 DEF size
  <2>4. size(t) = PayloadSize(p)[t] /\ size(t) # 0 BY <2>1, <2>2, <2>3 DEF EntryOf
  <2> QED BY <1>4, <2>4 DEF Present
<1> QED BY <1>2, <1>3, <1>4

LEMMA WrittenFields ==
  ASSUME NEW p, Loads(p)
  PROVE  /\ p \in Programs /\ file.code = p.code /\ file.rom = p.rom
         /\ file.data = cg_collect_globals(p.globals)
         /\ file.funcs = FuncsTable(p) /\ file.entry = p.funcs[p.main]
         /\ file.magic /\ file.version /\ file.flags = 0
         /\ Len(file.regions) = Len(p.regions) /\ Len(file.imports) = Len(p.imports)
         /\ \A k \in 1 .. Len(p.regions) :
              /\ file.regions[k].name = p.regions[k].name /\ file.regions[k].terminated
              /\ file.regions[k].size = p.regions[k].size
              /\ file.regions[k].dir = p.regions[k].dir /\ file.regions[k].flags = 0
         /\ \A k \in 1 .. Len(p.imports) :
              /\ file.imports[k].off = NameEnds(p.imports)[k - 1]
              /\ file.imports[k].name = p.imports[k].name /\ file.imports[k].terminated
<1>1. p \in Programs /\ file = write_bin(p) BY DEF Loads
<1>2. /\ file.code = p.code /\ file.rom = p.rom
      /\ file.data = cg_collect_globals(p.globals)
      /\ file.funcs = FuncsTable(p) /\ file.entry = p.funcs[p.main]
      /\ file.magic /\ file.version /\ file.flags = 0
  BY <1>1 DEF write_bin
<1>3. file.regions = [k \in DOMAIN p.regions |->
                  [name |-> p.regions[k].name, terminated |-> TRUE,
                   size |-> p.regions[k].size, dir |-> p.regions[k].dir, flags |-> 0]]
  BY <1>1 DEF write_bin
<1>4. file.imports = [k \in DOMAIN p.imports |->
                  [off |-> NameEnds(p.imports)[k - 1], name |-> p.imports[k].name,
                   terminated |-> TRUE]]
  BY <1>1 DEF write_bin
<1>5. /\ DOMAIN p.regions = 1 .. Len(p.regions) /\ Len(p.regions) \in Nat
      /\ DOMAIN p.imports = 1 .. Len(p.imports) /\ Len(p.imports) \in Nat
  <2>1. /\ p.regions \in Seq([name : Seq(Byte \ {0}), size : 1 .. WordMod \div 2 - 1, dir : 1 .. 3])
        /\ p.imports \in Seq([name : STRING, len : Nat \ {0}])
    BY <1>1, ProgramFacts DEF IsProgram
  <2> QED BY <2>1
<1>6. Len(file.regions) = Len(p.regions) BY <1>3, <1>5
<1>7. Len(file.imports) = Len(p.imports) BY <1>4, <1>5
<1> QED BY <1>1, <1>2, <1>3, <1>4, <1>5, <1>6, <1>7

(* The regions added up so far are the sums of the program's.              *)
LEMMA RegionTotalIs ==
  ASSUME Typed, RegionsChecked, stage \notin {"none", "sections"}, NEW p, Loads(p)
  PROVE  Seen \in 0 .. Len(p.regions) /\ L.region_total = RegionTotals(p)[Seen]
<1>1. PICK t : IsSums(t, Seen) /\ L.region_total = t[Seen] BY DEF RegionsChecked
<1>2. Seen <= region_count /\ region_count <= Len(file.regions) /\ region_count \in Nat
  BY CountFacts DEF RegionsChecked
<1>3. Seen \in 0 .. Len(p.regions)
  <2>1. L.i \in Nat \ {0} BY DEF Typed, TypeOK
  <2>2. Len(p.regions) \in Nat BY ProgramFacts, WrittenFields
  <2> QED BY <1>2, <2>1, <2>2, WrittenFields DEF Seen
<1>4. /\ Len(p.regions) \in Nat
      /\ \A k \in 1 .. Len(p.regions) : p.regions[k].size \in Nat
  BY ProgramFacts, WrittenFields
<1>5. /\ RegionTotals(p)[0] = 0
      /\ \A k \in 1 .. Len(p.regions) :
           RegionTotals(p)[k] = RegionTotals(p)[k - 1] + Aligned(p.regions[k].size)
  <2>1. Running(RegionTotals(p), 0, RegionBytes(p), Len(p.regions)) BY <1>4, RegionSteps
  <2> QED BY <2>1 DEF Running, RegionBytes
<1>6. \A k \in 1 .. Seen : t[k - 1] = RegionTotals(p)[k - 1] => t[k] = RegionTotals(p)[k]
  <2> SUFFICES ASSUME NEW k \in 1 .. Seen, t[k - 1] = RegionTotals(p)[k - 1]
               PROVE  t[k] = RegionTotals(p)[k]
    OBVIOUS
  <2>1. k \in 1 .. Len(p.regions) BY <1>3, <1>4
  <2>2. t[k] = t[k - 1] + Aligned(file.regions[k].size) BY <1>1 DEF IsSums
  <2> QED BY <1>5, <2>1, <2>2, WrittenFields
<1>7. t[0] = RegionTotals(p)[0] BY <1>1, <1>5 DEF IsSums
<1>8. Seen \in Nat BY <1>3, <1>4
<1>9. \A k \in 0 .. Seen : t[k] = RegionTotals(p)[k] BY <1>6, <1>7, <1>8, RunningSame
<1> QED BY <1>1, <1>3, <1>8, <1>9

-----------------------------------------------------------------------------
(* No check fails but those on the limits.                                 *)

LEMMA Fails5 ==
  ASSUME NEW c1, NEW c2, NEW c3, NEW c4, NEW c5,
         NEW e1, NEW e2, NEW e3, NEW e4, NEW e5, NEW e,
         Fails(<< <<c1, e1>>, <<c2, e2>>, <<c3, e3>>, <<c4, e4>>, <<c5, e5>> >>, e)
  PROVE  \/ c1 /\ e = e1
         \/ c2 /\ e = e2
         \/ c3 /\ e = e3
         \/ c4 /\ e = e4
         \/ c5 /\ e = e5
<1> DEFINE c == << <<c1, e1>>, <<c2, e2>>, <<c3, e3>>, <<c4, e4>>, <<c5, e5>> >>
<1>1. PICK k \in 1 .. 5 : c[k][1] /\ c[k][2] = e BY DEF Fails
<1>2. k = 1 \/ k = 2 \/ k = 3 \/ k = 4 \/ k = 5 OBVIOUS
<1>3. \/ c[1][1] /\ c[1][2] = e
      \/ c[2][1] /\ c[2][2] = e
      \/ c[3][1] /\ c[3][2] = e
      \/ c[4][1] /\ c[4][2] = e
      \/ c[5][1] /\ c[5][2] = e
  <2> HIDE DEF c
  <2> QED BY <1>1, <1>2, Zenon
<1> QED BY <1>3, Zenon

LEMMA Fails7 ==
  ASSUME NEW c1, NEW c2, NEW c3, NEW c4, NEW c5, NEW c6, NEW c7,
         NEW e1, NEW e2, NEW e3, NEW e4, NEW e5, NEW e6, NEW e7, NEW e,
         Fails(<< <<c1, e1>>, <<c2, e2>>, <<c3, e3>>, <<c4, e4>>, <<c5, e5>>,
                  <<c6, e6>>, <<c7, e7>> >>, e)
  PROVE  \/ c1 /\ e = e1
         \/ c2 /\ e = e2
         \/ c3 /\ e = e3
         \/ c4 /\ e = e4
         \/ c5 /\ e = e5
         \/ c6 /\ e = e6
         \/ c7 /\ e = e7
<1> DEFINE c == << <<c1, e1>>, <<c2, e2>>, <<c3, e3>>, <<c4, e4>>, <<c5, e5>>,
                   <<c6, e6>>, <<c7, e7>> >>
<1>1. PICK k \in 1 .. 7 : c[k][1] /\ c[k][2] = e BY DEF Fails
<1>2. k = 1 \/ k = 2 \/ k = 3 \/ k = 4 \/ k = 5 \/ k = 6 \/ k = 7 OBVIOUS
<1>3. \/ c[1][1] /\ c[1][2] = e
      \/ c[2][1] /\ c[2][2] = e
      \/ c[3][1] /\ c[3][2] = e
      \/ c[4][1] /\ c[4][2] = e
      \/ c[5][1] /\ c[5][2] = e
      \/ c[6][1] /\ c[6][2] = e
      \/ c[7][1] /\ c[7][2] = e
  <2> HIDE DEF c
  <2> QED BY <1>1, <1>2, Zenon
<1> QED BY <1>3, Zenon

LEMMA CheckFails ==
  ASSUME NEW checks, NEW next, NEW locals, NEW read,
         Check(checks, next, locals, read), stage' = "none", next # "none"
  PROVE  file' = file /\ Fails(checks, err')
BY DEF Check, Continue, Return

LEMMA HeaderFails ==
  ASSUME NEW f, NEW e, Fails(HeaderChecks(f), e)
  PROVE  \/ f.len < HEADER_SIZE \/ ~f.magic \/ ~f.version \/ f.flags # 0 \/ ~TableFits(f)
<1> DEFINE c1 == f.len < HEADER_SIZE
           c2 == ~f.magic
           c3 == ~f.version
           c4 == f.flags # 0
           c5 == ~TableFits(f)
<1>1. Fails(<< <<c1, "TRUNCATED">>, <<c2, "BAD_MAGIC">>, <<c3, "BAD_VERSION">>,
               <<c4, "BAD_SECTION">>, <<c5, "TRUNCATED">> >>, e)
  BY DEF HeaderChecks
<1> HIDE DEF c1, c2, c3, c4, c5
<1>2. c1 \/ c2 \/ c3 \/ c4 \/ c5 BY <1>1, Fails5
<1> QED BY <1>2 DEF c1, c2, c3, c4, c5

LEMMA SectionFails ==
  ASSUME NEW s, NEW e, Fails(SectionChecks(s), e)
  PROVE  \/ s.flags # 0
         \/ s.type = "BAD"
         \/ s.type # "DEBUG" /\ s.type \in L.seen
         \/ s.type \notin NoPayload /\ s.off + s.size > file.len
         \/ s.type \in NoPayload /\ s.off # 0
         \/ s.type = "CODE" /\ (s.size = 0 \/ s.size % 4 # 0)
         \/ s.type = "FUNCS" /\ (s.size = 0 \/ s.size % 4 # 0)
<1> DEFINE c1 == s.flags # 0
           c2 == s.type = "BAD"
           c3 == s.type # "DEBUG" /\ s.type \in L.seen
           c4 == s.type \notin NoPayload /\ s.off + s.size > file.len
           c5 == s.type \in NoPayload /\ s.off # 0
           c6 == s.type = "CODE" /\ (s.size = 0 \/ s.size % 4 # 0)
           c7 == s.type = "FUNCS" /\ (s.size = 0 \/ s.size % 4 # 0)
<1>1. Fails(<< <<c1, "BAD_SECTION">>, <<c2, "BAD_SECTION">>, <<c3, "DUP_SECTION">>,
               <<c4, "TRUNCATED">>, <<c5, "BAD_SECTION">>, <<c6, "BAD_SECTION">>,
               <<c7, "BAD_FUNCS">> >>, e)
  BY DEF SectionChecks
<1> HIDE DEF c1, c2, c3, c4, c5, c6, c7
<1>2. c1 \/ c2 \/ c3 \/ c4 \/ c5 \/ c6 \/ c7 BY <1>1, Fails7
<1> QED BY <1>2 DEF c1, c2, c3, c4, c5, c6, c7

(* The header and the section table.                                       *)
LEMMA AcceptsHeader ==
  ASSUME NEW f \in Files, NEW a, cvm_load_ex(f, a), NEW p \in Programs,
         f = write_bin(p), f.len <= MAX_U32
  PROVE  stage' # "none"
<1> SUFFICES ASSUME stage' = "none" PROVE FALSE OBVIOUS
<1>1. PICK e : Fails(HeaderChecks(f), e) BY DEF cvm_load_ex
<1>2. f.magic /\ f.version /\ f.flags = 0 BY DEF write_bin
<1>3. f.len \in Nat /\ f.len >= HEADER_SIZE /\ TableFits(f) BY WrittenTable
<1>4. ~(f.len < HEADER_SIZE) BY <1>3 DEF HEADER_SIZE
<1> QED BY <1>1, <1>2, <1>3, <1>4, HeaderFails

LEMMA AcceptsSection ==
  ASSUME Typed, SeenRead, ReadSection, NEW p, Loads(p)
  PROVE  stage' # "none"
<1> SUFFICES ASSUME stage' = "none" PROVE FALSE OBVIOUS
<1>1. PICK s : s = file.sections[L.i] OBVIOUS
<1>2. stage = "sections" /\ L.i <= Len(file.sections) BY DEF ReadSection
<1>3. Fails(SectionChecks(s), err')
  <2> DEFINE locals == [L EXCEPT !.i = @ + 1, !.seen = @ \cup ({s.type} \ {"DEBUG"}),
                       !.sec = IF s.type \in HostOnly THEN @
                               ELSE [@ EXCEPT ![s.type] = [off |-> s.off, size |-> s.size]]]
             read == Span(file.table_off + (L.i - 1) * SECTION_SIZE, SECTION_SIZE)
  <2>1. Check(SectionChecks(s), "sections", locals, read) BY <1>1 DEF ReadSection
  <2> HIDE DEF locals, read
  <2> QED BY <2>1, CheckFails
<1>4. L.i \in 1 .. Len(file.sections) /\ L.i \in Nat
  BY <1>2, FileFacts DEF Typed, TypeOK
<1>5. /\ EntryOf(p, s)
      /\ \A j, k \in 1 .. Len(file.sections) :
              file.sections[j].type = file.sections[k].type => j = k
  BY <1>1, <1>4, WrittenTable DEF Loads
<1>6. s.flags = 0 /\ s.type # "BAD" /\ (s.type \in NoPayload => s.off = 0)
  BY <1>5 DEF EntryOf, WrittenTypes, SecTypes, NoPayload, HostOnly
<1>7. s.type \notin L.seen
  <2> SUFFICES ASSUME s.type \in L.seen PROVE FALSE OBVIOUS
  <2>1. PICK k \in 1 .. L.i - 1 : file.sections[k].type = s.type BY <1>2 DEF SeenRead
  <2>2. k \in 1 .. Len(file.sections) /\ k # L.i BY <1>4
  <2> QED BY <1>1, <1>4, <1>5, <2>1, <2>2
<1>8. s.type \notin NoPayload => ~(s.off + s.size > file.len)
  <2> SUFFICES ASSUME s.type \notin NoPayload PROVE ~(s.off + s.size > file.len) OBVIOUS
  <2>1. /\ s.off \in Nat /\ s.size \in Nat /\ s.off + s.size <= write_bin(p).len
        /\ file.len = write_bin(p).len
    BY <1>5 DEF EntryOf, Loads
  <2>2. file.len \in Nat BY FileFacts
  <2> QED BY <2>1, <2>2
<1>9. s.type \in {"CODE", "FUNCS"} => ~(s.size = 0 \/ s.size % 4 # 0)
  <2> SUFFICES ASSUME s.type \in {"CODE", "FUNCS"} PROVE s.size # 0 /\ s.size % 4 = 0
    OBVIOUS
  <2>1. s.size = PayloadSize(p)[s.type] /\ s.size # 0 /\ s.size \in Nat BY <1>5 DEF EntryOf
  <2>2. \E n \in Nat : s.size = 4 * n
    <3>1. p \in Programs BY DEF Loads
    <3>2. CASE s.type = "CODE" BY <2>1, <3>1, <3>2, PayloadSizes, ProgramFacts
    <3>3. CASE s.type = "FUNCS" BY <2>1, <3>1, <3>3, PayloadSizes, FuncsTableFacts
    <3> QED BY <3>2, <3>3
  <2> QED BY <2>1, <2>2
<1> QED BY <1>3, <1>6, <1>7, <1>8, <1>9, SectionFails

(* The table is read when EndOfSections happens.                           *)
LEMMA AcceptsTable ==
  ASSUME Typed, TableScanned, EndOfSections, NEW p, Loads(p)
  PROVE  stage' # "none"
<1> SUFFICES ASSUME stage' = "none" PROVE FALSE OBVIOUS
<1> DEFINE c1 == "CODE" \notin L.seen
           c2 == file.entry >= code_count
           c3 == size("HOST_REGION") \in 1 .. 3
           c4 == region_count > MAX_U16
           c5 == size("HOST_REGION") > 0 /\ ~RegionsFit
           checks == << <<c1, "NO_CODE">>, <<c2, "BAD_ENTRY">>, <<c3, "BAD_REGION">>,
                        <<c4, "BAD_REGION">>, <<c5, "BAD_REGION">> >>
           locals == [L EXCEPT !.i = 1]
           read == IF size("HOST_REGION") < 4 THEN {} ELSE Span(off("HOST_REGION"), 4)
<1>1. stage = "sections" /\ L.i > Len(file.sections) /\ Check(checks, "regions", locals, read)
  BY DEF EndOfSections
<1>2. c1 \/ c2 \/ c3 \/ c4 \/ c5
  <2> HIDE DEF checks, locals, read
  <2>1. Fails(checks, err') BY <1>1, CheckFails
  <2> HIDE DEF c1, c2, c3, c4, c5
  <2> QED BY <2>1, Fails5 DEF checks
<1>3. Scanned = Len(file.sections)
  BY <1>1, FileFacts DEF TableScanned, Scanned, Typed, TypeOK
<1>4. p \in Programs BY DEF Loads
<1>5. /\ "CODE" \in SecTypes \ HostOnly /\ "HOST_REGION" \in SecTypes \ HostOnly
  BY DEF SecTypes, HostOnly, NoPayload
<1>6. size("CODE") = 4 * Len(p.code) /\ "CODE" \in L.seen
  <2>1. size("CODE") = PayloadSize(p)["CODE"]
        /\ ("CODE" \in L.seen <=> PayloadSize(p)["CODE"] # 0)
    BY <1>1, <1>3, <1>5, SizesLoaded
  <2> QED BY <2>1, <1>4, PayloadSizes, ProgramFacts
<1>7. size("HOST_REGION") = RegionsSize(p.regions)
  BY <1>1, <1>3, <1>4, <1>5, SizesLoaded, PayloadSizes
<1>8. ~c2
  <2>1. code_count = Len(p.code)
    <3>1. \A n \in Nat : (4 * n) \div 4 = n OBVIOUS
    <3> QED BY <1>4, <1>6, <3>1, ProgramFacts DEF code_count
  <2>2. file.entry \in Nat /\ file.entry < Len(p.code)
    BY <1>4, ProgramFacts, WrittenFields
  <2> QED BY <1>4, <2>1, <2>2, ProgramFacts
<1>9. Len(file.regions) = Len(p.regions) /\ Len(p.regions) \in Nat
      /\ Len(p.regions) <= MAX_U16 /\ MAX_U16 \in Nat
  <2>1. Len(p.regions) <= MAX_U16 BY <1>4, ProgramFacts DEF IsProgram
  <2>2. HalfMod \in Nat /\ HalfMod > 0 BY ByteBaseAssumption DEF HalfMod
  <2> QED BY <1>4, <2>1, <2>2, ProgramFacts, WrittenFields DEF MAX_U16
<1>10. \/ p.regions = <<>> /\ size("HOST_REGION") = 0
       \/ size("HOST_REGION") = 4 + 28 * Len(p.regions) /\ region_count = Len(p.regions)
  <2>1. CASE p.regions = <<>> BY <1>7, <2>1 DEF RegionsSize
  <2>2. CASE p.regions # <<>>
    <3>1. size("HOST_REGION") = 4 + 28 * Len(p.regions)
      BY <1>7, <2>2 DEF RegionsSize, REGION_ENTRY_SIZE
    <3>2. size("HOST_REGION") # 0 BY <3>1, <1>9
    <3> QED BY <3>1, <3>2, <1>9 DEF region_count
  <2> QED BY <2>1, <2>2
<1>11. ~c3 BY <1>9, <1>10
<1>12. ~c4 BY <1>9, <1>10 DEF region_count
<1>13. ~c5 BY <1>9, <1>10 DEF RegionsFit, REGION_ENTRY_SIZE
<1> QED BY <1>2, <1>6, <1>8, <1>11, <1>12, <1>13

(* A region fails only when the sum of their sizes is too large.           *)
LEMMA AcceptsRegion ==
  ASSUME Typed, TableScanned, RegionsChecked, CheckRegion, stage' = "none",
         NEW p, Loads(p)
  PROVE  err' = "BAD_REGION" /\ RegionTotal(p) > MAX_U32
<1> PICK e : e = file.regions[L.i] OBVIOUS
<1> DEFINE total == L.region_total + Aligned(e.size)
           locals == [L EXCEPT !.i = @ + 1, !.region_total = total]
           same == \E j \in 1 .. L.i - 1 : file.regions[j].name = e.name
           c1 == ~e.terminated \/ e.name = <<>>
           c2 == e.flags # 0
           c3 == e.dir \notin 1 .. 3
           c5 == total > MAX_U32
           checks == << <<c1, "BAD_REGION">>, <<c2, "BAD_REGION">>, <<c3, "BAD_REGION">>,
                        <<same, "BAD_REGION">>, <<c5, "BAD_REGION">> >>
           read == UNION {EntryAt(j) : j \in 1 .. L.i}
<1>1. stage = "regions" /\ L.i <= region_count /\ Check(checks, "regions", locals, read)
  BY DEF CheckRegion
<1>2. (c1 \/ c2 \/ c3 \/ same \/ c5) /\ err' = "BAD_REGION"
  <2> HIDE DEF checks, locals, read
  <2>1. Fails(checks, err') BY <1>1, CheckFails
  <2> HIDE DEF c1, c2, c3, same, c5
  <2> QED BY <2>1, Fails5 DEF checks
<1>3. p \in Programs /\ Len(p.regions) \in Nat BY ProgramFacts, WrittenFields
<1>4. L.i \in 1 .. Len(p.regions)
  BY <1>1, <1>3, CountFacts, WrittenFields DEF Typed, TypeOK
<1>5. /\ e.name = p.regions[L.i].name /\ e.terminated /\ e.flags = 0
      /\ e.size = p.regions[L.i].size /\ e.dir = p.regions[L.i].dir
      /\ \A j \in 1 .. L.i - 1 : file.regions[j].name = p.regions[j].name
  BY <1>3, <1>4, WrittenFields
<1>6. /\ Len(p.regions[L.i].name) \in 1 .. 15
      /\ \A j \in 1 .. Len(p.regions) : p.regions[j].name = p.regions[L.i].name => j = L.i
      /\ p.regions[L.i].dir \in 1 .. 3
  <2> DEFINE I == [name : Seq(Byte \ {0}), size : 1 .. WordMod \div 2 - 1, dir : 1 .. 3]
  <2>1. p.regions \in Seq(I) BY <1>3, ProgramFacts DEF IsProgram
  <2>4. \A x \in I : x.dir \in 1 .. 3 OBVIOUS
  <2> HIDE DEF I
  <2>2. DOMAIN p.regions = 1 .. Len(p.regions) BY <2>1
  <2>3. p.regions[L.i] \in I BY <1>4, <2>1
  <2>5. \A j, k \in DOMAIN p.regions :
          /\ Len(p.regions[k].name) \in 1 .. 15
          /\ p.regions[j].name = p.regions[k].name => j = k
    BY <1>3, ProgramFacts DEF IsProgram
  <2> QED BY <1>4, <2>2, <2>3, <2>4, <2>5
<1>7. ~c1
  <2>1. e.name # <<>>
    <3>1. Len(p.regions[L.i].name) # 0
      <4>1. \A n \in 1 .. 15 : n # 0 OBVIOUS
      <4>2. Len(p.regions[L.i].name) \in 1 .. 15 BY <1>6, Zenon
      <4> QED BY <4>1, <4>2, Zenon
    <3>2. Len(<<>>) = 0 OBVIOUS
    <3>3. p.regions[L.i].name # <<>> BY <3>1, <3>2, Zenon
    <3> QED BY <3>3, <1>5
  <2>2. e.terminated BY <1>5
  <2> QED BY <2>1, <2>2, Zenon
<1>8. ~c2 /\ ~c3 BY <1>5, <1>6
<1>9. ~same
  <2> SUFFICES ASSUME NEW j \in 1 .. L.i - 1, file.regions[j].name = e.name PROVE FALSE
    OBVIOUS
  <2>1. j \in 1 .. Len(p.regions) /\ j # L.i BY <1>3, <1>4
  <2> QED BY <1>5, <1>6, <2>1
<1>10. c5 BY <1>2, <1>7, <1>8, <1>9
<1>11. total = RegionTotals(p)[L.i]
  <2>1. Seen = L.i - 1 BY <1>1 DEF Seen
  <2>2. L.region_total = RegionTotals(p)[L.i - 1] BY <1>1, <2>1, RegionTotalIs
  <2>3. \A k \in 1 .. Len(p.regions) : p.regions[k].size \in Nat BY <1>3, ProgramFacts
  <2>4. Running(RegionTotals(p), 0, RegionBytes(p), Len(p.regions)) BY <1>3, <2>3, RegionSteps
  <2>5. RegionTotals(p)[L.i] = RegionTotals(p)[L.i - 1] + Aligned(p.regions[L.i].size)
    BY <1>4, <2>4 DEF Running, RegionBytes
  <2> QED BY <1>5, <2>2, <2>5
<1>12. RegionTotals(p)[L.i] <= RegionTotal(p) /\ RegionTotals(p)[L.i] \in Nat
       /\ RegionTotal(p) \in Nat
  <2>1. \A k \in 1 .. Len(p.regions) : p.regions[k].size \in Nat BY <1>3, ProgramFacts
  <2>2. Running(RegionTotals(p), 0, RegionBytes(p), Len(p.regions))
        /\ RegionBytes(p) \in [1 .. Len(p.regions) -> Nat]
    BY <1>3, <2>1, RegionSteps
  <2>3. L.i \in 0 .. Len(p.regions) /\ Len(p.regions) \in 0 .. Len(p.regions)
        /\ L.i <= Len(p.regions) /\ 0 \in Nat
    BY <1>3, <1>4
  <2> QED BY <1>3, <2>2, <2>3, RunningGrows DEF RegionTotal
<1>13. MAX_U32 \in Nat BY TotalFacts
<1> HIDE DEF total
<1> QED BY <1>2, <1>10, <1>11, <1>12, <1>13

(* What the loader adds up when the regions are checked.                   *)
LEMMA TotalsLoaded ==
  ASSUME Typed, TableScanned, RegionsChecked, stage \notin {"none", "sections"},
         Seen = region_count, NEW p, Loads(p)
  PROVE  /\ L.region_total = RegionTotal(p) /\ mem_total = MemorySize(p)
         /\ mem_total \in Nat /\ heap_total \in Nat /\ heap_total <= mem_total
         /\ region_count = Len(p.regions) /\ import_count = Len(p.imports)
<1>1. p \in Programs /\ Len(p.regions) \in Nat /\ Len(p.imports) \in Nat
  BY ProgramFacts, WrittenFields
<1>2. Scanned = Len(file.sections) BY DEF Scanned
<1>3. \A t \in SecTypes \ HostOnly : size(t) = PayloadSize(p)[t] BY <1>2, SizesLoaded
<1>4. /\ size("DATA") = data_size(p.globals) /\ size("BSS") = 0
      /\ size("ROM") = Len(p.rom) /\ size("HEAP_RESERVE") = p.heap_reserve
      /\ size("STACK_RESERVE") = p.stack_reserve
      /\ size("HOST_REGION") = RegionsSize(p.regions)
      /\ size("IMPORTS") = IF p.imports = <<>> THEN 0
                          ELSE NameEnds(p.imports)[Len(p.imports)]
  BY <1>1, <1>3, PayloadSizes DEF SecTypes, HostOnly, NoPayload
<1>5. region_count = Len(p.regions)
  <2>1. CASE p.regions = <<>>
    <3>1. size("HOST_REGION") = 0 /\ Len(p.regions) = 0 BY <1>4, <2>1 DEF RegionsSize
    <3> QED BY <3>1 DEF region_count
  <2>2. CASE p.regions # <<>>
    <3>1. size("HOST_REGION") # 0 BY <1>1, <1>4, <2>2 DEF RegionsSize, REGION_ENTRY_SIZE
    <3> QED BY <3>1, WrittenFields DEF region_count
  <2> QED BY <2>1, <2>2
<1>6. import_count = Len(p.imports)
  <2>1. CASE p.imports = <<>>
    <3>1. size("IMPORTS") = 0 /\ Len(p.imports) = 0 BY <1>4, <2>1
    <3> QED BY <3>1 DEF import_count
  <2>2. CASE p.imports # <<>>
    <3>1. \A k \in 1 .. Len(p.imports) : p.imports[k].len \in Nat BY <1>1, ProgramFacts
    <3>2. Running(NameEnds(p.imports), 4 + 4 * Len(p.imports), NameBytes(p.imports), Len(p.imports))
          /\ NameBytes(p.imports) \in [1 .. Len(p.imports) -> Nat]
      BY <1>1, <3>1, NameSteps
    <3>3. NameEnds(p.imports)[0] = 4 + 4 * Len(p.imports) BY <3>2 DEF Running
    <3>4. 0 \in 0 .. Len(p.imports) /\ Len(p.imports) \in 0 .. Len(p.imports)
          /\ 0 <= Len(p.imports) /\ 4 + 4 * Len(p.imports) \in Nat
      BY <1>1
    <3>5. NameEnds(p.imports)[0] <= NameEnds(p.imports)[Len(p.imports)]
          /\ NameEnds(p.imports)[Len(p.imports)] \in Nat
      BY <1>1, <3>2, <3>4, RunningGrows
    <3>6. size("IMPORTS") # 0 BY <1>1, <1>4, <2>2, <3>3, <3>5
    <3> QED BY <3>6, WrittenFields DEF import_count
  <2> QED BY <2>1, <2>2
<1>7. L.region_total = RegionTotal(p) BY <1>5, RegionTotalIs DEF RegionTotal
<1>8. mem_total = MemorySize(p)
  <2>1. /\ data_size(p.globals) \in Nat /\ Len(p.rom) \in Nat
        /\ p.heap_reserve \in Nat /\ p.stack_reserve \in Nat
    BY <1>1, ProgramFacts, DataSizeFacts
  <2>2. L.region_total \in Nat BY TotalFacts
  <2>3. PICK a1 \in Nat, a2 \in Nat, a3 \in Nat, a4 \in Nat, a5 \in Nat :
          /\ a1 = data_size(p.globals) /\ a2 = Len(p.rom) /\ a3 = p.heap_reserve
          /\ a4 = p.stack_reserve /\ a5 = L.region_total
    BY <2>1, <2>2
  <2>4. MemorySize(p) = a1 + a2 + a3 + a4 + a5 BY <1>7, <2>3 DEF MemorySize
  <2>5. mem_total = a1 + 0 + a5 + a2 + a3 + a4
    <3>1. /\ size("DATA") = a1 /\ size("BSS") = 0 /\ L.region_total = a5
          /\ size("ROM") = a2 /\ size("HEAP_RESERVE") = a3 /\ size("STACK_RESERVE") = a4
      BY <1>4, <2>3, Zenon
    <3>2. mem_total = size("DATA") + size("BSS") + L.region_total + size("ROM")
                        + size("HEAP_RESERVE") + size("STACK_RESERVE")
      BY Zenon DEF mem_total, heap_total
    <3> QED BY <3>1, <3>2, Zenon
  <2> QED BY <2>4, <2>5
<1>9. mem_total \in Nat /\ heap_total \in Nat /\ heap_total <= mem_total
  BY <1>1, <1>4, TotalFacts, ProgramFacts
<1> QED BY <1>5, <1>6, <1>7, <1>8, <1>9

(* The names of the imports lie in the payload.                            *)
LEMMA NamesFit ==
  ASSUME Typed, TableScanned, RegionsChecked, stage \notin {"none", "sections"},
         Seen = region_count, NEW p, Loads(p)
  PROVE  /\ size("IMPORTS") \notin 1 .. 3 /\ (size("IMPORTS") > 0 => ImportsFit)
         /\ \A k \in 1 .. import_count :
              ~(file.imports[k].off >= size("IMPORTS") \/ ~file.imports[k].terminated)
<1> DEFINE N == Len(p.imports)
           f == NameEnds(p.imports)
<1>1. p \in Programs /\ N \in Nat BY ProgramFacts, WrittenFields
<1>2. import_count = N BY TotalsLoaded
<1>3. size("IMPORTS") = IF p.imports = <<>> THEN 0 ELSE f[N]
  <2>1. Scanned = Len(file.sections) BY DEF Scanned
  <2>2. "IMPORTS" \in SecTypes \ HostOnly BY DEF SecTypes, HostOnly, NoPayload
  <2>3. size("IMPORTS") = PayloadSize(p)["IMPORTS"] BY <2>1, <2>2, SizesLoaded
  <2> QED BY <1>1, <2>3, PayloadSizes
<1>4. \A k \in 1 .. N : p.imports[k].len \in Nat BY <1>1, ProgramFacts
<1>5. /\ Running(f, 4 + 4 * N, NameBytes(p.imports), N)
      /\ NameBytes(p.imports) \in [1 .. N -> Nat]
  BY <1>1, <1>4, NameSteps
<1>6. /\ f[0] = 4 + 4 * N /\ f \in [0 .. N -> Nat]
      /\ \A k \in 1 .. N : f[k] = f[k - 1] + (p.imports[k].len + 1)
  BY <1>5 DEF Running, NameBytes
<1>7. \A k \in 0 .. N : f[0] <= f[k] /\ f[k] <= f[N]
  <2> HIDE DEF f, N
  <2>1. 4 + 4 * N \in Nat BY <1>1
  <2> SUFFICES ASSUME NEW k \in 0 .. N PROVE f[0] <= f[k] /\ f[k] <= f[N] OBVIOUS
  <2>2. 0 \in 0 .. N /\ N \in 0 .. N /\ 0 <= k /\ k <= N BY <1>1
  <2> QED BY <1>1, <1>5, <2>1, <2>2, RunningGrows
<1>8. CASE p.imports = <<>>
  <2>1. N = 0 /\ size("IMPORTS") = 0 BY <1>3, <1>8
  <2> QED BY <1>2, <2>1
<1>9. CASE p.imports # <<>>
  <2>1. size("IMPORTS") = f[N] /\ f[N] \in Nat /\ f[N] >= 4 + 4 * N
    BY <1>1, <1>3, <1>6, <1>7, <1>9
  <2>2. size("IMPORTS") \notin 1 .. 3 /\ ImportsFit
    <3>1. N # 0 BY <1>1, <1>9
    <3> QED BY <1>1, <1>2, <2>1, <3>1 DEF ImportsFit
  <2>3. ASSUME NEW k \in 1 .. N
        PROVE  ~(file.imports[k].off >= size("IMPORTS") \/ ~file.imports[k].terminated)
    <3>1. file.imports[k].off = f[k - 1] /\ file.imports[k].terminated BY WrittenFields
    <3>2. k - 1 \in 0 .. N /\ k \in 0 .. N BY <1>1
    <3>3. f[k - 1] \in Nat /\ f[k] = f[k - 1] + (p.imports[k].len + 1) /\ f[k] <= f[N]
      BY <3>2, <1>6, <1>7
    <3>4. p.imports[k].len \in Nat BY <1>4
    <3>5. f[k - 1] < f[N]
      <4>1. PICK x \in Nat, y \in Nat, z \in Nat :
              x = f[k - 1] /\ y = p.imports[k].len /\ z = f[N]
        BY <2>1, <3>3, <3>4
      <4> QED BY <4>1, <3>3
    <3> QED BY <2>1, <3>1, <3>3, <3>5
  <2> QED BY <1>2, <2>2, <2>3
<1> QED BY <1>8, <1>9

(* The totals fail only at the limits.                                     *)
LEMMA AcceptsTotals ==
  ASSUME Typed, TableScanned, RegionsChecked, EndOfRegions, stage' = "none",
         NEW p, Loads(p)
  PROVE  \/ err' = "BAD_SECTION" /\ (p.stack_reserve \in 1 .. 3 \/ MemorySize(p) > MAX_U32)
         \/ err' = "BAD_IMPORTS" /\ Len(p.imports) > MAX_U16
<1> DEFINE c1 == heap_total > MAX_U32
           c2 == size("STACK_RESERVE") \in 1 .. 3
           c3 == mem_total > MAX_U32
           c4 == size("IMPORTS") \in 1 .. 3
           c5 == import_count > MAX_U16
           c6 == size("IMPORTS") > 0 /\ ~ImportsFit
           c7 == \E k \in 1 .. import_count :
                  \/ file.imports[k].off >= size("IMPORTS")
                  \/ ~file.imports[k].terminated
           checks == << <<c1, "BAD_SECTION">>, <<c2, "BAD_SECTION">>, <<c3, "BAD_SECTION">>,
                        <<c4, "BAD_IMPORTS">>, <<c5, "BAD_IMPORTS">>,
                        <<c6, "BAD_IMPORTS">>, <<c7, "BAD_IMPORTS">> >>
           locals == [L EXCEPT !.i = 1]
<1>1. stage = "regions" /\ L.i > region_count /\ Check(checks, "alloc", locals, ImportReads)
  BY DEF EndOfRegions
<1>2. \/ (c1 \/ c2 \/ c3) /\ err' = "BAD_SECTION"
      \/ (c4 \/ c5 \/ c6 \/ c7) /\ err' = "BAD_IMPORTS"
  <2> HIDE DEF checks, locals
  <2>1. Fails(checks, err') BY <1>1, CheckFails
  <2> HIDE DEF c1, c2, c3, c4, c5, c6, c7
  <2> QED BY <2>1, Fails7 DEF checks
<1>3. Seen = region_count
  <2>1. L.i \in Nat /\ region_count \in Nat /\ Seen <= region_count
    BY <1>1, CountFacts DEF Typed, TypeOK, RegionsChecked
  <2> QED BY <1>1, <2>1 DEF Seen
<1>4. /\ mem_total = MemorySize(p) /\ import_count = Len(p.imports)
      /\ mem_total \in Nat /\ heap_total \in Nat /\ heap_total <= mem_total
      /\ MAX_U32 \in Nat
  BY <1>1, <1>3, TotalsLoaded, TotalFacts
<1>5. ~c4 /\ ~c6 /\ ~c7 BY <1>1, <1>3, NamesFit, Zenon
<1>6. size("STACK_RESERVE") = p.stack_reserve
  <2>1. Scanned = Len(file.sections) BY <1>1 DEF Scanned
  <2>2. "STACK_RESERVE" \in SecTypes \ HostOnly BY DEF SecTypes, HostOnly, NoPayload
  <2>3. size("STACK_RESERVE") = PayloadSize(p)["STACK_RESERVE"]
    BY <1>1, <2>1, <2>2, SizesLoaded
  <2>4. p \in Programs BY DEF Loads
  <2> QED BY <2>3, <2>4, PayloadSizes
<1>7. c1 => c3 BY <1>4
<1> HIDE DEF c1
<1> QED BY <1>2, <1>4, <1>5, <1>6, <1>7

(* A function of the table lies in the code.                               *)
LEMMA AcceptsFunc ==
  ASSUME Typed, TableScanned, CopyFunc, stage' = "none", NEW p, Loads(p)
  PROVE  FALSE
<1>1. stage = "funcs" /\ L.i <= func_count /\ file.funcs[L.i] >= code_count
  BY DEF CopyFunc, Continue
<1>2. p \in Programs BY DEF Loads
<1>3. size("CODE") = 4 * Len(p.code) /\ size("FUNCS") = 4 * Len(FuncsTable(p))
  <2>1. Scanned = Len(file.sections) BY <1>1 DEF Scanned
  <2>2. "CODE" \in SecTypes \ HostOnly /\ "FUNCS" \in SecTypes \ HostOnly
    BY DEF SecTypes, HostOnly, NoPayload
  <2>3. size("CODE") = PayloadSize(p)["CODE"] /\ size("FUNCS") = PayloadSize(p)["FUNCS"]
    BY <1>1, <2>1, <2>2, SizesLoaded
  <2> QED BY <1>2, <2>3, PayloadSizes
<1>4. /\ code_count = Len(p.code) /\ func_count = Len(FuncsTable(p))
      /\ Len(p.code) \in Nat /\ Len(FuncsTable(p)) \in Nat
  <2>1. \A n \in Nat : (4 * n) \div 4 = n OBVIOUS
  <2>2. Len(p.code) \in Nat /\ Len(FuncsTable(p)) \in Nat
    BY <1>2, ProgramFacts, FuncsTableFacts
  <2> QED BY <1>3, <2>1, <2>2 DEF code_count, func_count
<1>5. L.i \in 1 .. Len(FuncsTable(p)) BY <1>1, <1>4 DEF Typed, TypeOK
<1>6. FuncsTable(p)[L.i] \in Nat /\ FuncsTable(p)[L.i] < Len(p.code)
  BY <1>2, <1>5, FuncsTableFacts
<1>7. file.funcs = FuncsTable(p) BY WrittenFields
<1> QED BY <1>1, <1>4, <1>6, <1>7

-----------------------------------------------------------------------------
(* What the result of a load may be.                                       *)
Allowed(p) ==
  \/ err \in {"OK", "NOMEM", "NO_SUCH_IMPORT"}
  \/ err = "BAD_SECTION" /\ (p.stack_reserve \in 1 .. 3 \/ MemorySize(p) > MAX_U32)
  \/ err = "BAD_REGION" /\ RegionTotal(p) > MAX_U32
  \/ err = "BAD_IMPORTS" /\ Len(p.imports) > MAX_U16
  \/ file.len > MAX_U32

(* The result of a loaded image is that of cvm_load_ex or of cvm_link.     *)
Accepted ==
  stage \in {"none", "loaded"} =>
    \A p \in Programs : file = Written[p] => Allowed(p)

(* How a step ends a load, or leaves none under way.                       *)
LEMMA EndCases ==
  ASSUME [Next]_vars, stage' \in {"none", "loaded"}
  PROVE  \/ UNCHANGED vars
         \/ \E f \in Files, a \in Allocators : cvm_load_ex(f, a) /\ stage' = "none"
         \/ stage' = "none" /\ (ReadSection \/ EndOfSections \/ CheckRegion
                                 \/ EndOfRegions \/ CopyFunc)
         \/ err' \in {"OK", "NOMEM", "NO_SUCH_IMPORT"}
         \/ cvm_image_free
<1>1. CASE Step
  <2>1. CASE ReadSection \/ EndOfSections \/ CheckRegion \/ EndOfRegions
    <3>1. stage' # "loaded"
      BY <2>1 DEF ReadSection, EndOfSections, CheckRegion, EndOfRegions, Check,
         Continue, Return
    <3> QED BY <2>1, <3>1
  <2>2. CASE cvm_int_alloc \/ EndOfAlloc
    BY <2>2 DEF cvm_int_alloc, EndOfAlloc, Oom, Return, Continue
  <2>3. CASE CopyFunc
    <3>1. stage' # "loaded" BY <2>3 DEF CopyFunc, Return, Continue
    <3> QED BY <2>3, <3>1
  <2>4. CASE FillMemory \/ CopyImports \/ PlaceRegion
    BY <2>4 DEF FillMemory, CopyImports, PlaceRegion, Continue
  <2>5. CASE Publish BY <2>5 DEF Publish
  <2> QED BY <1>1, <2>1, <2>2, <2>3, <2>4, <2>5 DEF Step
<1>2. CASE Host
  <2>1. CASE \E f \in Files, a \in Allocators : cvm_load_ex(f, a)
    BY <2>1 DEF cvm_load_ex
  <2>2. CASE \E name \in LinkNames : cvm_link(name)
    BY <2>2 DEF cvm_link
  <2> QED BY <1>2, <2>1, <2>2 DEF Host
<1> QED BY <1>1, <1>2 DEF Next, Done

LEMMA AcceptedStep ==
  ASSUME Typed, Loading, SeenRead, Accepted, [Next]_vars PROVE Accepted'
<1> SUFFICES ASSUME stage' \in {"none", "loaded"}, NEW p \in Programs,
                    file' = Written[p], ~(file.len > MAX_U32)'
             PROVE  Allowed(p)'
  BY DEF Accepted, Allowed
<1>0. file' = write_bin(p) /\ (Written[p])' = Written[p] /\ Written[p] = write_bin(p)
  BY DEF Written
<1>1. CASE UNCHANGED vars
  <2>1. file' = file /\ stage' = stage /\ err' = err BY <1>1 DEF vars
  <2>2. Allowed(p) BY <2>1 DEF Accepted
  <2> QED BY <2>1, <2>2 DEF Allowed, MAX_U32, MAX_U16, WordMod, TriMod, HalfMod,
             MemorySize, RegionTotal
<1>2. CASE \E f \in Files, a \in Allocators : cvm_load_ex(f, a) /\ stage' = "none"
  <2>1. PICK f \in Files, a \in Allocators : cvm_load_ex(f, a) /\ stage' = "none" BY <1>2
  <2>2. file' = f BY <2>1 DEF cvm_load_ex
  <2>3. f.len \in Nat /\ MAX_U32 \in Nat
    BY TotalFacts, FilesAssumption DEF IsFile
  <2>4. f.len <= MAX_U32 BY <2>2, <2>3 DEF MAX_U32, WordMod, TriMod, HalfMod
  <2> QED BY <1>0, <2>1, <2>2, <2>4, AcceptsHeader
<1>3. ASSUME file' = file PROVE Loads(p)
  <2>1. file.len \in Nat /\ MAX_U32 \in Nat BY TotalFacts, FileFacts
  <2> QED BY <1>0, <1>3, <2>1 DEF Loads, MAX_U32, WordMod, TriMod, HalfMod
<1>4. CASE stage' = "none" /\ (ReadSection \/ EndOfSections \/ CheckRegion
                                 \/ EndOfRegions \/ CopyFunc)
  <2>1. file' = file
    BY <1>4 DEF ReadSection, EndOfSections, CheckRegion, EndOfRegions, CopyFunc, Check,
       Continue, Return
  <2>2. Loads(p) BY <1>3, <2>1
  <2>3. CASE ReadSection BY <1>4, <2>2, <2>3, AcceptsSection
  <2>4. CASE EndOfSections BY <1>4, <2>2, <2>4, AcceptsTable DEF Loading
  <2>5. CASE CheckRegion
    <3>1. err' = "BAD_REGION" /\ RegionTotal(p) > MAX_U32
      BY <1>4, <2>2, <2>5, AcceptsRegion DEF Loading
    <3> QED BY <3>1 DEF Allowed
  <2>6. CASE EndOfRegions
    <3>1. \/ err' = "BAD_SECTION" /\ (p.stack_reserve \in 1 .. 3 \/ MemorySize(p) > MAX_U32)
          \/ err' = "BAD_IMPORTS" /\ Len(p.imports) > MAX_U16
      BY <1>4, <2>2, <2>6, AcceptsTotals DEF Loading
    <3> QED BY <3>1 DEF Allowed
  <2>7. CASE CopyFunc BY <1>4, <2>2, <2>7, AcceptsFunc DEF Loading
  <2> QED BY <1>4, <2>3, <2>4, <2>5, <2>6, <2>7
<1>5. CASE err' \in {"OK", "NOMEM", "NO_SUCH_IMPORT"} BY <1>5 DEF Allowed
<1>6. CASE cvm_image_free
  <2>1. stage = "loaded" /\ file' = file /\ err' = err BY <1>6 DEF cvm_image_free
  <2>2. Allowed(p) BY <2>1 DEF Accepted
  <2> QED BY <2>1, <2>2 DEF Allowed
<1> QED BY <1>1, <1>2, <1>4, <1>5, <1>6, EndCases

(* write_bin never writes a binary the loader refuses, for every program   *)
(* and every word size: a load of it fails only when memory is short, when *)
(* its regions, its memory or the file itself exceed 32 bits, when it has  *)
(* more imports than 16 bits count or a stack smaller than one return      *)
(* address.                                                                *)
THEOREM WrittenBinariesLoad == Spec => []WrittenAccepted
<1>1. Init => SeenRead /\ Accepted
  BY DEF Init, SeenRead, Accepted, Allowed
<1>2. Typed /\ Loading /\ SeenRead /\ Accepted /\ [Next]_vars => SeenRead' /\ Accepted'
  BY SeenStep, AcceptedStep
<1>3. Accepted => WrittenAccepted
  BY DEF Accepted, WrittenAccepted, Allowed
<1> QED BY <1>1, <1>2, <1>3, LoadingHolds, PTL DEF Spec

-----------------------------------------------------------------------------
(* The globals are apart: the cursor only moves behind them.               *)

LEMMA GlobalsApart ==
  ASSUME NEW gs \in Seq(Global)
  PROVE  /\ \A k \in 1 .. Len(gs) :
              /\ Addresses(gs)[k] \in Nat /\ Addresses(gs)[k] > 0
              /\ Addresses(gs)[k] % gs[k].align = 0
              /\ Addresses(gs)[k] + SizeOf(gs[k]) <= data_size(gs)
         /\ \A j, k \in 1 .. Len(gs) :
              j < k => Addresses(gs)[j] + SizeOf(gs[j]) <= Addresses(gs)[k]
<1> DEFINE N == Len(gs)
<1>1. PICK f : f = Addresses(gs) OBVIOUS
<1>2. N \in Nat OBVIOUS
<1>3. /\ f \in [0 .. N -> Nat] /\ f[0] = 8
      /\ \A k \in 1 .. N : f[k] = Cursor(gs, k, f[k - 1])
  BY <1>1, AddressSteps
<1>4. \A k \in 1 .. N : /\ f[k] \in Nat /\ f[k - 1] \in Nat /\ f[k] % gs[k].align = 0
                        /\ f[k - 1] <= f[k] /\ SizeOf(gs[k]) \in Nat
                        /\ k # 1 => f[k - 1] + SizeOf(gs[k - 1]) <= f[k]
  <2> SUFFICES ASSUME NEW k \in 1 .. N
               PROVE  /\ f[k] \in Nat /\ f[k - 1] \in Nat /\ f[k] % gs[k].align = 0
                      /\ f[k - 1] <= f[k] /\ SizeOf(gs[k]) \in Nat
                      /\ k # 1 => f[k - 1] + SizeOf(gs[k - 1]) <= f[k]
    OBVIOUS
  <2>1. k - 1 \in 0 .. N /\ k \in 0 .. N BY <1>2
  <2>2. f[k - 1] \in Nat /\ f[k] \in Nat BY <2>1, <1>3
  <2>3. f[k] = Cursor(gs, k, f[k - 1]) BY <1>3
  <2> QED BY <2>2, <2>3, CursorFacts, GlobalFacts
<1> HIDE DEF N
<1>5. ASSUME NEW j \in 1 .. N
      PROVE  \A k \in 0 .. N : j < k => f[j] + SizeOf(gs[j]) <= f[k]
  <2> DEFINE S == {k \in Nat : j < k => f[j] + SizeOf(gs[j]) <= f[k]}
  <2>1. 0 \in S OBVIOUS
  <2>2. ASSUME NEW k \in 1 .. N, k - 1 \in S PROVE k \in S
    <3> SUFFICES ASSUME j < k PROVE f[j] + SizeOf(gs[j]) <= f[k] OBVIOUS
    <3>1. CASE j = k - 1
      <4>1. k # 1 BY <3>1
      <4> QED BY <4>1, <3>1, <1>4
    <3>2. CASE j # k - 1
      <4>1. j < k - 1 BY <3>2
      <4>2. f[j] + SizeOf(gs[j]) <= f[k - 1] BY <4>1, <2>2
      <4>3. /\ f[j] \in Nat /\ SizeOf(gs[j]) \in Nat /\ f[k - 1] \in Nat /\ f[k] \in Nat
            /\ f[k - 1] <= f[k]
        BY <1>4
      <4> QED BY <4>2, <4>3
    <3> QED BY <3>1, <3>2
  <2> HIDE DEF S
  <2>3. \A k \in 0 .. N : k \in S BY <1>2, <2>1, <2>2, UpTo
  <2> QED BY <2>3 DEF S
<1>6. \A k \in 0 .. N : f[k] >= 8
  <2> DEFINE S == {k \in Nat : f[k] >= 8}
  <2>1. 0 \in S BY <1>3
  <2>2. ASSUME NEW k \in 1 .. N, k - 1 \in S PROVE k \in S
    BY <1>4, <2>2
  <2> HIDE DEF S
  <2>3. \A k \in 0 .. N : k \in S BY <1>2, <2>1, <2>2, UpTo
  <2> QED BY <2>3 DEF S
<1>7. ASSUME NEW k \in 1 .. N PROVE f[k] + SizeOf(gs[k]) <= data_size(gs)
  <2>1. N \in 1 .. N BY <1>2
  <2>2. data_size(gs) = f[N] + SizeOf(gs[N]) BY <1>1, <2>1, DataSizeFacts DEF N
  <2>3. /\ f[N] \in Nat /\ SizeOf(gs[N]) \in Nat /\ f[k] \in Nat /\ SizeOf(gs[k]) \in Nat
    BY <1>4, <2>1
  <2>4. CASE k = N BY <2>2, <2>3, <2>4
  <2>5. CASE k # N
    <3>1. k < N /\ N \in 0 .. N BY <2>5, <1>2
    <3>2. f[k] + SizeOf(gs[k]) <= f[N] BY <3>1, <1>5
    <3> QED BY <2>2, <2>3, <3>2
  <2> QED BY <2>4, <2>5
<1>8. \A k \in 1 .. N : k \in 0 .. N OBVIOUS
<1>9. \A k \in 1 .. N : f[k] > 0 BY <1>4, <1>6, <1>8
<1> QED BY <1>1, <1>4, <1>5, <1>7, <1>8, <1>9 DEF N

(* The bytes of a global are those of its serialized initialiser.          *)
LEMMA ByteOfGlobal ==
  ASSUME NEW gs \in Seq(Global), NEW k \in 1 .. Len(gs), NEW i \in 1 .. SizeOf(gs[k])
  PROVE  /\ Addresses(gs)[k] + i \in 1 .. data_size(gs)
         /\ cg_collect_globals(gs)[Addresses(gs)[k] + i] = Serialized(gs, gs[k])[i]
<1> DEFINE covers(a) == {c \in DOMAIN gs : a - Addresses(gs)[c] \in 0 .. SizeOf(gs[c]) - 1}
<1>1. PICK n \in Nat, m \in Nat : /\ n = Addresses(gs)[k] /\ m = SizeOf(gs[k])
                                  /\ n + m <= data_size(gs)
  BY GlobalsApart, GlobalFacts
<1>2. i \in 1 .. m /\ data_size(gs) \in Nat /\ DOMAIN gs = 1 .. Len(gs)
  BY <1>1, DataSizeFacts
<1>3. n + i \in 1 .. data_size(gs) BY <1>1, <1>2
<1>4. ((n + i) - 1) - n = i - 1 /\ i - 1 \in 0 .. m - 1 /\ (n + i) - n = i BY <1>2
<1>5. covers((n + i) - 1) = {k}
  <2>0. PICK x \in Nat : x = (n + i) - 1 BY <1>2
  <2>1. k \in covers(x)
    <3>1. k \in DOMAIN gs BY <1>2
    <3>2. x - n \in 0 .. m - 1 BY <1>4, <2>0
    <3>3. x - Addresses(gs)[k] \in 0 .. SizeOf(gs[k]) - 1 BY <1>1, <3>2, Zenon
    <3> QED BY <3>1, <3>3
  <2>2. ASSUME NEW c \in covers(x) PROVE c = k
    <3>1. c \in 1 .. Len(gs) BY <1>2
    <3>2. PICK d \in Nat, w \in Nat : d = Addresses(gs)[c] /\ w = SizeOf(gs[c])
      BY <3>1, GlobalsApart, GlobalFacts
    <3>3. x - d \in 0 .. w - 1 BY <3>2
    <3>4. ~(c < k)
      <4>1. c < k => d + w <= n BY <1>1, <3>1, <3>2, GlobalsApart
      <4> QED BY <1>2, <2>0, <3>3, <4>1
    <3>5. ~(k < c)
      <4>1. k < c => n + m <= d BY <1>1, <3>1, <3>2, GlobalsApart
      <4> QED BY <1>2, <2>0, <3>3, <4>1
    <3> QED BY <3>1, <3>4, <3>5
  <2> HIDE DEF covers
  <2>3. covers(x) = {k} BY <2>1, <2>2
  <2> QED BY <2>0, <2>3
<1>6. PICK x : x = n + i OBVIOUS
<1>7. cg_collect_globals(gs)[x] =
        IF covers(x - 1) = {} THEN 0
        ELSE LET c == CHOOSE c \in covers(x - 1) : TRUE
             IN  Serialized(gs, gs[c])[x - Addresses(gs)[c]]
  BY <1>3, <1>6 DEF cg_collect_globals
<1> HIDE DEF covers
<1>8. covers(x - 1) = {k} BY <1>5, <1>6
<1>9. (CHOOSE c \in covers(x - 1) : TRUE) = k BY <1>8
<1>10. cg_collect_globals(gs)[x] = Serialized(gs, gs[k])[x - Addresses(gs)[k]]
  BY <1>7, <1>8, <1>9
<1> QED BY <1>1, <1>3, <1>4, <1>6, <1>10

(* A pointer comes first, the bytes behind it.                             *)
PointerBytes(g) == IF g.pointer = "none" THEN 0 ELSE 4

IsPointer(v, n) == \A i \in 1 .. 4 : v[i] = Digit(n, i - 1)

IsBehind(v, h, s) == \A i \in 1 .. Len(s) : v[h + i] = s[i]

LEMMA SerializedFacts ==
  ASSUME NEW gs \in Seq(Global), NEW k \in 1 .. Len(gs)
  PROVE  /\ Len(gs[k].bytes) \in Nat
         /\ SizeOf(gs[k]) = Len(gs[k].bytes) + PointerBytes(gs[k])
         /\ IsBehind(Serialized(gs, gs[k]), PointerBytes(gs[k]), gs[k].bytes)
         /\ gs[k].pointer = "global" =>
              IsPointer(Serialized(gs, gs[k]), Addresses(gs)[gs[k].to])
         /\ gs[k].pointer = "function" =>
              IsPointer(Serialized(gs, gs[k]), CVM_FN_SLOT(gs[k].to))
<1>1. PICK g, s : g = gs[k] /\ s = g.bytes OBVIOUS
<1>2. g \in Global BY <1>1
<1>3. g.pointer \in {"none", "global", "function"} /\ s \in Seq(Byte)
  BY <1>1, <1>2 DEF Global
<1>4. Len(s) \in Nat BY <1>3
<1>5. SizeOf(g) = Len(s) + PointerBytes(g) BY <1>1 DEF SizeOf, PointerBytes
<1>6. ASSUME NEW n
      PROVE  IsPointer(put_u32_le(n) \o s, n) /\ IsBehind(put_u32_le(n) \o s, 4, s)
  <2> DEFINE D == {Digit(n, j) : j \in 0 .. 3}
  <2>1. PICK q : q = put_u32_le(n) OBVIOUS
  <2>2. q \in [1 .. 4 -> D] /\ \A i \in 1 .. 4 : q[i] = Digit(n, i - 1)
    <3> HIDE DEF Digit
    <3>1. \A i \in 1 .. 4 : i - 1 \in 0 .. 3 OBVIOUS
    <3> QED BY <2>1, <3>1 DEF put_u32_le
  <2> HIDE DEF D
  <2>3. q \in Seq(D)
    <3>1. PICK m \in Nat : m = 4 OBVIOUS
    <3>2. q \in [1 .. m -> D] BY <2>2, <3>1
    <3> QED BY <3>2, SeqDef
  <2>4. DOMAIN q = 1 .. 4 /\ DOMAIN q = 1 .. Len(q) /\ Len(q) \in Nat
    BY <2>2, <2>3, LenProperties
  <2>5. Len(q) = 4 BY <2>4
  <2>6. PICK S : q \in Seq(S) /\ s \in Seq(S)
    <3>1. q \in Seq(D \cup Byte) /\ s \in Seq(D \cup Byte) BY <2>3, <1>3
    <3> QED BY <3>1
  <2>7. /\ \A i \in 1 .. 4 : (q \o s)[i] = q[i]
        /\ \A b \in 1 .. Len(s) : (q \o s)[4 + b] = s[b]
    <3>0. \A i \in 1 .. Len(q) + Len(s) :
            (q \o s)[i] = IF i <= Len(q) THEN q[i] ELSE s[i - Len(q)]
      BY <2>6, ConcatProperties, Zenon
    <3>1. \A i \in 1 .. 4 + Len(s) : (q \o s)[i] = IF i <= 4 THEN q[i] ELSE s[i - 4]
      BY <2>5, <3>0, Zenon
    <3>2. \A i \in 1 .. 4 : i \in 1 .. 4 + Len(s) /\ i <= 4 BY <1>4
    <3>3. \A b \in 1 .. Len(s) : 4 + b \in 1 .. 4 + Len(s) /\ ~(4 + b <= 4) /\ (4 + b) - 4 = b
      BY <1>4
    <3>4. ASSUME NEW i \in 1 .. 4 PROVE (q \o s)[i] = q[i] BY <3>1, <3>2
    <3>5. ASSUME NEW j \in 1 .. Len(s) PROVE (q \o s)[4 + j] = s[j]
      <4>1. PICK x : x = 4 + j OBVIOUS
      <4>2. x \in 1 .. 4 + Len(s) /\ ~(x <= 4) /\ x - 4 = j BY <3>3, <4>1
      <4> QED BY <3>1, <4>1, <4>2
    <3> QED BY <3>4, <3>5
  <2> QED BY <2>1, <2>2, <2>7 DEF IsPointer, IsBehind
<1> HIDE DEF put_u32_le
<1>7. CASE g.pointer = "none"
  <2>1. Serialized(gs, g) = <<>> \o s BY <1>1, <1>7 DEF Serialized
  <2>2. Serialized(gs, g) = s BY <2>1, <1>3
  <2>3. \A b \in 1 .. Len(s) : 0 + b = b OBVIOUS
  <2>4. PointerBytes(g) = 0 /\ IsBehind(s, 0, s)
    BY <1>7, <2>3 DEF PointerBytes, IsBehind
  <2> QED BY <1>1, <1>4, <1>5, <1>7, <2>2, <2>4
<1>8. CASE g.pointer = "global"
  <2>1. Serialized(gs, g) = put_u32_le(Addresses(gs)[g.to]) \o s BY <1>1, <1>8 DEF Serialized
  <2>2. PointerBytes(g) = 4 BY <1>8 DEF PointerBytes
  <2> QED BY <1>1, <1>4, <1>5, <1>6, <1>8, <2>1, <2>2
<1>9. CASE g.pointer = "function"
  <2>1. Serialized(gs, g) = put_u32_le(CVM_FN_SLOT(g.to)) \o s BY <1>1, <1>9 DEF Serialized
  <2>2. PointerBytes(g) = 4 BY <1>9 DEF PointerBytes
  <2> QED BY <1>1, <1>4, <1>5, <1>6, <1>9, <2>1, <2>2
<1> QED BY <1>3, <1>7, <1>8, <1>9

(* The four digits of a word are its value.                                *)
LEMMA DigitsOf ==
  ASSUME NEW n \in Nat, NEW m \in Nat, n < ByteBase * m
  PROVE  \E q \in Nat, r \in Nat : /\ q = n \div ByteBase /\ r = n % ByteBase
                                   /\ q < m /\ n = r + ByteBase * q
<1>1. PICK d \in Nat : d = ByteBase /\ d > 0 BY ByteBaseAssumption
<1>2. PICK q \in Int, r \in Nat : Division(n, d, q, r) BY <1>1, Divided
<1>3. n \div d = q /\ n % d = r BY <1>2, DivisionIs
<1>4. n = d * q + r /\ r < d BY <1>2 DEF Division
<1>5. q >= 0
  <2>1. q <= -1 => d * q <= -d
    <3>1. \A z \in Int : z <= -1 => d * z <= -d BY <1>1
    <3> QED BY <3>1
  <2> QED BY <1>1, <1>4, <2>1
<1>6. q < m
  <2> SUFFICES ASSUME q >= m PROVE FALSE OBVIOUS
  <2>1. PICK z \in Nat : q = m + z
    <3>1. q - m \in Nat /\ q = m + (q - m) OBVIOUS
    <3> QED BY <3>1
  <2>2. d * q = d * m + d * z /\ d * z \in Nat BY <1>1, <2>1
  <2> QED BY <1>1, <1>4, <2>2
<1> QED BY <1>1, <1>3, <1>4, <1>5, <1>6

LEMMA WordOfDigits ==
  ASSUME NEW v \in Word
  PROVE  Digit(v, 0) + ByteBase * (Digit(v, 1) + ByteBase *
           (Digit(v, 2) + ByteBase * Digit(v, 3))) = v
<1>0. ByteBase \in Nat /\ ByteBase > 0 /\ ByteBase * 1 = ByteBase
      /\ HalfMod \in Nat /\ TriMod \in Nat /\ WordMod \in Nat
  <2>1. ByteBase \in Nat /\ ByteBase > 0 BY ByteBaseAssumption
  <2>2. \A x \in Nat : ByteBase * x \in Nat BY <2>1
  <2> QED BY <2>1, <2>2 DEF HalfMod, TriMod, WordMod
<1>1. v \in Nat /\ v < ByteBase * TriMod BY <1>0 DEF Word, WordMod
<1>2. PICK q1 \in Nat, r1 \in Nat : /\ q1 = v \div ByteBase /\ r1 = v % ByteBase
                                    /\ q1 < TriMod /\ v = r1 + ByteBase * q1
  BY <1>0, <1>1, DigitsOf
<1>3. q1 < ByteBase * HalfMod BY <1>2 DEF TriMod
<1>4. PICK q2 \in Nat, r2 \in Nat : /\ q2 = q1 \div ByteBase /\ r2 = q1 % ByteBase
                                    /\ q2 < HalfMod /\ q1 = r2 + ByteBase * q2
  BY <1>0, <1>3, DigitsOf
<1>5. q2 < ByteBase * ByteBase BY <1>4 DEF HalfMod
<1>6. PICK q3 \in Nat, r3 \in Nat : /\ q3 = q2 \div ByteBase /\ r3 = q2 % ByteBase
                                    /\ q3 < ByteBase /\ q2 = r3 + ByteBase * q3
  BY <1>0, <1>5, DigitsOf
<1>7. q3 % ByteBase = q3 BY <1>0, <1>6
<1>8. /\ Digit(v, 0) = v % ByteBase /\ Digit(v, 1) = q1 % ByteBase
      /\ Digit(v, 2) = q2 % ByteBase /\ Digit(v, 3) = q3
  <2>1. q1 = v \div ByteBase /\ q2 = q1 \div ByteBase /\ q3 = q2 \div ByteBase
    BY <1>2, <1>4, <1>6
  <2> QED BY <2>1, <1>7 DEF Digit
<1> HIDE DEF Digit
<1> QED BY <1>2, <1>4, <1>6, <1>8

LEMMA ReadsWord ==
  ASSUME NEW h, NEW n \in Nat, DOMAIN h = 0 .. n - 1, NEW x \in Nat, x + 4 <= n,
         NEW v \in Word, \A i \in 1 .. 4 : h[(x + i) - 1] = Digit(v, i - 1)
  PROVE  ReadLE(h, x, 4) = v
<1>1. /\ x + 0 \in DOMAIN h /\ x + 1 \in DOMAIN h /\ x + 2 \in DOMAIN h /\ x + 3 \in DOMAIN h
  OBVIOUS
<1>2. /\ (x + 1) - 1 = x + 0 /\ (x + 2) - 1 = x + 1 /\ (x + 3) - 1 = x + 2
      /\ (x + 4) - 1 = x + 3
      /\ 1 - 1 = 0 /\ 2 - 1 = 1 /\ 3 - 1 = 2 /\ 4 - 1 = 3
      /\ 1 \in 1 .. 4 /\ 2 \in 1 .. 4 /\ 3 \in 1 .. 4 /\ 4 \in 1 .. 4
  OBVIOUS
<1> HIDE DEF Digit
<1>3. /\ h[x + 0] = Digit(v, 0) /\ h[x + 1] = Digit(v, 1)
      /\ h[x + 2] = Digit(v, 2) /\ h[x + 3] = Digit(v, 3)
  <2>1. /\ h[(x + 1) - 1] = Digit(v, 1 - 1) /\ h[(x + 2) - 1] = Digit(v, 2 - 1)
        /\ h[(x + 3) - 1] = Digit(v, 3 - 1) /\ h[(x + 4) - 1] = Digit(v, 4 - 1)
    BY <1>2, Zenon
  <2> QED BY <1>2, <2>1, Zenon
<1>4. /\ Peek(h, x + 0) = Digit(v, 0) /\ Peek(h, x + 1) = Digit(v, 1)
      /\ Peek(h, x + 2) = Digit(v, 2) /\ Peek(h, x + 3) = Digit(v, 3)
  BY <1>1, <1>3, Zenon DEF Peek
<1>5. 0 < 4 /\ 1 < 4 /\ 2 < 4 /\ 3 < 4 OBVIOUS
<1> HIDE DEF Peek
<1>6. ReadLE(h, x, 4) = Digit(v, 0) + ByteBase * (Digit(v, 1) + ByteBase *
                         (Digit(v, 2) + ByteBase * Digit(v, 3)))
  BY <1>4, <1>5 DEF ReadLE
<1> QED BY <1>6, WordOfDigits, Zenon

-----------------------------------------------------------------------------
(* What is loaded.                                                         *)

(* The entries of FUNCS are copied in the order of the file.               *)
FuncsLoaded ==
  /\ stage = "funcs" => /\ L.i - 1 <= func_count
                        /\ L.funcs = [k \in 1 .. L.i - 1 |-> file.funcs[k]]
  /\ stage \in {"place", "loaded"} => L.funcs = [k \in 1 .. func_count |-> file.funcs[k]]

(* The image is what the locals of cvm_load_ex and the file say.           *)
ImageLoaded ==
  stage = "loaded" =>
    /\ out.entry = file.entry /\ out.funcs = L.funcs /\ out.heap = L.mem
    /\ out.names = [k \in 1 .. import_count |-> file.imports[k].name]
    /\ \A k \in 1 .. region_count : /\ out.regions[k].name = file.regions[k].name
                                    /\ out.regions[k].size = file.regions[k].size

LEMMA FuncsStep ==
  ASSUME Typed, Typed', Copied, FuncsLoaded, [Next]_vars PROVE FuncsLoaded'
<1> SUFFICES ASSUME stage' \in {"funcs", "place", "loaded"} PROVE FuncsLoaded'
  BY DEF FuncsLoaded
<1> USE DEF Typed, LocalsShape
<1>1. CASE UNCHANGED vars
  <2>1. stage' = stage /\ L' = L /\ file' = file BY <1>1 DEF vars
  <2>2. KeepsTable BY <2>1 DEF KeepsTable
  <2> QED BY <2>1, <2>2, KeptFacts DEF FuncsLoaded
<1>2. CASE FillMemory
  <2>1. stage = "fill" /\ stage' = "funcs" /\ KeepsTable /\ L'.i = 1 /\ L'.funcs = L.funcs
    BY <1>2 DEF FillMemory, Continue, KeepsTable
  <2>2. L.funcs = <<>> BY <2>1 DEF Copied
  <2>3. func_count' = func_count /\ func_count \in Nat BY <2>1, KeptFacts, CountFacts
  <2>4. L'.i - 1 <= func_count' /\ L'.i - 1 = 0 BY <2>1, <2>3
  <2>5. <<>> = [k \in 1 .. 0 |-> file'.funcs[k]] OBVIOUS
  <2> QED BY <2>1, <2>2, <2>4, <2>5 DEF FuncsLoaded
<1>3. CASE CopyFunc
  <2>1. /\ stage = "funcs" /\ stage' = "funcs" /\ KeepsTable /\ L.i <= func_count
        /\ L'.i = L.i + 1 /\ L'.funcs = Append(L.funcs, file.funcs[L.i])
    BY <1>3 DEF CopyFunc, Continue, Return, KeepsTable
  <2>2. PICK m \in Nat : m = L.i - 1
    <3>1. L.i - 1 \in Nat BY DEF TypeOK
    <3> QED BY <3>1
  <2>3. L.i = m + 1 /\ L'.i - 1 = m + 1 /\ L.i \in Nat BY <2>1, <2>2 DEF TypeOK
  <2>4. L.funcs = [k \in 1 .. m |-> file.funcs[k]] BY <2>1, <2>2 DEF FuncsLoaded
  <2>5. PICK g : g = [k \in 1 .. m + 1 |-> file.funcs[k]] OBVIOUS
  <2>6. /\ g = [k \in 1 .. m + 1 |-> g[k]] /\ g[m + 1] = file.funcs[m + 1]
        /\ [k \in 1 .. m |-> g[k]] = [k \in 1 .. m |-> file.funcs[k]]
    <3>1. \A k \in 1 .. m : k \in 1 .. m + 1 OBVIOUS
    <3>2. m + 1 \in 1 .. m + 1 OBVIOUS
    <3> QED BY <2>5, <3>1, <3>2
  <2>7. Append([k \in 1 .. m |-> g[k]], g[m + 1]) = g BY <2>6, AppendToFunction
  <2>8. L'.funcs = g BY <2>1, <2>3, <2>4, <2>6, <2>7
  <2>9. func_count' = func_count /\ file' = file BY <2>1, KeptFacts
  <2> QED BY <2>1, <2>3, <2>5, <2>8, <2>9 DEF FuncsLoaded
<1>4. CASE CopyImports
  <2>1. /\ stage = "funcs" /\ stage' = "place" /\ KeepsTable /\ L.i > func_count
        /\ L'.funcs = L.funcs
    BY <1>4 DEF CopyImports, Continue, KeepsTable
  <2>2. L.i \in Nat /\ func_count \in Nat BY CountFacts DEF TypeOK
  <2>3. L.i - 1 = func_count BY <2>1, <2>2 DEF FuncsLoaded
  <2> QED BY <2>1, <2>3, KeptFacts DEF FuncsLoaded
<1>5. CASE PlaceRegion
  <2>1. /\ stage = "place" /\ stage' = "place" /\ KeepsTable /\ L'.funcs = L.funcs
    BY <1>5 DEF PlaceRegion, Continue, KeepsTable
  <2> QED BY <2>1, KeptFacts DEF FuncsLoaded
<1>6. CASE Publish \/ \E name \in LinkNames : cvm_link(name)
  <2>1. stage \in {"place", "loaded"} /\ stage' = "loaded" /\ L' = L /\ file' = file
    BY <1>6 DEF Publish, cvm_link
  <2>2. KeepsTable BY <2>1 DEF KeepsTable
  <2> QED BY <2>1, <2>2, KeptFacts DEF FuncsLoaded
<1>7. \/ UNCHANGED vars \/ FillMemory \/ CopyFunc \/ CopyImports \/ PlaceRegion
      \/ Publish \/ \E name \in LinkNames : cvm_link(name)
  <2>1. CASE Step
    BY <2>1 DEF Step, ReadSection, EndOfSections, CheckRegion, EndOfRegions, Check,
       Continue, Return, cvm_int_alloc, EndOfAlloc, Oom
  <2>2. CASE Host BY <2>2 DEF Host, cvm_load_ex, cvm_image_free
  <2> QED BY <2>1, <2>2 DEF Next, Done
<1> QED BY <1>1, <1>2, <1>3, <1>4, <1>5, <1>6, <1>7

LEMMA ImageStep ==
  ASSUME Typed, Loading, ImageLoaded, [Next]_vars PROVE ImageLoaded'
<1> SUFFICES ASSUME stage' = "loaded" PROVE ImageLoaded' BY DEF ImageLoaded
<1>1. CASE UNCHANGED vars \/ \E name \in LinkNames : cvm_link(name)
  <2>1. /\ stage = "loaded" /\ L' = L /\ file' = file
        /\ out' = out \/ \E k : out' = [out EXCEPT !.imports[k] = "host"]
    BY <1>1 DEF vars, cvm_link
  <2>2. /\ out'.entry = out.entry /\ out'.funcs = out.funcs /\ out'.heap = out.heap
        /\ out'.names = out.names /\ out'.regions = out.regions
    BY <2>1 DEF Typed, OutShape
  <2>3. KeepsTable BY <2>1 DEF KeepsTable
  <2> QED BY <2>1, <2>2, <2>3, KeptFacts DEF ImageLoaded
<1>2. CASE Publish
  <2>1. /\ stage = "place" /\ L.i > region_count /\ L' = L /\ file' = file
        /\ out'.entry = file.entry /\ out'.funcs = L.funcs /\ out'.heap = L.mem
        /\ out'.regions = L.regions
    BY <1>2, PublishCases
  <2>2. out'.names = [k \in 1 .. import_count |-> file.imports[k].name]
    BY <1>2 DEF Publish
  <2>3. PICK t : PlacedSoFar(t) BY <2>1 DEF Loading, RegionsChecked
  <2>4. L.i - 1 = region_count
    <3>1. L.i \in Nat /\ region_count \in Nat BY CountFacts DEF Typed, TypeOK
    <3> QED BY <2>1, <2>3, <3>1 DEF PlacedSoFar
  <2>5. L.regions = [k \in 1 .. region_count |-> PlacedAt(t, k)]
    BY <2>1, <2>3, <2>4 DEF PlacedSoFar
  <2>6. \A k \in 1 .. region_count : /\ out'.regions[k].name = file.regions[k].name
                                     /\ out'.regions[k].size = file.regions[k].size
    BY <2>1, <2>5 DEF PlacedAt
  <2>7. KeepsTable BY <2>1 DEF KeepsTable
  <2> QED BY <2>1, <2>2, <2>6, <2>7, KeptFacts DEF ImageLoaded
<1> QED BY <1>1, <1>2, LoadedCases
(* What is in the memory at the addresses of the writer.                   *)
LEMMA DataLoaded ==
  ASSUME Typed, Loading, ImageLoaded, stage = "loaded", NEW p, Loads(p)
  PROVE  /\ p \in Programs /\ DOMAIN out.heap = 0 .. mem_total - 1
         /\ mem_total \in Word /\ mem_total \in Nat
         /\ data_size(p.globals) \in Nat /\ data_size(p.globals) <= mem_total
         /\ \A x \in 1 .. data_size(p.globals) :
              out.heap[x - 1] = cg_collect_globals(p.globals)[x]
<1>1. p \in Programs /\ file.data = cg_collect_globals(p.globals) BY WrittenFields
<1>2. TableScanned /\ TotalsChecked /\ stage \in Late /\ stage # "none"
      /\ Scanned = Len(file.sections)
  BY DEF Loading, Late, Scanned
<1>3. size("DATA") = data_size(p.globals)
  <2>1. "DATA" \in SecTypes \ HostOnly BY DEF SecTypes, HostOnly
  <2>2. size("DATA") = PayloadSize(p)["DATA"] BY <1>2, <2>1, SizesLoaded
  <2> QED BY <1>1, <2>2, PayloadSizes
<1>4. out.heap = InitialMemory BY DEF ImageLoaded, Loading, Copied
<1>5. /\ InitialMemory \in [0 .. mem_total - 1 -> Byte]
      /\ \A k \in 1 .. size("DATA") : InitialMemory[k - 1] = file.data[k]
  BY <1>2, MemoryFilled
<1>6. /\ size("DATA") \in Nat /\ mem_total \in Word /\ mem_total \in Nat
      /\ size("DATA") <= mem_total
  <2>1. /\ size("DATA") \in Nat /\ RegionsStart \in Nat /\ RegionsEnd \in Nat
        /\ size("DATA") <= RegionsStart /\ RegionsStart <= RegionsEnd
        /\ size("ROM") \in Nat /\ size("HEAP_RESERVE") \in Nat
        /\ heap_total = RegionsEnd + size("ROM") + size("HEAP_RESERVE")
        /\ mem_total \in Word /\ mem_total \in Nat /\ heap_total \in Nat
        /\ heap_total <= mem_total
    BY <1>2, PartsInMemory
  <2> QED BY <2>1
<1> QED BY <1>1, <1>3, <1>4, <1>5, <1>6

LEMMA GlobalLoaded ==
  ASSUME Typed, Loading, ImageLoaded, stage = "loaded", NEW p, Loads(p),
         NEW k \in 1 .. Len(p.globals), NEW i \in 1 .. SizeOf(p.globals[k])
  PROVE  out.heap[(Addresses(p.globals)[k] + i) - 1] = Serialized(p.globals, p.globals[k])[i]
<1>1. p.globals \in Seq(Global) BY ProgramFacts, DataLoaded
<1>2. PICK x : x = Addresses(p.globals)[k] + i OBVIOUS
<1>3. /\ x \in 1 .. data_size(p.globals)
      /\ cg_collect_globals(p.globals)[x] = Serialized(p.globals, p.globals[k])[i]
  BY <1>1, <1>2, ByteOfGlobal
<1>4. out.heap[x - 1] = cg_collect_globals(p.globals)[x] BY <1>3, DataLoaded
<1> QED BY <1>2, <1>3, <1>4

LEMMA PointerLoaded ==
  ASSUME Typed, Loading, ImageLoaded, stage = "loaded", NEW p, Loads(p),
         NEW k \in 1 .. Len(p.globals), p.globals[k].pointer # "none", NEW v \in Word,
         IsPointer(Serialized(p.globals, p.globals[k]), v)
  PROVE  ReadLE(out.heap, Addresses(p.globals)[k], 4) = v
<1>1. p.globals \in Seq(Global) BY ProgramFacts, DataLoaded
<1>2. PICK n \in Nat, m \in Nat, z \in Nat, d \in Nat :
        /\ n = Addresses(p.globals)[k] /\ m = SizeOf(p.globals[k])
        /\ z = mem_total /\ d = data_size(p.globals) /\ n + m <= d /\ d <= z
  BY <1>1, GlobalsApart, GlobalFacts, DataLoaded
<1>3. m >= 4
  <2>1. PICK l \in Nat : l = Len(p.globals[k].bytes) /\ m = l + PointerBytes(p.globals[k])
    BY <1>1, <1>2, SerializedFacts
  <2>2. PointerBytes(p.globals[k]) = 4 BY DEF PointerBytes
  <2> QED BY <2>1, <2>2
<1>4. n + 4 <= z BY <1>2, <1>3
<1>5. ASSUME NEW i \in 1 .. 4 PROVE out.heap[(n + i) - 1] = Digit(v, i - 1)
  <2>1. i \in 1 .. SizeOf(p.globals[k]) BY <1>2, <1>3
  <2>2. out.heap[(n + i) - 1] = Serialized(p.globals, p.globals[k])[i]
    BY <1>2, <2>1, GlobalLoaded
  <2>3. Serialized(p.globals, p.globals[k])[i] = Digit(v, i - 1) BY Zenon DEF IsPointer
  <2> QED BY <2>2, <2>3
<1>6. DOMAIN out.heap = 0 .. z - 1 BY <1>2, DataLoaded
<1>7. ReadLE(out.heap, n, 4) = v
  <2> HIDE DEF Digit, ReadLE
  <2> QED BY <1>4, <1>5, <1>6, ReadsWord
<1> QED BY <1>2, <1>7

(* A pointer leads to what the program says.                               *)
LEMMA Target ==
  ASSUME NEW p \in Programs, NEW k \in 1 .. Len(p.globals)
  PROVE  /\ p.globals[k].pointer = "global" => p.globals[k].to \in 1 .. Len(p.globals)
         /\ p.globals[k].pointer = "function" => p.globals[k].to \in 1 .. Len(p.funcs)
<1>1. DOMAIN p.globals = 1 .. Len(p.globals) /\ DOMAIN p.funcs = 1 .. Len(p.funcs)
  BY ProgramFacts
<1>2. LET to == p.globals[k].to IN
      CASE p.globals[k].pointer = "global" -> to \in DOMAIN p.globals
        [] p.globals[k].pointer = "function" -> to \in DOMAIN p.funcs
        [] OTHER -> TRUE
  <2>1. \A g \in DOMAIN p.globals :
          LET to == p.globals[g].to IN
          CASE p.globals[g].pointer = "global" -> to \in DOMAIN p.globals
            [] p.globals[g].pointer = "function" -> to \in DOMAIN p.funcs
            [] OTHER -> TRUE
    BY ProgramsAssumption DEF IsProgram
  <2> QED BY <1>1, <2>1
<1> QED BY <1>1, <1>2

(* The function table, as far as pointers use it.                          *)
LEMMA TableLoaded ==
  ASSUME Typed, Loading, FuncsLoaded, ImageLoaded, stage = "loaded", NEW p, Loads(p),
         p.calls, NEW k \in 1 .. Len(p.funcs)
  PROVE  /\ out.funcs[CVM_FN_SLOT(k) + 1] = p.funcs[k]
         /\ CVM_FN_SLOT(k) \in Word /\ CVM_FN_SLOT(k) > 0 /\ CVM_FN_SLOT(k) % 2 = 0
<1>1. p \in Programs /\ file.funcs = FuncsTable(p) BY WrittenFields
<1>2. PICK n \in Nat : n = Len(p.funcs) BY <1>1, ProgramFacts
<1>3. /\ Len(FuncsTable(p)) = 2 * n + 1
      /\ FuncsTable(p)[CVM_FN_SLOT(k) + 1] = p.funcs[k]
  BY <1>1, <1>2, FuncsTableFacts DEF CVM_FN_SLOT
<1>4. size("FUNCS") = 4 * (2 * n + 1) /\ size("FUNCS") \in Word
  <2>1. "FUNCS" \in SecTypes \ HostOnly BY DEF SecTypes, HostOnly
  <2>2. TableScanned /\ Scanned = Len(file.sections) /\ stage # "none"
    BY DEF Loading, Scanned
  <2>3. size("FUNCS") = PayloadSize(p)["FUNCS"] BY <2>1, <2>2, SizesLoaded
  <2>4. size("FUNCS") = 4 * (2 * n + 1) BY <1>1, <1>3, <2>3, PayloadSizes
  <2>5. size("FUNCS") \in Word BY <2>1 DEF Typed, TypeOK, size
  <2> QED BY <2>4, <2>5
<1>5. func_count = 2 * n + 1
  <2>1. (4 * (2 * n + 1)) \div 4 = 2 * n + 1 OBVIOUS
  <2> QED BY <1>4, <2>1 DEF func_count
<1>6. PICK s \in Nat : /\ s = CVM_FN_SLOT(k) /\ s = 2 * k /\ s + 1 \in 1 .. 2 * n + 1
                       /\ s > 0 /\ s < 4 * (2 * n + 1)
  BY <1>2 DEF CVM_FN_SLOT
<1>7. out.funcs[s + 1] = p.funcs[k]
  <2>1. out.funcs = [j \in 1 .. 2 * n + 1 |-> FuncsTable(p)[j]]
    BY <1>1, <1>5 DEF ImageLoaded, FuncsLoaded
  <2> QED BY <1>3, <1>6, <2>1
<1>8. s \in Word
  <2>1. WordMod \in Nat BY WordFacts
  <2>2. 4 * (2 * n + 1) < WordMod BY <1>4, <2>1 DEF Word
  <2> QED BY <1>6, <2>1, <2>2 DEF Word
<1>9. s % 2 = 0 BY <1>6
<1> QED BY <1>6, <1>7, <1>8, <1>9
(* The conjuncts of LoadsAsWritten, one lemma each.  A global:             *)
GlobalSound(p, k) ==
  LET gs == p.globals
      at(g) == Addresses(gs)[g]
      word(a) == ReadLE(out.heap, a, 4)
      span(g) == Span(at(g), SizeOf(gs[g]))
  IN  /\ at(k) > 0 /\ at(k) % gs[k].align = 0
      /\ \A j \in DOMAIN gs \ {k} : span(j) \cap span(k) = {}
      /\ \A b \in DOMAIN gs[k].bytes :
           out.heap[at(k) + SizeOf(gs[k]) - Len(gs[k].bytes) + b - 1] = gs[k].bytes[b]
      /\ gs[k].pointer = "global" => word(at(k)) = at(gs[k].to)
      /\ gs[k].pointer = "function" /\ p.calls =>
           /\ word(at(k)) % 2 = 0 /\ word(at(k)) > 0
           /\ out.funcs[word(at(k)) + 1] = p.funcs[gs[k].to]

LEMMA GlobalAsWritten ==
  ASSUME Typed, Loading, FuncsLoaded, ImageLoaded, stage = "loaded", NEW p, Loads(p),
         NEW k \in 1 .. Len(p.globals)
  PROVE  GlobalSound(p, k)
<1> DEFINE gs == p.globals
           at(g) == Addresses(gs)[g]
           word(a) == ReadLE(out.heap, a, 4)
           span(g) == Span(at(g), SizeOf(gs[g]))
<1>1. p \in Programs /\ gs \in Seq(Global) BY ProgramFacts, DataLoaded
<1>2. at(k) > 0 /\ at(k) % gs[k].align = 0 BY <1>1, GlobalsApart
<1>3. ASSUME NEW j \in DOMAIN gs \ {k} PROVE span(j) \cap span(k) = {}
  <2>1. j \in 1 .. Len(gs) /\ j # k BY <1>1
  <2>2. PICK a1 \in Nat, s1 \in Nat, a2 \in Nat, s2 \in Nat :
          a1 = at(j) /\ s1 = SizeOf(gs[j]) /\ a2 = at(k) /\ s2 = SizeOf(gs[k])
    BY <1>1, <2>1, GlobalsApart, GlobalFacts
  <2>3. a1 + s1 <= a2 \/ a2 + s2 <= a1
    <3>1. j < k \/ k < j BY <2>1
    <3>2. j < k => a1 + s1 <= a2 BY <1>1, <2>1, <2>2, GlobalsApart
    <3>3. k < j => a2 + s2 <= a1 BY <1>1, <2>1, <2>2, GlobalsApart
    <3> QED BY <3>1, <3>2, <3>3
  <2>4. Span(a1, s1) \cap Span(a2, s2) = {} BY <2>3 DEF Span
  <2> QED BY <2>2, <2>4
<1>4. ASSUME NEW b \in DOMAIN gs[k].bytes
      PROVE  out.heap[at(k) + SizeOf(gs[k]) - Len(gs[k].bytes) + b - 1] = gs[k].bytes[b]
  <2>1. PICK n \in Nat, l \in Nat, h \in Nat :
          /\ n = at(k) /\ l = Len(gs[k].bytes) /\ h = PointerBytes(gs[k])
          /\ SizeOf(gs[k]) = l + h
    BY <1>1, GlobalsApart, SerializedFacts DEF PointerBytes
  <2>2. b \in 1 .. l
    <3>1. gs[k] \in Global BY <1>1, GlobalFacts
    <3>2. gs[k].bytes \in Seq(Byte) BY <3>1 DEF Global
    <3> QED BY <2>1, <3>2
  <2>3. PICK i : i = h + b OBVIOUS
  <2>4. i \in 1 .. l + h /\ n + (l + h) - l + b - 1 = (n + i) - 1
    <3>1. \A c \in 1 .. l : /\ h + c \in 1 .. l + h
                            /\ n + (l + h) - l + c - 1 = (n + (h + c)) - 1
      OBVIOUS
    <3> QED BY <2>2, <2>3, <3>1, Zenon
  <2>5. i \in 1 .. SizeOf(gs[k]) BY <2>1, <2>4
  <2>6. out.heap[(at(k) + i) - 1] = Serialized(gs, gs[k])[i] BY <2>5, GlobalLoaded
  <2>7. Serialized(gs, gs[k])[i] = gs[k].bytes[b]
    <3>1. IsBehind(Serialized(gs, gs[k]), PointerBytes(gs[k]), gs[k].bytes)
      BY <1>1, SerializedFacts
    <3> QED BY <2>1, <2>2, <2>3, <3>1 DEF IsBehind
  <2>8. at(k) + SizeOf(gs[k]) - Len(gs[k].bytes) + b - 1 = (at(k) + i) - 1
    BY <2>1, <2>4
  <2> QED BY <2>6, <2>7, <2>8
<1>5. ASSUME gs[k].pointer = "global" PROVE word(at(k)) = at(gs[k].to)
  <2>1. gs[k].to \in 1 .. Len(gs) BY <1>1, <1>5, Target
  <2>2. PICK v \in Nat, s \in Nat, z \in Nat :
          /\ v = at(gs[k].to) /\ s = SizeOf(gs[gs[k].to]) /\ z = mem_total
          /\ v + s <= data_size(gs) /\ data_size(gs) \in Nat /\ data_size(gs) <= z
          /\ z \in Word
    BY <1>1, <2>1, GlobalsApart, GlobalFacts, DataLoaded
  <2>3. v \in Word
    <3>1. WordMod \in Nat BY WordFacts
    <3> QED BY <2>2, <3>1 DEF Word
  <2>4. IsPointer(Serialized(gs, gs[k]), v) BY <1>1, <1>5, <2>2, SerializedFacts
  <2>5. gs[k].pointer # "none" BY <1>5
  <2> QED BY <2>2, <2>3, <2>4, <2>5, PointerLoaded
<1>6. ASSUME gs[k].pointer = "function", p.calls
      PROVE  /\ word(at(k)) % 2 = 0 /\ word(at(k)) > 0
             /\ out.funcs[word(at(k)) + 1] = p.funcs[gs[k].to]
  <2>1. gs[k].to \in 1 .. Len(p.funcs) BY <1>1, <1>6, Target
  <2>2. PICK v : v = CVM_FN_SLOT(gs[k].to) OBVIOUS
  <2>3. /\ out.funcs[v + 1] = p.funcs[gs[k].to]
        /\ v \in Word /\ v > 0 /\ v % 2 = 0
    BY <1>6, <2>1, <2>2, TableLoaded
  <2>4. IsPointer(Serialized(gs, gs[k]), v) BY <1>1, <1>6, <2>2, SerializedFacts
  <2>5. gs[k].pointer # "none" BY <1>6
  <2>6. word(at(k)) = v BY <2>3, <2>4, <2>5, PointerLoaded
  <2> QED BY <2>3, <2>6
<1> QED BY <1>2, <1>3, <1>4, <1>5, <1>6 DEF GlobalSound

LEMMA HeaderAsWritten ==
  ASSUME Typed, Loading, ImageLoaded, stage = "loaded", NEW p, Loads(p)
  PROVE  /\ out.entry = p.funcs[p.main]
         /\ out.names = [k \in DOMAIN p.imports |-> p.imports[k].name]
         /\ \A k \in DOMAIN p.regions : /\ out.regions[k].name = p.regions[k].name
                                        /\ out.regions[k].size = p.regions[k].size
<1>1. p \in Programs BY WrittenFields
<1>2. /\ DOMAIN p.regions = 1 .. Len(p.regions)
      /\ DOMAIN p.imports = 1 .. Len(p.imports)
  <2>1. /\ p.regions \in Seq([name : Seq(Byte \ {0}), size : 1 .. WordMod \div 2 - 1, dir : 1 .. 3])
        /\ p.imports \in Seq([name : STRING, len : Nat \ {0}])
    BY <1>1, ProgramFacts DEF IsProgram
  <2> QED BY <2>1
<1>3. region_count = Len(p.regions) /\ import_count = Len(p.imports)
  <2>1. Seen = region_count BY DEF Seen
  <2> QED BY <2>1, TotalsLoaded DEF Loading
<1>4. out.names = [k \in 1 .. Len(p.imports) |-> file.imports[k].name]
  BY <1>3 DEF ImageLoaded
<1>5. \A k \in 1 .. Len(p.imports) : file.imports[k].name = p.imports[k].name
  BY WrittenFields
<1>6. out.names = [k \in DOMAIN p.imports |-> p.imports[k].name] BY <1>2, <1>4, <1>5
<1>7. \A k \in DOMAIN p.regions : /\ out.regions[k].name = p.regions[k].name
                                  /\ out.regions[k].size = p.regions[k].size
  BY <1>2, <1>3, WrittenFields DEF ImageLoaded
<1>8. out.entry = p.funcs[p.main] BY WrittenFields DEF ImageLoaded
<1> QED BY <1>6, <1>7, <1>8

LEMMA PeekAsWritten ==
  ASSUME NEW p, Loads(p), NEW t \in SecTypes \ NoPayload, PayloadSize(p)[t] > 0
  PROVE  cvm_peek_section(file, t) = <<1, WrittenAt(p, t), PayloadSize(p)[t]>>
<1> DEFINE match == {k \in DOMAIN file.sections : file.sections[k].type = t}
           first == CHOOSE k \in match : \A j \in match : k <= j
           s == file.sections[first]
<1>1. p \in Programs /\ file = write_bin(p) /\ file.len <= MAX_U32 /\ file.magic
  BY WrittenFields DEF Loads
<1>2. t \in WrittenTypes /\ PayloadSize(p)[t] # 0
  <2>1. t # "DEBUG" /\ t # "BSS" BY <1>1, PayloadSizes DEF NoPayload
  <2>2. PayloadSize(p)[t] # 0 OBVIOUS
  <2> QED BY <2>1, <2>2 DEF WrittenTypes
<1>3. /\ DOMAIN file.sections = 1 .. Len(file.sections)
      /\ file.len \in Nat /\ file.len >= HEADER_SIZE /\ TableFits(file)
      /\ \A k \in 1 .. Len(file.sections) : EntryOf(p, file.sections[k])
      /\ \A j, k \in 1 .. Len(file.sections) :
           file.sections[j].type = file.sections[k].type => j = k
      /\ \E k \in 1 .. Len(file.sections) : file.sections[k].type = t
  BY <1>1, <1>2, WrittenTable
<1>4. PICK k \in 1 .. Len(file.sections) : file.sections[k].type = t BY <1>3
<1>5. match = {k} BY <1>3, <1>4
<1>6. first = k BY <1>5
<1>7. s.type = t /\ EntryOf(p, s) BY <1>3, <1>4, <1>6
<1>8. /\ s.off = WrittenAt(p, t) /\ s.size = PayloadSize(p)[t]
      /\ s.off \in Nat /\ s.size \in Nat /\ s.off + s.size <= file.len
  BY <1>1, <1>7 DEF EntryOf
<1>9. ~(s.off + s.size > file.len) BY <1>3, <1>8
<1>10. ~(file.len < HEADER_SIZE \/ ~file.magic \/ ~TableFits(file))
  BY <1>1, <1>3 DEF HEADER_SIZE
<1>11. match # {} BY <1>5
<1> HIDE DEF match
<1>12. cvm_peek_section(file, t) = <<1, s.off, s.size>>
  BY <1>9, <1>10, <1>11 DEF cvm_peek_section, match
<1> QED BY <1>8, <1>12

(* What is loaded is what was written, whatever the program: an address in *)
(* a global or in the code leads to the global it was given to, a slot     *)
(* through FUNCS to its function, and a section is where the table says.   *)
THEOREM LoadedAsWritten == Spec => []LoadsAsWritten
<1>1. Typed /\ Loading /\ FuncsLoaded /\ ImageLoaded => LoadsAsWritten
  <2> SUFFICES ASSUME Typed, Loading, FuncsLoaded, ImageLoaded, stage = "loaded",
                      NEW p \in Programs, file = Written[p], file.len <= MAX_U32
               PROVE  LET gs == p.globals
                          at(k) == Addresses(gs)[k]
                          word(a) == ReadLE(out.heap, a, 4)
                          span(k) == Span(at(k), SizeOf(gs[k]))
                      IN  /\ out.entry = p.funcs[p.main]
                          /\ \A k \in DOMAIN gs :
                               /\ at(k) > 0 /\ at(k) % gs[k].align = 0
                               /\ \A j \in DOMAIN gs \ {k} : span(j) \cap span(k) = {}
                               /\ \A b \in DOMAIN gs[k].bytes :
                                    out.heap[at(k) + SizeOf(gs[k]) - Len(gs[k].bytes) + b - 1]
                                      = gs[k].bytes[b]
                               /\ gs[k].pointer = "global" => word(at(k)) = at(gs[k].to)
                               /\ gs[k].pointer = "function" /\ p.calls =>
                                    /\ word(at(k)) % 2 = 0 /\ word(at(k)) > 0
                                    /\ out.funcs[word(at(k)) + 1] = p.funcs[gs[k].to]
                          /\ p.calls => \A k \in DOMAIN p.funcs :
                                          out.funcs[CVM_FN_SLOT(k) + 1] = p.funcs[k]
                          /\ out.names = [k \in DOMAIN p.imports |-> p.imports[k].name]
                          /\ \A k \in DOMAIN p.regions :
                               /\ out.regions[k].name = p.regions[k].name
                               /\ out.regions[k].size = p.regions[k].size
                          /\ \A t \in SecTypes \ NoPayload :
                               PayloadSize(p)[t] > 0 =>
                                 cvm_peek_section(file, t) =
                                   <<1, WrittenAt(p, t), PayloadSize(p)[t]>>
    BY Zenon DEF LoadsAsWritten
  <2>1. Loads(p) BY DEF Loads, Written
  <2>2. DOMAIN p.globals = 1 .. Len(p.globals) /\ DOMAIN p.funcs = 1 .. Len(p.funcs)
    BY ProgramFacts
  <2>3. \A k \in DOMAIN p.funcs : p.calls => out.funcs[CVM_FN_SLOT(k) + 1] = p.funcs[k]
    BY <2>1, <2>2, TableLoaded
  <2>4. \A t \in SecTypes \ NoPayload : PayloadSize(p)[t] > 0 =>
          cvm_peek_section(file, t) = <<1, WrittenAt(p, t), PayloadSize(p)[t]>>
    BY <2>1, PeekAsWritten
  <2>5. /\ out.entry = p.funcs[p.main]
        /\ out.names = [k \in DOMAIN p.imports |-> p.imports[k].name]
        /\ \A k \in DOMAIN p.regions : /\ out.regions[k].name = p.regions[k].name
                                       /\ out.regions[k].size = p.regions[k].size
    BY <2>1, HeaderAsWritten
  <2>6. \A k \in DOMAIN p.globals : GlobalSound(p, k) BY <2>1, <2>2, GlobalAsWritten
  <2> QED BY <2>3, <2>4, <2>5, <2>6, Zenon DEF GlobalSound
<1>2. Init => FuncsLoaded /\ ImageLoaded BY DEF Init, FuncsLoaded, ImageLoaded
<1>3. ASSUME Typed, Typed', Loading, FuncsLoaded, ImageLoaded, [Next]_vars
      PROVE  FuncsLoaded' /\ ImageLoaded'
  BY <1>3, FuncsStep, ImageStep DEF Loading
<1> QED BY <1>1, <1>2, <1>3, LoadingHolds, PTL DEF Spec
=============================================================================
