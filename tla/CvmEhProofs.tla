---------------------------- MODULE CvmEhProofs ----------------------------
(***************************************************************************)
(* Theorems about CvmEh: types, the chain of frames, the count of          *)
(* handlers, and that what the runtime does is what Exceptions promises.   *)
(***************************************************************************)
EXTENDS CvmEh, NatLemmas, SequenceTheorems, FiniteSetTheorems

Clauses == Types \cup {CatchAll}
Catchable == Types \cup {NoType}
Exceptional == Objects \cup {NoObject}

(* ---------------------------------------------------------------------- *)
(* The inductive invariant                                                 *)

Scope == {Try(s) : s \in Tries} \cup {Noexcept, Guard}
           \cup {Handler(e, k, 0) : e \in Exceptional, k \in Clauses}
Stack == {s \in Seq(Scope) : Len(s) <= MaxScopes}
Activation == [scopes : Stack, pad : Catchable \cup {Running}]
Activations == {s \in Seq(Activation) : Len(s) \in 1 .. MaxDepth}
Descriptor == [clauses : Seq(Clauses), has_cleanup : BOOLEAN]

(* Types, with what the activations and frames consist of.                 *)
Typed ==
  /\ TypeOK
  /\ acts \in [Coros -> Activations]
  /\ frames \in [Addresses -> [jb : Stack, desc : Descriptor, next : Addresses \cup {NULL}]]
  /\ headers \in [Objects -> [ti : Catchable, handler_count : Int, live : BOOLEAN]]

(* The chain from the frame below depth j on is that of the calls that     *)
(* have not returned.                                                      *)
Linked(j) ==
  /\ g_eh_top = FrameBelow(run, j)
  /\ \A d \in Behind(run, j) :
       frames[<<run, d>>] = [jb |-> acts[run][d].scopes, desc |-> Desc(acts[run][d].scopes),
                             next |-> FrameBelow(run, d)]

(* The walk has passed the activations from depth j on.                    *)
Passed(j) == /\ Linked(j)
             /\ \A d \in Pending(run) : d >= j => ~Catches(Desc(acts[run][d].scopes))

Chained ==
  /\ \A c \in Coros \ {run} : Quiet(c)
  /\ mode # "wild"
  /\ mode = "run" => Linked(MaxDepth + 1)
  /\ mode = "unwind" => \E j \in 1 .. MaxDepth + 1 : Passed(j)

(* At most one activation is at a landing pad; a walk begins at one that   *)
(* has no scope open, be it at its landing pad or not.                     *)
Pads == {d \in 1 .. Len(acts[run]) : acts[run][d].pad # Running}

OnePad ==
  /\ \A d, k \in Pads : d = k
  /\ mode = "unwind" => Pads \subseteq {Len(acts[run])} /\ Top.scopes = <<>>

(* There is at most one exception, and all handlers are its.  While it is  *)
(* in flight its count is negative.                                        *)
Count == headers[g_eh_exc].handler_count
Handlers == Cardinality(HandlersOf(g_eh_exc))
InFlight == mode = "unwind" \/ Pads # {}

Counts ==
  /\ Alive \subseteq {g_eh_exc}
  /\ \A e \in Exceptional : HandlersOf(e) # {} => e = g_eh_exc /\ e # NoObject
  /\ mode # "halt" =>
       /\ OnePad
       /\ InFlight => g_eh_exc # NoObject /\ Count = -Handlers
       /\ ~InFlight /\ g_eh_exc # NoObject => Count = Handlers /\ Handlers > 0
  /\ mode = "halt" /\ g_eh_exc # NoObject => Count \in {Handlers, -Handlers}

(* ---------------------------------------------------------------------- *)
(* Sequences                                                               *)

(* A sequence that is not empty is its front and its last element.         *)
LEMMA FrontLast ==
  ASSUME NEW S, NEW s \in Seq(S), s # <<>>
  PROVE  /\ Len(s) \in Nat \ {0} /\ Last(s) \in S /\ Last(s) = s[Len(s)]
         /\ Front(s) \in Seq(S) /\ Len(Front(s)) = Len(s) - 1
         /\ \A i \in 1 .. Len(s) - 1 : Front(s)[i] = s[i]
         /\ s = Append(Front(s), Last(s))
<1>1. Len(s) \in Nat \ {0} BY EmptySeq
<1>2. \A i \in 1 .. Len(s) - 1 : s[i] \in S BY <1>1
<1>3. /\ Front(s) \in Seq(S) /\ Len(Front(s)) = Len(s) - 1
      /\ \A i \in 1 .. Len(s) - 1 : Front(s)[i] = s[i]
  <2>1. PICK n \in Int : n = Len(s) - 1 BY <1>1
  <2>2. 1 \in Int /\ \A i \in 1 .. n : s[i] \in S BY <1>2, <2>1
  <2>3. /\ SubSeq(s, 1, n) \in Seq(S)
        /\ Len(SubSeq(s, 1, n)) = IF 1 <= n THEN n - 1 + 1 ELSE 0
        /\ \A i \in 1 .. n - 1 + 1 : SubSeq(s, 1, n)[i] = s[1 + i - 1]
    BY <2>2, SubSeqProperties
  <2>4. Front(s) = SubSeq(s, 1, n) BY <2>1 DEF Front
  <2>5. n - 1 + 1 = n /\ \A i \in 1 .. n : 1 + i - 1 = i OBVIOUS
  <2>6. (IF 1 <= n THEN n - 1 + 1 ELSE 0) = n BY <1>1, <2>1
  <2> QED BY <2>1, <2>3, <2>4, <2>5, <2>6
<1>4. Last(s) \in S /\ Last(s) = s[Len(s)] BY <1>1 DEF Last
<1>5. s = Append(Front(s), Last(s))
  <2>1. /\ Append(Front(s), Last(s)) \in Seq(S) /\ Len(Append(Front(s), Last(s))) = Len(s)
        /\ \A i \in 1 .. Len(s) - 1 : Append(Front(s), Last(s))[i] = s[i]
        /\ Append(Front(s), Last(s))[Len(s)] = s[Len(s)]
    BY <1>1, <1>3, <1>4, AppendProperties
  <2> QED BY <2>1, <1>1, SeqEqual
<1> QED BY <1>1, <1>3, <1>4, <1>5

(* Append, read by position, without naming the set of elements.           *)
LEMMA Appended ==
  ASSUME NEW S, NEW s \in Seq(S), NEW a \in S
  PROVE  /\ Append(s, a) \in Seq(S) /\ Append(s, a) # <<>>
         /\ Len(Append(s, a)) = Len(s) + 1 /\ Len(s) \in Nat
         /\ \A i \in 1 .. Len(s) : Append(s, a)[i] = s[i]
         /\ Append(s, a)[Len(s) + 1] = a
         /\ Last(Append(s, a)) = a /\ Front(Append(s, a)) = s
<1>1. /\ Append(s, a) \in Seq(S) /\ Append(s, a) # <<>>
      /\ Len(Append(s, a)) = Len(s) + 1 /\ Len(s) \in Nat
      /\ \A i \in 1 .. Len(s) : Append(s, a)[i] = s[i]
      /\ Append(s, a)[Len(s) + 1] = a
  BY AppendProperties, LenProperties
<1>2. Last(Append(s, a)) = a BY <1>1 DEF Last
<1>3. Front(Append(s, a)) = s
  <2>0. PICK t \in Seq(S) : t = Append(s, a) BY <1>1
  <2>1. /\ Front(t) \in Seq(S) /\ Len(Front(t)) = Len(t) - 1
        /\ \A i \in 1 .. Len(t) - 1 : Front(t)[i] = t[i]
    BY <1>1, <2>0, FrontLast
  <2>2. Len(t) - 1 = Len(s) /\ \A i \in 1 .. Len(s) : t[i] = s[i] BY <1>1, <2>0
  <2>3. Len(Front(t)) = Len(s) /\ \A i \in 1 .. Len(s) : Front(t)[i] = s[i] BY <2>1, <2>2
  <2>4. Front(t) = s BY <2>1, <2>3, SeqEqual
  <2> QED BY <2>4, <2>0
<1> QED BY <1>1, <1>2, <1>3

(* The last element replaced.                                              *)
LEMMA Replaced ==
  ASSUME NEW S, NEW s \in Seq(S), s # <<>>, NEW a \in S
  PROVE  /\ Append(Front(s), a) \in Seq(S) /\ Append(Front(s), a) # <<>>
         /\ Len(Append(Front(s), a)) = Len(s)
         /\ \A i \in 1 .. Len(s) - 1 : Append(Front(s), a)[i] = s[i]
         /\ Append(Front(s), a)[Len(s)] = a
<1>1. Front(s) \in Seq(S) /\ Len(Front(s)) = Len(s) - 1 /\ Len(s) \in Nat \ {0}
      /\ \A i \in 1 .. Len(s) - 1 : Front(s)[i] = s[i]
  BY FrontLast
<1> QED BY <1>1, AppendProperties

(* The concatenations of the first sequences of a sequence.                *)
Partial(N, ss, f) == /\ f[1] = ss[1]
                     /\ \A i \in 2 .. N : f[i] = f[i - 1] \o ss[i]

Sequences(T, N, ss) == N \in Nat \ {0} /\ ss \in [1 .. N -> Seq(T)] /\ Len(ss) = N
Partials(T, N, ss, f) == Sequences(T, N, ss) /\ f \in [1 .. N -> Seq(T)] /\ Partial(N, ss, f)

LEMMA PartialExists ==
  ASSUME NEW T, NEW N, NEW ss, Sequences(T, N, ss)
  PROVE  \E f : Partials(T, N, ss, f)
<1>0. N \in Nat \ {0} /\ ss \in [1 .. N -> Seq(T)] BY DEF Sequences
<1> DEFINE S == {n \in 0 .. N : n = 0 \/ \E f \in [1 .. n -> Seq(T)] : Partial(n, ss, f)}
<1>1. 0 \in S BY <1>0
<1>2. ASSUME NEW n \in 1 .. N, n - 1 \in S PROVE n \in S
  <2>0. n \in 0 .. N BY <1>0
  <2>1. CASE n = 1
    <3>1. [i \in 1 .. 1 |-> ss[1]] \in [1 .. 1 -> Seq(T)] BY <1>0
    <3>2. Partial(1, ss, [i \in 1 .. 1 |-> ss[1]]) BY DEF Partial
    <3> QED BY <3>1, <3>2, <2>1, <2>0
  <2>2. CASE n # 1
    <3>0. n \in 2 .. N /\ n - 1 \in 1 .. N /\ n \in Nat BY <1>0, <2>2
    <3>1. PICK f \in [1 .. n - 1 -> Seq(T)] : Partial(n - 1, ss, f)
      <4>1. n - 1 # 0 BY <3>0
      <4> QED BY <1>2, <4>1
    <3> DEFINE e == [i \in 1 .. n |-> IF i < n THEN f[i] ELSE f[n - 1] \o ss[n]]
    <3>2. f[n - 1] \in Seq(T) /\ ss[n] \in Seq(T) BY <1>0, <3>0
    <3>3. f[n - 1] \o ss[n] \in Seq(T) BY <3>2, ConcatProperties
    <3>4. e \in [1 .. n -> Seq(T)] BY <3>3, <3>0
    <3>5. e[1] = ss[1] BY <3>1, <3>0 DEF Partial
    <3>6. ASSUME NEW i \in 2 .. n PROVE e[i] = e[i - 1] \o ss[i]
      <4>1. CASE i < n
        <5>1. i \in 2 .. n - 1 /\ i - 1 \in 1 .. n /\ i - 1 < n /\ i \in 1 .. n BY <4>1, <3>0
        <5>2. f[i] = f[i - 1] \o ss[i] BY <5>1, <3>1 DEF Partial
        <5>3. e[i] = f[i] /\ e[i - 1] = f[i - 1] BY <5>1, <4>1
        <5> QED BY <5>2, <5>3
      <4>2. CASE i = n
        <5>1. i - 1 \in 1 .. n /\ i - 1 < n /\ i \in 1 .. n /\ ~(i < n) BY <4>2, <3>0
        <5>2. e[i] = f[n - 1] \o ss[n] /\ e[i - 1] = f[n - 1] BY <5>1, <4>2
        <5> QED BY <5>2, <4>2
      <4>3. i < n \/ i = n BY <3>0
      <4> QED BY <4>1, <4>2, <4>3
    <3> HIDE DEF e
    <3>7. Partial(n, ss, e) BY <3>5, <3>6 DEF Partial
    <3> QED BY <3>4, <3>7, <2>0
  <2> QED BY <2>1, <2>2
<1>3. \A n \in 0 .. N : n \in S
  <2> HIDE DEF S
  <2>1. N \in Nat BY <1>0
  <2> QED BY <1>1, <1>2, <2>1, UpTo
<1>4. N \in 0 .. N /\ N # 0 BY <1>0
<1>5. \E f \in [1 .. N -> Seq(T)] : Partial(N, ss, f) BY <1>3, <1>4
<1> QED BY <1>5 DEF Partials

LEMMA PartialUnique ==
  ASSUME NEW N \in Nat \ {0}, NEW ss, NEW f, NEW g, Partial(N, ss, f), Partial(N, ss, g)
  PROVE  \A i \in 1 .. N : f[i] = g[i]
<1> DEFINE E == {n \in 0 .. N : n = 0 \/ f[n] = g[n]}
<1>1. 0 \in E OBVIOUS
<1>2. ASSUME NEW n \in 1 .. N, n - 1 \in E PROVE n \in E
  <2>0. n \in 0 .. N OBVIOUS
  <2>1. CASE n = 1 BY <2>0, <2>1 DEF Partial
  <2>2. CASE n # 1
    <3>1. n \in 2 .. N /\ n - 1 # 0 BY <2>2
    <3>2. f[n - 1] = g[n - 1] BY <3>1, <1>2
    <3>3. f[n] = g[n] BY <3>1, <3>2 DEF Partial
    <3> QED BY <3>3, <2>0
  <2> QED BY <2>1, <2>2
<1>3. \A n \in 0 .. N : n \in E
  <2> HIDE DEF E
  <2> QED BY <1>1, <1>2, UpTo
<1> QED BY <1>3

(* FlattenSeq is the last of them.                                         *)
LEMMA Flattens ==
  ASSUME NEW T, NEW N, NEW ss, NEW f, Partials(T, N, ss, f)
  PROVE  FlattenSeq(ss) = f[N]
<1> USE DEF Sequences, Partials
<1> DEFINE F(h) == [i \in 1 .. N |-> IF i = 1 THEN ss[i] ELSE h[i - 1] \o ss[i]]
           g == CHOOSE h : h = [i \in 1 .. N |-> IF i = 1 THEN ss[i] ELSE h[i - 1] \o ss[i]]
<1>1. f = F(f)
  <2>1. ASSUME NEW i \in 1 .. N PROVE f[i] = F(f)[i]
    <3>1. i = 1 \/ i \in 2 .. N OBVIOUS
    <3> QED BY <3>1 DEF Partial
  <2> QED BY <2>1
<1>2. g = F(g)
  <2>1. \E h : h = F(h) BY <1>1
  <2> QED BY <2>1, Zenon
<1>3. FlattenSeq(ss) = g[N]
  <2>1. Len(ss) # 0 OBVIOUS
  <2> QED BY <2>1, Zenon DEF FlattenSeq
<1> HIDE DEF g
<1>4. Partial(N, ss, g)
  <2>1. g[1] = ss[1] BY <1>2
  <2>2. ASSUME NEW i \in 2 .. N PROVE g[i] = g[i - 1] \o ss[i]
    <3>1. i \in 1 .. N /\ i # 1 OBVIOUS
    <3> QED BY <3>1, <1>2
  <2> QED BY <2>1, <2>2 DEF Partial
<1>5. g[N] = f[N] BY <1>4, PartialUnique
<1> QED BY <1>3, <1>5

(* What stands before the first of several sequences comes first.          *)
Before(T, N, a, ss, tt) ==
  /\ Sequences(T, N, ss) /\ Sequences(T, N + 1, tt) /\ a \in Seq(T)
  /\ tt[1] = a /\ \A i \in 1 .. N : tt[i + 1] = ss[i]

Joined(a, s) == a \o s

LEMMA FlattenCons ==
  ASSUME NEW T, NEW N, NEW a, NEW ss, NEW tt, Before(T, N, a, ss, tt)
  PROVE  FlattenSeq(tt) = Joined(a, FlattenSeq(ss))
<1>0. Sequences(T, N, ss) BY DEF Before
<1>1. PICK f : Partials(T, N, ss, f) BY <1>0, PartialExists
<1>2. FlattenSeq(ss) = f[N] BY <1>1, Flattens
<1> USE <1>1 DEF Sequences, Before, Partials
<1> DEFINE M == N + 1
           g == [i \in 1 .. M |-> IF i = 1 THEN a ELSE a \o f[i - 1]]
<1>3. ASSUME NEW i \in 2 .. M PROVE i - 1 \in 1 .. N /\ i \in 1 .. M /\ i # 1 /\ f[i - 1] \in Seq(T)
  OBVIOUS
<1>4. g \in [1 .. M -> Seq(T)]
  <2>1. ASSUME NEW i \in 1 .. M PROVE (IF i = 1 THEN a ELSE a \o f[i - 1]) \in Seq(T)
    <3>1. CASE i = 1 BY <3>1
    <3>2. CASE i # 1
      <4>1. f[i - 1] \in Seq(T) BY <3>2
      <4>2. a \o f[i - 1] \in Seq(T) BY <4>1, ConcatProperties
      <4> QED BY <4>2, <3>2
    <3> QED BY <3>1, <3>2
  <2> QED BY <2>1
<1>5. Partial(M, tt, g)
  <2>1. g[1] = tt[1] OBVIOUS
  <2>2. ASSUME NEW i \in 2 .. M PROVE g[i] = g[i - 1] \o tt[i]
    <3>1. g[i] = a \o f[i - 1] BY <1>3
    <3>2. tt[i] = ss[i - 1]
      <4>1. i - 1 \in 1 .. N /\ (i - 1) + 1 = i OBVIOUS
      <4> QED BY <4>1
    <3>3. CASE i = 2
      <4>1. g[i - 1] = a /\ f[i - 1] = ss[i - 1] BY <3>3, <1>1 DEF Partial
      <4> QED BY <4>1, <3>1, <3>2
    <3>4. CASE i # 2
      <4>1. i - 1 \in 2 .. N /\ i - 1 \in 2 .. M /\ i - 2 \in 1 .. N /\ (i - 1) - 1 = i - 2 BY <3>4
      <4>2. g[i - 1] = a \o f[i - 2] BY <4>1, <1>3
      <4>3. f[i - 1] = f[i - 2] \o ss[i - 1] BY <4>1, <1>1 DEF Partial
      <4>4. f[i - 2] \in Seq(T) /\ ss[i - 1] \in Seq(T) BY <4>1
      <4>5. (a \o f[i - 2]) \o ss[i - 1] = a \o (f[i - 2] \o ss[i - 1])
        <5>1. PICK u \in Seq(T), v \in Seq(T) : u = f[i - 2] /\ v = ss[i - 1] BY <4>4
        <5>2. (a \o u) \o v = a \o (u \o v) BY ConcatAssociative, SMTT(60)
        <5> QED BY <5>1, <5>2
      <4> HIDE DEF g
      <4> QED BY <3>1, <3>2, <4>2, <4>3, <4>5
    <3> QED BY <3>3, <3>4
  <2> HIDE DEF g
  <2> QED BY <2>1, <2>2 DEF Partial
<1>6. FlattenSeq(tt) = g[M]
  <2> HIDE DEF g
  <2>1. Partials(T, M, tt, g) BY <1>4, <1>5 DEF Partials
  <2> HIDE DEF M, Partials, Sequences
  <2> QED BY <2>1, Flattens
<1>7. g[M] = a \o f[N]
  <2>1. M \in 1 .. M /\ M # 1 /\ M - 1 = N OBVIOUS
  <2> QED BY <2>1
<1> QED BY <1>2, <1>6, <1>7 DEF Joined

(* ---------------------------------------------------------------------- *)
(* Landing pads                                                            *)

LEMMA ScopeClauses ==
  ASSUME NEW s \in Scope
  PROVE  /\ s.clauses \in Seq(Clauses) /\ s.kind \in {"try", "noexcept", "guard", "handler"}
         /\ s.kind \in {"guard", "handler"} => s.clauses = <<>>
         /\ s.kind = "noexcept" => s = Noexcept
         /\ s.kind = "try" => s.clauses \in Tries
         /\ s.kind = "guard" => s = Guard
<1>1. <<CatchAll>> \in Seq(Clauses) /\ <<>> \in Seq(Clauses)
  BY DEF Clauses
<1>2. ASSUME NEW t \in Tries PROVE t \in Seq(Clauses)
  BY CartAssumption DEF Clauses
<1>3. CASE \E t \in Tries : s = Try(t) BY <1>2, <1>3 DEF Try
<1>4. CASE s = Noexcept BY <1>1, <1>4 DEF Noexcept
<1>5. CASE s = Guard BY <1>1, <1>5 DEF Guard
<1>6. CASE \E e \in Exceptional, k \in Clauses : s = Handler(e, k, 0) BY <1>1, <1>6 DEF Handler
<1> QED BY <1>3, <1>4, <1>5, <1>6 DEF Scope

LEMMA NoClauses == ClausesOf(<<>>) = <<>>
<1>1. [i \in DOMAIN <<>> |-> Reverse(<<>>)[i].clauses] = <<>> OBVIOUS
<1> QED BY <1>1 DEF ClausesOf, FlattenSeq

(* The clauses of the innermost scope come first.                          *)
LEMMA ClausesAppend ==
  ASSUME NEW o \in Seq(Scope), NEW s \in Scope, ClausesOf(o) \in Seq(Clauses)
  PROVE  ClausesOf(Append(o, s)) = s.clauses \o ClausesOf(o)
<1> DEFINE w == Append(o, s)
           N == Len(o)
           M == N + 1
           ss == [i \in DOMAIN o |-> Reverse(o)[i].clauses]
           tt == [i \in DOMAIN w |-> Reverse(w)[i].clauses]
<1>1. /\ w \in Seq(Scope) /\ Len(w) = N + 1 /\ N \in Nat /\ w[N + 1] = s
      /\ \A i \in 1 .. N : w[i] = o[i]
  BY Appended
<1>2. DOMAIN o = 1 .. N /\ DOMAIN w = 1 .. N + 1 BY <1>1
<1>3. \A x \in Scope : x.clauses \in Seq(Clauses) BY ScopeClauses
<1>4. \A i \in 1 .. N : (N - i) + 1 \in 1 .. N BY <1>1
<1>5. \A i \in 1 .. N : Reverse(o)[i] = o[(N - i) + 1] /\ o[(N - i) + 1] \in Scope
  BY <1>1, <1>4 DEF Reverse
<1>6. \A i \in 1 .. N + 1 : ((N + 1) - i) + 1 \in 1 .. N + 1 BY <1>1
<1>7. \A i \in 1 .. N + 1 : Reverse(w)[i] = w[((N + 1) - i) + 1] /\ w[((N + 1) - i) + 1] \in Scope
  <2> HIDE DEF w
  <2> QED BY <1>1, <1>6 DEF Reverse
<1>8. ss \in [1 .. N -> Seq(Clauses)] /\ \A i \in 1 .. N : ss[i] = o[(N - i) + 1].clauses
  BY <1>2, <1>3, <1>5
<1>9. /\ tt \in [1 .. N + 1 -> Seq(Clauses)]
      /\ \A i \in 1 .. N + 1 : tt[i] = w[((N + 1) - i) + 1].clauses
  <2> HIDE DEF w
  <2> QED BY <1>2, <1>3, <1>7
<1>10. tt[1] = s.clauses
  <2> HIDE DEF w, tt
  <2>1. 1 \in 1 .. N + 1 /\ ((N + 1) - 1) + 1 = N + 1 BY <1>1
  <2> QED BY <2>1, <1>1, <1>9
<1>11. ASSUME NEW i \in 1 .. N PROVE tt[i + 1] = ss[i]
  <2> HIDE DEF w, tt, ss
  <2>1. i + 1 \in 1 .. N + 1 /\ ((N + 1) - (i + 1)) + 1 = (N - i) + 1 /\ (N - i) + 1 \in 1 .. N
    BY <1>1
  <2> QED BY <2>1, <1>1, <1>8, <1>9
<1>12. ClausesOf(o) = FlattenSeq(ss) /\ ClausesOf(w) = FlattenSeq(tt) BY DEF ClausesOf
<1>13. s.clauses \in Seq(Clauses) BY <1>3
<1> HIDE DEF w, tt, ss
<1>14. CASE N = 0
  <2>1. o = <<>> BY <1>14, EmptySeq
  <2>2. ClausesOf(o) = <<>> BY <2>1, NoClauses
  <2>3. tt = [i \in 1 .. 1 |-> s.clauses] /\ tt \in [1 .. 1 -> Seq(Clauses)]
    BY <1>14, <1>9, <1>10
  <2>4. Len(tt) = 1 BY <2>3
  <2>5. Partial(1, tt, tt) BY DEF Partial
  <2>6. FlattenSeq(tt) = tt[1]
    <3>1. Partials(Clauses, 1, tt, tt) BY <2>3, <2>4, <2>5 DEF Partials, Sequences
    <3> QED BY <3>1, Flattens
  <2>7. s.clauses \o <<>> = s.clauses BY <1>13, ConcatEmptySeq
  <2> QED BY <2>6, <2>7, <2>2, <1>10, <1>12 DEF w
<1>15. CASE N # 0
  <2>1. Len(ss) = N /\ Len(tt) = N + 1 BY <1>1, <1>8, <1>9
  <2>2. Before(Clauses, N, s.clauses, ss, tt)
    BY <2>1, <1>1, <1>8, <1>9, <1>10, <1>11, <1>13, <1>15 DEF Before, Sequences
  <2>3. FlattenSeq(tt) = Joined(s.clauses, FlattenSeq(ss)) BY <2>2, FlattenCons
  <2> QED BY <2>3, <1>12 DEF w, Joined
<1> QED BY <1>14, <1>15

(* Induction on sequences, from the left.                                  *)
LEMMA SeqInd ==
  ASSUME NEW S, NEW P, <<>> \in P, \A o \in Seq(S), s \in S : o \in P => Append(o, s) \in P
  PROVE  \A o \in Seq(S) : o \in P
<1> DEFINE E == {n \in Nat : \A o \in Seq(S) : Len(o) = n => o \in P}
<1>1. 0 \in E
  <2>1. ASSUME NEW o \in Seq(S), Len(o) = 0 PROVE o \in P
    <3>1. o = <<>> BY <2>1, EmptySeq
    <3> QED BY <3>1
  <2> QED BY <2>1
<1>2. ASSUME NEW n \in Nat, n \in E PROVE n + 1 \in E
  <2>1. ASSUME NEW o \in Seq(S), Len(o) = n + 1 PROVE o \in P
    <3>1. o # <<>> BY <2>1
    <3>2. /\ Last(o) \in S /\ Front(o) \in Seq(S) /\ Len(Front(o)) = Len(o) - 1
          /\ o = Append(Front(o), Last(o))
      BY <3>1, FrontLast
    <3>3. PICK f \in Seq(S), a \in S : f = Front(o) /\ a = Last(o) BY <3>2
    <3>4. Len(f) = n /\ o = Append(f, a) BY <2>1, <3>2, <3>3
    <3>5. f \in P BY <1>2, <3>4
    <3>6. Append(f, a) \in P BY <3>5
    <3> QED BY <3>4, <3>6
  <2> QED BY <2>1
<1>3. Nat \subseteq E
  <2> HIDE DEF E
  <2> QED BY <1>1, <1>2, NatInd
<1>4. ASSUME NEW o \in Seq(S) PROVE o \in P
  <2>1. PICK n \in Nat : n = Len(o) BY LenProperties
  <2>2. n \in E BY <1>3
  <2> QED BY <2>1, <2>2
<1> QED BY <1>4

(* The clauses of a landing pad are clauses.                               *)
LEMMA ClausesType == \A o \in Seq(Scope) : ClausesOf(o) \in Seq(Clauses)
<1> DEFINE P == {o \in Seq(Scope) : ClausesOf(o) \in Seq(Clauses)}
<1>1. <<>> \in P
  <2>1. <<>> \in Seq(Scope) /\ <<>> \in Seq(Clauses) BY EmptySeq
  <2> QED BY <2>1, NoClauses
<1>2. ASSUME NEW o \in Seq(Scope), NEW s \in Scope, o \in P PROVE Append(o, s) \in P
  <2>1. Append(o, s) \in Seq(Scope) BY Appended
  <2>2. ClausesOf(Append(o, s)) = s.clauses \o ClausesOf(o) BY <1>2, ClausesAppend
  <2>3. s.clauses \in Seq(Clauses) /\ ClausesOf(o) \in Seq(Clauses) BY <1>2, ScopeClauses
  <2>4. s.clauses \o ClausesOf(o) \in Seq(Clauses) BY <2>3, ConcatProperties
  <2> QED BY <2>1, <2>2, <2>4
<1>3. \A o \in Seq(Scope) : o \in P
  <2> HIDE DEF P
  <2> QED BY <1>1, <1>2, SeqInd
<1> QED BY <1>3

LEMMA DescType == \A o \in Seq(Scope) : Desc(o) \in Descriptor
BY ClausesType DEF Desc, Descriptor

(* A clause of the landing pad is one of an open scope.                    *)
LEMMA ClausesFrom ==
  ASSUME NEW o \in Seq(Scope), NEW k
  PROVE  (\E j \in DOMAIN ClausesOf(o) : ClausesOf(o)[j] = k)
           <=> \E i \in DOMAIN o : \E j \in DOMAIN o[i].clauses : o[i].clauses[j] = k
<1> DEFINE Has(t) == \E j \in DOMAIN t : t[j] = k
           P == {w \in Seq(Scope) : Has(ClausesOf(w)) <=> \E i \in DOMAIN w : Has(w[i].clauses)}
<1>1. <<>> \in P
  <2>1. <<>> \in Seq(Scope) BY EmptySeq
  <2> QED BY <2>1, NoClauses
<1>2. ASSUME NEW w \in Seq(Scope), NEW s \in Scope, w \in P PROVE Append(w, s) \in P
  <2>1. /\ Append(w, s) \in Seq(Scope) /\ Len(Append(w, s)) = Len(w) + 1 /\ Len(w) \in Nat
        /\ \A i \in 1 .. Len(w) : Append(w, s)[i] = w[i]
        /\ Append(w, s)[Len(w) + 1] = s
    BY Appended
  <2>2. s.clauses \in Seq(Clauses) /\ ClausesOf(w) \in Seq(Clauses) BY ClausesType, ScopeClauses
  <2>3. ClausesOf(Append(w, s)) = s.clauses \o ClausesOf(w) BY <2>2, ClausesAppend
  <2>4. Has(s.clauses \o ClausesOf(w)) <=> Has(s.clauses) \/ Has(ClausesOf(w))
    <3>1. PICK a \in Seq(Clauses), b \in Seq(Clauses) : a = s.clauses /\ b = ClausesOf(w) BY <2>2
    <3>2. /\ a \o b \in Seq(Clauses) /\ Len(a \o b) = Len(a) + Len(b)
          /\ \A i \in 1 .. Len(a) + Len(b) : (a \o b)[i] = IF i <= Len(a) THEN a[i] ELSE b[i - Len(a)]
      BY ConcatProperties
    <3>3. Len(a) \in Nat /\ Len(b) \in Nat /\ DOMAIN (a \o b) = 1 .. Len(a) + Len(b)
          /\ DOMAIN a = 1 .. Len(a) /\ DOMAIN b = 1 .. Len(b)
      BY <3>2, LenProperties
    <3>4. ASSUME Has(a) PROVE Has(a \o b)
      <4>1. PICK j \in DOMAIN a : a[j] = k BY <3>4
      <4>2. j \in 1 .. Len(a) + Len(b) /\ j <= Len(a) BY <3>3
      <4> QED BY <4>1, <4>2, <3>2, <3>3
    <3>5. ASSUME Has(b) PROVE Has(a \o b)
      <4>1. PICK j \in DOMAIN b : b[j] = k BY <3>5
      <4>2. j + Len(a) \in 1 .. Len(a) + Len(b) /\ ~(j + Len(a) <= Len(a)) /\ (j + Len(a)) - Len(a) = j
        BY <3>3
      <4> QED BY <4>1, <4>2, <3>2, <3>3
    <3>6. ASSUME Has(a \o b) PROVE Has(a) \/ Has(b)
      <4>1. PICK j \in 1 .. Len(a) + Len(b) : (a \o b)[j] = k BY <3>6, <3>3
      <4>2. CASE j <= Len(a)
        <5>1. j \in DOMAIN a BY <4>2, <3>3
        <5> QED BY <5>1, <4>1, <4>2, <3>2
      <4>3. CASE ~(j <= Len(a))
        <5>1. j - Len(a) \in DOMAIN b BY <4>3, <3>3
        <5> QED BY <5>1, <4>1, <4>3, <3>2
      <4> QED BY <4>2, <4>3
    <3> QED BY <3>1, <3>4, <3>5, <3>6
  <2>5. (\E i \in DOMAIN Append(w, s) : Has(Append(w, s)[i].clauses))
          <=> Has(s.clauses) \/ \E i \in DOMAIN w : Has(w[i].clauses)
    <3> HIDE DEF Has
    <3>1. DOMAIN Append(w, s) = 1 .. Len(w) + 1 /\ DOMAIN w = 1 .. Len(w) BY <2>1
    <3>2. 1 .. Len(w) + 1 = (1 .. Len(w)) \cup {Len(w) + 1} BY <2>1
    <3> QED BY <3>1, <3>2, <2>1
  <2> HIDE DEF Has
  <2> QED BY <1>2, <2>1, <2>3, <2>4, <2>5
<1>3. \A w \in Seq(Scope) : w \in P
  <2> HIDE DEF P
  <2> QED BY <1>1, <1>2, SeqInd
<1> QED BY <1>3

(* ---------------------------------------------------------------------- *)
(* Types                                                                   *)

LEMMA StackTypes ==
  ASSUME NEW o \in Stack
  PROVE  /\ o \in Seq(Scope) /\ Len(o) \in 0 .. MaxScopes /\ DOMAIN o = 1 .. Len(o)
         /\ \A i \in DOMAIN o : o[i] \in Scope
BY LenProperties DEF Stack

LEMMA EmptyStack == <<>> \in Stack /\ Fresh(<<>>) \in Activation
<1>1. <<>> \in Stack BY EmptySeq, CartAssumption DEF Stack
<1> QED BY <1>1 DEF Fresh, Activation

LEMMA FreshType == \A o \in Stack : Fresh(o) \in Activation
BY DEF Fresh, Activation

(* The activations of a coroutine, and the running one.                    *)
LEMMA ActsTypes ==
  ASSUME Typed, NEW c \in Coros
  PROVE  /\ acts[c] \in Seq(Activation) /\ acts[c] # <<>> /\ Len(acts[c]) \in 1 .. MaxDepth
         /\ DOMAIN acts[c] = 1 .. Len(acts[c])
         /\ \A d \in 1 .. Len(acts[c]) : acts[c][d] \in Activation /\ acts[c][d].scopes \in Stack
<1>1. acts[c] \in Seq(Activation) /\ Len(acts[c]) \in 1 .. MaxDepth BY DEF Typed, Activations
<1>2. acts[c] # <<>> BY <1>1, EmptySeq
<1>3. DOMAIN acts[c] = 1 .. Len(acts[c]) BY <1>1, LenProperties
<1>4. \A d \in 1 .. Len(acts[c]) : acts[c][d] \in Activation BY <1>1, ElementOfSeq
<1> QED BY <1>1, <1>2, <1>3, <1>4 DEF Activation

LEMMA TopTypes ==
  ASSUME Typed
  PROVE  /\ run \in Coros /\ Top = acts[run][Len(acts[run])] /\ Top \in Activation
         /\ Top.scopes \in Stack /\ Top.pad \in Catchable \cup {Running}
         /\ Top.scopes # <<>> =>
              /\ Inner \in Scope /\ Inner = Top.scopes[Len(Top.scopes)]
              /\ Len(Top.scopes) \in 1 .. MaxScopes
              /\ Outer \in Stack /\ Len(Outer) = Len(Top.scopes) - 1
              /\ \A i \in 1 .. Len(Top.scopes) - 1 : Outer[i] = Top.scopes[i]
              /\ Top.scopes = Append(Outer, Inner)
<1>1. run \in Coros BY DEF Typed, TypeOK
<1>2. Top = acts[run][Len(acts[run])] BY DEF Top, Last
<1>3. Top \in Activation BY <1>1, <1>2, ActsTypes
<1>4. Top.scopes \in Stack /\ Top.pad \in Catchable \cup {Running} BY <1>3 DEF Activation
<1>5. ASSUME Top.scopes # <<>>
      PROVE  /\ Inner \in Scope /\ Inner = Top.scopes[Len(Top.scopes)]
             /\ Len(Top.scopes) \in 1 .. MaxScopes
             /\ Outer \in Stack /\ Len(Outer) = Len(Top.scopes) - 1
             /\ \A i \in 1 .. Len(Top.scopes) - 1 : Outer[i] = Top.scopes[i]
             /\ Top.scopes = Append(Outer, Inner)
  <2>1. PICK o \in Seq(Scope) : o = Top.scopes /\ o # <<>> BY <1>4, <1>5, StackTypes
  <2>2. Len(o) \in 0 .. MaxScopes BY <1>4, <2>1, StackTypes
  <2>3. /\ Len(o) \in Nat \ {0} /\ Last(o) \in Scope /\ Last(o) = o[Len(o)]
        /\ Front(o) \in Seq(Scope) /\ Len(Front(o)) = Len(o) - 1
        /\ \A i \in 1 .. Len(o) - 1 : Front(o)[i] = o[i]
        /\ o = Append(Front(o), Last(o))
    BY <2>1, FrontLast
  <2>4. Inner = Last(o) /\ Outer = Front(o) BY <2>1 DEF Inner, Outer
  <2>5. Outer \in Stack BY <2>2, <2>3, <2>4, CartAssumption DEF Stack
  <2>6. Len(o) \in 1 .. MaxScopes BY <2>2, <2>3
  <2> QED BY <2>1, <2>3, <2>4, <2>5, <2>6
<1> QED BY <1>1, <1>2, <1>3, <1>4, <1>5

(* A step leaves the running coroutine with n activations, the last of     *)
(* which is a, and all others as they were.                                *)
Becomes(n, a) ==
  /\ acts' \in [Coros -> Activations]
  /\ \A c \in Coros \ {run} : acts'[c] = acts[c]
  /\ Len(acts'[run]) = n
  /\ \A d \in 1 .. n - 1 : acts'[run][d] = acts[run][d]
  /\ acts'[run][n] = a

LEMMA MakesTop ==
  ASSUME Typed, NEW a \in Activation, acts' = WithTop(a)
  PROVE  Becomes(Len(acts[run]), a)
<1>1. PICK s \in Seq(Activation) : s = acts[run] /\ s # <<>> /\ Len(s) \in 1 .. MaxDepth
  BY TopTypes, ActsTypes
<1> DEFINE t == Append(Front(s), a)
<1>2. t \in Seq(Activation) /\ Len(t) = Len(s) /\ t[Len(s)] = a
      /\ \A i \in 1 .. Len(s) - 1 : t[i] = s[i]
  BY <1>1, Replaced
<1>3. acts' = [acts EXCEPT ![run] = t] BY <1>1 DEF WithTop
<1>4. t \in Activations BY <1>1, <1>2 DEF Activations
<1>5. acts \in [Coros -> Activations] /\ run \in Coros BY DEF Typed, TypeOK
<1> HIDE DEF t
<1>6. acts' \in [Coros -> Activations] /\ acts'[run] = t
      /\ \A c \in Coros \ {run} : acts'[c] = acts[c]
  BY <1>3, <1>4, <1>5
<1> QED BY <1>1, <1>2, <1>6 DEF Becomes

LEMMA MakesCall ==
  ASSUME Typed, NEW a \in Activation, Len(acts[run]) < MaxDepth,
         acts' = [acts EXCEPT ![run] = Append(@, a)]
  PROVE  Becomes(Len(acts[run]) + 1, a)
<1>1. PICK s \in Seq(Activation) : s = acts[run] /\ s # <<>> /\ Len(s) \in 1 .. MaxDepth
  BY TopTypes, ActsTypes
<1> DEFINE t == Append(s, a)
<1>2. t \in Seq(Activation) /\ Len(t) = Len(s) + 1 /\ t[Len(s) + 1] = a
      /\ \A i \in 1 .. Len(s) : t[i] = s[i]
  BY <1>1, AppendProperties
<1>3. acts' = [acts EXCEPT ![run] = t] BY <1>1
<1>4. t \in Activations BY <1>1, <1>2, CartAssumption DEF Activations
<1>5. acts \in [Coros -> Activations] /\ run \in Coros BY DEF Typed, TypeOK
<1> HIDE DEF t
<1>6. acts' \in [Coros -> Activations] /\ acts'[run] = t
      /\ \A c \in Coros \ {run} : acts'[c] = acts[c]
  BY <1>3, <1>4, <1>5
<1>7. (Len(s) + 1) - 1 = Len(s) BY <1>1
<1> QED BY <1>1, <1>2, <1>6, <1>7 DEF Becomes

LEMMA MakesReturn ==
  ASSUME Typed, Len(acts[run]) > 1, acts' = [acts EXCEPT ![run] = Front(@)]
  PROVE  Becomes(Len(acts[run]) - 1, acts[run][Len(acts[run]) - 1])
<1>1. PICK s \in Seq(Activation) : s = acts[run] /\ s # <<>> /\ Len(s) \in 1 .. MaxDepth
  BY TopTypes, ActsTypes
<1> DEFINE t == Front(s)
<1>2. t \in Seq(Activation) /\ Len(t) = Len(s) - 1
      /\ \A i \in 1 .. Len(s) - 1 : t[i] = s[i]
  BY <1>1, FrontLast
<1>3. acts' = [acts EXCEPT ![run] = t] BY <1>1
<1>4. t \in Activations BY <1>1, <1>2, CartAssumption DEF Activations
<1>5. acts \in [Coros -> Activations] /\ run \in Coros BY DEF Typed, TypeOK
<1> HIDE DEF t
<1>6. acts' \in [Coros -> Activations] /\ acts'[run] = t
      /\ \A c \in Coros \ {run} : acts'[c] = acts[c]
  BY <1>3, <1>4, <1>5
<1>7. \A i \in 1 .. (Len(s) - 1) - 1 : i \in 1 .. Len(s) - 1 BY <1>1
<1>8. Len(s) - 1 \in 1 .. Len(s) - 1 BY <1>1
<1> QED BY <1>1, <1>2, <1>6, <1>7, <1>8 DEF Becomes

LEMMA MakesLanding ==
  ASSUME Typed, NEW d \in 1 .. Len(acts[run]), NEW a \in Activation,
         acts' = [acts EXCEPT ![run] = Append(SubSeq(@, 1, d - 1), a)]
  PROVE  Becomes(d, a)
<1>1. PICK s \in Seq(Activation) : s = acts[run] /\ s # <<>> /\ Len(s) \in 1 .. MaxDepth
  BY TopTypes, ActsTypes
<1> DEFINE u == SubSeq(s, 1, d - 1)
           t == Append(u, a)
<1>2. u \in Seq(Activation) /\ Len(u) = d - 1 /\ \A i \in 1 .. d - 1 : u[i] = s[i]
  <2>1. PICK n \in Int : n = d - 1 BY <1>1
  <2>2. 1 \in Int /\ \A i \in 1 .. n : s[i] \in Activation BY <2>1, <1>1
  <2>3. /\ SubSeq(s, 1, n) \in Seq(Activation)
        /\ Len(SubSeq(s, 1, n)) = IF 1 <= n THEN n - 1 + 1 ELSE 0
        /\ \A i \in 1 .. n - 1 + 1 : SubSeq(s, 1, n)[i] = s[1 + i - 1]
    BY <2>2, SubSeqProperties
  <2>4. n - 1 + 1 = n /\ \A i \in 1 .. n : 1 + i - 1 = i OBVIOUS
  <2>5. (IF 1 <= n THEN n - 1 + 1 ELSE 0) = n BY <1>1, <2>1
  <2> QED BY <2>1, <2>3, <2>4, <2>5
<1> HIDE DEF u
<1>3. t \in Seq(Activation) /\ Len(t) = Len(u) + 1 /\ t[Len(u) + 1] = a
      /\ \A i \in 1 .. Len(u) : t[i] = u[i]
  BY <1>2, AppendProperties
<1>4. (d - 1) + 1 = d BY <1>1
<1>5. acts' = [acts EXCEPT ![run] = t] BY <1>1 DEF u
<1>6. t \in Activations
  <2> HIDE DEF t
  <2>1. Len(t) = d /\ d \in 1 .. MaxDepth BY <1>1, <1>2, <1>3, <1>4, CartAssumption
  <2> QED BY <2>1, <1>3 DEF Activations
<1>7. acts \in [Coros -> Activations] /\ run \in Coros BY DEF Typed, TypeOK
<1> HIDE DEF t
<1>8. acts' \in [Coros -> Activations] /\ acts'[run] = t
      /\ \A c \in Coros \ {run} : acts'[c] = acts[c]
  BY <1>5, <1>6, <1>7
<1> QED BY <1>1, <1>2, <1>3, <1>4, <1>8 DEF Becomes

ActsTyped == run \in Coros /\ acts \in [Coros -> Activations]
ChainTyped ==
  /\ g_eh_top \in Addresses \cup {NULL}
  /\ frames \in [Addresses -> [jb : Stack, desc : Descriptor, next : Addresses \cup {NULL}]]
HeadersTyped ==
  /\ g_eh_exc \in Exceptional /\ g_eh_ti \in Catchable
  /\ headers \in [Objects -> [ti : Catchable, handler_count : Int, live : BOOLEAN]]
  /\ g_eh_exc # NoObject => g_eh_exc \in Alive /\ headers[g_eh_exc].ti = g_eh_ti
ModeTyped == mode \in {"run", "unwind", "halt", "wild"} /\ g_eh_sel \in Catchable

LEMMA TypedParts ==
  /\ Typed <=> ActsTyped /\ ChainTyped /\ HeadersTyped /\ ModeTyped
  /\ Typed' <=> ActsTyped' /\ ChainTyped' /\ HeadersTyped' /\ ModeTyped'
BY DEF Typed, TypeOK, ActsTyped, ChainTyped, HeadersTyped, ModeTyped, Exceptional, Catchable

(* The least and the greatest of a set of positions.                       *)
LEMMA MinIn ==
  ASSUME NEW T, T \subseteq Nat, T # {}
  PROVE  Min(T) \in T /\ \A y \in T : Min(T) <= y
<1>1. \E x \in T : \A y \in T : x <= y BY Least
<1> QED BY <1>1 DEF Min

LEMMA MaxIn ==
  ASSUME NEW n \in Nat, NEW T, T \subseteq 1 .. n, T # {}
  PROVE  Max(T) \in T /\ \A y \in T : y <= Max(T)
<1> DEFINE U == {n - y : y \in T}
<1>1. U \subseteq Nat /\ U # {}
  <2>1. \A y \in T : n - y \in Nat OBVIOUS
  <2>2. PICK y \in T : TRUE OBVIOUS
  <2>3. n - y \in U OBVIOUS
  <2> QED BY <2>1, <2>3
<1>2. PICK x \in U : \A y \in U : x <= y
  <2> HIDE DEF U
  <2> QED BY <1>1, Least
<1>3. PICK m \in T : x = n - m OBVIOUS
<1>4. \A y \in T : n - m <= n - y BY <1>2, <1>3
<1>5. ASSUME NEW y \in T PROVE m >= y
  <2>1. m \in 1 .. n /\ y \in 1 .. n /\ n - m <= n - y BY <1>4
  <2> QED BY <2>1
<1>6. Max(T) \in T /\ \A y \in T : Max(T) >= y BY <1>3, <1>5 DEF Max
<1> QED BY <1>6

LEMMA SelectorType ==
  ASSUME NEW d \in Descriptor
  PROVE  /\ Selector(d) \in Catchable /\ Hits(d) \subseteq DOMAIN d.clauses
         /\ Hits(d) \subseteq Nat
<1>1. d.clauses \in Seq(Clauses) BY DEF Descriptor
<1>2. DOMAIN d.clauses = 1 .. Len(d.clauses) /\ Len(d.clauses) \in Nat BY <1>1, LenProperties
<1>3. Hits(d) \subseteq DOMAIN d.clauses BY DEF Hits
<1>4. Hits(d) \subseteq Nat BY <1>2, <1>3
<1>5. ASSUME Hits(d) # {} PROVE d.clauses[Min(Hits(d))] \in Clauses
  <2>1. Min(Hits(d)) \in Hits(d) BY <1>4, <1>5, MinIn
  <2> QED BY <2>1, <1>1, <1>2, <1>3
<1>6. Selector(d) \in Catchable BY <1>5 DEF Selector, Catchable, Clauses
<1> QED BY <1>3, <1>4, <1>6

LEMMA PopTypes ==
  ASSUME ChainTyped, __cvm_eh_pop
  PROVE  ChainTyped'
<1>1. NoFrame \in [jb : Stack, desc : Descriptor, next : Addresses \cup {NULL}]
  <2>1. <<>> \in Stack /\ <<>> \in Seq(Scope) BY EmptyStack, StackTypes
  <2>2. Desc(<<>>) \in Descriptor BY <2>1, DescType
  <2> QED BY <2>1, <2>2 DEF NoFrame
<1> QED BY <1>1 DEF ChainTyped, __cvm_eh_pop

LEMMA OpenTypes ==
  ASSUME Typed, NEW s \in Scope, Open(s)
  PROVE  /\ Append(Top.scopes, s) \in Stack
         /\ Becomes(Len(acts[run]), Fresh(Append(Top.scopes, s)))
<1>1. Top.scopes \in Stack /\ Len(Top.scopes) < MaxScopes BY TopTypes DEF Open
<1>2. PICK o \in Seq(Scope) : o = Top.scopes /\ Len(o) \in 0 .. MaxScopes BY <1>1, StackTypes
<1>3. Append(o, s) \in Seq(Scope) /\ Len(Append(o, s)) = Len(o) + 1 BY AppendProperties
<1>4. Append(Top.scopes, s) \in Stack BY <1>1, <1>2, <1>3, CartAssumption DEF Stack
<1>5. Fresh(Append(Top.scopes, s)) \in Activation BY <1>4, FreshType
<1> QED BY <1>4, <1>5, MakesTop DEF Open

(* What opens a scope.                                                     *)
LEMMA EnterOpens ==
  ASSUME Enter
  PROVE  \E s \in Scope : s.kind # "handler" /\ Open(s)
<1>1. CASE \E clauses \in Tries : Open(Try(clauses)) BY <1>1 DEF Scope, Try
<1>2. CASE Open(Guard) BY <1>2 DEF Scope, Guard
<1>3. CASE Open(Noexcept) BY <1>3 DEF Scope, Noexcept
<1> QED BY <1>1, <1>2, <1>3 DEF Enter

LEMMA PadLeaves ==
  ASSUME Typed, Top.scopes # <<>>, PadLeave
  PROVE  /\ [Top EXCEPT !.scopes = Outer] \in Activation
         /\ Becomes(Len(acts[run]), [Top EXCEPT !.scopes = Outer])
<1>1. [Top EXCEPT !.scopes = Outer] \in Activation BY TopTypes DEF Activation
<1> QED BY <1>1, MakesTop DEF PadLeave

LEMMA PadCatches ==
  ASSUME Typed, Top.scopes # <<>>, NEW e \in Exceptional, NEW k \in Clauses, PadCatch(e, k, 0)
  PROVE  /\ Append(Outer, Handler(e, k, 0)) \in Stack
         /\ Becomes(Len(acts[run]), Fresh(Append(Outer, Handler(e, k, 0))))
<1>1. Handler(e, k, 0) \in Scope BY DEF Scope
<1>2. Outer \in Stack /\ Len(Outer) = Len(Top.scopes) - 1 /\ Len(Top.scopes) \in 1 .. MaxScopes
  BY TopTypes
<1>3. PICK o \in Seq(Scope) : o = Outer BY <1>2, StackTypes
<1>4. PICK s \in Scope : s = Handler(e, k, 0) BY <1>1
<1>5. Append(o, s) \in Seq(Scope) /\ Len(Append(o, s)) = Len(o) + 1 BY AppendProperties
<1>6. Append(o, s) \in Stack BY <1>2, <1>3, <1>5, CartAssumption DEF Stack
<1>7. Fresh(Append(o, s)) \in Activation BY <1>6, FreshType
<1> QED BY <1>3, <1>4, <1>6, <1>7, MakesTop DEF PadCatch

(* A landing pad that calls a destructor.                                  *)
Destructor == Fresh(<<Noexcept>>)
CallsDestructor ==
  /\ acts' \in [Coros -> Activations]
  /\ \A c \in Coros \ {run} : acts'[c] = acts[c]
  /\ Len(acts'[run]) = Len(acts[run]) + 1
  /\ \A d \in 1 .. Len(acts[run]) - 1 : acts'[run][d] = acts[run][d]
  /\ acts'[run][Len(acts[run])] = [Top EXCEPT !.scopes = Outer]
  /\ acts'[run][Len(acts[run]) + 1] = Destructor

LEMMA Destroys ==
  ASSUME Typed, PadDestroy
  PROVE  Becomes(Len(acts[run]), [Top EXCEPT !.scopes = Outer]) \/ CallsDestructor
<1>0. Top.scopes # <<>> BY DEF PadDestroy, Within
<1>1. CASE PadLeave BY <1>0, <1>1, PadLeaves
<1>2. CASE /\ Len(acts[run]) < MaxDepth
           /\ acts' = [WithTop([Top EXCEPT !.scopes = Outer]) EXCEPT
                         ![run] = Append(@, Fresh(<<Noexcept>>))]
  <2>1. [Top EXCEPT !.scopes = Outer] \in Activation BY <1>0, TopTypes DEF Activation
  <2>2. PICK a \in Activation : a = [Top EXCEPT !.scopes = Outer] BY <2>1
  <2>3. Destructor \in Activation
    <3>1. Noexcept \in Scope BY DEF Scope
    <3>2. <<Noexcept>> \in Seq(Scope) /\ Len(<<Noexcept>>) = 1 BY <3>1
    <3>3. MaxScopes >= 1 
      <4>1. Len(Top.scopes) \in 1 .. MaxScopes BY <1>0, TopTypes
      <4> QED BY <4>1, CartAssumption
    <3>4. <<Noexcept>> \in Stack BY <3>2, <3>3, CartAssumption DEF Stack
    <3> QED BY <3>4, FreshType DEF Destructor
  <2>4. PICK x \in Activation : x = Destructor BY <2>3
  <2>5. PICK s \in Seq(Activation) : s = acts[run] /\ s # <<>> /\ Len(s) \in 1 .. MaxDepth
    BY TopTypes, ActsTypes
  <2> DEFINE t == Append(Front(s), a)
             w == Append(t, x)
  <2>6. t \in Seq(Activation) /\ Len(t) = Len(s) /\ t[Len(s)] = a
        /\ \A i \in 1 .. Len(s) - 1 : t[i] = s[i]
    BY <2>5, Replaced
  <2> HIDE DEF t
  <2>7. w \in Seq(Activation) /\ Len(w) = Len(t) + 1 /\ w[Len(t) + 1] = x
        /\ \A i \in 1 .. Len(t) : w[i] = t[i]
    BY <2>6, AppendProperties
  <2>8. acts \in [Coros -> Activations] /\ run \in Coros BY DEF Typed, TypeOK
  <2>9. acts' = [acts EXCEPT ![run] = w]
    <3>1. WithTop(a) = [acts EXCEPT ![run] = t] BY <2>5 DEF WithTop, t
    <3>2. acts' = [WithTop(a) EXCEPT ![run] = Append(WithTop(a)[run], x)]
      BY <1>2, <2>2, <2>4 DEF Destructor
    <3>3. WithTop(a)[run] = t BY <3>1, <2>8
    <3>4. acts' = [[acts EXCEPT ![run] = t] EXCEPT ![run] = w] BY <3>1, <3>2, <3>3
    <3> QED BY <3>4, <2>8
  <2> HIDE DEF w
  <2>10. w \in Activations
    <3>1. Len(w) \in 1 .. MaxDepth BY <1>2, <2>5, <2>6, <2>7, CartAssumption
    <3> QED BY <3>1, <2>7 DEF Activations
  <2>11. acts' \in [Coros -> Activations] /\ acts'[run] = w
         /\ \A c \in Coros \ {run} : acts'[c] = acts[c]
    BY <2>8, <2>9, <2>10
  <2>12. /\ \A i \in 1 .. Len(s) - 1 : w[i] = s[i]
         /\ w[Len(s)] = a /\ w[Len(s) + 1] = x /\ Len(w) = Len(s) + 1
    BY <2>5, <2>6, <2>7
  <2> QED BY <2>2, <2>4, <2>5, <2>11, <2>12 DEF CallsDestructor
<1> QED BY <1>1, <1>2 DEF PadDestroy

(* ---------------------------------------------------------------------- *)
(* Every step keeps the types                                              *)

LEMMA Landed ==
  ASSUME Typed, NEW f \in Addresses, f[2] <= Len(acts[f[1]]), longjmp(f)
  PROVE  /\ f[1] \in Coros /\ f[2] \in 1 .. Len(acts[f[1]])
         /\ [scopes |-> frames[f].jb, pad |-> Selector(frames[f].desc)] \in Activation
         /\ acts' = [acts EXCEPT ![f[1]] = Append(SubSeq(@, 1, f[2] - 1),
                       [scopes |-> frames[f].jb, pad |-> Selector(frames[f].desc)])]
         /\ run' = f[1] /\ mode' = "run"
<1>1. f[1] \in Coros /\ f[2] \in 1 .. MaxDepth BY DEF Addresses
<1>2. Len(acts[f[1]]) \in 1 .. MaxDepth BY <1>1, ActsTypes
<1>3. ~(f[2] > Len(acts[f[1]])) /\ f[2] \in 1 .. Len(acts[f[1]]) BY <1>1, <1>2, CartAssumption
<1>4. frames[f].jb \in Stack /\ frames[f].desc \in Descriptor BY DEF Typed
<1>5. Selector(frames[f].desc) \in Catchable BY <1>4, SelectorType
<1>6. [scopes |-> frames[f].jb, pad |-> Selector(frames[f].desc)] \in Activation
  BY <1>4, <1>5 DEF Activation
<1> QED BY <1>1, <1>3, <1>6 DEF longjmp

(* A longjmp, to whichever coroutine, leaves activations.                  *)
LEMMA LandedTypes ==
  ASSUME Typed, NEW f \in Addresses, longjmp(f)
  PROVE  ActsTyped' /\ mode' \in {"run", "wild"}
<1>0. f[1] \in Coros /\ f[2] \in 1 .. MaxDepth BY DEF Addresses
<1>1. CASE f[2] > Len(acts[f[1]])
  <2>1. mode' = "wild" /\ UNCHANGED <<acts, run>> BY <1>1 DEF longjmp
  <2> QED BY <2>1, TypedParts DEF ActsTyped
<1>2. CASE f[2] <= Len(acts[f[1]])
  <2> DEFINE c == f[1]
             d == f[2]
             a == [scopes |-> frames[f].jb, pad |-> Selector(frames[f].desc)]
  <2>1. /\ c \in Coros /\ d \in 1 .. Len(acts[c]) /\ a \in Activation
        /\ acts' = [acts EXCEPT ![c] = Append(SubSeq(@, 1, d - 1), a)]
        /\ run' = c /\ mode' = "run"
    BY <1>2, Landed
  <2> HIDE DEF c, d, a
  <2>2. PICK s \in Seq(Activation) : s = acts[c] /\ Len(s) \in 1 .. MaxDepth
    BY <2>1, ActsTypes
  <2>3. PICK u \in Seq(Activation) : u = SubSeq(s, 1, d - 1) /\ Len(u) = d - 1
    <3>1. PICK n \in Int : n = d - 1 BY <2>1, <2>2
    <3>2. 1 \in Int /\ \A i \in 1 .. n : s[i] \in Activation BY <3>1, <2>1, <2>2
    <3>3. /\ SubSeq(s, 1, n) \in Seq(Activation)
          /\ Len(SubSeq(s, 1, n)) = IF 1 <= n THEN n - 1 + 1 ELSE 0
      BY <3>2, SubSeqProperties
    <3>4. (IF 1 <= n THEN n - 1 + 1 ELSE 0) = n BY <2>1, <2>2, <3>1
    <3> QED BY <3>1, <3>3, <3>4
  <2>4. Append(u, a) \in Seq(Activation) /\ Len(Append(u, a)) = Len(u) + 1
    BY <2>1, AppendProperties
  <2>5. Len(Append(u, a)) \in 1 .. MaxDepth BY <2>1, <2>2, <2>3, <2>4, CartAssumption
  <2>6. Append(u, a) \in Activations BY <2>4, <2>5 DEF Activations
  <2>7. acts' = [acts EXCEPT ![c] = Append(u, a)] BY <2>1, <2>2, <2>3
  <2> QED BY <2>1, <2>6, <2>7, TypedParts DEF ActsTyped
<1>3. f[2] > Len(acts[f[1]]) \/ f[2] <= Len(acts[f[1]]) BY <1>0, ActsTypes, CartAssumption
<1> QED BY <1>1, <1>2, <1>3

LEMMA BecomesTyped ==
  ASSUME Typed, NEW n, NEW a, Becomes(n, a), UNCHANGED run
  PROVE  ActsTyped'
BY TypedParts DEF Becomes, ActsTyped

LEMMA AliveFacts ==
  ASSUME HeadersTyped, g_eh_exc # NoObject
  PROVE  g_eh_exc \in Objects /\ headers[g_eh_exc].live /\ headers[g_eh_exc].ti = g_eh_ti
BY DEF HeadersTyped, Alive, Exceptional

LEMMA CountTypes ==
  ASSUME HeadersTyped, g_eh_exc # NoObject, NEW n \in Int,
         headers' = [headers EXCEPT ![g_eh_exc].handler_count = n], UNCHANGED gvars
  PROVE  HeadersTyped'
<1>1. g_eh_exc \in Objects /\ headers[g_eh_exc].live /\ headers[g_eh_exc].ti = g_eh_ti
  BY AliveFacts
<1>2. headers' \in [Objects -> [ti : Catchable, handler_count : Int, live : BOOLEAN]]
  BY DEF HeadersTyped
<1>3. headers'[g_eh_exc] = [headers[g_eh_exc] EXCEPT !.handler_count = n]
  BY <1>1 DEF HeadersTyped
<1>4. headers'[g_eh_exc].live /\ headers'[g_eh_exc].ti = g_eh_ti
  BY <1>1, <1>3 DEF HeadersTyped
<1>5. g_eh_exc' = g_eh_exc /\ g_eh_ti' = g_eh_ti BY DEF gvars
<1> QED BY <1>1, <1>2, <1>4, <1>5 DEF HeadersTyped, Alive

LEMMA BeginTypes ==
  ASSUME HeadersTyped, __cxa_begin_catch, UNCHANGED gvars
  PROVE  HeadersTyped'
<1>1. CASE g_eh_exc = NoObject BY <1>1 DEF HeadersTyped, __cxa_begin_catch, gvars, Alive
<1>2. CASE g_eh_exc # NoObject
  <2>1. g_eh_exc \in Objects BY <1>2, AliveFacts
  <2>2. headers[g_eh_exc].handler_count \in Int BY <2>1 DEF HeadersTyped
  <2>3. Counted(headers[g_eh_exc].handler_count) \in Int BY <2>2 DEF Counted
  <2>4. headers' = [headers EXCEPT ![g_eh_exc].handler_count
                      = Counted(headers[g_eh_exc].handler_count)]
    BY <1>2, <2>1 DEF __cxa_begin_catch, HeadersTyped
  <2> QED BY <1>2, <2>3, <2>4, CountTypes
<1> QED BY <1>1, <1>2

LEMMA EndTypes ==
  ASSUME HeadersTyped, __cxa_end_catch
  PROVE  HeadersTyped'
<1>1. CASE g_eh_exc = NoObject BY <1>1 DEF HeadersTyped, __cxa_end_catch, gvars, Alive
<1>2. CASE g_eh_exc # NoObject
  <2> DEFINE n == headers[g_eh_exc].handler_count
  <2>1. g_eh_exc \in Objects /\ n \in Int BY <1>2, AliveFacts DEF HeadersTyped
  <2>2. CASE n = 1
    <3>1. headers' = [headers EXCEPT ![g_eh_exc] = Freed] /\ g_eh_exc' = NoObject /\ g_eh_ti' = NoType
      BY <1>2, <2>2 DEF __cxa_end_catch
    <3>2. Freed \in [ti : Catchable, handler_count : Int, live : BOOLEAN]
      BY DEF Freed, Catchable
    <3>3. headers' \in [Objects -> [ti : Catchable, handler_count : Int, live : BOOLEAN]]
      BY <3>1, <3>2 DEF HeadersTyped
    <3> QED BY <3>1, <3>3 DEF HeadersTyped, Exceptional, Catchable
  <2>3. CASE n # 1
    <3> DEFINE m == IF n < 0 THEN n + 1 ELSE n - 1
    <3>1. m \in Int BY <2>1
    <3>2. headers' = [headers EXCEPT ![g_eh_exc].handler_count = m] /\ UNCHANGED gvars
      BY <1>2, <2>1, <2>3 DEF __cxa_end_catch
    <3> HIDE DEF m
    <3> QED BY <1>2, <3>1, <3>2, CountTypes
  <2> QED BY <2>2, <2>3
<1> QED BY <1>1, <1>2

LEMMA TypedInit == InitEh => Typed
<1> SUFFICES ASSUME InitEh PROVE Typed OBVIOUS
<1>1. ActsTyped
  <2>1. Fresh(<<>>) \in Activation BY EmptyStack
  <2>2. <<Fresh(<<>>)>> \in Seq(Activation) /\ Len(<<Fresh(<<>>)>>) = 1 BY <2>1
  <2>3. <<Fresh(<<>>)>> \in Activations BY <2>2, CartAssumption DEF Activations
  <2> QED BY <2>3, CartAssumption DEF ActsTyped, InitEh, InitCart
<1>2. ChainTyped
  <2>1. <<>> \in Stack /\ <<>> \in Seq(Scope) BY EmptyStack, StackTypes
  <2>2. Desc(<<>>) \in Descriptor BY <2>1, DescType
  <2>3. NoFrame \in [jb : Stack, desc : Descriptor, next : Addresses \cup {NULL}]
    BY <2>1, <2>2 DEF NoFrame
  <2> QED BY <2>3 DEF ChainTyped, InitEh
<1>3. HeadersTyped
  <2>1. Freed \in [ti : Catchable, handler_count : Int, live : BOOLEAN] BY DEF Freed, Catchable
  <2> QED BY <2>1 DEF HeadersTyped, InitEh, Exceptional, Catchable
<1>4. ModeTyped BY DEF ModeTyped, InitEh, Catchable
<1> QED BY <1>1, <1>2, <1>3, <1>4, TypedParts

(* What a step that leaves some of the variables alone keeps of the types. *)
LEMMA HeadersKept == HeadersTyped /\ UNCHANGED <<gvars, headers>> => HeadersTyped'
BY DEF HeadersTyped, gvars, Alive

LEMMA ChainKept == ChainTyped /\ UNCHANGED <<g_eh_top, frames>> => ChainTyped'
BY DEF ChainTyped

LEMMA ActsKept == ActsTyped /\ UNCHANGED <<acts, run>> => ActsTyped'
BY DEF ActsTyped

LEMMA TypedInvoke == Typed /\ Invoke => Typed'
<1> SUFFICES ASSUME Typed, Invoke PROVE Typed' OBVIOUS
<1>1. ActsTyped'
  <2>1. Becomes(Len(acts[run]) + 1, Fresh(<<>>))
    BY EmptyStack, MakesCall DEF Invoke, Call
  <2> QED BY <2>1, BecomesTyped DEF Invoke, Call
<1>2. ChainTyped'
  <2>1. CASE Top.scopes = <<>> BY <2>1, TypedParts, ChainKept DEF Invoke
  <2>2. CASE Top.scopes # <<>>
    <3>1. PICK f : f = <<run, Len(acts[run])>> OBVIOUS
    <3>2. f \in Addresses BY <3>1, TopTypes, ActsTypes DEF Addresses
    <3>3. PICK x : x = [jb |-> Top.scopes, desc |-> Desc(Top.scopes), next |-> NULL] OBVIOUS
    <3>4. Top.scopes \in Stack /\ Desc(Top.scopes) \in Descriptor
      BY TopTypes, StackTypes, DescType
    <3>5. g_eh_top \in Addresses \cup {NULL} BY TypedParts DEF ChainTyped
    <3>6. [x EXCEPT !.next = g_eh_top] \in [jb : Stack, desc : Descriptor, next : Addresses \cup {NULL}]
      BY <3>3, <3>4, <3>5
    <3>7. frames' = [frames EXCEPT ![f] = [x EXCEPT !.next = g_eh_top]] /\ g_eh_top' = f
      BY <2>2, <3>1, <3>3 DEF Invoke, __cvm_eh_push
    <3> QED BY <3>2, <3>6, <3>7, TypedParts DEF ChainTyped
  <2> QED BY <2>1, <2>2
<1>3. HeadersTyped' BY TypedParts, HeadersKept DEF Invoke
<1>4. ModeTyped' BY TypedParts DEF Invoke, ModeTyped
<1> QED BY <1>1, <1>2, <1>3, <1>4, TypedParts

LEMMA TypedReturn == Typed /\ InvokeReturns => Typed'
<1> SUFFICES ASSUME Typed, InvokeReturns PROVE Typed' OBVIOUS
<1>1. ActsTyped'
  <2>1. Becomes(Len(acts[run]) - 1, acts[run][Len(acts[run]) - 1])
    BY MakesReturn DEF InvokeReturns, Return
  <2> QED BY <2>1, BecomesTyped DEF InvokeReturns, Return
<1>2. ChainTyped' BY TypedParts, ChainKept, PopTypes DEF InvokeReturns
<1>3. HeadersTyped' BY TypedParts, HeadersKept DEF InvokeReturns
<1>4. ModeTyped' BY TypedParts DEF InvokeReturns, ModeTyped
<1> QED BY <1>1, <1>2, <1>3, <1>4, TypedParts

(* A scope left in the ordinary way.                                       *)
LEMMA Leaves ==
  ASSUME Typed, Leave
  PROVE  Becomes(Len(acts[run]), Fresh(Outer)) /\ Top.scopes # <<>> /\ Runs
         /\ Inner.kind # "handler"
<1>1. Top.scopes # <<>> /\ Runs /\ Inner.kind # "handler" BY DEF Leave, Within
<1>2. Fresh(Outer) \in Activation BY <1>1, TopTypes, FreshType
<1> QED BY <1>1, <1>2, MakesTop DEF Leave

LEMMA TypedScopes == Typed /\ Scopes => Typed'
<1> SUFFICES ASSUME Typed, Scopes PROVE Typed' OBVIOUS
<1>1. ActsTyped'
  <2>1. CASE Enter
    <3>1. PICK s \in Scope : Open(s) BY <2>1, EnterOpens
    <3>2. Becomes(Len(acts[run]), Fresh(Append(Top.scopes, s))) BY <3>1, OpenTypes
    <3> QED BY <3>1, <3>2, BecomesTyped DEF Open
  <2>2. CASE Leave BY <2>2, Leaves, BecomesTyped DEF Leave
  <2> QED BY <2>1, <2>2 DEF Scopes
<1>2. ChainTyped' BY TypedParts, ChainKept DEF Scopes
<1>3. HeadersTyped' BY TypedParts, HeadersKept DEF Scopes
<1>4. ModeTyped' BY TypedParts DEF Scopes, ModeTyped
<1> QED BY <1>1, <1>2, <1>3, <1>4, TypedParts

LEMMA TypedSwap == ASSUME NEW c \in Coros PROVE Typed /\ SwapTo(c) => Typed'
<1> SUFFICES ASSUME Typed, SwapTo(c) PROVE Typed' OBVIOUS
<1>1. ActsTyped' BY TypedParts DEF SwapTo, Swap, ActsTyped
<1>2. ChainTyped' BY TypedParts, ChainKept DEF SwapTo
<1>3. HeadersTyped' BY TypedParts, HeadersKept DEF SwapTo
<1>4. ModeTyped' BY TypedParts DEF SwapTo, ModeTyped
<1> QED BY <1>1, <1>2, <1>3, <1>4, TypedParts

LEMMA TypedThrow ==
  ASSUME NEW e \in Objects, NEW t \in Types
  PROVE  Typed /\ __cxa_throw(e, t) => Typed'
<1> SUFFICES ASSUME Typed, __cxa_throw(e, t) PROVE Typed' OBVIOUS
<1>1. ActsTyped' BY TypedParts, ActsKept DEF __cxa_throw
<1>2. ChainTyped' BY TypedParts, ChainKept DEF __cxa_throw
<1>3. HeadersTyped'
  <2>1. headers' = [headers EXCEPT ![e] = [ti |-> t, handler_count |-> 0, live |-> TRUE]]
        /\ g_eh_exc' = e /\ g_eh_ti' = t
    BY DEF __cxa_throw
  <2>2. HeadersTyped BY TypedParts
  <2> QED BY <2>1, <2>2 DEF HeadersTyped, Alive, Exceptional, Catchable
<1>4. ModeTyped' BY TypedParts DEF __cxa_throw, ModeTyped
<1> QED BY <1>1, <1>2, <1>3, <1>4, TypedParts

LEMMA TypedRethrow == Typed /\ __cxa_rethrow => Typed'
<1> SUFFICES ASSUME Typed, __cxa_rethrow PROVE Typed' OBVIOUS
<1>1. ActsTyped' BY TypedParts, ActsKept DEF __cxa_rethrow
<1>2. ChainTyped' BY TypedParts, ChainKept DEF __cxa_rethrow
<1>3. HeadersTyped'
  <2>1. CASE g_eh_exc = NoObject BY <2>1, TypedParts, HeadersKept DEF __cxa_rethrow
  <2>2. CASE g_eh_exc # NoObject
    <3> DEFINE n == -(headers[g_eh_exc].handler_count)
    <3>1. g_eh_exc \in Objects /\ n \in Int
      BY <2>2, TypedParts, AliveFacts DEF HeadersTyped
    <3>2. headers' = [headers EXCEPT ![g_eh_exc].handler_count = n] /\ UNCHANGED gvars
      BY <2>2, <3>1 DEF __cxa_rethrow
    <3> HIDE DEF n
    <3> QED BY <2>2, <3>1, <3>2, TypedParts, CountTypes
  <2> QED BY <2>1, <2>2
<1>4. ModeTyped' BY TypedParts DEF __cxa_rethrow, ModeTyped
<1> QED BY <1>1, <1>2, <1>3, <1>4, TypedParts

LEMMA TypedUnwind == Typed /\ eh_unwind => Typed'
<1> SUFFICES ASSUME Typed, eh_unwind PROVE Typed' OBVIOUS
<1>1. PICK f \in Addresses : f = g_eh_top BY DEF Typed, TypeOK, eh_unwind
<1>2. PICK x \in Descriptor : x = frames[f].desc BY <1>1 DEF Typed
<1>3. ActsTyped' /\ ModeTyped'
  <2>1. CASE Catches(x)
    <3>1. longjmp(f) /\ g_eh_sel' = Selector(x) BY <1>1, <1>2, <2>1 DEF eh_unwind
    <3>2. Selector(x) \in Catchable BY SelectorType
    <3> QED BY <1>1, <3>1, <3>2, LandedTypes DEF ModeTyped
  <2>2. CASE ~Catches(x)
    <3>1. UNCHANGED <<acts, run, mode, g_eh_sel>> BY <1>1, <1>2, <2>2 DEF eh_unwind
    <3> QED BY <3>1, TypedParts, ActsKept DEF ModeTyped
  <2> QED BY <2>1, <2>2
<1>4. ChainTyped' BY TypedParts, PopTypes DEF eh_unwind
<1>5. HeadersTyped' BY TypedParts, HeadersKept DEF eh_unwind
<1> QED BY <1>3, <1>4, <1>5, TypedParts

LEMMA TypedHalts == Typed /\ (OutOfMemory \/ __cvm_eh_terminate \/ __cvm_eh_resume) => Typed'
<1> SUFFICES ASSUME Typed, OutOfMemory \/ __cvm_eh_terminate \/ __cvm_eh_resume PROVE Typed' OBVIOUS
<1> USE DEF OutOfMemory, __cvm_eh_terminate, __cvm_eh_resume
<1>1. ActsTyped' BY TypedParts, ActsKept
<1>2. ChainTyped' BY TypedParts, ChainKept
<1>3. HeadersTyped' BY TypedParts, HeadersKept
<1>4. ModeTyped' BY TypedParts DEF ModeTyped
<1> QED BY <1>1, <1>2, <1>3, <1>4, TypedParts

LEMMA TypedLeaveHandler == Typed /\ LeaveHandler => Typed'
<1> SUFFICES ASSUME Typed, LeaveHandler PROVE Typed' OBVIOUS
<1>1. ActsTyped'
  <2>1. Top.scopes # <<>> BY DEF LeaveHandler, Within
  <2> QED BY <2>1, PadLeaves, BecomesTyped DEF LeaveHandler, PadLeave
<1>2. ChainTyped' BY TypedParts, ChainKept DEF LeaveHandler
<1>3. HeadersTyped' BY TypedParts, EndTypes DEF LeaveHandler
<1>4. ModeTyped' BY TypedParts DEF LeaveHandler, ModeTyped
<1> QED BY <1>1, <1>2, <1>3, <1>4, TypedParts

LEMMA TypedDestroy == Typed /\ Destroy => Typed'
<1> SUFFICES ASSUME Typed, Destroy PROVE Typed' OBVIOUS
<1>1. ActsTyped'
  <2>1. UNCHANGED run BY DEF Destroy, PadDestroy, PadLeave
  <2>2. Becomes(Len(acts[run]), [Top EXCEPT !.scopes = Outer]) \/ CallsDestructor
    BY Destroys DEF Destroy
  <2>3. CASE CallsDestructor BY <2>1, <2>3, TypedParts DEF CallsDestructor, ActsTyped
  <2> QED BY <2>1, <2>2, <2>3, BecomesTyped
<1>2. ChainTyped' BY TypedParts, ChainKept DEF Destroy
<1>3. HeadersTyped' BY TypedParts, HeadersKept DEF Destroy
<1>4. ModeTyped' BY TypedParts DEF Destroy, ModeTyped
<1> QED BY <1>1, <1>2, <1>3, <1>4, TypedParts

(* The scope a landing pad looks at, and what it does there.               *)
LEMMA Dispatches ==
  ASSUME Typed, Dispatch
  PROVE  /\ Top.scopes # <<>> /\ Inner \in Scope /\ Inner.kind \in {"try", "noexcept"}
         /\ Inner.clauses \in Seq(Clauses) /\ Selected(Inner) \subseteq DOMAIN Inner.clauses
         /\ Selected(Inner) = {} => PadLeave /\ UNCHANGED <<mode, headers>>
         /\ Selected(Inner) # {} =>
              /\ Min(Selected(Inner)) \in Selected(Inner)
              /\ \A i \in Selected(Inner) : Min(Selected(Inner)) <= i
              /\ Inner.clauses[Min(Selected(Inner))] \in Clauses
              /\ PadCatch(g_eh_exc, Inner.clauses[Min(Selected(Inner))], 0)
              /\ __cxa_begin_catch
<1>1. Top.scopes # <<>> /\ Inner.kind \in {"try", "noexcept"} BY DEF Dispatch, Within
<1>2. Inner \in Scope BY <1>1, TopTypes
<1>3. Inner.clauses \in Seq(Clauses) BY <1>2, ScopeClauses
<1>4. Selected(Inner) \subseteq DOMAIN Inner.clauses BY DEF Selected
<1>5. DOMAIN Inner.clauses = 1 .. Len(Inner.clauses) /\ Len(Inner.clauses) \in Nat
  BY <1>3, LenProperties
<1>6. Selected(Inner) \subseteq Nat BY <1>4, <1>5
<1>7. CASE Selected(Inner) = {} BY <1>1, <1>2, <1>3, <1>4, <1>7 DEF Dispatch
<1>8. CASE Selected(Inner) # {}
  <2>1. /\ Min(Selected(Inner)) \in Selected(Inner)
        /\ \A i \in Selected(Inner) : Min(Selected(Inner)) <= i
    BY <1>6, <1>8, MinIn
  <2>2. Inner.clauses[Min(Selected(Inner))] \in Clauses BY <1>3, <1>4, <1>5, <2>1
  <2> QED BY <1>1, <1>2, <1>3, <1>4, <1>8, <2>1, <2>2 DEF Dispatch
<1> QED BY <1>7, <1>8

LEMMA TypedDispatch == Typed /\ Dispatch => Typed'
<1> SUFFICES ASSUME Typed, Dispatch PROVE Typed' OBVIOUS
<1>1. UNCHANGED gvars BY DEF Dispatch
<1>2. ActsTyped' /\ HeadersTyped'
  <2>1. CASE Selected(Inner) = {}
    <3>1. PadLeave /\ UNCHANGED <<mode, headers>> /\ Top.scopes # <<>> BY <2>1, Dispatches
    <3>2. ActsTyped' BY <3>1, PadLeaves, BecomesTyped DEF PadLeave
    <3>3. HeadersTyped' BY <3>1, <1>1, TypedParts, HeadersKept
    <3> QED BY <3>2, <3>3
  <2>2. CASE Selected(Inner) # {}
    <3>1. PICK k \in Clauses : PadCatch(g_eh_exc, k, 0) /\ __cxa_begin_catch /\ Top.scopes # <<>>
      BY <2>2, Dispatches
    <3>2. PICK e \in Exceptional : e = g_eh_exc BY TypedParts DEF HeadersTyped
    <3>3. Becomes(Len(acts[run]), Fresh(Append(Outer, Handler(e, k, 0))))
      BY <3>1, <3>2, PadCatches
    <3>4. ActsTyped' BY <3>1, <3>3, BecomesTyped DEF PadCatch
    <3>5. HeadersTyped' BY <1>1, <3>1, TypedParts, BeginTypes
    <3> QED BY <3>4, <3>5
  <2> QED BY <2>1, <2>2
<1>3. ChainTyped' BY TypedParts, ChainKept DEF Dispatch
<1>4. ModeTyped' BY TypedParts DEF Dispatch, ModeTyped
<1> QED BY <1>2, <1>3, <1>4, TypedParts

LEMMA TypedStep == Typed /\ [NextEh]_vars => Typed'
<1>1. ASSUME Typed, UNCHANGED vars PROVE Typed'
  BY <1>1, TypedParts, ActsKept, ChainKept, HeadersKept DEF vars, gvars, ModeTyped
<1> QED
  BY <1>1, TypedInvoke, TypedReturn, TypedScopes, TypedSwap, TypedThrow, TypedRethrow,
     TypedUnwind, TypedHalts, TypedLeaveHandler, TypedDestroy, TypedDispatch DEF NextEh, Done

(* The types of the runtime: the globals name an exception only while its  *)
(* header lives, and its type with it, whatever the program throws, over   *)
(* whichever handlers and coroutines.                                      *)
THEOREM TypeCorrect == Spec => []TypeOK
<1>1. Typed => TypeOK BY DEF Typed
<1> QED BY <1>1, TypedInit, TypedStep, PTL DEF Spec

(* ---------------------------------------------------------------------- *)
(* The chain of frames                                                     *)

LEMMA Depths ==
  ASSUME Typed, NEW c \in Coros
  PROVE  /\ Pending(c) \subseteq 1 .. Len(acts[c]) - 1 /\ Pending(c) \subseteq 1 .. MaxDepth
         /\ \A d \in Pending(c) : d < MaxDepth + 1 /\ d \in Int
         /\ Behind(c, MaxDepth + 1) = Pending(c)
<1>1. Len(acts[c]) \in 1 .. MaxDepth BY ActsTypes
<1>2. Pending(c) \subseteq 1 .. Len(acts[c]) - 1 BY DEF Pending
<1>3. \A d \in 1 .. Len(acts[c]) - 1 : d \in 1 .. MaxDepth /\ d < MaxDepth + 1
  BY <1>1, CartAssumption
<1> QED BY <1>2, <1>3 DEF Behind

(* The frame behind depth d is that of the greatest depth behind it.       *)
LEMMA BelowIs ==
  ASSUME Typed, NEW c \in Coros, NEW d \in Int
  PROVE  \/ Behind(c, d) = {} /\ FrameBelow(c, d) = NULL
         \/ \E k \in Behind(c, d) :
              /\ FrameBelow(c, d) = <<c, k>> /\ <<c, k>> \in Addresses
              /\ \A y \in Behind(c, d) : y <= k
              /\ Behind(c, k) = Behind(c, d) \ {k}
<1>1. CASE Behind(c, d) = {} BY <1>1 DEF FrameBelow
<1>2. CASE Behind(c, d) # {}
  <2> DEFINE k == Max(Behind(c, d))
  <2>1. Behind(c, d) \subseteq Pending(c) /\ Pending(c) \subseteq 1 .. MaxDepth BY Depths DEF Behind
  <2>2. MaxDepth \in Nat BY CartAssumption
  <2>3. k \in Behind(c, d) /\ \A y \in Behind(c, d) : y <= k BY <1>2, <2>1, <2>2, MaxIn
  <2>4. FrameBelow(c, d) = <<c, k>> BY <1>2 DEF FrameBelow
  <2> HIDE DEF k
  <2>5. <<c, k>> \in Addresses BY <2>1, <2>3 DEF Addresses
  <2>6. k < d /\ k \in Pending(c) BY <2>3 DEF Behind
  <2>7. ASSUME NEW y \in Pending(c) PROVE y < k <=> y < d /\ y # k
    <3>1. y \in Int /\ k \in Int BY <2>1, <2>6
    <3>2. y < d => y <= k BY <2>3 DEF Behind
    <3> QED BY <3>1, <3>2, <2>6
  <2>8. Behind(c, k) = Behind(c, d) \ {k} BY <2>7 DEF Behind
  <2> QED BY <2>3, <2>4, <2>5, <2>8
<1> QED BY <1>1, <1>2

(* The calls that have not returned after a step.                          *)
LEMMA PendingAfter ==
  ASSUME Typed, NEW n \in 1 .. Len(acts[run]) + 1, NEW a, Becomes(n, a), UNCHANGED run
  PROVE  /\ \A c \in Coros \ {run} : Quiet(c) => Quiet(c)'
         /\ Pending(run)' \subseteq 1 .. MaxDepth
         /\ \A d \in Pending(run)' : acts'[run][d] = acts[run][d]
         /\ n <= Len(acts[run]) => Pending(run)' = {d \in Pending(run) : d < n}
         /\ n = Len(acts[run]) + 1 =>
              Pending(run)' = Pending(run) \cup
                {d \in {Len(acts[run])} : Top.pad = Running /\ Top.scopes # <<>>}
<1>1. run \in Coros /\ Len(acts[run]) \in 1 .. MaxDepth /\ Top = acts[run][Len(acts[run])]
  BY TopTypes, ActsTypes
<1>2. Len(acts'[run]) = n /\ \A d \in 1 .. n - 1 : acts'[run][d] = acts[run][d]
  BY DEF Becomes
<1>3. Pending(run)' = {d \in 1 .. n - 1 : acts[run][d].pad = Running /\ acts[run][d].scopes # <<>>}
  BY <1>2 DEF Pending
<1>4. n - 1 <= MaxDepth BY <1>1, CartAssumption
<1>5. Pending(run)' \subseteq 1 .. MaxDepth BY <1>1, <1>3, <1>4, CartAssumption
<1>6. \A d \in Pending(run)' : acts'[run][d] = acts[run][d] BY <1>2, <1>3
<1>7. ASSUME n <= Len(acts[run]) PROVE Pending(run)' = {d \in Pending(run) : d < n}
  <2>1. \A d : d \in 1 .. n - 1 <=> d \in 1 .. Len(acts[run]) - 1 /\ d < n BY <1>1, <1>7
  <2> QED BY <1>3, <2>1 DEF Pending
<1>8. ASSUME n = Len(acts[run]) + 1
      PROVE  Pending(run)' = Pending(run) \cup
               {d \in {Len(acts[run])} : Top.pad = Running /\ Top.scopes # <<>>}
  <2>1. \A d : d \in 1 .. n - 1 <=> d \in 1 .. Len(acts[run]) - 1 \/ d = Len(acts[run])
    BY <1>1, <1>8
  <2> QED BY <1>1, <1>3, <2>1 DEF Pending
<1>9. ASSUME NEW c \in Coros \ {run}, Quiet(c) PROVE Quiet(c)'
  <2>1. acts'[c] = acts[c] BY DEF Becomes
  <2> QED BY <2>1, <1>9 DEF Quiet
<1> QED BY <1>5, <1>6, <1>7, <1>8, <1>9

(* A step that changes neither the chain nor the pending calls.            *)
LEMMA ChainStays ==
  ASSUME NEW j, Linked(j), UNCHANGED <<run, g_eh_top, frames>>, Pending(run)' = Pending(run),
         \A d \in Pending(run) : acts'[run][d] = acts[run][d]
  PROVE  Linked(j)'
<1>1. \A d : Behind(run, d)' = Behind(run, d) BY DEF Behind
<1>2. \A d : FrameBelow(run, d)' = FrameBelow(run, d) BY <1>1 DEF FrameBelow
<1>3. Behind(run, j) \subseteq Pending(run) BY DEF Behind
<1> QED BY <1>1, <1>2, <1>3 DEF Linked

(* A step of the running coroutine from run to run, outside of the chain.  *)
LEMMA ChainedStep ==
  ASSUME Typed, Chained, mode = "run", UNCHANGED <<run, g_eh_top, frames>>,
         mode' \in {"run", "halt"},
         Pending(run)' = Pending(run), \A d \in Pending(run) : acts'[run][d] = acts[run][d],
         \A c \in Coros \ {run} : Quiet(c) => Quiet(c)'
  PROVE  Chained'
<1>1. Linked(MaxDepth + 1) BY DEF Chained
<1>2. Linked(MaxDepth + 1)' BY <1>1, ChainStays
<1> QED BY <1>2 DEF Chained

(* One that changes the running activation only.                           *)
LEMMA ChainedTop ==
  ASSUME Typed, Chained, mode = "run", UNCHANGED <<run, g_eh_top, frames>>,
         mode' \in {"run", "halt"}, NEW a, Becomes(Len(acts[run]), a)
  PROVE  Chained'
<1>1. Len(acts[run]) \in 1 .. MaxDepth /\ run \in Coros BY TopTypes, ActsTypes
<1>2. PICK n \in 1 .. Len(acts[run]) + 1 : n = Len(acts[run]) BY <1>1
<1>3. /\ \A c \in Coros \ {run} : Quiet(c) => Quiet(c)'
      /\ \A d \in Pending(run)' : acts'[run][d] = acts[run][d]
      /\ Pending(run)' = {d \in Pending(run) : d < n}
  BY <1>1, <1>2, PendingAfter
<1>4. \A d \in Pending(run) : d < n BY <1>1, <1>2, Depths
<1>5. Pending(run)' = Pending(run) BY <1>3, <1>4
<1> QED BY <1>3, <1>5, ChainedStep

LEMMA ChainedInvoke == Typed /\ Chained /\ Invoke => Chained'
<1> SUFFICES ASSUME Typed, Chained, Invoke PROVE Chained' OBVIOUS
<1>0. PICK L : L = Len(acts[run]) OBVIOUS
<1>1. run \in Coros /\ L \in 1 .. MaxDepth /\ L < MaxDepth /\ Top = acts[run][L]
  BY <1>0, TopTypes, ActsTypes DEF Invoke, Call
<1>2. UNCHANGED <<run, mode>> /\ mode = "run" /\ Runs BY DEF Invoke, Call
<1>3. Becomes(L + 1, Fresh(<<>>)) BY <1>0, EmptyStack, MakesCall DEF Invoke, Call
<1>4. /\ \A c \in Coros \ {run} : Quiet(c) => Quiet(c)'
      /\ Pending(run)' \subseteq 1 .. MaxDepth
      /\ \A d \in Pending(run)' : acts'[run][d] = acts[run][d]
      /\ Pending(run)' = Pending(run) \cup {d \in {L} : Top.scopes # <<>>}
  <2>1. PICK n \in 1 .. L + 1 : n = L + 1 BY <1>1
  <2> QED BY <1>0, <1>2, <1>3, <2>1, PendingAfter DEF Runs
<1>5. Linked(MaxDepth + 1) BY <1>2 DEF Chained
<1>6. CASE Top.scopes = <<>>
  <2>1. Pending(run)' = Pending(run) BY <1>4, <1>6
  <2>2. UNCHANGED <<g_eh_top, frames>> BY <1>6 DEF Invoke
  <2> QED BY <1>2, <1>4, <2>1, <2>2, ChainedStep
<1>7. CASE Top.scopes # <<>>
  <2> DEFINE f == <<run, L>>
             x == [jb |-> Top.scopes, desc |-> Desc(Top.scopes), next |-> g_eh_top]
  <2>1. f \in Addresses BY <1>1 DEF Addresses
  <2>2. frames' = [frames EXCEPT ![f] = x] /\ g_eh_top' = f
    BY <1>0, <1>7 DEF Invoke, __cvm_eh_push
  <2>3. frames'[f] = x /\ \A g \in Addresses \ {f} : frames'[g] = frames[g]
    BY <2>1, <2>2 DEF Typed
  <2> HIDE DEF f, x
  <2>4. Pending(run)' = Pending(run) \cup {L} BY <1>4, <1>7
  <2>5. \A d \in Pending(run) : d < L /\ d \in 1 .. MaxDepth /\ d < MaxDepth + 1
    BY <1>0, <1>1, Depths
  <2>6. L < MaxDepth + 1 /\ ~(L < L) BY <1>1, CartAssumption
  <2>7. Behind(run, L) = Pending(run) /\ Behind(run, L)' = Pending(run)
    BY <1>2, <2>4, <2>5, <2>6 DEF Behind
  <2>8. Behind(run, MaxDepth + 1) = Pending(run) /\ Behind(run, MaxDepth + 1)' = Pending(run) \cup {L}
    BY <1>2, <2>4, <2>5, <2>6 DEF Behind
  <2>9. ASSUME NEW d \in Pending(run) PROVE Behind(run, d)' = Behind(run, d)
    <3>1. d < L /\ d \in Int BY <2>5
    <3>2. ~(L < d) BY <3>1, <1>1
    <3> QED BY <1>2, <2>4, <3>2 DEF Behind
  <2>10. Linked(MaxDepth + 1)'
    <3>1. FrameBelow(run, MaxDepth + 1)' = f
      <4>1. Max(Pending(run) \cup {L}) = L
        <5>1. PICK T : T = Pending(run) \cup {L} OBVIOUS
        <5>2. T \subseteq 1 .. MaxDepth /\ T # {} /\ MaxDepth \in Nat
          BY <5>1, <1>1, <2>5, CartAssumption
        <5>3. Max(T) \in T /\ \A y \in T : y <= Max(T) BY <5>2, MaxIn
        <5>4. L <= Max(T) BY <5>1, <5>3
        <5>5. Max(T) \in Int
          <6>1. \A y \in T : y \in Int BY <5>2
          <6> QED BY <5>3, <6>1
        <5> QED BY <5>1, <5>3, <5>4, <5>5, <1>1, <2>5
      <4> QED BY <1>2, <2>8, <4>1 DEF FrameBelow, f
    <3>2. x.next = FrameBelow(run, L)'
      <4>1. g_eh_top = FrameBelow(run, MaxDepth + 1) BY <1>5 DEF Linked
      <4>2. FrameBelow(run, L)' = FrameBelow(run, MaxDepth + 1)
        BY <1>2, <2>7, <2>8 DEF FrameBelow
      <4> QED BY <4>1, <4>2 DEF x
    <3>3. ASSUME NEW d \in Pending(run)
          PROVE  frames'[<<run, d>>] = [jb |-> acts'[run][d].scopes, desc |-> Desc(acts'[run][d].scopes),
                                        next |-> FrameBelow(run, d)']
      <4>1. frames[<<run, d>>] = [jb |-> acts[run][d].scopes, desc |-> Desc(acts[run][d].scopes),
                                  next |-> FrameBelow(run, d)]
        BY <1>5, <2>8 DEF Linked
      <4>2. <<run, d>> \in Addresses \ {f} BY <1>1, <2>5 DEF Addresses, f
      <4>3. FrameBelow(run, d)' = FrameBelow(run, d) BY <1>2, <2>9 DEF FrameBelow
      <4>4. acts'[run][d] = acts[run][d] BY <1>4, <2>4
      <4> QED BY <2>3, <4>1, <4>2, <4>3, <4>4
    <3>4. frames'[<<run, L>>] = [jb |-> acts'[run][L].scopes, desc |-> Desc(acts'[run][L].scopes),
                                 next |-> FrameBelow(run, L)']
      <4>1. acts'[run][L] = Top BY <1>1, <1>4, <2>4
      <4> QED BY <2>3, <3>2, <4>1 DEF f, x
    <3> QED BY <1>2, <2>2, <2>8, <3>1, <3>3, <3>4 DEF Linked
  <2> QED BY <1>2, <1>4, <2>10 DEF Chained
<1> QED BY <1>6, <1>7

LEMMA ChainedReturn == Typed /\ Chained /\ InvokeReturns => Chained'
<1> SUFFICES ASSUME Typed, Chained, InvokeReturns PROVE Chained' OBVIOUS
<1>0. PICK K : K = Len(acts[run]) - 1 OBVIOUS
<1>1. run \in Coros /\ K \in 1 .. MaxDepth /\ K + 1 = Len(acts[run]) /\ Len(acts[run]) \in 1 .. MaxDepth
  <2>1. run \in Coros /\ Len(acts[run]) \in 1 .. MaxDepth /\ Len(acts[run]) > 1
    BY TopTypes, ActsTypes DEF InvokeReturns, Return
  <2> QED BY <1>0, <2>1, CartAssumption
<1>2. UNCHANGED <<run, mode>> /\ mode = "run" BY DEF InvokeReturns, Return
<1>3. Becomes(K, acts[run][K]) BY <1>0, MakesReturn DEF InvokeReturns, Return
<1>4. Last(Front(acts[run])) = acts[run][K]
  <2>1. PICK s \in Seq(Activation) : s = acts[run] /\ s # <<>> BY <1>1, ActsTypes
  <2>2. Len(Front(s)) = Len(s) - 1 /\ \A i \in 1 .. Len(s) - 1 : Front(s)[i] = s[i]
    BY <2>1, FrontLast
  <2> QED BY <1>0, <1>1, <2>1, <2>2 DEF Last
<1>5. /\ \A c \in Coros \ {run} : Quiet(c) => Quiet(c)'
      /\ \A d \in Pending(run)' : acts'[run][d] = acts[run][d]
      /\ Pending(run)' = {d \in Pending(run) : d < K}
  <2>1. PICK n \in 1 .. Len(acts[run]) + 1 : n = K /\ n <= Len(acts[run]) BY <1>1
  <2> QED BY <1>2, <1>3, <2>1, PendingAfter
<1>6. K \in Pending(run) <=> acts[run][K].pad = Running /\ acts[run][K].scopes # <<>>
  <2>1. K \in 1 .. Len(acts[run]) - 1 BY <1>1
  <2> QED BY <2>1 DEF Pending
<1>7. \A d \in Pending(run) : d \in 1 .. K
  <2>1. 1 .. Len(acts[run]) - 1 = 1 .. K BY <1>1
  <2> QED BY <1>1, <2>1, Depths
<1>8. Linked(MaxDepth + 1) BY <1>2 DEF Chained
<1>9. CASE K \notin Pending(run)
  <2>1. Pending(run)' = Pending(run)
    <3>1. \A d \in Pending(run) : d # K /\ d \in 1 .. K BY <1>7, <1>9
    <3>2. \A d \in Pending(run) : d < K BY <3>1, <1>1
    <3> QED BY <1>5, <3>2
  <2>2. UNCHANGED <<g_eh_top, frames>> BY <1>4, <1>6, <1>9 DEF InvokeReturns
  <2> QED BY <1>2, <1>5, <2>1, <2>2, ChainedStep
<1>10. CASE K \in Pending(run)
  <2>1. __cvm_eh_pop BY <1>4, <1>6, <1>10 DEF InvokeReturns
  <2>2. Behind(run, MaxDepth + 1) = Pending(run) BY <1>1, Depths
  <2>3. PICK k \in Pending(run) : FrameBelow(run, MaxDepth + 1) = <<run, k>>
                                  /\ \A y \in Pending(run) : y <= k
    <3>1. PICK J \in Int : J = MaxDepth + 1 BY CartAssumption
    <3>2. \/ Behind(run, J) = {}
          \/ \E y \in Behind(run, J) :
               FrameBelow(run, J) = <<run, y>> /\ \A z \in Behind(run, J) : z <= y
      BY <1>1, BelowIs
    <3> QED BY <1>10, <2>2, <3>1, <3>2
  <2>4. k = K
    <3>1. k \in 1 .. K /\ K <= k BY <1>7, <1>10, <2>3
    <3> QED BY <3>1, <1>1
  <2> DEFINE f == <<run, K>>
  <2>5. g_eh_top = f /\ f \in Addresses /\ f # NULL
    BY <1>1, <1>8, <2>3, <2>4 DEF Linked, Addresses, NULL
  <2>6. g_eh_top' = frames[f].next /\ frames' = [frames EXCEPT ![f] = NoFrame]
    BY <2>1, <2>5 DEF __cvm_eh_pop
  <2>7. \A g \in Addresses \ {f} : frames'[g] = frames[g] BY <2>5, <2>6 DEF Typed
  <2>8. frames[f].next = FrameBelow(run, K)
    <3>1. frames[<<run, K>>] = [jb |-> acts[run][K].scopes, desc |-> Desc(acts[run][K].scopes),
                                next |-> FrameBelow(run, K)]
      BY <1>8, <1>10, <2>2 DEF Linked
    <3>2. f = <<run, K>> OBVIOUS
    <3> HIDE DEF f
    <3> QED BY <3>1, <3>2
  <2>9. \A d \in Int : Behind(run, d)' = {y \in Behind(run, d) : y < K}
    BY <1>2, <1>5 DEF Behind
  <2>10. Behind(run, MaxDepth + 1)' = Behind(run, K)
    BY <2>2, <1>2, <1>5, <1>7, <1>1, Depths, CartAssumption DEF Behind
  <2>11. Linked(MaxDepth + 1)'
    <3>1. g_eh_top' = FrameBelow(run, MaxDepth + 1)'
      BY <1>2, <2>6, <2>8, <2>10 DEF FrameBelow
    <3>2. ASSUME NEW d \in Behind(run, K)
          PROVE  frames'[<<run, d>>] = [jb |-> acts'[run][d].scopes, desc |-> Desc(acts'[run][d].scopes),
                                        next |-> FrameBelow(run, d)']
      <4>1. d \in Pending(run) /\ d < K /\ d \in 1 .. K BY <1>7 DEF Behind
      <4>2. frames[<<run, d>>] = [jb |-> acts[run][d].scopes, desc |-> Desc(acts[run][d].scopes),
                                  next |-> FrameBelow(run, d)]
        BY <1>8, <2>2, <4>1 DEF Linked
      <4>3. <<run, d>> \in Addresses \ {f}
        <5>1. d \in 1 .. MaxDepth BY <1>1, <4>1, Depths
        <5> QED BY <5>1, <4>1, <1>1 DEF Addresses
      <4>4. Behind(run, d)' = Behind(run, d)
        <5>1. \A y \in Pending(run) : y < d => y < K BY <4>1, <1>1, <1>7
        <5> QED BY <1>2, <1>5, <5>1 DEF Behind
      <4>5. FrameBelow(run, d)' = FrameBelow(run, d) BY <1>2, <4>4 DEF FrameBelow
      <4>6. acts'[run][d] = acts[run][d] BY <1>5, <4>1
      <4> HIDE DEF f
      <4> QED BY <2>7, <4>2, <4>3, <4>5, <4>6
    <3> QED BY <1>2, <2>10, <3>1, <3>2 DEF Linked
  <2> QED BY <1>2, <1>5, <2>11 DEF Chained
<1> QED BY <1>9, <1>10

LEMMA ChainedScopes == Typed /\ Chained /\ Scopes => Chained'
<1> SUFFICES ASSUME Typed, Chained, Scopes PROVE Chained' OBVIOUS
<1>1. mode = "run" /\ UNCHANGED <<mode, g_eh_top, frames>> BY DEF Scopes
<1>2. CASE Enter
  <2>1. PICK s \in Scope : Open(s) BY <1>2, EnterOpens
  <2>2. Becomes(Len(acts[run]), Fresh(Append(Top.scopes, s))) /\ UNCHANGED run
    BY <2>1, OpenTypes DEF Open
  <2> QED BY <1>1, <2>2, ChainedTop
<1>3. CASE Leave
  <2>1. Becomes(Len(acts[run]), Fresh(Outer)) /\ UNCHANGED run BY <1>3, Leaves DEF Leave
  <2> QED BY <1>1, <2>1, ChainedTop
<1> QED BY <1>2, <1>3 DEF Scopes

LEMMA QuietPending == ASSUME Typed, NEW c \in Coros, Quiet(c) PROVE Pending(c) = {}
<1>1. \A d \in 1 .. Len(acts[c]) - 1 : d \in DOMAIN acts[c] BY ActsTypes
<1> QED BY <1>1 DEF Quiet, Pending, Fresh

LEMMA ChainedSwap ==
  ASSUME ~SwapsInScopes, NEW c \in Coros
  PROVE  Typed /\ Chained /\ SwapTo(c) => Chained'
<1> SUFFICES ASSUME Typed, Chained, SwapTo(c) PROVE Chained' OBVIOUS
<1>1. Quiet(run) /\ c # run /\ run' = c /\ UNCHANGED <<acts, mode, g_eh_top, frames>> /\ mode = "run"
  BY DEF SwapTo, Swap
<1>2. Quiet(c) BY <1>1 DEF Chained
<1>3. \A x \in Coros : Quiet(x) BY <1>1 DEF Chained
<1>4. \A x \in Coros : Quiet(x)' BY <1>1, <1>3 DEF Quiet
<1>5. run \in Coros BY TopTypes
<1>6. Pending(run) = {} /\ Pending(c) = {} BY <1>1, <1>2, <1>5, QuietPending
<1>7. g_eh_top = NULL
  <2>1. g_eh_top = FrameBelow(run, MaxDepth + 1) BY <1>1 DEF Chained, Linked
  <2> QED BY <2>1, <1>6 DEF FrameBelow, Behind
<1>8. Pending(run)' = {}
  <2>1. Pending(run)' = Pending(c) BY <1>1 DEF Pending
  <2> QED BY <2>1, <1>6
<1>9. Linked(MaxDepth + 1)' BY <1>1, <1>7, <1>8 DEF Linked, FrameBelow, Behind
<1> QED BY <1>1, <1>4, <1>9 DEF Chained

LEMMA ChainedThrows ==
  Typed /\ Chained /\ ((\E e \in Objects, t \in Types : __cxa_throw(e, t))
                         \/ __cxa_rethrow \/ OutOfMemory \/ __cvm_eh_resume)
    => Chained'
<1> SUFFICES ASSUME Typed, Chained,
                    (\E e \in Objects, t \in Types : __cxa_throw(e, t))
                      \/ __cxa_rethrow \/ OutOfMemory \/ __cvm_eh_resume
             PROVE  Chained'
  OBVIOUS
<1>1. mode = "run" /\ UNCHANGED <<acts, run, g_eh_top, frames>> /\ mode' \in {"unwind", "halt"}
  BY DEF __cxa_throw, __cxa_rethrow, OutOfMemory, __cvm_eh_resume
<1>2. PICK j \in 1 .. MaxDepth + 1 : j = MaxDepth + 1 BY CartAssumption
<1>3. Linked(j) BY <1>1, <1>2 DEF Chained
<1>4. Pending(run)' = Pending(run) BY <1>1 DEF Pending
<1>5. Linked(j)' BY <1>1, <1>3, <1>4, ChainStays
<1>6. \A d \in Pending(run)' : ~(d >= j)
  <2>1. \A d \in Pending(run) : d < j /\ d \in Int BY <1>2, TopTypes, Depths
  <2>2. j \in Int OBVIOUS
  <2> QED BY <1>4, <2>1, <2>2
<1>7. Passed(j)' BY <1>5, <1>6 DEF Passed
<1>8. \A c \in Coros \ {run} : Quiet(c)' BY <1>1 DEF Chained, Quiet
<1> QED BY <1>1, <1>7, <1>8 DEF Chained

(* One turn of the walk: the frame at the head of the chain is that of the *)
(* innermost call the walk has not passed.                                 *)
LEMMA Turn ==
  ASSUME Typed, Chained, eh_unwind
  PROVE  \E k \in Pending(run) :
           /\ g_eh_top = <<run, k>> /\ <<run, k>> \in Addresses
           /\ k \in 1 .. Len(acts[run]) - 1
           /\ frames[<<run, k>>] = [jb |-> acts[run][k].scopes, desc |-> Desc(acts[run][k].scopes),
                                    next |-> FrameBelow(run, k)]
           /\ g_eh_top' = FrameBelow(run, k)
           /\ frames' = [frames EXCEPT ![<<run, k>>] = NoFrame]
           /\ \A d \in Pending(run) : d > k => ~Catches(Desc(acts[run][d].scopes))
           /\ \A d \in Behind(run, k) :
                frames[<<run, d>>] = [jb |-> acts[run][d].scopes, desc |-> Desc(acts[run][d].scopes),
                                      next |-> FrameBelow(run, d)]
<1>1. mode = "unwind" /\ g_eh_top # NULL /\ __cvm_eh_pop BY DEF eh_unwind
<1>2. PICK j \in 1 .. MaxDepth + 1 : Passed(j) BY <1>1 DEF Chained
<1>3. run \in Coros /\ j \in Int BY TopTypes
<1>4. g_eh_top = FrameBelow(run, j) BY <1>2 DEF Passed, Linked
<1>5. PICK k \in Behind(run, j) : /\ FrameBelow(run, j) = <<run, k>> /\ <<run, k>> \in Addresses
                                  /\ \A y \in Behind(run, j) : y <= k
                                  /\ Behind(run, k) = Behind(run, j) \ {k}
  BY <1>1, <1>3, <1>4, BelowIs
<1>6. k \in Pending(run) /\ k \in 1 .. Len(acts[run]) - 1 BY <1>3, Depths DEF Behind
<1>7. \A d \in Behind(run, j) :
        frames[<<run, d>>] = [jb |-> acts[run][d].scopes, desc |-> Desc(acts[run][d].scopes),
                              next |-> FrameBelow(run, d)]
  BY <1>2 DEF Passed, Linked
<1>8. ASSUME NEW d \in Pending(run), d > k PROVE ~Catches(Desc(acts[run][d].scopes))
  <2>1. d \in Int /\ k \in Int BY <1>3, <1>6, Depths
  <2>2. d \notin Behind(run, j) BY <1>5, <1>8, <2>1
  <2>3. d >= j BY <1>3, <2>1, <2>2 DEF Behind
  <2> QED BY <1>2, <2>3 DEF Passed
<1>9. /\ frames[<<run, k>>] = [jb |-> acts[run][k].scopes, desc |-> Desc(acts[run][k].scopes),
                               next |-> FrameBelow(run, k)]
      /\ \A d \in Behind(run, k) :
           frames[<<run, d>>] = [jb |-> acts[run][d].scopes, desc |-> Desc(acts[run][d].scopes),
                                 next |-> FrameBelow(run, d)]
  BY <1>5, <1>7
<1>10. g_eh_top' = FrameBelow(run, k) /\ frames' = [frames EXCEPT ![<<run, k>>] = NoFrame]
  <2>1. g_eh_top' = frames[<<run, k>>].next /\ frames' = [frames EXCEPT ![<<run, k>>] = NoFrame]
    BY <1>1, <1>4, <1>5 DEF __cvm_eh_pop
  <2>2. frames[<<run, k>>].next = FrameBelow(run, k) BY <1>9
  <2> QED BY <2>1, <2>2
<1> QED BY <1>4, <1>5, <1>6, <1>8, <1>9, <1>10

(* Afterwards the chain is that of the calls below.                        *)
LEMMA TurnLinks ==
  ASSUME Typed, NEW k \in Pending(run), <<run, k>> \in Addresses, UNCHANGED run,
         g_eh_top' = FrameBelow(run, k), frames' = [frames EXCEPT ![<<run, k>>] = NoFrame],
         \A d \in Behind(run, k) :
            frames[<<run, d>>] = [jb |-> acts[run][d].scopes, desc |-> Desc(acts[run][d].scopes),
                                  next |-> FrameBelow(run, d)],
         NEW m, Behind(run, m)' = Behind(run, k),
         \A d \in Behind(run, k) : Behind(run, d)' = Behind(run, d) /\ acts'[run][d] = acts[run][d]
  PROVE  Linked(m)'
<1>1. g_eh_top' = FrameBelow(run, m)' BY DEF FrameBelow
<1>2. ASSUME NEW d \in Behind(run, k)
      PROVE  frames'[<<run, d>>] = [jb |-> acts'[run][d].scopes, desc |-> Desc(acts'[run][d].scopes),
                                    next |-> FrameBelow(run, d)']
  <2>1. d # k /\ <<run, d>> \in Addresses /\ <<run, d>> # <<run, k>>
    <3>1. run \in Coros /\ d \in Pending(run) /\ d < k BY TopTypes DEF Behind
    <3>2. d \in 1 .. MaxDepth /\ d \in Int /\ k \in Int BY <3>1, Depths
    <3> QED BY <3>1, <3>2 DEF Addresses
  <2>2. frames'[<<run, d>>] = frames[<<run, d>>] BY <2>1 DEF Typed
  <2>3. FrameBelow(run, d)' = FrameBelow(run, d) BY DEF FrameBelow
  <2>4. acts'[run][d] = acts[run][d] OBVIOUS
  <2> QED BY <2>2, <2>3, <2>4
<1> QED BY <1>1, <1>2 DEF Linked

LEMMA ChainedUnwind == Typed /\ Chained /\ eh_unwind => Chained'
<1> SUFFICES ASSUME Typed, Chained, eh_unwind PROVE Chained' OBVIOUS
<1>1. PICK k \in Pending(run) :
           /\ g_eh_top = <<run, k>> /\ <<run, k>> \in Addresses
           /\ k \in 1 .. Len(acts[run]) - 1
           /\ frames[<<run, k>>] = [jb |-> acts[run][k].scopes, desc |-> Desc(acts[run][k].scopes),
                                    next |-> FrameBelow(run, k)]
           /\ g_eh_top' = FrameBelow(run, k)
           /\ frames' = [frames EXCEPT ![<<run, k>>] = NoFrame]
           /\ \A d \in Pending(run) : d > k => ~Catches(Desc(acts[run][d].scopes))
           /\ \A d \in Behind(run, k) :
                frames[<<run, d>>] = [jb |-> acts[run][d].scopes, desc |-> Desc(acts[run][d].scopes),
                                      next |-> FrameBelow(run, d)]
  BY Turn
<1>2. run \in Coros /\ Len(acts[run]) \in 1 .. MaxDepth /\ mode = "unwind"
  BY TopTypes, ActsTypes DEF eh_unwind
<1>3. PICK x : x = frames[<<run, k>>].desc OBVIOUS
<1>4. x = Desc(acts[run][k].scopes) BY <1>1, <1>3
<1>5. \A d \in Pending(run) : d \in Int BY <1>2, Depths
<1>6. CASE ~Catches(x)
  <2>1. UNCHANGED <<acts, run, mode, g_eh_sel>> BY <1>1, <1>3, <1>6 DEF eh_unwind
  <2>2. Pending(run)' = Pending(run) BY <2>1 DEF Pending
  <2>3. \A d : Behind(run, d)' = Behind(run, d) BY <2>2 DEF Behind
  <2>4. Linked(k)' BY <1>1, <2>1, <2>3, TurnLinks
  <2>5. ASSUME NEW d \in Pending(run), d >= k PROVE ~Catches(Desc(acts[run][d].scopes))
    <3>1. d = k \/ d > k BY <1>5, <2>5
    <3> QED BY <3>1, <1>1, <1>4, <1>6
  <2>6. \A t : Catches(t)' = Catches(t)
    <3>1. g_eh_ti' = g_eh_ti BY DEF eh_unwind, gvars
    <3> QED BY <3>1 DEF Catches, Hits
  <2>7. \A d \in Pending(run) : d >= k => ~Catches(Desc(acts[run][d].scopes))'
    <3>1. \A d \in Pending(run) : Desc(acts[run][d].scopes)' = Desc(acts[run][d].scopes) BY <2>1
    <3> QED BY <2>5, <2>6, <3>1
  <2>8. Passed(k)' BY <2>2, <2>4, <2>7 DEF Passed
  <2>9. \A c \in Coros \ {run} : Quiet(c)' BY <2>1 DEF Chained, Quiet
  <2>10. k \in 1 .. MaxDepth + 1 BY <1>1, <1>2, CartAssumption
  <2>11. (\E j \in 1 .. MaxDepth + 1 : Passed(j))' BY <2>8, <2>10
  <2> QED BY <1>2, <2>1, <2>9, <2>11 DEF Chained
<1>7. CASE Catches(x)
  <2>1. PICK f \in Addresses : f = <<run, k>> BY <1>1
  <2>2. longjmp(f) BY <1>1, <1>3, <1>7, <2>1 DEF eh_unwind
  <2>3. f[1] = run /\ f[2] = k /\ k <= Len(acts[run]) BY <1>1, <1>2, <2>1
  <2>4. PICK a \in Activation : a = [scopes |-> frames[f].jb, pad |-> Selector(frames[f].desc)]
    BY <2>2, <2>3, Landed
  <2>5. acts' = [acts EXCEPT ![run] = Append(SubSeq(@, 1, k - 1), a)] /\ run' = run /\ mode' = "run"
    BY <2>2, <2>3, <2>4, Landed
  <2>6. k \in 1 .. Len(acts[run]) /\ k \in 1 .. Len(acts[run]) + 1 BY <1>1, <1>2
  <2>7. Becomes(k, a) BY <2>5, <2>6, MakesLanding
  <2>8. /\ \A c \in Coros \ {run} : Quiet(c) => Quiet(c)'
        /\ \A d \in Pending(run)' : acts'[run][d] = acts[run][d]
        /\ Pending(run)' = {d \in Pending(run) : d < k}
    BY <2>3, <2>5, <2>6, <2>7, PendingAfter
  <2>9. Pending(run)' = Behind(run, k) BY <2>8 DEF Behind
  <2>10. ASSUME NEW d \in Behind(run, k) PROVE Behind(run, d)' = Behind(run, d)
    <3>1. d < k /\ d \in Int /\ k \in Int BY <1>1, <1>5 DEF Behind
    <3>2. \A y \in Pending(run) : y < d => y < k BY <3>1, <1>5
    <3> QED BY <2>5, <2>8, <3>2 DEF Behind
  <2>11. Behind(run, MaxDepth + 1)' = Behind(run, k)
    <3>1. \A d \in Pending(run) : d < MaxDepth + 1 BY <1>2, Depths
    <3> QED BY <2>5, <2>8, <3>1 DEF Behind
  <2>12. PICK m : m = MaxDepth + 1 OBVIOUS
  <2>13. Linked(m)' BY <1>1, <2>5, <2>8, <2>9, <2>10, <2>11, <2>12, TurnLinks
  <2> QED BY <2>5, <2>8, <2>12, <2>13 DEF Chained
<1> QED BY <1>6, <1>7

LEMMA ChainedTerminate == Typed /\ Chained /\ __cvm_eh_terminate => Chained'
<1> SUFFICES ASSUME Typed, Chained, __cvm_eh_terminate PROVE Chained' OBVIOUS
<1>1. mode' = "halt" /\ UNCHANGED <<acts, run>> BY DEF __cvm_eh_terminate
<1> QED BY <1>1 DEF Chained, Quiet

LEMMA ChainedLeaveHandler == Typed /\ Chained /\ LeaveHandler => Chained'
<1> SUFFICES ASSUME Typed, Chained, LeaveHandler PROVE Chained' OBVIOUS
<1>1. mode = "run" /\ UNCHANGED <<run, mode, g_eh_top, frames>> /\ Top.scopes # <<>> /\ PadLeave
  BY DEF LeaveHandler, Within, PadLeave
<1>2. Becomes(Len(acts[run]), [Top EXCEPT !.scopes = Outer]) BY <1>1, PadLeaves
<1> QED BY <1>1, <1>2, ChainedTop

LEMMA ChainedDestroy == Typed /\ Chained /\ Destroy => Chained'
<1> SUFFICES ASSUME Typed, Chained, Destroy PROVE Chained' OBVIOUS
<1>1. mode = "run" /\ UNCHANGED <<run, mode, g_eh_top, frames>> /\ ~Runs
  BY DEF Destroy, PadDestroy, PadLeave
<1>2. CASE Becomes(Len(acts[run]), [Top EXCEPT !.scopes = Outer]) BY <1>1, <1>2, ChainedTop
<1>3. CASE CallsDestructor
  <2>1. PICK L : L = Len(acts[run]) OBVIOUS
  <2>2. run \in Coros /\ L \in 1 .. MaxDepth /\ Top = acts[run][L]
    BY <2>1, TopTypes, ActsTypes
  <2>3. /\ Len(acts'[run]) = L + 1 /\ \A d \in 1 .. L - 1 : acts'[run][d] = acts[run][d]
        /\ acts'[run][L] = [Top EXCEPT !.scopes = Outer]
        /\ \A c \in Coros \ {run} : acts'[c] = acts[c]
    BY <1>3, <2>1 DEF CallsDestructor
  <2>4. acts'[run][L].pad # Running
    <3>1. Top.pad # Running /\ Top \in Activation BY <1>1, TopTypes DEF Runs
    <3> QED BY <2>3, <3>1 DEF Activation
  <2>5. (L + 1) - 1 = L /\ \A d : d \in 1 .. L <=> d \in 1 .. L - 1 \/ d = L BY <2>2
  <2>6. Pending(run)' = Pending(run)
    <3>1. Pending(run)' = {d \in 1 .. L : acts'[run][d].pad = Running /\ acts'[run][d].scopes # <<>>}
      BY <1>1, <2>3, <2>5 DEF Pending
    <3>2. Pending(run) = {d \in 1 .. L - 1 : acts[run][d].pad = Running /\ acts[run][d].scopes # <<>>}
      BY <2>1 DEF Pending
    <3>3. \A d \in 1 .. L - 1 : acts'[run][d] = acts[run][d] BY <2>3
    <3>4. acts'[run][L].pad # Running BY <2>4
    <3> QED BY <2>5, <3>1, <3>2, <3>3, <3>4, Zenon
  <2>7. \A d \in Pending(run) : acts'[run][d] = acts[run][d] BY <2>1, <2>3 DEF Pending
  <2>8. \A c \in Coros \ {run} : Quiet(c) => Quiet(c)' BY <2>3 DEF Quiet
  <2> QED BY <1>1, <2>6, <2>7, <2>8, ChainedStep
<1> QED BY <1>2, <1>3, Destroys DEF Destroy

LEMMA ChainedDispatch == Typed /\ Chained /\ Dispatch => Chained'
<1> SUFFICES ASSUME Typed, Chained, Dispatch PROVE Chained' OBVIOUS
<1>1. mode = "run" /\ UNCHANGED <<g_eh_top, frames>> BY DEF Dispatch
<1>2. CASE Selected(Inner) = {}
  <2>1. PadLeave /\ UNCHANGED <<mode, headers>> /\ Top.scopes # <<>> BY <1>2, Dispatches
  <2>2. Becomes(Len(acts[run]), [Top EXCEPT !.scopes = Outer]) /\ UNCHANGED run
    BY <2>1, PadLeaves DEF PadLeave
  <2> QED BY <1>1, <2>1, <2>2, ChainedTop
<1>3. CASE Selected(Inner) # {}
  <2>1. PICK k \in Clauses : PadCatch(g_eh_exc, k, 0) /\ Top.scopes # <<>>
    BY <1>3, Dispatches
  <2>2. PICK e \in Exceptional : e = g_eh_exc BY TypedParts DEF HeadersTyped
  <2>3. Becomes(Len(acts[run]), Fresh(Append(Outer, Handler(e, k, 0)))) /\ UNCHANGED run
    BY <2>1, <2>2, PadCatches DEF PadCatch
  <2>4. mode' \in {"run", "halt"} BY <1>1, <1>3 DEF Dispatch
  <2> QED BY <1>1, <2>3, <2>4, ChainedTop
<1> QED BY <1>2, <1>3

LEMMA ChainedInit == InitEh => Chained
<1> SUFFICES ASSUME InitEh PROVE Chained OBVIOUS
<1>1. \A c \in Coros : acts[c] = <<Fresh(<<>>)>> BY DEF InitEh, InitCart
<1>2. run \in Coros /\ mode = "run" /\ g_eh_top = NULL
  BY CartAssumption DEF InitEh, InitCart
<1>3. ASSUME NEW c \in Coros PROVE Quiet(c)
  <2>1. PICK a : a = Fresh(<<>>) OBVIOUS
  <2>2. acts[c] = <<a>> BY <1>1, <2>1
  <2>3. \A d \in DOMAIN <<a>> : <<a>>[d] = a OBVIOUS
  <2>4. \A d \in DOMAIN acts[c] : acts[c][d] = a BY <2>2, <2>3
  <2> QED BY <2>1, <2>4 DEF Quiet
<1>4. Typed BY TypedInit
<1>5. Pending(run) = {} BY <1>2, <1>3, <1>4, QuietPending
<1>6. \A d : Behind(run, d) = {} BY <1>5 DEF Behind
<1>7. FrameBelow(run, MaxDepth + 1) = NULL BY <1>6 DEF FrameBelow
<1>8. Linked(MaxDepth + 1) BY <1>2, <1>6, <1>7 DEF Linked
<1> QED BY <1>2, <1>3, <1>8 DEF Chained

LEMMA ChainedAll ==
  ASSUME ~SwapsInScopes
  PROVE  Typed /\ Chained /\ [NextEh]_vars => Chained'
<1>1. ASSUME Typed, Chained, UNCHANGED vars PROVE Chained'
  <2>1. UNCHANGED <<acts, run, mode, g_eh_top, g_eh_ti, frames>> BY <1>1 DEF vars, gvars
  <2>2. \A c : Quiet(c)' = Quiet(c) BY <2>1 DEF Quiet
  <2>3. \A j : Linked(j)' = Linked(j)
    BY <2>1 DEF Linked, FrameBelow, Behind, Pending
  <2>4. Pending(run)' = Pending(run) BY <2>1 DEF Pending
  <2>5. \A t : Catches(t)' = Catches(t) BY <2>1 DEF Catches, Hits
  <2>6. \A j : Passed(j)' = Passed(j) BY <2>1, <2>3, <2>4, <2>5 DEF Passed
  <2> QED BY <1>1, <2>1, <2>2, <2>3, <2>6 DEF Chained
<1> QED
  BY <1>1, ChainedInvoke, ChainedReturn, ChainedScopes, ChainedSwap, ChainedThrows,
     ChainedUnwind, ChainedTerminate, ChainedLeaveHandler, ChainedDestroy, ChainedDispatch
     DEF NextEh, Done

(* The chain the runtime walks is that of the calls under way, innermost   *)
(* first, whatever is thrown and wherever it lands: no frame of a call     *)
(* that is over, none lost, none twice.                                    *)
THEOREM ChainHolds ==
  ASSUME ~SwapsInScopes
  PROVE  Spec => []ChainExact
<1>1. Typed /\ Chained => ChainExact
  <2> SUFFICES ASSUME Typed, Chained, mode = "run"
               PROVE  /\ g_eh_top = FrameBelow(run, MaxDepth + 1)
                      /\ \A d \in Pending(run) : /\ frames[<<run, d>>].next = FrameBelow(run, d)
                                                 /\ frames[<<run, d>>].jb = acts[run][d].scopes
    BY DEF ChainExact
  <2>1. Linked(MaxDepth + 1) BY DEF Chained
  <2>2. run \in Coros BY TopTypes
  <2>3. Behind(run, MaxDepth + 1) = Pending(run) BY <2>2, Depths
  <2>4. g_eh_top = FrameBelow(run, MaxDepth + 1) BY <2>1 DEF Linked
  <2>5. ASSUME NEW d \in Pending(run)
        PROVE  /\ frames[<<run, d>>].next = FrameBelow(run, d)
               /\ frames[<<run, d>>].jb = acts[run][d].scopes
    <3>1. frames[<<run, d>>] = [jb |-> acts[run][d].scopes, desc |-> Desc(acts[run][d].scopes),
                                next |-> FrameBelow(run, d)]
      BY <2>1, <2>3 DEF Linked
    <3> QED BY <3>1
  <2> QED BY <2>4, <2>5
<1>2. Typed /\ Chained /\ [NextEh]_vars => (Typed /\ Chained)' BY TypedStep, ChainedAll
<1>3. InitEh => Typed /\ Chained BY TypedInit, ChainedInit
<1> QED BY <1>1, <1>2, <1>3, PTL DEF Spec

(* ---------------------------------------------------------------------- *)
(* The count of handlers                                                   *)

(* The scopes of activation d of c that are handlers of e.                 *)
HandlersIn(o, e) == {i \in DOMAIN o : o[i].kind = "handler" /\ o[i].exc = e}
Handled(c, d, e) == IF d \in 1 .. Len(acts[c]) THEN HandlersIn(acts[c][d].scopes, e) ELSE {}

Places == Coros \X (1 .. MaxDepth) \X (1 .. MaxScopes)

LEMMA HandlersByPlace ==
  ASSUME Typed, NEW e
  PROVE  HandlersOf(e) = {h \in Places : h[3] \in Handled(h[1], h[2], e)}
<1>1. ASSUME NEW h \in Places
      PROVE  (/\ h[2] \in DOMAIN acts[h[1]] /\ h[3] \in DOMAIN acts[h[1]][h[2]].scopes
              /\ LET s == acts[h[1]][h[2]].scopes[h[3]] IN s.kind = "handler" /\ s.exc = e)
                <=> h[3] \in Handled(h[1], h[2], e)
  <2>1. h[1] \in Coros BY DEF Places
  <2>2. DOMAIN acts[h[1]] = 1 .. Len(acts[h[1]]) BY <2>1, ActsTypes
  <2> QED BY <2>2 DEF Handled, HandlersIn
<1> QED BY <1>1 DEF HandlersOf, Places

LEMMA HandlersThen ==
  ASSUME Typed, Typed', NEW e
  PROVE  HandlersOf(e)' = {h \in Places : h[3] \in Handled(h[1], h[2], e)'}
<1>1. (HandlersOf(e) = {h \in Places : h[3] \in Handled(h[1], h[2], e)})'
  BY HandlersByPlace, PTL
<1> QED BY <1>1 DEF Places

LEMMA HandlersKept ==
  ASSUME Typed, Typed', NEW e,
         \A c \in Coros, d \in 1 .. MaxDepth : Handled(c, d, e)' = Handled(c, d, e)
  PROVE  HandlersOf(e)' = HandlersOf(e)
<1>1. HandlersOf(e) = {h \in Places : h[3] \in Handled(h[1], h[2], e)} BY HandlersByPlace
<1>2. HandlersOf(e)' = {h \in Places : h[3] \in Handled(h[1], h[2], e)'} BY HandlersThen
<1>3. \A h \in Places : h[1] \in Coros /\ h[2] \in 1 .. MaxDepth BY DEF Places
<1> QED BY <1>1, <1>2, <1>3

(* Only the running coroutine has any, so there are finitely many.         *)
LEMMA HandlersFinite ==
  ASSUME Typed, Chained, NEW e
  PROVE  IsFiniteSet(HandlersOf(e)) /\ Cardinality(HandlersOf(e)) \in Nat
<1> DEFINE D == 1 .. MaxDepth
           S == 1 .. MaxScopes
           f == [p \in D \X S |-> <<run, p[1], p[2]>>]
           T == {f[p] : p \in D \X S}
<1>1. IsFiniteSet(D) /\ IsFiniteSet(S) BY FS_Interval, CartAssumption
<1>2. IsFiniteSet(D \X S)
  <2> HIDE DEF D, S
  <2> QED BY <1>1, FS_Product
<1>3. IsFiniteSet(T)
  <2>1. PICK Q : Q = D \X S OBVIOUS
  <2>2. f \in Surjection(Q, T) BY <2>1 DEF Surjection
  <2>3. IsFiniteSet(Q) BY <1>2, <2>1
  <2> HIDE DEF f, T
  <2> QED BY <2>2, <2>3, FS_Surjection
<1>4. ASSUME NEW h \in HandlersOf(e) PROVE h \in T
  <2>1. h \in Places /\ h[3] \in Handled(h[1], h[2], e) BY HandlersByPlace
  <2>2. h[1] \in Coros /\ h[2] \in D /\ h[3] \in S /\ h = <<h[1], h[2], h[3]>> BY <2>1 DEF Places
  <2>3. h[1] = run
    <3>1. SUFFICES ASSUME h[1] # run PROVE FALSE OBVIOUS
    <3>2. Quiet(h[1]) BY <2>2, <3>1 DEF Chained
    <3>3. h[2] \in DOMAIN acts[h[1]] /\ h[3] \in DOMAIN acts[h[1]][h[2]].scopes
      BY <2>1, <2>2, ActsTypes DEF Handled, HandlersIn
    <3>4. acts[h[1]][h[2]].scopes = <<>> BY <3>2, <3>3 DEF Quiet, Fresh
    <3> QED BY <3>3, <3>4
  <2>4. <<h[2], h[3]>> \in D \X S BY <2>2
  <2>5. f[<<h[2], h[3]>>] = h BY <2>2, <2>3, <2>4
  <2> QED BY <2>4, <2>5
<1>5. IsFiniteSet(HandlersOf(e))
  <2> HIDE DEF T
  <2>1. HandlersOf(e) \in SUBSET T BY <1>4
  <2> QED BY <1>3, <2>1, FS_Subset
<1> QED BY <1>5, FS_CardinalityType

(* The innermost scope of the running activation is left or entered.       *)
LEMMA HandlersAppend ==
  ASSUME NEW o \in Seq(Scope), NEW s \in Scope, NEW e
  PROVE  /\ Len(o) \in Nat /\ Len(o) + 1 \notin HandlersIn(o, e)
         /\ HandlersIn(o, e) \subseteq 1 .. Len(o)
         /\ HandlersIn(Append(o, s), e)
              = HandlersIn(o, e) \cup {i \in {Len(o) + 1} : s.kind = "handler" /\ s.exc = e}
<1>1. /\ Append(o, s) \in Seq(Scope) /\ Len(Append(o, s)) = Len(o) + 1 /\ Len(o) \in Nat
      /\ \A i \in 1 .. Len(o) : Append(o, s)[i] = o[i]
      /\ Append(o, s)[Len(o) + 1] = s
  BY Appended
<1>2. PICK n \in Nat : n = Len(o) BY <1>1
<1>3. PICK a : a = Append(o, s) OBVIOUS
<1>4. DOMAIN o = 1 .. n /\ DOMAIN a = 1 .. n + 1 BY <1>1, <1>2, <1>3
<1>5. 1 .. n + 1 = (1 .. n) \cup {n + 1} /\ n + 1 \notin 1 .. n BY <1>2
<1>6. HandlersIn(o, e) \subseteq 1 .. n BY <1>4 DEF HandlersIn
<1>7. HandlersIn(a, e) = HandlersIn(o, e) \cup {i \in {n + 1} : s.kind = "handler" /\ s.exc = e}
  <2>1. \A i \in 1 .. n : a[i] = o[i] BY <1>1, <1>2, <1>3
  <2>2. a[n + 1] = s BY <1>1, <1>2, <1>3
  <2> QED BY <1>4, <1>5, <2>1, <2>2 DEF HandlersIn
<1> QED BY <1>1, <1>2, <1>3, <1>5, <1>6, <1>7

(* How a change of the running coroutine changes what its activations      *)
(* handle.                                                                 *)
LEMMA HandledAfter ==
  ASSUME Typed, Typed', NEW n \in 1 .. Len(acts[run]) + 1, NEW a, Becomes(n, a), UNCHANGED run, NEW e
  PROVE  /\ n \in 1 .. MaxDepth
         /\ \A c \in Coros, d \in 1 .. MaxDepth :
              Handled(c, d, e)' = IF c # run \/ d < n THEN Handled(c, d, e)
                                  ELSE IF d = n THEN HandlersIn(a.scopes, e) ELSE {}
<1>1. run \in Coros /\ Len(acts[run]) \in 1 .. MaxDepth BY TopTypes, ActsTypes
<1>2. /\ \A c \in Coros \ {run} : acts'[c] = acts[c]
      /\ Len(acts'[run]) = n
      /\ \A d \in 1 .. n - 1 : acts'[run][d] = acts[run][d]
      /\ acts'[run][n] = a
  BY DEF Becomes
<1>3. n \in 1 .. MaxDepth
  <2>1. acts'[run] \in Activations BY <1>1 DEF Becomes
  <2> QED BY <1>2, <2>1 DEF Activations
<1>4. ASSUME NEW c \in Coros, c # run, NEW d \in 1 .. MaxDepth
      PROVE  Handled(c, d, e)' = Handled(c, d, e)
  BY <1>2, <1>4 DEF Handled
<1>5. ASSUME NEW d \in 1 .. MaxDepth
      PROVE  Handled(run, d, e)' = IF d < n THEN Handled(run, d, e)
                                  ELSE IF d = n THEN HandlersIn(a.scopes, e) ELSE {}
  <2>1. CASE d < n
    <3>1. d \in 1 .. n - 1 /\ d \in 1 .. n /\ d \in 1 .. Len(acts[run]) BY <1>1, <1>3, <2>1
    <3> QED BY <1>2, <2>1, <3>1 DEF Handled
  <2>2. CASE d = n
    <3>1. d \in 1 .. n /\ ~(d < n) BY <1>3, <2>2
    <3> QED BY <1>2, <2>2, <3>1 DEF Handled
  <2>3. CASE d > n
    <3>1. d \notin 1 .. n /\ ~(d < n) /\ d # n BY <1>3, <2>3
    <3> QED BY <1>2, <3>1 DEF Handled
  <2> QED BY <1>3, <2>1, <2>2, <2>3
<1> QED BY <1>3, <1>4, <1>5

LEMMA HandlersStay ==
  ASSUME Typed, Typed', NEW n \in 1 .. Len(acts[run]) + 1, NEW a, Becomes(n, a), UNCHANGED run, NEW e,
         HandlersIn(a.scopes, e) = Handled(run, n, e),
         \A d \in 1 .. MaxDepth : d > n => Handled(run, d, e) = {}
  PROVE  HandlersOf(e)' = HandlersOf(e)
<1>1. /\ n \in 1 .. MaxDepth
      /\ \A c \in Coros, d \in 1 .. MaxDepth :
           Handled(c, d, e)' = IF c # run \/ d < n THEN Handled(c, d, e)
                               ELSE IF d = n THEN HandlersIn(a.scopes, e) ELSE {}
  BY HandledAfter
<1>2. ASSUME NEW c \in Coros, NEW d \in 1 .. MaxDepth
      PROVE  Handled(c, d, e)' = Handled(c, d, e)
  <2>1. d < n \/ d = n \/ d > n BY <1>1
  <2> QED BY <1>1, <2>1
<1> QED BY <1>2, HandlersKept

LEMMA TopHandled ==
  ASSUME Typed, NEW e, Top.scopes # <<>>
  PROVE  /\ Handled(run, Len(acts[run]), e)
              = HandlersIn(Outer, e) \cup {i \in {Len(Top.scopes)} : Inner.kind = "handler" /\ Inner.exc = e}
         /\ Len(Top.scopes) \notin HandlersIn(Outer, e)
<1>1. Handled(run, Len(acts[run]), e) = HandlersIn(Top.scopes, e)
  <2>1. run \in Coros /\ Top = acts[run][Len(acts[run])] BY TopTypes
  <2>2. Len(acts[run]) \in 1 .. Len(acts[run]) BY <2>1, ActsTypes
  <2> QED BY <2>1, <2>2 DEF Handled
<1>2. PICK o \in Seq(Scope), s \in Scope, m \in Nat :
        /\ o = Outer /\ s = Inner /\ m = Len(Top.scopes) /\ Len(o) = m - 1
        /\ Top.scopes = Append(o, s)
  <2>1. /\ Inner \in Scope /\ Outer \in Stack /\ Len(Outer) = Len(Top.scopes) - 1
        /\ Len(Top.scopes) \in 1 .. MaxScopes /\ Top.scopes = Append(Outer, Inner)
    BY TopTypes
  <2>2. Outer \in Seq(Scope) /\ Len(Top.scopes) \in Nat BY <2>1, StackTypes
  <2> QED BY <2>1, <2>2
<1>3. /\ Len(o) + 1 \notin HandlersIn(o, e)
      /\ HandlersIn(Append(o, s), e)
              = HandlersIn(o, e) \cup {i \in {Len(o) + 1} : s.kind = "handler" /\ s.exc = e}
  BY HandlersAppend
<1>4. Len(o) + 1 = m BY <1>2
<1> QED BY <1>1, <1>2, <1>3, <1>4

(* Leaving the innermost scope takes a handler away if it was one.         *)
LEMMA HandlersLeft ==
  ASSUME Typed, Typed', NEW a, Becomes(Len(acts[run]), a), UNCHANGED run, NEW e,
         Top.scopes # <<>>, a.scopes = Outer
  PROVE  LET h == <<run, Len(acts[run]), Len(Top.scopes)>>
         IN  IF Inner.kind = "handler" /\ Inner.exc = e
             THEN h \in HandlersOf(e) /\ HandlersOf(e)' = HandlersOf(e) \ {h}
             ELSE HandlersOf(e)' = HandlersOf(e)
<1>1. PICK n, m : n = Len(acts[run]) /\ m = Len(Top.scopes) OBVIOUS
<1>2. /\ Handled(run, n, e)
           = HandlersIn(Outer, e) \cup {i \in {m} : Inner.kind = "handler" /\ Inner.exc = e}
      /\ m \notin HandlersIn(Outer, e)
  BY <1>1, TopHandled
<1>3. run \in Coros /\ n \in 1 .. MaxDepth /\ m \in 1 .. MaxScopes
  BY <1>1, TopTypes, ActsTypes
<1>4. /\ n \in 1 .. Len(acts[run]) + 1 /\ Becomes(n, a)
      /\ \A d \in 1 .. MaxDepth : d > n => Handled(run, d, e) = {}
  <2>1. \A d \in 1 .. MaxDepth : d > n => d \notin 1 .. n BY <1>3
  <2> QED BY <1>1, <1>3, <2>1 DEF Handled
<1>5. CASE ~(Inner.kind = "handler" /\ Inner.exc = e)
  <2>1. HandlersIn(a.scopes, e) = Handled(run, n, e) BY <1>2, <1>5
  <2> QED BY <1>4, <1>5, <2>1, HandlersStay
<1>6. CASE Inner.kind = "handler" /\ Inner.exc = e
  <2> DEFINE h == <<run, n, m>>
  <2>1. h \in Places BY <1>3 DEF Places
  <2>2. h \in HandlersOf(e)
    <3>1. h[3] \in Handled(h[1], h[2], e) BY <1>2, <1>6
    <3> QED BY <2>1, <3>1, HandlersByPlace
  <2>3. \A c \in Coros, d \in 1 .. MaxDepth :
           Handled(c, d, e)' = IF c # run \/ d < n THEN Handled(c, d, e)
                               ELSE IF d = n THEN HandlersIn(a.scopes, e) ELSE {}
    BY <1>4, HandledAfter
  <2>4. ASSUME NEW c \in Coros, NEW d \in 1 .. MaxDepth
        PROVE  Handled(c, d, e)' = IF c = run /\ d = n THEN Handled(c, d, e) \ {m} ELSE Handled(c, d, e)
    <3>1. d < n \/ d = n \/ d > n BY <1>3
    <3>2. HandlersIn(a.scopes, e) = Handled(run, n, e) \ {m} BY <1>2
    <3> QED BY <1>4, <2>3, <3>1, <3>2
  <2>5. HandlersOf(e)' = HandlersOf(e) \ {h}
    <3>1. HandlersOf(e) = {x \in Places : x[3] \in Handled(x[1], x[2], e)} BY HandlersByPlace
    <3>2. HandlersOf(e)' = {x \in Places : x[3] \in Handled(x[1], x[2], e)'} BY HandlersThen
    <3>3. ASSUME NEW x \in Places
          PROVE  x[3] \in Handled(x[1], x[2], e)' <=> x[3] \in Handled(x[1], x[2], e) /\ x # h
      <4>1. x[1] \in Coros /\ x[2] \in 1 .. MaxDepth /\ x = <<x[1], x[2], x[3]>> BY DEF Places
      <4>2. x = h <=> x[1] = run /\ x[2] = n /\ x[3] = m BY <4>1
      <4> QED BY <2>4, <4>1, <4>2
    <3> HIDE DEF h
    <3> QED BY <3>1, <3>2, <3>3
  <2> QED BY <1>1, <1>6, <2>2, <2>5
<1> QED BY <1>5, <1>6

(* Entering one in its place adds one.                                     *)
LEMMA HandlersEntered ==
  ASSUME Typed, Typed', NEW x \in Exceptional, NEW k \in Clauses,
         Becomes(Len(acts[run]), Fresh(Append(Outer, Handler(x, k, 0)))), UNCHANGED run, NEW e,
         Top.scopes # <<>>, Inner.kind # "handler"
  PROVE  LET h == <<run, Len(acts[run]), Len(Top.scopes)>>
         IN  IF x = e
             THEN h \notin HandlersOf(e) /\ HandlersOf(e)' = HandlersOf(e) \cup {h}
             ELSE HandlersOf(e)' = HandlersOf(e)
<1>1. PICK n, m : n = Len(acts[run]) /\ m = Len(Top.scopes) OBVIOUS
<1>2. PICK a : a = Fresh(Append(Outer, Handler(x, k, 0))) OBVIOUS
<1>3. Handled(run, n, e) = HandlersIn(Outer, e) /\ m \notin HandlersIn(Outer, e)
  BY <1>1, TopHandled
<1>4. HandlersIn(a.scopes, e) = HandlersIn(Outer, e) \cup {i \in {m} : x = e}
  <2>1. PICK o \in Seq(Scope), s \in Scope : o = Outer /\ s = Handler(x, k, 0) /\ Len(o) + 1 = m
    <3>1. /\ Outer \in Stack /\ Len(Outer) = Len(Top.scopes) - 1
          /\ Len(Top.scopes) \in 1 .. MaxScopes
      BY TopTypes
    <3>2. Outer \in Seq(Scope) BY <3>1, StackTypes
    <3>3. Handler(x, k, 0) \in Scope BY DEF Scope
    <3>4. Len(Outer) + 1 = m BY <1>1, <3>1
    <3> QED BY <3>2, <3>3, <3>4
  <2>2. HandlersIn(Append(o, s), e)
              = HandlersIn(o, e) \cup {i \in {Len(o) + 1} : s.kind = "handler" /\ s.exc = e}
    BY HandlersAppend
  <2>3. s.kind = "handler" /\ s.exc = x BY <2>1 DEF Handler
  <2>4. a.scopes = Append(o, s) BY <1>2, <2>1 DEF Fresh
  <2> QED BY <2>1, <2>2, <2>3, <2>4
<1>5. run \in Coros /\ n \in 1 .. MaxDepth /\ m \in 1 .. MaxScopes
  BY <1>1, TopTypes, ActsTypes
<1>6. /\ n \in 1 .. Len(acts[run]) + 1 /\ Becomes(n, a)
      /\ \A d \in 1 .. MaxDepth : d > n => Handled(run, d, e) = {}
  <2>1. \A d \in 1 .. MaxDepth : d > n => d \notin 1 .. n BY <1>5
  <2> QED BY <1>1, <1>2, <1>5, <2>1 DEF Handled
<1>7. CASE x # e
  <2>1. HandlersIn(a.scopes, e) = Handled(run, n, e) BY <1>3, <1>4, <1>7
  <2> QED BY <1>6, <1>7, <2>1, HandlersStay
<1>8. CASE x = e
  <2> DEFINE h == <<run, n, m>>
  <2>1. h \in Places BY <1>5 DEF Places
  <2>2. HandlersOf(e) = {y \in Places : y[3] \in Handled(y[1], y[2], e)} BY HandlersByPlace
  <2>3. HandlersOf(e)' = {y \in Places : y[3] \in Handled(y[1], y[2], e)'} BY HandlersThen
  <2>4. h \notin HandlersOf(e) BY <1>3, <2>2
  <2>5. \A c \in Coros, d \in 1 .. MaxDepth :
           Handled(c, d, e)' = IF c # run \/ d < n THEN Handled(c, d, e)
                               ELSE IF d = n THEN HandlersIn(a.scopes, e) ELSE {}
    BY <1>6, HandledAfter
  <2>6. ASSUME NEW c \in Coros, NEW d \in 1 .. MaxDepth
        PROVE  Handled(c, d, e)' = IF c = run /\ d = n THEN Handled(c, d, e) \cup {m}
                                  ELSE Handled(c, d, e)
    <3>1. d < n \/ d = n \/ (d > n /\ ~(d < n) /\ d # n) BY <1>5
    <3>2. HandlersIn(a.scopes, e) = Handled(run, n, e) \cup {m} BY <1>3, <1>4, <1>8
    <3>3. c = run /\ d > n => Handled(c, d, e) = {} BY <1>6
    <3>4. d < n => d # n BY <1>5
    <3>5. CASE c = run /\ d = n
      <4>1. ~(d < n) BY <3>5, <1>5
      <4> QED BY <2>5, <3>2, <3>5, <4>1
    <3>6. CASE c # run \/ d < n BY <2>5, <3>4, <3>6
    <3>7. CASE c = run /\ d > n /\ ~(d < n) /\ d # n
      <4>1. Handled(c, d, e)' = {} BY <2>5, <3>7
      <4> QED BY <3>3, <3>7, <4>1
    <3> QED BY <3>1, <3>5, <3>6, <3>7
  <2>7. ASSUME NEW y \in Places
        PROVE  y[3] \in Handled(y[1], y[2], e)' <=> y[3] \in Handled(y[1], y[2], e) \/ y = h
    <3>1. y[1] \in Coros /\ y[2] \in 1 .. MaxDepth /\ y = <<y[1], y[2], y[3]>> BY DEF Places
    <3>2. y = h <=> y[1] = run /\ y[2] = n /\ y[3] = m BY <3>1
    <3> QED BY <2>6, <3>1, <3>2
  <2>8. HandlersOf(e)' = HandlersOf(e) \cup {h}
    <3> HIDE DEF h
    <3> QED BY <2>1, <2>2, <2>3, <2>7
  <2> QED BY <1>1, <1>8, <2>4, <2>8
<1> QED BY <1>7, <1>8

(* Landing pads.                                                           *)
LEMMA PadsIs ==
  ASSUME Typed, Chained
  PROVE  AtPad <=> Pads # {}
<1>1. run \in Coros BY TopTypes
<1>2. ASSUME NEW c \in Coros, NEW d \in DOMAIN acts[c], acts[c][d].pad # Running PROVE Pads # {}
  <2>1. c = run BY <1>2 DEF Chained, Quiet, Fresh
  <2>2. d \in 1 .. Len(acts[run]) BY <1>2, <2>1, ActsTypes
  <2> QED BY <1>2, <2>1, <2>2 DEF Pads
<1>3. ASSUME NEW d \in Pads PROVE AtPad
  <2>1. d \in 1 .. Len(acts[run]) /\ acts[run][d].pad # Running BY DEF Pads
  <2>2. d \in DOMAIN acts[run] BY <1>1, <2>1, ActsTypes
  <2> QED BY <1>1, <2>1, <2>2 DEF AtPad
<1> QED BY <1>2, <1>3 DEF AtPad

LEMMA PadsAfter ==
  ASSUME Typed, NEW n \in 1 .. Len(acts[run]) + 1, NEW a, Becomes(n, a), UNCHANGED run
  PROVE  Pads' = {d \in Pads : d < n} \cup {d \in {n} : a.pad # Running}
<1>1. Len(acts[run]) \in 1 .. MaxDepth BY TopTypes, ActsTypes
<1>2. Pads' = {d \in 1 .. n : acts'[run][d].pad # Running} BY DEF Pads, Becomes
<1>3. 1 .. n = (1 .. n - 1) \cup {n} /\ n \in Int BY <1>1
<1>4. \A d \in 1 .. n - 1 : acts'[run][d] = acts[run][d] BY DEF Becomes
<1>5. acts'[run][n] = a BY DEF Becomes
<1>6. \A d : d \in 1 .. n - 1 <=> d \in 1 .. Len(acts[run]) /\ d < n BY <1>1
<1> QED BY <1>2, <1>3, <1>4, <1>5, <1>6 DEF Pads

(* The running activation changes, or what it calls, not its landing pad.  *)
LEMMA PadsStay ==
  ASSUME Typed, NEW a, UNCHANGED run,
         \/ Becomes(Len(acts[run]), a) /\ a.pad = Top.pad
         \/ Becomes(Len(acts[run]) + 1, a) /\ a.pad = Running
         \/ Becomes(Len(acts[run]) - 1, a) /\ Top.pad = Running /\ Len(acts[run]) > 1
              /\ a = acts[run][Len(acts[run]) - 1]
  PROVE  Pads' = Pads
<1>1. PICK n \in Int : n = Len(acts[run]) BY TopTypes, ActsTypes
<1>2. n \in 1 .. MaxDepth /\ Top = acts[run][n] BY <1>1, TopTypes, ActsTypes
<1>3. Pads \subseteq 1 .. n /\ (n \in Pads <=> Top.pad # Running) BY <1>1, <1>2 DEF Pads
<1>4. CASE Becomes(n, a) /\ a.pad = Top.pad
  <2>1. Pads' = {d \in Pads : d < n} \cup {d \in {n} : a.pad # Running}
    BY <1>1, <1>2, <1>4, PadsAfter
  <2>2. \A d \in Pads : d < n \/ d = n BY <1>3
  <2> QED BY <1>3, <1>4, <2>1, <2>2
<1>5. CASE Becomes(n + 1, a) /\ a.pad = Running
  <2>1. Pads' = {d \in Pads : d < n + 1} \cup {d \in {n + 1} : a.pad # Running}
    <3>1. n + 1 \in 1 .. Len(acts[run]) + 1 BY <1>1, <1>2
    <3> QED BY <1>5, <3>1, PadsAfter
  <2>2. \A d \in Pads : d < n + 1 BY <1>3
  <2> QED BY <1>5, <2>1, <2>2
<1>6. CASE Becomes(n - 1, a) /\ Top.pad = Running /\ n > 1 /\ a = acts[run][n - 1]
  <2>1. Pads' = {d \in Pads : d < n - 1} \cup {d \in {n - 1} : a.pad # Running}
    <3>1. n - 1 \in 1 .. Len(acts[run]) + 1 BY <1>1, <1>2, <1>6
    <3> QED BY <1>6, <3>1, PadsAfter
  <2>2. n - 1 \in Pads <=> a.pad # Running
    <3>1. n - 1 \in 1 .. n BY <1>2, <1>6
    <3> QED BY <1>1, <1>6, <3>1 DEF Pads
  <2>3. \A d \in Pads : d < n - 1 \/ d = n - 1
    <3>1. \A d \in Pads : d \in 1 .. n /\ d # n BY <1>3, <1>6
    <3> QED BY <1>2, <3>1
  <2> QED BY <2>1, <2>2, <2>3
<1> QED BY <1>1, <1>4, <1>5, <1>6

(* A step that leaves the exception, its handlers and the landing pads     *)
(* alone.                                                                  *)
LEMMA CountsKept ==
  ASSUME Typed, Typed', Counts, mode # "halt", UNCHANGED <<headers, g_eh_exc>>,
         \A e : HandlersOf(e)' = HandlersOf(e),
         mode' # "halt" => OnePad' /\ InFlight' = InFlight
  PROVE  Counts'
<1>1. Alive' = Alive BY DEF Alive
<1>2. Count' = Count BY DEF Count
<1>3. Handlers' = Handlers BY DEF Handlers
<1>4. InFlight \in BOOLEAN BY DEF InFlight
<1> QED BY <1>1, <1>2, <1>3, <1>4 DEF Counts

LEMMA CountsRuns ==
  ASSUME Typed, Typed', Counts, mode = "run", mode' = "run", UNCHANGED <<headers, g_eh_exc>>,
         \A e : HandlersOf(e)' = HandlersOf(e), Pads' = Pads
  PROVE  Counts'
<1>1. OnePad' /\ InFlight' = InFlight BY DEF Counts, OnePad, InFlight
<1> QED BY <1>1, CountsKept

LEMMA NoHandlers == \A e : HandlersIn(<<>>, e) = {} /\ HandlersIn(<<Noexcept>>, e) = {}
<1>1. PICK s : s = Noexcept OBVIOUS
<1>2. DOMAIN <<s>> = {1} /\ <<s>>[1] = s OBVIOUS
<1>3. s.kind # "handler" BY <1>1 DEF Noexcept
<1>4. PICK o : o = <<s>> OBVIOUS
<1>5. \A i \in DOMAIN o : o[i].kind # "handler" BY <1>2, <1>3, <1>4
<1>6. \A e : HandlersIn(o, e) = {} BY <1>5 DEF HandlersIn
<1>7. \A e : HandlersIn(<<>>, e) = {} BY DEF HandlersIn
<1> QED BY <1>1, <1>4, <1>6, <1>7

LEMMA CountsInvoke == Typed /\ Typed' /\ Chained /\ Counts /\ Invoke => Counts'
<1> SUFFICES ASSUME Typed, Typed', Counts, Invoke PROVE Counts' OBVIOUS
<1>1. /\ mode = "run" /\ Call /\ UNCHANGED <<mode, headers, g_eh_exc, run>>
  BY DEF Invoke, Call, gvars
<1>2. Becomes(Len(acts[run]) + 1, Fresh(<<>>))
  <2>1. /\ acts' = [acts EXCEPT ![run] = Append(@, Fresh(<<>>))] /\ Len(acts[run]) < MaxDepth
    BY <1>1 DEF Call
  <2> QED BY <2>1, MakesCall, EmptyStack
<1>3. Pads' = Pads
  <2>1. PICK a : a = Fresh(<<>>) OBVIOUS
  <2>2. a.pad = Running /\ Becomes(Len(acts[run]) + 1, a) BY <1>2, <2>1 DEF Fresh
  <2> QED BY <1>1, <2>2, PadsStay
<1>4. ASSUME NEW e PROVE HandlersOf(e)' = HandlersOf(e)
  <2>1. PICK n : n = Len(acts[run]) + 1 OBVIOUS
  <2>2. Len(acts[run]) \in 1 .. MaxDepth BY TopTypes, ActsTypes
  <2>3. n \in 1 .. Len(acts[run]) + 1 /\ n \notin 1 .. Len(acts[run])
        /\ \A d \in 1 .. MaxDepth : d > n => d \notin 1 .. Len(acts[run])
    BY <2>1, <2>2
  <2>4. HandlersIn(Fresh(<<>>).scopes, e) = {} BY NoHandlers DEF Fresh
  <2>5. Handled(run, n, e) = {} /\ \A d \in 1 .. MaxDepth : d > n => Handled(run, d, e) = {}
    BY <2>3 DEF Handled
  <2>6. PICK a : a = Fresh(<<>>) OBVIOUS
  <2>7. Becomes(n, a) BY <1>2, <2>1, <2>6
  <2> QED BY <1>1, <2>3, <2>4, <2>5, <2>6, <2>7, HandlersStay
<1> QED BY <1>1, <1>3, <1>4, CountsRuns

LEMMA CountsReturn == Typed /\ Typed' /\ Chained /\ Counts /\ InvokeReturns => Counts'
<1> SUFFICES ASSUME Typed, Typed', Counts, InvokeReturns PROVE Counts' OBVIOUS
<1>1. /\ mode = "run" /\ Return /\ UNCHANGED <<mode, headers, g_eh_exc, run>>
  BY DEF InvokeReturns, Return, gvars
<1>0. /\ run \in Coros /\ Len(acts[run]) \in 1 .. MaxDepth /\ Top = acts[run][Len(acts[run])]
      /\ Len(acts[run]) > 1 /\ Top.pad = Running /\ Top.scopes = <<>>
  BY <1>1, TopTypes, ActsTypes DEF Return, Callee, Runs
<1>2. PICK n \in Int : n = Len(acts[run]) - 1 BY <1>0
<1>3. /\ run \in Coros /\ n + 1 = Len(acts[run]) /\ n \in 1 .. MaxDepth
      /\ Top = acts[run][n + 1] /\ n \in 1 .. Len(acts[run]) /\ Len(acts[run]) > 1
      /\ Top.pad = Running /\ Top.scopes = <<>>
  <2>1. n + 1 = Len(acts[run]) /\ n \in 1 .. MaxDepth /\ n \in 1 .. Len(acts[run])
    BY <1>0, <1>2, CartAssumption
  <2> QED BY <1>0, <2>1
<1>4. PICK a : a = acts[run][n] OBVIOUS
<1>5. Becomes(n, a)
  <2>1. acts' = [acts EXCEPT ![run] = Front(@)] BY <1>1 DEF Return
  <2> QED BY <1>2, <1>3, <1>4, <2>1, MakesReturn
<1>6. Pads' = Pads BY <1>1, <1>2, <1>3, <1>4, <1>5, PadsStay
<1>7. ASSUME NEW e PROVE HandlersOf(e)' = HandlersOf(e)
  <2>1. HandlersIn(a.scopes, e) = Handled(run, n, e) BY <1>3, <1>4 DEF Handled
  <2>2. ASSUME NEW d \in 1 .. MaxDepth, d > n PROVE Handled(run, d, e) = {}
    <3>1. d = n + 1 \/ d \notin 1 .. n + 1 BY <1>3, <2>2
    <3>2. HandlersIn(Top.scopes, e) = {} BY <1>3, NoHandlers
    <3> QED BY <1>3, <3>1, <3>2 DEF Handled
  <2>3. n \in 1 .. Len(acts[run]) + 1 BY <1>3
  <2> QED BY <1>1, <1>5, <2>1, <2>2, <2>3, HandlersStay
<1> QED BY <1>1, <1>6, <1>7, CountsRuns

(* A change of the running activation's scopes that takes no handler.      *)
LEMMA CountsTop ==
  ASSUME Typed, Typed', Counts, mode = "run", UNCHANGED <<mode, headers, g_eh_exc, run>>,
         NEW a, Becomes(Len(acts[run]), a), a.pad = Top.pad,
         \A e : HandlersIn(a.scopes, e) = Handled(run, Len(acts[run]), e)
  PROVE  Counts'
<1>1. Pads' = Pads BY PadsStay
<1>2. ASSUME NEW e PROVE HandlersOf(e)' = HandlersOf(e)
  <2>1. PICK n \in Int : n = Len(acts[run]) BY TopTypes, ActsTypes
  <2>2. n \in 1 .. Len(acts[run]) + 1 BY <2>1, TopTypes, ActsTypes
  <2>3. \A d \in 1 .. MaxDepth : d > n => Handled(run, d, e) = {}
    <3>1. \A d \in 1 .. MaxDepth : d > n => d \notin 1 .. n BY <2>1
    <3> QED BY <2>1, <3>1 DEF Handled
  <2> QED BY <2>1, <2>2, <2>3, HandlersStay
<1> QED BY <1>1, <1>2, CountsRuns

LEMMA TopHandles ==
  ASSUME Typed, NEW e
  PROVE  Handled(run, Len(acts[run]), e) = HandlersIn(Top.scopes, e)
<1>1. run \in Coros /\ Top = acts[run][Len(acts[run])] BY TopTypes
<1>2. Len(acts[run]) \in 1 .. Len(acts[run]) BY <1>1, ActsTypes
<1> QED BY <1>1, <1>2 DEF Handled

LEMMA CountsScopes == Typed /\ Typed' /\ Chained /\ Counts /\ Scopes => Counts'
<1> SUFFICES ASSUME Typed, Typed', Counts, Scopes PROVE Counts' OBVIOUS
<1>1. mode = "run" /\ UNCHANGED <<mode, headers, g_eh_exc>> BY DEF Scopes, gvars
<1>2. CASE Enter
  <2>1. PICK s \in Scope : s.kind # "handler" /\ Open(s) BY <1>2, EnterOpens
  <2>2. Becomes(Len(acts[run]), Fresh(Append(Top.scopes, s))) /\ UNCHANGED run /\ Runs
    BY <2>1, OpenTypes DEF Open
  <2>3. Fresh(Append(Top.scopes, s)).pad = Top.pad BY <2>2 DEF Fresh, Runs
  <2>4. ASSUME NEW e
        PROVE  HandlersIn(Fresh(Append(Top.scopes, s)).scopes, e) = Handled(run, Len(acts[run]), e)
    <3>1. PICK o \in Seq(Scope) : o = Top.scopes BY TopTypes, StackTypes
    <3>2. HandlersIn(Append(o, s), e)
            = HandlersIn(o, e) \cup {i \in {Len(o) + 1} : s.kind = "handler" /\ s.exc = e}
      BY HandlersAppend
    <3>3. HandlersIn(Append(o, s), e) = HandlersIn(o, e) BY <2>1, <3>2
    <3> QED BY <3>1, <3>3, TopHandles DEF Fresh
  <2>5. PICK a : a = Fresh(Append(Top.scopes, s)) OBVIOUS
  <2> QED BY <1>1, <2>2, <2>3, <2>4, <2>5, CountsTop
<1>3. CASE Leave
  <2>1. Becomes(Len(acts[run]), Fresh(Outer)) /\ UNCHANGED run /\ Runs /\ Top.scopes # <<>>
        /\ Inner.kind # "handler"
    BY <1>3, Leaves DEF Leave, Within
  <2>2. Fresh(Outer).pad = Top.pad BY <2>1 DEF Fresh, Runs
  <2>3. ASSUME NEW e
        PROVE  HandlersIn(Fresh(Outer).scopes, e) = Handled(run, Len(acts[run]), e)
    BY <2>1, TopHandled DEF Fresh
  <2>4. PICK a : a = Fresh(Outer) OBVIOUS
  <2> QED BY <1>1, <2>1, <2>2, <2>3, <2>4, CountsTop
<1> QED BY <1>2, <1>3 DEF Scopes

LEMMA CountsSwap ==
  ASSUME ~SwapsInScopes, NEW c \in Coros
  PROVE  Typed /\ Typed' /\ Chained /\ Counts /\ SwapTo(c) => Counts'
<1> SUFFICES ASSUME Typed, Typed', Chained, Counts, SwapTo(c) PROVE Counts' OBVIOUS
<1>1. /\ mode = "run" /\ UNCHANGED <<mode, headers, g_eh_exc, acts>> /\ run' = c
      /\ c # run /\ Quiet(run)
  BY DEF SwapTo, Swap, gvars
<1>2. \A x \in Coros : Quiet(x) BY <1>1 DEF Chained
<1>3. Pads = {}
  <2>1. run \in Coros BY TopTypes
  <2> QED BY <1>2, <2>1, ActsTypes DEF Pads, Quiet, Fresh
<1>4. Pads' = {}
  <2>1. Pads' = {d \in 1 .. Len(acts[c]) : acts[c][d].pad # Running} BY <1>1 DEF Pads
  <2> QED BY <1>2, <2>1, ActsTypes DEF Quiet, Fresh
<1>5. \A e : HandlersOf(e)' = HandlersOf(e) BY <1>1 DEF HandlersOf
<1> QED BY <1>1, <1>3, <1>4, <1>5, CountsRuns

LEMMA CountsThrow ==
  ASSUME ~Overlaps, NEW e \in Objects, NEW t \in Types
  PROVE  Typed /\ Typed' /\ Chained /\ Counts /\ __cxa_throw(e, t) => Counts'
<1> SUFFICES ASSUME Typed, Counts, __cxa_throw(e, t) PROVE Counts' OBVIOUS
<1>1. /\ mode = "run" /\ Callee /\ Alive = {} /\ UNCHANGED <<acts, run>>
      /\ headers' = [headers EXCEPT ![e] = [ti |-> t, handler_count |-> 0, live |-> TRUE]]
      /\ g_eh_exc' = e /\ mode' = "unwind"
  BY DEF __cxa_throw
<1>2. g_eh_exc = NoObject BY <1>1 DEF Typed, TypeOK
<1>3. \A x \in Exceptional : HandlersOf(x)' = {}
  <2>1. \A x \in Exceptional : HandlersOf(x) = {} BY <1>2 DEF Counts
  <2> QED BY <1>1, <2>1 DEF HandlersOf
<1>4. Pads = {} BY <1>1, <1>2 DEF Counts, InFlight
<1>5. headers'[e] = [ti |-> t, handler_count |-> 0, live |-> TRUE]
      /\ \A x \in Objects \ {e} : headers'[x] = headers[x]
  BY <1>1 DEF Typed
<1>6. Alive' = {e}
  <2>1. \A x \in Objects : headers'[x].live => x = e BY <1>1, <1>5 DEF Alive
  <2> QED BY <1>5, <2>1 DEF Alive
<1>7. Handlers' = 0
  <2>1. HandlersOf(e)' = {} BY <1>3 DEF Exceptional
  <2>2. Handlers' = Cardinality(HandlersOf(e)') BY <1>1 DEF Handlers, HandlersOf
  <2> QED BY <2>1, <2>2, FS_EmptySet
<1>8. Count' = 0 BY <1>1, <1>5 DEF Count
<1>9. OnePad'
  <2>1. Pads' = {} BY <1>1, <1>4 DEF Pads
  <2>2. (Top.scopes = <<>>)' BY <1>1 DEF Callee, Top
  <2> QED BY <2>1, <2>2 DEF OnePad
<1>10. e # NoObject BY CartAssumption
<1>11. Count' = -Handlers'
  <2>1. \A n \in Int : -n = 0 - n OBVIOUS
  <2>2. PICK n \in Int : n = Handlers' BY <1>7
  <2>3. 0 - n = 0 BY <1>7, <2>2
  <2> QED BY <1>8, <2>1, <2>2, <2>3
<1> QED BY <1>1, <1>3, <1>6, <1>9, <1>10, <1>11 DEF Counts, InFlight

LEMMA CountsRethrow == Typed /\ Typed' /\ Chained /\ Counts /\ ~Overlaps /\ __cxa_rethrow => Counts'
<1> SUFFICES ASSUME Typed, Chained, Counts, ~Overlaps, __cxa_rethrow PROVE Counts' OBVIOUS
<1>1. /\ mode = "run" /\ Callee /\ ~AtPad /\ UNCHANGED <<acts, run, g_eh_exc>> /\ mode' = "unwind"
      /\ headers' = IF g_eh_exc = NoObject THEN headers
                    ELSE [headers EXCEPT ![g_eh_exc].handler_count = -@]
  BY DEF __cxa_rethrow, gvars
<1>2. g_eh_exc # NoObject
  <2>1. PICK e \in Objects : HandlersOf(e) # {} BY DEF __cxa_rethrow
  <2> QED BY <2>1 DEF Counts, Exceptional
<1>3. Pads = {} BY <1>1, PadsIs
<1>4. Count = Handlers BY <1>1, <1>2, <1>3 DEF Counts, InFlight
<1>5. g_eh_exc \in Objects BY <1>2 DEF Typed, TypeOK
<1>6. \A x : HandlersOf(x)' = HandlersOf(x) BY <1>1 DEF HandlersOf
<1>7. Handlers' = Handlers BY <1>1, <1>6 DEF Handlers, HandlersOf
<1>8. headers' = [headers EXCEPT ![g_eh_exc].handler_count = -Count] BY <1>1, <1>2 DEF Count
<1>9. headers'[g_eh_exc].handler_count = -Count BY <1>5, <1>8 DEF Typed
<1>10. Alive' = Alive
  <2>1. \A x \in Objects : headers'[x].live = headers[x].live BY <1>5, <1>8 DEF Typed
  <2> QED BY <2>1 DEF Alive
<1>11. Count' = -Handlers' BY <1>1, <1>4, <1>7, <1>9 DEF Count
<1>12. OnePad'
  <2>1. Pads' = {} BY <1>1, <1>3 DEF Pads
  <2>2. (Top.scopes = <<>>)' BY <1>1 DEF Callee, Top
  <2> QED BY <2>1, <2>2 DEF OnePad
<1> QED BY <1>1, <1>2, <1>6, <1>10, <1>11, <1>12 DEF Counts, InFlight

LEMMA CountsResume == Typed /\ Typed' /\ Chained /\ Counts /\ __cvm_eh_resume => Counts'
<1> SUFFICES ASSUME Typed, Typed', Counts, __cvm_eh_resume PROVE Counts' OBVIOUS
<1>1. /\ mode = "run" /\ ~Runs /\ Top.scopes = <<>> /\ mode' = "unwind"
      /\ UNCHANGED <<acts, run, g_eh_exc, headers>>
  BY DEF __cvm_eh_resume, gvars
<1>2. Len(acts[run]) \in Pads
  <2>1. Top = acts[run][Len(acts[run])] /\ Len(acts[run]) \in 1 .. Len(acts[run])
    BY TopTypes, ActsTypes
  <2> QED BY <1>1, <2>1 DEF Pads, Runs
<1>3. Pads' = Pads BY <1>1 DEF Pads
<1>4. \A e : HandlersOf(e)' = HandlersOf(e) BY <1>1 DEF HandlersOf
<1>5. InFlight /\ InFlight' BY <1>1, <1>2 DEF InFlight
<1>6. OnePad'
  <2>1. Pads \subseteq {Len(acts[run])} BY <1>1, <1>2 DEF Counts, OnePad
  <2>2. Len(acts[run])' = Len(acts[run]) /\ (Top.scopes = <<>>)' BY <1>1 DEF Top
  <2> QED BY <1>1, <1>3, <2>1, <2>2 DEF Counts, OnePad
<1> QED BY <1>1, <1>4, <1>5, <1>6, CountsKept

LEMMA CountsHalts == Typed /\ Typed' /\ Chained /\ Counts /\ (OutOfMemory \/ __cvm_eh_terminate) => Counts'
<1> SUFFICES ASSUME Typed, Typed', Counts, OutOfMemory \/ __cvm_eh_terminate PROVE Counts' OBVIOUS
<1>1. mode # "halt" /\ mode' = "halt" /\ UNCHANGED <<acts, g_eh_exc, headers>>
  BY DEF OutOfMemory, __cvm_eh_terminate, gvars
<1>2. \A e : HandlersOf(e)' = HandlersOf(e) BY <1>1 DEF HandlersOf
<1>3. mode' # "halt" => OnePad' /\ InFlight' = InFlight BY <1>1
<1> QED BY <1>1, <1>2, <1>3, CountsKept

LEMMA RunningApart == Running \notin Catchable
<1>1. Running # NoType BY DEF Running, NoType
<1>2. Running \notin Types BY CartAssumption
<1> QED BY <1>1, <1>2 DEF Catchable

LEMMA CountsUnwind == Typed /\ Typed' /\ Chained /\ Counts /\ eh_unwind => Counts'
<1> SUFFICES ASSUME Typed, Typed', Chained, Counts, eh_unwind PROVE Counts' OBVIOUS
<1>1. PICK k \in Pending(run) :
           /\ g_eh_top = <<run, k>> /\ <<run, k>> \in Addresses
           /\ k \in 1 .. Len(acts[run]) - 1
           /\ frames[<<run, k>>] = [jb |-> acts[run][k].scopes, desc |-> Desc(acts[run][k].scopes),
                                    next |-> FrameBelow(run, k)]
           /\ \A d \in Pending(run) : d > k => ~Catches(Desc(acts[run][d].scopes))
  BY Turn
<1>2. run \in Coros /\ Len(acts[run]) \in 1 .. MaxDepth /\ Top = acts[run][Len(acts[run])]
      /\ mode = "unwind" /\ UNCHANGED <<headers, g_eh_exc>>
  BY TopTypes, ActsTypes DEF eh_unwind, gvars
<1>3. PICK x : x = frames[<<run, k>>].desc OBVIOUS
<1>4. CASE ~Catches(x)
  <2>1. UNCHANGED <<acts, run, mode>> BY <1>1, <1>3, <1>4 DEF eh_unwind
  <2>2. Pads' = Pads BY <2>1 DEF Pads
  <2>3. OnePad' /\ InFlight' = InFlight BY <1>2, <2>1, <2>2 DEF Counts, OnePad, Top, InFlight
  <2>4. \A e : HandlersOf(e)' = HandlersOf(e) BY <2>1 DEF HandlersOf
  <2> QED BY <1>2, <2>3, <2>4, CountsKept
<1>5. CASE Catches(x)
  <2>1. PICK f \in Addresses : f = <<run, k>> BY <1>1
  <2>2. longjmp(f) BY <1>1, <1>3, <1>5, <2>1 DEF eh_unwind
  <2>3. f[1] = run /\ f[2] = k /\ k <= Len(acts[run]) BY <1>1, <1>2, <2>1
  <2>4. PICK a \in Activation : a = [scopes |-> frames[f].jb, pad |-> Selector(frames[f].desc)]
    BY <2>2, <2>3, Landed
  <2>5. acts' = [acts EXCEPT ![run] = Append(SubSeq(@, 1, k - 1), a)] /\ run' = run /\ mode' = "run"
    BY <2>2, <2>3, <2>4, Landed
  <2>6. k \in 1 .. Len(acts[run]) /\ k \in 1 .. Len(acts[run]) + 1 /\ k # Len(acts[run])
        /\ k < Len(acts[run])
    BY <1>1, <1>2
  <2>7. Becomes(k, a) BY <2>5, <2>6, MakesLanding
  <2>8. a.pad # Running
    <3>1. frames[f].desc \in Descriptor BY DEF Typed
    <3>2. Selector(frames[f].desc) \in Catchable BY <3>1, SelectorType
    <3> QED BY <2>4, <3>2, RunningApart
  <2>9. Pads' = {k}
    <3>1. Pads' = {d \in Pads : d < k} \cup {d \in {k} : a.pad # Running}
      BY <2>5, <2>6, <2>7, PadsAfter
    <3>2. \A d \in Pads : d = Len(acts[run]) BY <1>2 DEF Counts, OnePad
    <3>3. ~(Len(acts[run]) < k) BY <1>2, <2>6
    <3> QED BY <2>8, <3>1, <3>2, <3>3
  <2>10. a.scopes = acts[run][k].scopes BY <1>1, <2>1, <2>4
  <2>11. ASSUME NEW e PROVE HandlersOf(e)' = HandlersOf(e)
    <3>1. HandlersIn(a.scopes, e) = Handled(run, k, e) BY <2>6, <2>10 DEF Handled
    <3>2. ASSUME NEW d \in 1 .. MaxDepth, d > k PROVE Handled(run, d, e) = {}
      <4>1. CASE d \notin 1 .. Len(acts[run]) BY <4>1 DEF Handled
      <4>2. CASE d = Len(acts[run])
        <5>1. Top.scopes = <<>> BY <1>2 DEF Counts, OnePad
        <5>2. HandlersIn(Top.scopes, e) = {} BY <5>1, NoHandlers
        <5> QED BY <1>2, <4>2, <5>2 DEF Handled
      <4>3. CASE d \in 1 .. Len(acts[run]) - 1
        <5>1. d \in 1 .. Len(acts[run]) /\ d # Len(acts[run]) BY <1>2, <4>3
        <5>2. acts[run][d].pad = Running
          <6>1. d \notin Pads BY <1>2, <5>1 DEF Counts, OnePad
          <6> QED BY <5>1, <6>1 DEF Pads
        <5>3. CASE acts[run][d].scopes = <<>>
          <6>1. HandlersIn(acts[run][d].scopes, e) = {} BY <5>3, NoHandlers
          <6> QED BY <5>1, <6>1 DEF Handled
        <5>4. CASE acts[run][d].scopes # <<>>
          <6>1. d \in Pending(run) BY <4>3, <5>2, <5>4 DEF Pending
          <6>2. ~Desc(acts[run][d].scopes).has_cleanup BY <1>1, <3>2, <6>1 DEF Catches
          <6>3. \A i \in DOMAIN acts[run][d].scopes : ~IsCleanup(acts[run][d].scopes[i])
            BY <6>2 DEF Desc
          <6>4. HandlersIn(acts[run][d].scopes, e) = {} BY <6>3 DEF HandlersIn, IsCleanup
          <6> QED BY <5>1, <6>4 DEF Handled
        <5> QED BY <5>3, <5>4
      <4>4. d \notin 1 .. Len(acts[run]) \/ d = Len(acts[run]) \/ d \in 1 .. Len(acts[run]) - 1
        BY <1>2
      <4> QED BY <4>1, <4>2, <4>3, <4>4
    <3> QED BY <2>5, <2>6, <2>7, <3>1, <3>2, HandlersStay
  <2>12. OnePad' /\ InFlight' /\ InFlight BY <1>2, <2>5, <2>9 DEF OnePad, InFlight
  <2> QED BY <1>2, <2>11, <2>12, CountsKept
<1> QED BY <1>4, <1>5

LEMMA CountsLeaveHandler == Typed /\ Typed' /\ Chained /\ Counts /\ LeaveHandler => Counts'
<1> SUFFICES ASSUME Typed, Typed', Chained, Counts, LeaveHandler PROVE Counts' OBVIOUS
<1>1. /\ mode = "run" /\ Top.scopes # <<>> /\ Inner.kind = "handler" /\ PadLeave /\ __cxa_end_catch
      /\ UNCHANGED <<run, mode>>
  BY DEF LeaveHandler, Within, PadLeave
<1>2. PICK a : a = [Top EXCEPT !.scopes = Outer] OBVIOUS
<1>3. Becomes(Len(acts[run]), a) /\ a.scopes = Outer /\ a.pad = Top.pad
  <2>1. Top \in Activation BY TopTypes
  <2> QED BY <1>1, <1>2, <2>1, PadLeaves DEF Activation
<1>4. Pads' = Pads BY <1>1, <1>3, PadsStay
<1>5. PICK e \in Exceptional : Inner.exc = e
  <2>1. Inner \in Scope BY <1>1, TopTypes
  <2> QED BY <1>1, <2>1 DEF Scope, Try, Noexcept, Guard, Handler
<1>6. PICK h : h \in HandlersOf(e) /\ HandlersOf(e)' = HandlersOf(e) \ {h}
  BY <1>1, <1>3, <1>5, HandlersLeft
<1>7. \A x : x # e => HandlersOf(x)' = HandlersOf(x) BY <1>1, <1>3, <1>5, HandlersLeft
<1>8. e = g_eh_exc /\ e # NoObject /\ e \in Objects
  <2>1. e = g_eh_exc /\ e # NoObject BY <1>6 DEF Counts
  <2> QED BY <2>1 DEF Exceptional
<1>9. PICK N \in Nat : N = Handlers BY HandlersFinite DEF Handlers
<1>10. N > 0
  <2>1. IsFiniteSet(HandlersOf(e)) BY HandlersFinite
  <2>2. Cardinality(HandlersOf(e)) # 0 BY <1>6, <2>1, FS_EmptySet
  <2>3. N # 0 BY <1>8, <1>9, <2>2 DEF Handlers
  <2> QED BY <2>3
<1>11. IsFiniteSet(HandlersOf(e)') /\ Cardinality(HandlersOf(e)') = N - 1
  <2>1. IsFiniteSet(HandlersOf(e)) BY HandlersFinite
  <2>2. PICK S : S = HandlersOf(e) OBVIOUS
  <2>3. IsFiniteSet(S \ {h}) /\ Cardinality(S \ {h}) = Cardinality(S) - 1
    BY <1>6, <2>1, <2>2, FS_RemoveElement
  <2>4. Cardinality(S) = N BY <1>8, <1>9, <2>2 DEF Handlers
  <2> QED BY <1>6, <2>2, <2>3, <2>4
<1>12. Alive = {e} BY <1>8 DEF Typed, TypeOK, Counts
<1>13. \A x \in Exceptional : x # e => HandlersOf(x)' = {} BY <1>7, <1>8 DEF Counts
<1>14. OnePad' BY <1>1, <1>4 DEF OnePad, Counts
<1>15. InFlight' = InFlight BY <1>1, <1>4 DEF InFlight
<1>16. PICK n \in Int : n = Count BY <1>8 DEF Count, Typed
<1>17. InFlight => n = -N BY <1>1, <1>9, <1>16 DEF Counts
<1>18. ~InFlight => n = N BY <1>1, <1>8, <1>9, <1>16 DEF Counts
<1>19. CASE n = 1
  <2>1. headers' = [headers EXCEPT ![e] = Freed] /\ g_eh_exc' = NoObject
    BY <1>1, <1>8, <1>16, <1>19 DEF __cxa_end_catch, Count
  <2>2. ~InFlight /\ N = 1
    <3>1. -N # 1 BY <1>10
    <3> QED BY <1>17, <1>18, <1>19, <3>1
  <2>3. HandlersOf(e)' = {}
    <3>1. Cardinality(HandlersOf(e)') = 0 BY <1>11, <2>2
    <3> QED BY <1>11, <3>1, FS_EmptySet
  <2>4. Alive' = {}
    <3>1. \A x \in Objects : headers'[x] = IF x = e THEN Freed ELSE headers[x] BY <2>1 DEF Typed
    <3>2. \A x \in Objects : ~headers'[x].live BY <1>12, <3>1 DEF Alive, Freed
    <3> QED BY <3>2 DEF Alive
  <2>5. \A x \in Exceptional : HandlersOf(x)' = {} BY <1>13, <2>3
  <2> QED BY <1>1, <1>14, <1>15, <2>1, <2>2, <2>4, <2>5 DEF Counts
<1>20. CASE n # 1
  <2>1. PICK m \in Int : m = IF n < 0 THEN n + 1 ELSE n - 1 OBVIOUS
  <2>2. headers' = [headers EXCEPT ![e].handler_count = m] /\ g_eh_exc' = e
    BY <1>1, <1>8, <1>16, <1>20, <2>1 DEF __cxa_end_catch, Count, gvars
  <2>3. \A x \in Objects : /\ headers'[x].live = headers[x].live
                           /\ x = e => headers'[x].handler_count = m
    BY <2>2 DEF Typed
  <2>4. Alive' = {e} BY <1>12, <2>3 DEF Alive
  <2>5. Count' = m BY <1>8, <2>2, <2>3 DEF Count
  <2>6. Handlers' = N - 1
    <3>1. Handlers' = Cardinality(HandlersOf(e)') BY <2>2 DEF Handlers, HandlersOf
    <3> QED BY <1>11, <3>1
  <2>7. InFlight => m = -(N - 1)
    <3>1. CASE InFlight
      <4>1. n = -N /\ n < 0 BY <1>10, <1>17, <3>1
      <4> QED BY <2>1, <4>1
    <3> QED BY <3>1
  <2>8. ~InFlight => m = N - 1 /\ N - 1 > 0
    <3>1. CASE ~InFlight
      <4>1. n = N /\ ~(n < 0) /\ N # 1 BY <1>10, <1>18, <1>20, <3>1
      <4> QED BY <1>10, <2>1, <4>1
    <3> QED BY <3>1
  <2>9. \A x \in Exceptional : HandlersOf(x)' # {} => x = e /\ x # NoObject BY <1>8, <1>13
  <2> QED BY <1>1, <1>8, <1>14, <1>15, <2>2, <2>4, <2>5, <2>6, <2>7, <2>8, <2>9 DEF Counts
<1> QED BY <1>19, <1>20

LEMMA CountsDestroy == Typed /\ Typed' /\ Chained /\ Counts /\ Destroy => Counts'
<1> SUFFICES ASSUME Typed, Typed', Counts, Destroy PROVE Counts' OBVIOUS
<1>1. /\ mode = "run" /\ UNCHANGED <<run, mode, headers, g_eh_exc>> /\ ~Runs /\ Top.scopes # <<>>
      /\ Inner.kind # "handler" /\ PadDestroy
  BY DEF Destroy, PadDestroy, PadLeave, Within, gvars
<1>2. PICK a : a = [Top EXCEPT !.scopes = Outer] OBVIOUS
<1>3. a.scopes = Outer /\ a.pad = Top.pad
  <2>1. Top \in Activation BY TopTypes
  <2> QED BY <1>2, <2>1 DEF Activation
<1>4. \A e : HandlersIn(a.scopes, e) = Handled(run, Len(acts[run]), e) BY <1>1, <1>3, TopHandled
<1>5. CASE Becomes(Len(acts[run]), a) BY <1>1, <1>3, <1>4, <1>5, CountsTop
<1>6. CASE CallsDestructor
  <2>1. PICK L : L = Len(acts[run]) OBVIOUS
  <2>2. run \in Coros /\ L \in 1 .. MaxDepth /\ Top = acts[run][L] BY <2>1, TopTypes, ActsTypes
  <2>3. /\ Len(acts'[run]) = L + 1 /\ \A d \in 1 .. L - 1 : acts'[run][d] = acts[run][d]
        /\ acts'[run][L] = a /\ acts'[run][L + 1] = Destructor
        /\ \A c \in Coros \ {run} : acts'[c] = acts[c]
    BY <1>2, <1>6, <2>1 DEF CallsDestructor
  <2>4. Pads' = Pads
    <3>1. Pads' = {d \in 1 .. L + 1 : acts'[run][d].pad # Running} BY <1>1, <2>3 DEF Pads
    <3>2. Pads = {d \in 1 .. L : acts[run][d].pad # Running} BY <2>1 DEF Pads
    <3>3. acts'[run][L + 1].pad = Running BY <2>3 DEF Destructor, Fresh
    <3>4. \A d \in 1 .. L : acts'[run][d].pad = acts[run][d].pad
      <4>1. \A d \in 1 .. L : d \in 1 .. L - 1 \/ d = L BY <2>2
      <4> QED BY <1>3, <2>2, <2>3, <4>1
    <3>5. 1 .. L + 1 = (1 .. L) \cup {L + 1} BY <2>2
    <3> QED BY <3>1, <3>2, <3>3, <3>4, <3>5
  <2>5. ASSUME NEW e PROVE HandlersOf(e)' = HandlersOf(e)
    <3>1. ASSUME NEW d \in 1 .. MaxDepth PROVE Handled(run, d, e)' = Handled(run, d, e)
      <4>1. CASE d \in 1 .. L - 1
        <5>1. d \in 1 .. L /\ d \in 1 .. L + 1 BY <2>2, <4>1
        <5> QED BY <1>1, <2>1, <2>3, <4>1, <5>1 DEF Handled
      <4>2. CASE d = L
        <5>1. d \in 1 .. L /\ d \in 1 .. L + 1 BY <2>2, <4>2
        <5>2. Handled(run, d, e)' = HandlersIn(a.scopes, e) BY <1>1, <2>3, <4>2, <5>1 DEF Handled
        <5> QED BY <1>4, <2>1, <4>2, <5>2
      <4>3. CASE d = L + 1
        <5>1. d \notin 1 .. L /\ d \in 1 .. L + 1 BY <2>2, <4>3
        <5>2. Handled(run, d, e)' = HandlersIn(<<Noexcept>>, e)
          BY <1>1, <2>3, <4>3, <5>1 DEF Handled, Destructor, Fresh
        <5> QED BY <2>1, <5>1, <5>2, NoHandlers DEF Handled
      <4>4. CASE d \notin 1 .. L + 1
        <5>1. d \notin 1 .. L BY <2>2, <4>4
        <5> QED BY <1>1, <2>1, <2>3, <4>4, <5>1 DEF Handled
      <4>5. d \in 1 .. L - 1 \/ d = L \/ d = L + 1 \/ d \notin 1 .. L + 1 BY <2>2
      <4> QED BY <4>1, <4>2, <4>3, <4>4, <4>5
    <3>2. ASSUME NEW c \in Coros, c # run, NEW d \in 1 .. MaxDepth
          PROVE  Handled(c, d, e)' = Handled(c, d, e)
      BY <2>3, <3>2 DEF Handled
    <3>3. \A c \in Coros, d \in 1 .. MaxDepth : Handled(c, d, e)' = Handled(c, d, e)
      <4>1. SUFFICES ASSUME NEW c \in Coros, NEW d \in 1 .. MaxDepth
                     PROVE  Handled(c, d, e)' = Handled(c, d, e)
        OBVIOUS
      <4>2. CASE c = run
        <5>1. Handled(run, d, e)' = Handled(run, d, e) BY <3>1
        <5> QED BY <1>1, <4>2, <5>1 DEF Handled
      <4> QED BY <3>2, <4>2
    <3> QED BY <3>3, HandlersKept
  <2> QED BY <1>1, <2>4, <2>5, CountsRuns
<1> QED BY <1>1, <1>2, <1>5, <1>6, Destroys

LEMMA CountsDispatch == Typed /\ Typed' /\ Chained /\ Counts /\ Dispatch => Counts'
<1> SUFFICES ASSUME Typed, Typed', Chained, Counts, Dispatch PROVE Counts' OBVIOUS
<1>1. /\ mode = "run" /\ ~Runs /\ Top.scopes # <<>> /\ Inner.kind # "handler" /\ UNCHANGED g_eh_exc
  BY DEF Dispatch, Within, gvars
<1>2. CASE Selected(Inner) = {}
  <2>1. PadLeave /\ UNCHANGED <<mode, headers, run>> BY <1>2, Dispatches DEF PadLeave
  <2>2. PICK a : a = [Top EXCEPT !.scopes = Outer] OBVIOUS
  <2>3. Becomes(Len(acts[run]), a) BY <1>1, <2>1, <2>2, PadLeaves
  <2>4. a.scopes = Outer /\ a.pad = Top.pad
    <3>1. Top \in Activation BY TopTypes
    <3> QED BY <2>2, <3>1 DEF Activation
  <2>5. \A e : HandlersIn(a.scopes, e) = Handled(run, Len(acts[run]), e) BY <1>1, <2>4, TopHandled
  <2> QED BY <1>1, <2>1, <2>3, <2>4, <2>5, CountsTop
<1>3. CASE Selected(Inner) # {}
  <2>1. PICK k \in Clauses : PadCatch(g_eh_exc, k, 0) BY <1>3, Dispatches
  <2>2. PICK e \in Exceptional : e = g_eh_exc BY TypedParts DEF HeadersTyped
  <2>3. Becomes(Len(acts[run]), Fresh(Append(Outer, Handler(e, k, 0)))) /\ UNCHANGED run
    BY <1>1, <2>1, <2>2, PadCatches DEF PadCatch
  <2>4. mode' \in {"run", "halt"} /\ __cxa_begin_catch BY <1>1, <1>3 DEF Dispatch
  <2>5. Len(acts[run]) \in Pads
    <3>1. Top = acts[run][Len(acts[run])] /\ Len(acts[run]) \in 1 .. Len(acts[run])
      BY TopTypes, ActsTypes
    <3> QED BY <1>1, <3>1 DEF Pads, Runs
  <2>6. e # NoObject /\ e \in Objects /\ Count = -Handlers
    <3>1. e # NoObject /\ Count = -Handlers BY <1>1, <2>2, <2>5 DEF Counts, InFlight
    <3> QED BY <3>1 DEF Exceptional
  <2>7. PICK h : h \notin HandlersOf(e) /\ HandlersOf(e)' = HandlersOf(e) \cup {h}
    BY <1>1, <2>3, HandlersEntered
  <2>8. \A x : x # e => HandlersOf(x)' = HandlersOf(x) BY <1>1, <2>3, HandlersEntered
  <2>9. PICK N \in Nat : N = Handlers BY HandlersFinite DEF Handlers
  <2>10. Handlers' = N + 1
    <3>1. IsFiniteSet(HandlersOf(e)) BY HandlersFinite
    <3>2. PICK S : S = HandlersOf(e) OBVIOUS
    <3>3. Cardinality(S \cup {h}) = Cardinality(S) + 1 BY <2>7, <3>1, <3>2, FS_AddElement
    <3>4. Cardinality(S) = N BY <2>2, <2>9, <3>2 DEF Handlers
    <3>5. Handlers' = Cardinality(HandlersOf(e)') BY <1>1, <2>2 DEF Handlers, HandlersOf
    <3> QED BY <2>7, <3>2, <3>3, <3>4, <3>5
  <2>11. Pads' = {}
    <3>1. Len(acts[run]) \in 1 .. Len(acts[run]) + 1 BY TopTypes, ActsTypes
    <3>2. PICK a : a = Fresh(Append(Outer, Handler(e, k, 0))) OBVIOUS
    <3>3. a.pad = Running BY <3>2 DEF Fresh
    <3>4. Pads' = {d \in Pads : d < Len(acts[run])} \cup {d \in {Len(acts[run])} : a.pad # Running}
      BY <2>3, <3>1, <3>2, PadsAfter
    <3>5. \A d \in Pads : d = Len(acts[run]) BY <1>1, <2>5 DEF Counts, OnePad
    <3>6. ~(Len(acts[run]) < Len(acts[run])) BY TopTypes, ActsTypes
    <3> QED BY <3>3, <3>4, <3>5, <3>6
  <2>12. headers' = [headers EXCEPT ![e].handler_count = N + 1]
    <3>1. headers' = [headers EXCEPT ![e].handler_count = Counted(@)]
      BY <2>2, <2>4, <2>6 DEF __cxa_begin_catch
    <3>2. PICK n : n = headers[e].handler_count OBVIOUS
    <3>3. n = -N BY <2>2, <2>6, <2>9, <3>2 DEF Count
    <3>4. Counted(n) = N + 1
      <4>1. \A i \in Int : -i = 0 - i OBVIOUS
      <4>2. n = 0 - N BY <2>9, <3>3, <4>1
      <4>3. CASE N = 0 BY <4>2, <4>3 DEF Counted
      <4>4. CASE N # 0
        <5>1. n < 0 /\ 1 - n = N + 1 BY <2>9, <4>2, <4>4
        <5> QED BY <5>1 DEF Counted
      <4> QED BY <4>3, <4>4
    <3>5. headers' = [headers EXCEPT ![e].handler_count = Counted(n)] BY <3>1, <3>2
    <3> QED BY <3>4, <3>5
  <2>13. \A x \in Objects : /\ headers'[x].live = headers[x].live
                            /\ x = e => headers'[x].handler_count = N + 1
    BY <2>12 DEF Typed
  <2>14. Alive' = Alive BY <2>13 DEF Alive
  <2>15. Count' = N + 1 BY <1>1, <2>2, <2>6, <2>13 DEF Count
  <2>16. \A x \in Exceptional : HandlersOf(x)' # {} => x = e /\ x # NoObject
    BY <2>2, <2>6, <2>8 DEF Counts
  <2>17. N + 1 > 0 BY <2>9
  <2>18. OnePad' /\ (mode' # "halt" => ~InFlight') BY <2>4, <2>11 DEF OnePad, InFlight
  <2>19. g_eh_exc' = e BY <1>1, <2>2
  <2>20. Count' = Handlers' /\ Handlers' > 0 BY <2>10, <2>15, <2>17
  <2> QED BY <2>2, <2>6, <2>14, <2>16, <2>18, <2>19, <2>20 DEF Counts
<1> QED BY <1>2, <1>3

LEMMA CountsInit == InitEh => Counts
<1> SUFFICES ASSUME InitEh PROVE Counts OBVIOUS
<1>1. Typed /\ Chained BY TypedInit, ChainedInit
<1>2. run \in Coros /\ mode = "run" /\ g_eh_exc = NoObject /\ headers = [e \in Objects |-> Freed]
  BY CartAssumption DEF InitEh, InitCart
<1>3. \A c \in Coros : Quiet(c)
  <2>1. PICK a : a = Fresh(<<>>) OBVIOUS
  <2>2. \A c \in Coros : acts[c] = <<a>> BY <2>1 DEF InitEh, InitCart
  <2>3. \A d \in DOMAIN <<a>> : <<a>>[d] = a OBVIOUS
  <2> QED BY <2>1, <2>2, <2>3 DEF Quiet
<1>4. Pads = {} BY <1>1, <1>2, <1>3, ActsTypes DEF Pads, Quiet, Fresh
<1>5. ASSUME NEW e PROVE HandlersOf(e) = {}
  <2>1. \A c \in Coros : \A d \in DOMAIN acts[c] : acts[c][d].scopes = <<>> BY <1>3 DEF Quiet, Fresh
  <2> QED BY <2>1 DEF HandlersOf
<1>6. Alive = {} BY <1>2 DEF Alive, Freed
<1> QED BY <1>2, <1>4, <1>5, <1>6 DEF Counts, OnePad, InFlight

LEMMA CountsAll ==
  ASSUME ~Overlaps, ~SwapsInScopes
  PROVE  Typed /\ Typed' /\ Chained /\ Counts /\ [NextEh]_vars => Counts'
<1>1. ASSUME Typed, Counts, UNCHANGED vars PROVE Counts'
  <2>1. UNCHANGED <<acts, run, mode, g_eh_exc, headers>> BY <1>1 DEF vars, gvars
  <2>2. Alive' = Alive /\ Count' = Count /\ Pads' = Pads BY <2>1 DEF Alive, Count, Pads
  <2>3. \A e : HandlersOf(e)' = HandlersOf(e) BY <2>1 DEF HandlersOf
  <2>4. Handlers' = Handlers BY <2>1, <2>3 DEF Handlers
  <2>5. InFlight' = InFlight BY <2>1, <2>2 DEF InFlight
  <2>6. OnePad' = OnePad BY <2>1, <2>2 DEF OnePad, Top
  <2> QED BY <1>1, <2>1, <2>2, <2>3, <2>4, <2>5, <2>6 DEF Counts
<1> QED
  BY <1>1, CountsInvoke, CountsReturn, CountsScopes, CountsSwap, CountsThrow, CountsRethrow,
     CountsResume, CountsHalts, CountsUnwind, CountsLeaveHandler, CountsDestroy, CountsDispatch
     DEF NextEh, Done

LEMMA EhInvariant ==
  ASSUME ~Overlaps, ~SwapsInScopes
  PROVE  Spec => [](Typed /\ Chained /\ Counts)
<1>1. InitEh => Typed /\ Chained /\ Counts BY TypedInit, ChainedInit, CountsInit
<1>2. Typed /\ Chained /\ Counts /\ [NextEh]_vars => (Typed /\ Chained /\ Counts)'
  BY TypedStep, ChainedAll, CountsAll
<1> QED BY <1>1, <1>2, PTL DEF Spec

(* "handler_count tracks how many `catch` handlers are live on this        *)
(* exception": __cxa_begin_catch, __cxa_end_catch and __cxa_rethrow keep   *)
(* the count, negated while the exception is in flight, whatever the walk  *)
(* passes and wherever it lands, so that the object is freed with its last *)
(* handler and not before.                                                 *)
THEOREM CountsHold ==
  ASSUME ~Overlaps, ~SwapsInScopes
  PROVE  Spec => []CountsHandlers
<1>1. Typed /\ Chained /\ Counts => CountsHandlers
  <2> SUFFICES ASSUME Typed, Counts, NEW e \in Alive
               PROVE  headers[e].handler_count \in
                        {Cardinality(HandlersOf(e)), -Cardinality(HandlersOf(e))}
    BY DEF CountsHandlers
  <2>1. e = g_eh_exc /\ e \in Objects BY DEF Counts, Alive
  <2>2. e # NoObject BY <2>1, CartAssumption
  <2> QED BY <2>1, <2>2 DEF Counts, Count, Handlers
<1> QED BY <1>1, EhInvariant, PTL

(* ---------------------------------------------------------------------- *)
(* The search through the base classes                                     *)

Ranks(rank) == /\ rank \in [Types -> 0 .. Cardinality(Types)]
               /\ \A t \in Types : \A i \in DOMAIN Bases[t] : rank[Bases[t][i].base] < rank[t]

LEMMA BasesTypes ==
  ASSUME NEW t \in Types
  PROVE  /\ DOMAIN Bases[t] \subseteq Nat
         /\ \A i \in DOMAIN Bases[t] : Bases[t][i].base \in Types /\ Bases[t][i].offset \in Nat
<1>0. PICK R : R = [base : Types, offset : Nat, public : BOOLEAN] OBVIOUS
<1>1. Bases[t] \in Seq(R) BY <1>0, HierarchyAssumption
<1>2. DOMAIN Bases[t] = 1 .. Len(Bases[t]) /\ Len(Bases[t]) \in Nat BY <1>1, LenProperties
<1>3. \A i \in 1 .. Len(Bases[t]) : Bases[t][i] \in R BY <1>1, ElementOfSeq
<1>4. ASSUME NEW i \in DOMAIN Bases[t]
      PROVE  Bases[t][i].base \in Types /\ Bases[t][i].offset \in Nat
  <2>1. PICK r \in [base : Types, offset : Nat, public : BOOLEAN] : r = Bases[t][i]
    BY <1>0, <1>2, <1>3
  <2> QED BY <2>1
<1> QED BY <1>2, <1>4

LEMMA RankTypes ==
  ASSUME NEW rank, Ranks(rank)
  PROVE  /\ \A t \in Types : rank[t] \in Nat
         /\ \E n \in Nat : \A t \in Types : rank[t] < n
<1>1. PICK m \in Nat : m = Cardinality(Types) BY CartAssumption, FS_CardinalityType
<1>2. \A t \in Types : rank[t] \in 0 .. m BY <1>1 DEF Ranks
<1>3. \A t \in Types : rank[t] < m + 1 BY <1>2
<1> QED BY <1>2, <1>3

SubBody(f, t) ==
  {<<t, 0>>} \cup
  UNION {{<<s[1], s[2] + Bases[t][i].offset>> : s \in f[Bases[t][i].base]} :
           i \in {j \in DOMAIN Bases[t] : Bases[t][j].public}}

AtBody(f, t, dst) ==
  IF t = dst THEN 0
  ELSE LET hits == {i \in DOMAIN Bases[t] : Bases[t][i].public /\ f[Bases[t][i].base] >= 0}
       IN  IF hits = {} THEN -1
           ELSE Bases[t][Min(hits)].offset + f[Bases[t][Min(hits)].base]

(* Two functions that agree on the types of a rank below k.                *)
Agree(f, g, rank, k) == \A t \in Types : rank[t] < k => f[t] = g[t]

LEMMA SubAgree ==
  ASSUME NEW rank, Ranks(rank), NEW k \in Nat, NEW f, NEW g, Agree(f, g, rank, k)
  PROVE  Agree([t \in Types |-> SubBody(f, t)], [t \in Types |-> SubBody(g, t)], rank, k + 1)
<1> SUFFICES ASSUME NEW t \in Types, rank[t] < k + 1 PROVE SubBody(f, t) = SubBody(g, t)
  BY DEF Agree
<1>1. \A i \in DOMAIN Bases[t] : f[Bases[t][i].base] = g[Bases[t][i].base]
  <2> SUFFICES ASSUME NEW i \in DOMAIN Bases[t] PROVE f[Bases[t][i].base] = g[Bases[t][i].base]
    OBVIOUS
  <2>1. Bases[t][i].base \in Types /\ rank[Bases[t][i].base] < rank[t]
    BY BasesTypes DEF Ranks
  <2>2. rank[Bases[t][i].base] \in Nat /\ rank[t] \in Nat BY <2>1, RankTypes
  <2>3. rank[Bases[t][i].base] < k BY <2>1, <2>2
  <2> QED BY <2>1, <2>3 DEF Agree
<1>2. {{<<s[1], s[2] + Bases[t][i].offset>> : s \in f[Bases[t][i].base]} :
           i \in {j \in DOMAIN Bases[t] : Bases[t][j].public}}
        = {{<<s[1], s[2] + Bases[t][i].offset>> : s \in g[Bases[t][i].base]} :
           i \in {j \in DOMAIN Bases[t] : Bases[t][j].public}}
  <2> DEFINE Through(i, S) == {<<s[1], s[2] + Bases[t][i].offset>> : s \in S}
             P == {j \in DOMAIN Bases[t] : Bases[t][j].public}
  <2>1. \A i \in P : Through(i, f[Bases[t][i].base]) = Through(i, g[Bases[t][i].base])
    BY <1>1, Zenon
  <2> HIDE DEF Through, P
  <2>2. {Through(i, f[Bases[t][i].base]) : i \in P} = {Through(i, g[Bases[t][i].base]) : i \in P}
    BY <2>1, Zenon
  <2> QED BY <2>2 DEF Through, P
<1> QED BY <1>2 DEF SubBody

LEMMA AtAgree ==
  ASSUME NEW rank, Ranks(rank), NEW k \in Nat, NEW f, NEW g, Agree(f, g, rank, k), NEW dst
  PROVE  Agree([t \in Types |-> AtBody(f, t, dst)], [t \in Types |-> AtBody(g, t, dst)], rank, k + 1)
<1> SUFFICES ASSUME NEW t \in Types, rank[t] < k + 1 PROVE AtBody(f, t, dst) = AtBody(g, t, dst)
  BY DEF Agree
<1>1. \A i \in DOMAIN Bases[t] : f[Bases[t][i].base] = g[Bases[t][i].base]
  <2> SUFFICES ASSUME NEW i \in DOMAIN Bases[t] PROVE f[Bases[t][i].base] = g[Bases[t][i].base]
    OBVIOUS
  <2>1. Bases[t][i].base \in Types /\ rank[Bases[t][i].base] < rank[t]
    BY BasesTypes DEF Ranks
  <2>2. rank[Bases[t][i].base] \in Nat /\ rank[t] \in Nat BY <2>1, RankTypes
  <2>3. rank[Bases[t][i].base] < k BY <2>1, <2>2
  <2> QED BY <2>1, <2>3 DEF Agree
<1>2. PICK hits : hits = {i \in DOMAIN Bases[t] : Bases[t][i].public /\ f[Bases[t][i].base] >= 0}
  OBVIOUS
<1>3. hits = {i \in DOMAIN Bases[t] : Bases[t][i].public /\ g[Bases[t][i].base] >= 0}
  BY <1>1, <1>2
<1>4. hits # {} => Min(hits) \in DOMAIN Bases[t]
  <2>1. hits \subseteq DOMAIN Bases[t] /\ hits \subseteq Nat BY <1>2, BasesTypes
  <2> QED BY <2>1, MinIn
<1>5. AtBody(f, t, dst) = IF t = dst THEN 0 ELSE IF hits = {} THEN -1
                          ELSE Bases[t][Min(hits)].offset + f[Bases[t][Min(hits)].base]
  BY <1>2, Zenon DEF AtBody
<1>6. AtBody(g, t, dst) = IF t = dst THEN 0 ELSE IF hits = {} THEN -1
                          ELSE Bases[t][Min(hits)].offset + g[Bases[t][Min(hits)].base]
  BY <1>3, Zenon DEF AtBody
<1>7. hits # {} => f[Bases[t][Min(hits)].base] = g[Bases[t][Min(hits)].base] BY <1>1, <1>4
<1> QED BY <1>5, <1>6, <1>7

(* As many rounds as types reach every type.                               *)
LEMMA SubExists == \E f : f = [t \in Types |-> SubBody(f, t)]
<1> DEFINE F(f) == [t \in Types |-> SubBody(f, t)]
<1>1. PICK rank : Ranks(rank) BY HierarchyAssumption DEF Ranks
<1>2. PICK S : S = {n \in Nat : \E f : Agree(f, F(f), rank, n)} OBVIOUS
<1>3. 0 \in S
  <2>1. \A t \in Types : ~(rank[t] < 0) BY <1>1, RankTypes
  <2>2. Agree({}, F({}), rank, 0) BY <2>1 DEF Agree
  <2> HIDE DEF F
  <2> QED BY <1>2, <2>2
<1>4. ASSUME NEW n \in Nat, n \in S PROVE n + 1 \in S
  <2>1. PICK f : Agree(f, F(f), rank, n)
    <3> HIDE DEF F
    <3> QED BY <1>2, <1>4
  <2>2. Agree(F(f), F(F(f)), rank, n + 1) BY <1>1, <1>4, <2>1, SubAgree
  <2> HIDE DEF F
  <2> QED BY <1>2, <2>2
<1>5. Nat \subseteq S BY <1>3, <1>4, NatInd
<1>6. PICK n \in Nat : \A t \in Types : rank[t] < n BY <1>1, RankTypes
<1>7. PICK f : Agree(f, F(f), rank, n)
  <2> HIDE DEF F
  <2> QED BY <1>2, <1>5, <1>6
<1>8. PICK g : g = F(f) OBVIOUS
<1>9. g = F(g)
  <2>1. \A t \in Types : f[t] = g[t] BY <1>6, <1>7, <1>8 DEF Agree
  <2>2. \A t \in Types : rank[t] < n + 1 BY <1>1, <1>6, RankTypes
  <2>3. Agree(g, F(g), rank, n + 1)
    <3>1. Agree(F(f), F(g), rank, n + 1) BY <1>1, <1>6, <1>7, <1>8, SubAgree
    <3> QED BY <1>8, <3>1
  <2>4. PICK h : h = F(g) OBVIOUS
  <2>5. \A t \in Types : g[t] = h[t]
    <3>1. Agree(g, h, rank, n + 1)
      <4> HIDE DEF F
      <4> QED BY <2>3, <2>4
    <3> QED BY <2>2, <3>1 DEF Agree
  <2>6. g = [t \in Types |-> g[t]] BY <1>8
  <2>7. h = [t \in Types |-> h[t]] BY <2>4
  <2>8. g = h BY <2>5, <2>6, <2>7, Zenon
  <2> QED BY <2>4, <2>8
<1> QED BY <1>9

LEMMA AtExists == ASSUME NEW dst PROVE \E f : f = [t \in Types |-> AtBody(f, t, dst)]
<1> DEFINE F(f) == [t \in Types |-> AtBody(f, t, dst)]
<1>1. PICK rank : Ranks(rank) BY HierarchyAssumption DEF Ranks
<1>2. PICK S : S = {n \in Nat : \E f : Agree(f, F(f), rank, n)} OBVIOUS
<1>3. 0 \in S
  <2>1. \A t \in Types : ~(rank[t] < 0) BY <1>1, RankTypes
  <2>2. Agree({}, F({}), rank, 0) BY <2>1 DEF Agree
  <2> HIDE DEF F
  <2> QED BY <1>2, <2>2
<1>4. ASSUME NEW n \in Nat, n \in S PROVE n + 1 \in S
  <2>1. PICK f : Agree(f, F(f), rank, n)
    <3> HIDE DEF F
    <3> QED BY <1>2, <1>4
  <2>2. Agree(F(f), F(F(f)), rank, n + 1) BY <1>1, <1>4, <2>1, AtAgree
  <2> HIDE DEF F
  <2> QED BY <1>2, <2>2
<1>5. Nat \subseteq S BY <1>3, <1>4, NatInd
<1>6. PICK n \in Nat : \A t \in Types : rank[t] < n BY <1>1, RankTypes
<1>7. PICK f : Agree(f, F(f), rank, n)
  <2> HIDE DEF F
  <2> QED BY <1>2, <1>5, <1>6
<1>8. PICK g : g = F(f) OBVIOUS
<1>9. g = F(g)
  <2>1. \A t \in Types : f[t] = g[t] BY <1>6, <1>7, <1>8 DEF Agree
  <2>2. \A t \in Types : rank[t] < n + 1 BY <1>1, <1>6, RankTypes
  <2>3. Agree(g, F(g), rank, n + 1)
    <3>1. Agree(F(f), F(g), rank, n + 1) BY <1>1, <1>6, <1>7, <1>8, AtAgree
    <3> QED BY <1>8, <3>1
  <2>4. PICK h : h = F(g) OBVIOUS
  <2>5. \A t \in Types : g[t] = h[t]
    <3>1. Agree(g, h, rank, n + 1)
      <4> HIDE DEF F
      <4> QED BY <2>3, <2>4
    <3> QED BY <2>2, <3>1 DEF Agree
  <2>6. g = [t \in Types |-> g[t]] BY <1>8
  <2>7. h = [t \in Types |-> h[t]] BY <2>4
  <2>8. g = h BY <2>5, <2>6, <2>7, Zenon
  <2> QED BY <2>4, <2>8
<1> QED BY <1>9

LEMMA SubIs ==
  ASSUME NEW t \in Types
  PROVE  Abstract!Subobjects[t] = SubBody(Abstract!Subobjects, t)
<1>1. \E f : f = [t_1 \in Types |-> {<<t_1, 0>>} \cup
        UNION {{<<s[1], s[2] + Bases[t_1][i].offset>> : s \in f[Bases[t_1][i].base]} :
                 i \in {j \in DOMAIN Bases[t_1] : Bases[t_1][j].public}}]
  BY SubExists DEF SubBody
<1>2. Abstract!Subobjects = [t_1 \in Types |-> SubBody(Abstract!Subobjects, t_1)]
  BY <1>1, Zenon DEF Abstract!Subobjects, SubBody
<1> QED BY <1>2

LEMMA AtIs ==
  ASSUME NEW dst
  PROVE  \E f : f = [t \in Types |-> AtBody(f, t, dst)] /\ \A x : ti_search(x, dst) = f[x]
<1>1. \E f : f = [t \in Types |-> AtBody(f, t, dst)] BY AtExists
<1> QED BY <1>1, Zenon DEF ti_search, AtBody

(* It finds dst where there is a public subobject of that type.            *)
Finds(f, t, dst) == f[t] \in Int /\ (f[t] >= 0 <=> \E s \in Abstract!Subobjects[t] : s[1] = dst)
Found(f, dst, rank, k) == \A t \in Types : rank[t] < k => Finds(f, t, dst)

LEMMA FindsNext ==
  ASSUME NEW rank, Ranks(rank), NEW k \in Nat, NEW dst, NEW f,
         f = [t \in Types |-> AtBody(f, t, dst)], Found(f, dst, rank, k)
  PROVE  Found(f, dst, rank, k + 1)
<1> SUFFICES ASSUME NEW t \in Types, rank[t] < k + 1 PROVE Finds(f, t, dst) BY DEF Found
<1> DEFINE B(i) == Bases[t][i].base
           S(i) == {<<s[1], s[2] + Bases[t][i].offset>> : s \in Abstract!Subobjects[B(i)]}
           Pub == {i \in DOMAIN Bases[t] : Bases[t][i].public}
           Has(T) == \E s \in T : s[1] = dst
<1>1. \A i \in DOMAIN Bases[t] : B(i) \in Types /\ Bases[t][i].offset \in Nat /\ Finds(f, B(i), dst)
  <2> SUFFICES ASSUME NEW i \in DOMAIN Bases[t]
               PROVE  B(i) \in Types /\ Bases[t][i].offset \in Nat /\ Finds(f, B(i), dst)
    OBVIOUS
  <2>1. B(i) \in Types /\ Bases[t][i].offset \in Nat BY BasesTypes
  <2>2. rank[B(i)] < rank[t] BY DEF Ranks
  <2>3. rank[B(i)] \in Nat /\ rank[t] \in Nat BY <2>1, RankTypes
  <2>4. rank[B(i)] < k BY <2>2, <2>3
  <2> QED BY <2>1, <2>4 DEF Found
<1>2. PICK hits : hits = {i \in DOMAIN Bases[t] : Bases[t][i].public /\ f[B(i)] >= 0} OBVIOUS
<1>3. f[t] = IF t = dst THEN 0 ELSE IF hits = {} THEN -1
             ELSE Bases[t][Min(hits)].offset + f[Bases[t][Min(hits)].base]
  <2>1. f[t] = AtBody(f, t, dst)
    <3>1. PICK g : g = [x \in Types |-> AtBody(f, x, dst)] OBVIOUS
    <3>2. g[t] = AtBody(f, t, dst) BY <3>1
    <3> QED BY <3>1, <3>2
  <2> QED BY <1>2, <2>1, Zenon DEF AtBody
<1>4. \A i \in DOMAIN Bases[t] : Has(S(i)) <=> f[B(i)] >= 0
  <2> SUFFICES ASSUME NEW i \in DOMAIN Bases[t] PROVE Has(S(i)) <=> f[B(i)] >= 0 OBVIOUS
  <2>1. f[B(i)] >= 0 <=> \E s \in Abstract!Subobjects[B(i)] : s[1] = dst BY <1>1 DEF Finds
  <2>2. ASSUME NEW s \in Abstract!Subobjects[B(i)], s[1] = dst PROVE Has(S(i))
    <3>1. <<s[1], s[2] + Bases[t][i].offset>> \in S(i) OBVIOUS
    <3> QED BY <2>2, <3>1
  <2>3. ASSUME NEW x \in S(i), x[1] = dst PROVE \E s \in Abstract!Subobjects[B(i)] : s[1] = dst
    <3>1. PICK s \in Abstract!Subobjects[B(i)] : x = <<s[1], s[2] + Bases[t][i].offset>> OBVIOUS
    <3> QED BY <2>3, <3>1
  <2> QED BY <2>1, <2>2, <2>3
<1>5. Abstract!Subobjects[t] = {<<t, 0>>} \cup UNION {S(i) : i \in Pub}
  BY SubIs, Zenon DEF SubBody
<1>6. (\E s \in Abstract!Subobjects[t] : s[1] = dst) <=> t = dst \/ hits # {}
  <2>1. ASSUME NEW s \in Abstract!Subobjects[t], s[1] = dst PROVE t = dst \/ hits # {}
    <3>1. s = <<t, 0>> \/ \E i \in Pub : s \in S(i) BY <1>5
    <3>2. CASE s = <<t, 0>> BY <2>1, <3>2
    <3>3. CASE \E i \in Pub : s \in S(i)
      <4>1. PICK i \in Pub : s \in S(i) BY <3>3
      <4>2. i \in DOMAIN Bases[t] /\ Bases[t][i].public /\ Has(S(i)) BY <2>1, <4>1
      <4>3. i \in hits BY <1>2, <1>4, <4>2
      <4> QED BY <4>3
    <3> QED BY <3>1, <3>2, <3>3
  <2>2. ASSUME t = dst PROVE \E s \in Abstract!Subobjects[t] : s[1] = dst
    <3>1. <<t, 0>> \in Abstract!Subobjects[t] BY <1>5
    <3> QED BY <2>2, <3>1
  <2>3. ASSUME hits # {} PROVE \E s \in Abstract!Subobjects[t] : s[1] = dst
    <3>1. PICK i \in hits : TRUE BY <2>3
    <3>2. i \in Pub /\ Has(S(i)) BY <1>2, <1>4
    <3>3. PICK s \in S(i) : s[1] = dst BY <3>2
    <3>4. s \in Abstract!Subobjects[t]
      <4> HIDE DEF S
      <4> QED BY <1>5, <3>2
    <3> QED BY <3>3, <3>4
  <2> QED BY <2>1, <2>2, <2>3
<1>7. hits # {} => Min(hits) \in hits
  <2>1. hits \subseteq Nat BY <1>2, BasesTypes
  <2> QED BY <2>1, MinIn
<1>8. f[t] \in Int /\ (f[t] >= 0 <=> t = dst \/ hits # {})
  <2>1. CASE t = dst BY <1>3, <2>1
  <2>2. CASE t # dst /\ hits = {} BY <1>3, <2>2
  <2>3. CASE t # dst /\ hits # {}
    <3>1. PICK i \in hits : i = Min(hits) BY <1>7, <2>3
    <3>2. i \in DOMAIN Bases[t] /\ f[B(i)] >= 0 BY <1>2
    <3>3. f[B(i)] \in Int /\ Bases[t][i].offset \in Nat BY <1>1, <3>2 DEF Finds
    <3>4. f[t] = Bases[t][i].offset + f[B(i)] BY <1>3, <2>3, <3>1
    <3> HIDE DEF B
    <3> QED BY <2>3, <3>2, <3>3, <3>4
  <2> QED BY <2>1, <2>2, <2>3
<1> QED BY <1>6, <1>8 DEF Finds

(* eh_type_matches (cvm_cxxrt.cpp) takes a clause for a thrown type just   *)
(* if the type has a public base class, however far, of the clause: for    *)
(* every hierarchy without cycles.                                         *)
THEOREM TypeMatches ==
  ASSUME NEW t \in Types, NEW dst
  PROVE  eh_type_matches(t, dst) <=> \E s \in Abstract!Subobjects[t] : s[1] = dst
<1>1. PICK rank : Ranks(rank) BY HierarchyAssumption DEF Ranks
<1>2. PICK f : f = [x \in Types |-> AtBody(f, x, dst)] /\ \A x : ti_search(x, dst) = f[x] BY AtIs
<1>3. PICK S : S = {n \in Nat : Found(f, dst, rank, n)} OBVIOUS
<1>4. 0 \in S
  <2>1. \A x \in Types : ~(rank[x] < 0) BY <1>1, RankTypes
  <2> QED BY <1>3, <2>1 DEF Found
<1>5. \A n \in Nat : n \in S => n + 1 \in S BY <1>1, <1>2, <1>3, FindsNext
<1>6. Nat \subseteq S BY <1>4, <1>5, NatInd
<1>7. PICK n \in Nat : \A x \in Types : rank[x] < n BY <1>1, RankTypes
<1>8. Finds(f, t, dst) BY <1>3, <1>6, <1>7 DEF Found
<1> QED BY <1>2, <1>8 DEF Finds, eh_type_matches

(* No base class lies at an offset: begin_catch returns the whole object.  *)
NoOffsets == \A t \in Types : \A i \in DOMAIN Bases[t] : Bases[t][i].offset = 0

(* Without offsets, all subobjects are where the object is.                *)
LEMMA NoPlaces ==
  ASSUME NoOffsets, NEW t \in Types, NEW s \in Abstract!Subobjects[t]
  PROVE  s[2] = 0
<1> DEFINE Z(k) == \A rank : Ranks(rank) =>
                     \A x \in Types : rank[x] < k => \A y \in Abstract!Subobjects[x] : y[2] = 0
<1>1. ASSUME NEW k \in Nat, Z(k) PROVE Z(k + 1)
  <2> SUFFICES ASSUME NEW rank, Ranks(rank), NEW x \in Types, rank[x] < k + 1,
                      NEW y \in Abstract!Subobjects[x]
               PROVE  y[2] = 0
    OBVIOUS
  <2>1. y \in {<<x, 0>>} \cup
           UNION {{<<z[1], z[2] + Bases[x][i].offset>> : z \in Abstract!Subobjects[Bases[x][i].base]} :
                    i \in {j \in DOMAIN Bases[x] : Bases[x][j].public}}
    BY SubIs, Zenon DEF SubBody
  <2>2. CASE y = <<x, 0>> BY <2>2
  <2>3. CASE y # <<x, 0>>
    <3>1. PICK i \in DOMAIN Bases[x] :
            \E z \in Abstract!Subobjects[Bases[x][i].base] : y = <<z[1], z[2] + Bases[x][i].offset>>
      BY <2>1, <2>3
    <3>2. PICK z \in Abstract!Subobjects[Bases[x][i].base] : y = <<z[1], z[2] + Bases[x][i].offset>>
      BY <3>1
    <3>3. Bases[x][i].base \in Types /\ rank[Bases[x][i].base] < rank[x] /\ Bases[x][i].offset = 0
      BY BasesTypes DEF Ranks, NoOffsets
    <3>4. rank[Bases[x][i].base] \in Nat /\ rank[x] \in Nat BY <3>3, RankTypes
    <3>5. rank[Bases[x][i].base] < k BY <3>3, <3>4
    <3>6. z[2] = 0 BY <1>1, <3>3, <3>5
    <3> QED BY <3>2, <3>3, <3>6
  <2> QED BY <2>2, <2>3
<1>2. Z(0)
  <2>1. ASSUME NEW rank, Ranks(rank), NEW x \in Types PROVE ~(rank[x] < 0)
    <3>1. rank[x] \in Nat BY <2>1, RankTypes
    <3> QED BY <3>1
  <2> QED BY <2>1
<1>3. PICK rank : Ranks(rank) BY HierarchyAssumption DEF Ranks
<1>4. PICK S : S = {n \in Nat : Z(n)} OBVIOUS
<1>5. Nat \subseteq S
  <2> HIDE DEF Z
  <2>1. 0 \in S /\ \A n \in Nat : n \in S => n + 1 \in S BY <1>1, <1>2, <1>4
  <2> QED BY <2>1, NatInd
<1>6. PICK n \in Nat : \A x \in Types : rank[x] < n BY <1>3, RankTypes
<1>7. Z(n)
  <2> HIDE DEF Z
  <2> QED BY <1>4, <1>5, <1>6
<1> QED BY <1>3, <1>6, <1>7

(* ---------------------------------------------------------------------- *)
(* The clauses of a landing pad                                            *)

Hit(k) == k = CatchAll \/ eh_type_matches(g_eh_ti, k)
HitsIn(q) == {i \in DOMAIN q : Hit(q[i])}
Picks(q) == IF HitsIn(q) = {} \/ q[Min(HitsIn(q))] = CatchAll THEN NoType ELSE q[Min(HitsIn(q))]

LEMMA SelectorPicks ==
  /\ \A d : Hits(d) = HitsIn(d.clauses) /\ Selector(d) = Picks(d.clauses)
  /\ \A o : Selector(Desc(o)) = Picks(ClausesOf(o)) /\ Hits(Desc(o)) = HitsIn(ClausesOf(o))
<1>1. \A d : Hits(d) = HitsIn(d.clauses) BY DEF Hits, HitsIn, Hit
<1>2. \A d : Selector(d) = Picks(d.clauses) BY <1>1, Zenon DEF Selector, Picks
<1>3. \A o : Desc(o).clauses = ClausesOf(o) BY DEF Desc
<1> QED BY <1>1, <1>2, <1>3

LEMMA MinIs ==
  ASSUME NEW T, T \subseteq Nat, NEW m \in T, \A y \in T : m <= y
  PROVE  Min(T) = m
<1>1. PICK x : x = Min(T) OBVIOUS
<1>2. x \in T /\ x <= m BY <1>1, MinIn
<1>3. m <= x /\ x \in Nat /\ m \in Nat BY <1>2
<1>4. x = m BY <1>2, <1>3
<1> QED BY <1>1, <1>4

LEMMA HitsRange ==
  ASSUME NEW q \in Seq(Clauses)
  PROVE  DOMAIN q = 1 .. Len(q) /\ Len(q) \in Nat /\ HitsIn(q) \subseteq 1 .. Len(q)
<1>1. DOMAIN q = 1 .. Len(q) /\ Len(q) \in Nat BY LenProperties
<1> QED BY <1>1 DEF HitsIn

LEMMA HitsMin ==
  ASSUME NEW q \in Seq(Clauses), HitsIn(q) # {}
  PROVE  \E j \in HitsIn(q) : j = Min(HitsIn(q)) /\ \A y \in HitsIn(q) : j <= y
<1>1. HitsIn(q) \subseteq Nat BY HitsRange
<1> QED BY <1>1, MinIn

(* The first clause that hits, of two sequences of clauses.                *)
LEMMA PicksFirst ==
  ASSUME NEW a \in Seq(Clauses), NEW b \in Seq(Clauses)
  PROVE  /\ HitsIn(a) = {} => Picks(a \o b) = Picks(b)
         /\ HitsIn(a) # {} => Picks(a \o b) = Picks(a)
<1>1. PICK c : c = a \o b OBVIOUS
<1>2. /\ c \in Seq(Clauses) /\ Len(c) = Len(a) + Len(b)
      /\ \A i \in 1 .. Len(a) + Len(b) : c[i] = IF i <= Len(a) THEN a[i] ELSE b[i - Len(a)]
  BY <1>1, ConcatProperties
<1>3. PICK m \in Nat, n \in Nat : m = Len(a) /\ n = Len(b) BY HitsRange
<1>4. DOMAIN a = 1 .. m /\ DOMAIN b = 1 .. n /\ DOMAIN c = 1 .. m + n BY <1>2, <1>3, HitsRange
<1>5. \A i \in 1 .. m : c[i] = a[i] /\ i \in 1 .. m + n
  <2>1. \A i \in 1 .. m : i \in 1 .. m + n /\ i <= m OBVIOUS
  <2> QED BY <1>2, <1>3, <2>1
<1>6. \A i \in 1 .. n : c[i + m] = b[i] /\ i + m \in 1 .. m + n
  <2>1. \A i \in 1 .. n : i + m \in 1 .. m + n /\ ~(i + m <= m) /\ (i + m) - m = i OBVIOUS
  <2> QED BY <1>2, <1>3, <2>1
<1>7. \A i \in 1 .. m + n : i \in 1 .. m \/ \E j \in 1 .. n : i = j + m
  <2>1. \A i \in 1 .. m + n : i \in 1 .. m \/ (i - m \in 1 .. n /\ i = (i - m) + m) OBVIOUS
  <2> QED BY <2>1
<1>8. CASE HitsIn(a) = {}
  <2>1. HitsIn(c) = {i + m : i \in HitsIn(b)}
    <3>1. ASSUME NEW i \in HitsIn(c) PROVE i \in {j + m : j \in HitsIn(b)}
      <4>1. i \in 1 .. m + n /\ Hit(c[i]) BY <1>4 DEF HitsIn
      <4>2. i \notin 1 .. m BY <1>4, <1>5, <1>8, <4>1 DEF HitsIn
      <4>3. PICK j \in 1 .. n : i = j + m BY <1>7, <4>1, <4>2
      <4>4. j \in HitsIn(b) BY <1>4, <1>6, <4>1, <4>3 DEF HitsIn
      <4> QED BY <4>3, <4>4
    <3>2. ASSUME NEW j \in HitsIn(b) PROVE j + m \in HitsIn(c)
      <4>1. j \in 1 .. n /\ Hit(b[j]) BY <1>4 DEF HitsIn
      <4> QED BY <1>4, <1>6, <4>1 DEF HitsIn
    <3> QED BY <3>1, <3>2
  <2>2. CASE HitsIn(b) = {}
    <3>1. HitsIn(c) = {} BY <2>1, <2>2
    <3>2. Picks(c) = NoType /\ Picks(b) = NoType BY <2>2, <3>1, Zenon DEF Picks
    <3> QED BY <1>1, <1>8, <3>2
  <2>3. CASE HitsIn(b) # {}
    <3>1. PICK j \in HitsIn(b) : j = Min(HitsIn(b)) /\ \A y \in HitsIn(b) : j <= y
      BY <2>3, HitsMin
    <3>2. HitsIn(b) \subseteq 1 .. n /\ j \in 1 .. n BY <1>3, HitsRange
    <3>3. j + m \in HitsIn(c) /\ \A y \in HitsIn(c) : j + m <= y
      <4>1. \A y \in HitsIn(b) : j + m <= y + m BY <3>1, <3>2
      <4> QED BY <2>1, <4>1
    <3>4. HitsIn(c) \subseteq Nat BY <1>2, <1>4, HitsRange
    <3>5. Min(HitsIn(c)) = j + m BY <3>3, <3>4, MinIs
    <3>6. c[j + m] = b[j] BY <1>6, <3>2
    <3>7. HitsIn(c) # {} BY <3>3
    <3>8. Picks(c) = IF c[j + m] = CatchAll THEN NoType ELSE c[j + m]
      BY <3>5, <3>7, Zenon DEF Picks
    <3>9. Picks(b) = IF b[j] = CatchAll THEN NoType ELSE b[j] BY <2>3, <3>1, Zenon DEF Picks
    <3>10. Picks(c) = Picks(b) BY <3>6, <3>8, <3>9
    <3> QED BY <1>1, <1>8, <3>10
  <2> QED BY <1>8, <2>2, <2>3
<1>9. CASE HitsIn(a) # {}
  <2>1. PICK j \in HitsIn(a) : j = Min(HitsIn(a)) /\ \A y \in HitsIn(a) : j <= y
    BY <1>9, HitsMin
  <2>2. j \in 1 .. m BY <1>3, HitsRange
  <2>3. j \in HitsIn(c) BY <1>4, <1>5, <2>2 DEF HitsIn
  <2>4. ASSUME NEW y \in HitsIn(c) PROVE j <= y
    <3>1. y \in 1 .. m + n /\ Hit(c[y]) BY <1>4 DEF HitsIn
    <3>2. CASE y \in 1 .. m
      <4>1. y \in HitsIn(a) BY <1>4, <1>5, <3>1, <3>2 DEF HitsIn
      <4> QED BY <2>1, <4>1
    <3>3. CASE y \notin 1 .. m BY <2>2, <3>1, <3>3
    <3> QED BY <3>2, <3>3
  <2>5. HitsIn(c) \subseteq Nat BY <1>2, <1>4, HitsRange
  <2>6. Min(HitsIn(c)) = j BY <2>3, <2>4, <2>5, MinIs
  <2>7. c[j] = a[j] BY <1>5, <2>2
  <2>8. HitsIn(c) # {} BY <2>3
  <2>9. Picks(c) = IF c[j] = CatchAll THEN NoType ELSE c[j] BY <2>6, <2>8, Zenon DEF Picks
  <2>10. Picks(a) = IF a[j] = CatchAll THEN NoType ELSE a[j] BY <1>9, <2>1, Zenon DEF Picks
  <2>11. Picks(c) = Picks(a) BY <2>7, <2>9, <2>10
  <2> QED BY <1>1, <1>9, <2>11
<1> QED BY <1>8, <1>9

(* A scope that none of whose clauses hits does not change the selector.   *)
LEMMA SelectorPast ==
  ASSUME NEW o \in Seq(Scope), NEW s \in Scope, HitsIn(s.clauses) = {}
  PROVE  Selector(Desc(Append(o, s))) = Selector(Desc(o))
<1>1. s.clauses \in Seq(Clauses) /\ ClausesOf(o) \in Seq(Clauses) BY ClausesType, ScopeClauses
<1>2. ClausesOf(Append(o, s)) = s.clauses \o ClausesOf(o) BY <1>1, ClausesAppend
<1>3. Picks(s.clauses \o ClausesOf(o)) = Picks(ClausesOf(o)) BY <1>1, PicksFirst
<1> QED BY <1>2, <1>3, SelectorPicks

LEMMA NoTypeApart == NoType \notin Clauses
<1>1. NoType # CatchAll BY DEF NoType, CatchAll
<1>2. NoType \notin Types BY CartAssumption
<1> QED BY <1>1, <1>2 DEF Clauses

(* The comparisons of the landing pad with the selector find the clause    *)
(* that stopped the walk, or none where none of this scope did.            *)
Chosen(q, pad) == {i \in DOMAIN q : q[i] \in {pad, CatchAll}}
SameFirst(T, U) == (T = {} <=> U = {}) /\ (T # {} => Min(T) = Min(U))

LEMMA SelectsWhatHits ==
  ASSUME NEW o \in Seq(Scope), NEW s \in Scope
  PROVE  SameFirst(Chosen(s.clauses, Selector(Desc(Append(o, s)))), HitsIn(s.clauses))
<1> SUFFICES ASSUME NEW pad, pad = Selector(Desc(Append(o, s))),
                    NEW T, T = Chosen(s.clauses, pad)
             PROVE  (T = {} <=> HitsIn(s.clauses) = {})
                    /\ (T # {} => Min(T) = Min(HitsIn(s.clauses)))
  BY DEF SameFirst
<1>1. PICK a \in Seq(Clauses), b \in Seq(Clauses) : a = s.clauses /\ b = ClausesOf(o)
  BY ClausesType, ScopeClauses
<1>2. pad = Picks(a \o b)
  <2>1. ClausesOf(Append(o, s)) = s.clauses \o ClausesOf(o) BY <1>1, ClausesAppend
  <2> QED BY <1>1, <2>1, SelectorPicks
<1>3. T = {i \in 1 .. Len(a) : a[i] \in {pad, CatchAll}} BY <1>1, HitsRange DEF Chosen
<1>4. \A i \in 1 .. Len(a) : a[i] \in Clauses BY ElementOfSeq
<1>5. CASE HitsIn(a) = {}
  <2>1. pad = Picks(b) BY <1>2, <1>5, PicksFirst
  <2>2. ASSUME NEW i \in T PROVE FALSE
    <3>1. i \in 1 .. Len(a) /\ a[i] \in {pad, CatchAll} /\ a[i] \in Clauses BY <1>3, <1>4
    <3>2. ~Hit(a[i]) BY <1>5, <3>1, HitsRange DEF HitsIn
    <3>3. a[i] = pad /\ pad # NoType BY <3>1, <3>2, NoTypeApart DEF Hit
    <3>4. HitsIn(b) # {} /\ pad = b[Min(HitsIn(b))] BY <2>1, <3>3 DEF Picks
    <3>5. Min(HitsIn(b)) \in HitsIn(b) BY <3>4, HitsMin
    <3>6. Hit(pad) BY <3>4, <3>5 DEF HitsIn
    <3> QED BY <3>2, <3>3, <3>6
  <2> QED BY <1>1, <1>5, <2>2
<1>6. CASE HitsIn(a) # {}
  <2>1. pad = Picks(a) BY <1>2, <1>6, PicksFirst
  <2>2. PICK j \in HitsIn(a) : j = Min(HitsIn(a)) /\ \A y \in HitsIn(a) : j <= y
    BY <1>6, HitsMin
  <2>3. j \in 1 .. Len(a) /\ Hit(a[j]) BY HitsRange DEF HitsIn
  <2>4. a[j] = CatchAll \/ a[j] = pad BY <1>6, <2>1, <2>2 DEF Picks
  <2>5. j \in T BY <1>3, <2>3, <2>4
  <2>6. ASSUME NEW i \in T PROVE j <= i
    <3>1. i \in 1 .. Len(a) /\ a[i] \in {pad, CatchAll} /\ a[i] \in Clauses BY <1>3, <1>4
    <3>2. Hit(a[i])
      <4>1. CASE a[i] = CatchAll BY <4>1 DEF Hit
      <4>2. CASE a[i] = pad
        <5>1. pad # NoType BY <3>1, <4>2, NoTypeApart
        <5>2. pad = a[j] BY <1>6, <2>1, <2>2, <5>1 DEF Picks
        <5> QED BY <2>3, <4>2, <5>2
      <4> QED BY <3>1, <4>1, <4>2
    <3>3. i \in HitsIn(a) BY <3>1, <3>2, HitsRange DEF HitsIn
    <3> QED BY <2>2, <3>3
  <2>7. T \subseteq Nat BY <1>3
  <2>8. Min(T) = j BY <2>5, <2>6, <2>7, MinIs
  <2> QED BY <1>1, <1>6, <2>2, <2>5, <2>8
<1> QED BY <1>5, <1>6

(* What stops the walk.                                                    *)
LEMMA CatchesOf ==
  ASSUME NEW o \in Seq(Scope)
  PROVE  Catches(Desc(o)) <=> \E i \in DOMAIN o : IsCleanup(o[i]) \/ HitsIn(o[i].clauses) # {}
<1>1. ASSUME NEW j \in HitsIn(ClausesOf(o)) PROVE \E i \in DOMAIN o : HitsIn(o[i].clauses) # {}
  <2>1. PICK k : k = ClausesOf(o)[j] OBVIOUS
  <2>2. j \in DOMAIN ClausesOf(o) /\ Hit(k) BY <2>1 DEF HitsIn
  <2>3. \E i \in DOMAIN o : \E x \in DOMAIN o[i].clauses : o[i].clauses[x] = k
    BY <2>1, <2>2, ClausesFrom
  <2> QED BY <2>2, <2>3 DEF HitsIn
<1>2. ASSUME NEW i \in DOMAIN o, HitsIn(o[i].clauses) # {} PROVE HitsIn(ClausesOf(o)) # {}
  <2>1. PICK x \in DOMAIN o[i].clauses : Hit(o[i].clauses[x]) BY <1>2 DEF HitsIn
  <2>2. PICK k : k = o[i].clauses[x] OBVIOUS
  <2>3. \E j \in DOMAIN ClausesOf(o) : ClausesOf(o)[j] = k BY <2>2, ClausesFrom
  <2> QED BY <2>1, <2>2, <2>3 DEF HitsIn
<1>3. Catches(Desc(o)) <=> HitsIn(ClausesOf(o)) # {} \/ \E i \in DOMAIN o : IsCleanup(o[i])
  BY SelectorPicks DEF Catches, Desc
<1> QED BY <1>1, <1>2, <1>3

(* ---------------------------------------------------------------------- *)
(* What a landing pad reads                                                *)

(* The exception has a type; a landing pad has the selector of the scopes  *)
(* that are left, as one that is passed changes nothing.                   *)
Reads(a) == a.pad = Selector(Desc(a.scopes))
Landing ==
  /\ g_eh_exc # NoObject => g_eh_ti \in Types
  /\ mode # "halt" => \A d \in Pads : Reads(acts[run][d])

LEMMA ReadsKept == ASSUME UNCHANGED g_eh_ti PROVE \A a : Reads(a)' <=> Reads(a)
<1>1. \A d : Selector(d)' = Selector(d) BY DEF Selector, Hits
<1> QED BY <1>1 DEF Reads

LEMMA LandingKept ==
  ASSUME Landing, mode # "halt", UNCHANGED <<g_eh_exc, g_eh_ti, run>>,
         \A d \in Pads' : d \in Pads /\ acts'[run][d] = acts[run][d]
  PROVE  Landing'
<1>1. ASSUME NEW d \in Pads' PROVE Reads(acts[run][d])'
  <2>1. PICK x : x = acts[run][d] OBVIOUS
  <2>2. acts'[run][d] = x /\ Reads(x) BY <1>1, <2>1 DEF Landing
  <2>3. Reads(x)' BY <2>2, ReadsKept
  <2>4. x = (acts[run][d])' BY <2>2
  <2> QED BY <2>3, <2>4 DEF Reads
<1> QED BY <1>1 DEF Landing

(* The landing pad leaves a scope that would not have stopped the walk.    *)
LEMMA LandingLeft ==
  ASSUME Typed, Landing, mode # "halt", UNCHANGED <<g_eh_exc, g_eh_ti, run>>,
         Top.scopes # <<>>, HitsIn(Inner.clauses) = {}, Pads' = Pads,
         \A d \in 1 .. Len(acts[run]) - 1 : acts'[run][d] = acts[run][d],
         acts'[run][Len(acts[run])] = [Top EXCEPT !.scopes = Outer]
  PROVE  Landing'
<1>1. PICK n \in Nat : n = Len(acts[run]) /\ Top = acts[run][n] BY TopTypes, ActsTypes
<1>2. ASSUME NEW d \in Pads' PROVE Reads(acts[run][d])'
  <2>1. Reads(acts[run][d]) /\ d \in 1 .. n BY <1>1 DEF Landing, Pads
  <2>2. CASE d \in 1 .. n - 1
    <3>1. PICK x : x = acts[run][d] OBVIOUS
    <3>2. acts'[run][d] = x /\ Reads(x) BY <1>1, <2>1, <2>2, <3>1
    <3>3. Reads(x)' BY <3>2, ReadsKept
    <3>4. x = (acts[run][d])' BY <3>2
    <3> QED BY <3>3, <3>4 DEF Reads
  <2>3. CASE d = n
    <3>1. PICK o \in Seq(Scope), s \in Scope :
            o = Outer /\ s = Inner /\ Top.scopes = Append(o, s)
      BY TopTypes, StackTypes
    <3>2. PICK x : x = [Top EXCEPT !.scopes = Outer] OBVIOUS
    <3>3. x.pad = Top.pad /\ x.scopes = o
      <4>1. Top \in Activation BY TopTypes
      <4> QED BY <3>1, <3>2, <4>1 DEF Activation
    <3>4. Top.pad = Selector(Desc(Append(o, s))) BY <1>1, <2>1, <2>3, <3>1 DEF Reads
    <3>5. Selector(Desc(Append(o, s))) = Selector(Desc(o)) BY <3>1, SelectorPast
    <3>6. Reads(x) BY <3>3, <3>4, <3>5 DEF Reads
    <3>7. Reads(x)' BY <3>6, ReadsKept
    <3>8. x = (acts[run][d])' BY <1>1, <2>3, <3>2
    <3> QED BY <3>7, <3>8 DEF Reads
  <2>4. d \in 1 .. n - 1 \/ d = n BY <2>1
  <2> QED BY <2>2, <2>3, <2>4
<1> QED BY <1>2 DEF Landing

LEMMA LandingNone ==
  ASSUME Landing, Pads' = {}, UNCHANGED <<g_eh_exc, g_eh_ti>>
  PROVE  Landing'
BY DEF Landing

(* What the program does between exceptions leaves the landing pads alone. *)
LEMMA LandingRuns ==
  ASSUME Typed, Landing, mode # "halt", UNCHANGED <<g_eh_exc, g_eh_ti, run>>, Top.pad = Running,
         NEW a, a.pad = Running \/ a = acts[run][Len(acts[run]) - 1],
         \/ Becomes(Len(acts[run]), a) /\ a.pad = Running
         \/ Becomes(Len(acts[run]) + 1, a) /\ a.pad = Running
         \/ /\ Becomes(Len(acts[run]) - 1, a) /\ Len(acts[run]) > 1
            /\ a = acts[run][Len(acts[run]) - 1]
  PROVE  Landing' /\ Pads' = Pads
<1>1. PICK n \in Nat \ {0} : n = Len(acts[run]) /\ Top = acts[run][n] BY TopTypes, ActsTypes
<1>2. Pads' = Pads BY PadsStay
<1>3. \A d \in Pads : d \in 1 .. n /\ d # n BY <1>1 DEF Pads
<1>4. \A d \in Pads : d \in 1 .. n - 1 BY <1>1, <1>3
<1>5. \A d \in 1 .. n - 1 : acts'[run][d] = acts[run][d]
  <2>1. CASE Becomes(n, a) BY <2>1 DEF Becomes
  <2>2. CASE Becomes(n + 1, a)
    <3>1. (n + 1) - 1 = n /\ \A d \in 1 .. n - 1 : d \in 1 .. n OBVIOUS
    <3> QED BY <2>2, <3>1 DEF Becomes
  <2>3. CASE Becomes(n - 1, a) /\ a = acts[run][n - 1]
    <3>1. \A d \in 1 .. n - 1 : d \in 1 .. (n - 1) - 1 \/ d = n - 1 OBVIOUS
    <3> QED BY <2>3, <3>1 DEF Becomes
  <2> QED BY <1>1, <2>1, <2>2, <2>3
<1>6. \A d \in Pads' : d \in Pads /\ acts'[run][d] = acts[run][d] BY <1>2, <1>4, <1>5
<1> QED BY <1>2, <1>6, LandingKept

LEMMA LandingInvoke == Typed /\ Landing /\ Invoke => Landing' /\ Pads' = Pads
<1> SUFFICES ASSUME Typed, Landing, Invoke PROVE Landing' /\ Pads' = Pads OBVIOUS
<1>1. mode = "run" /\ UNCHANGED <<g_eh_exc, g_eh_ti, run>> /\ Top.pad = Running
  BY DEF Invoke, Call, gvars, Runs
<1>2. PICK a \in Activation : a = Fresh(<<>>) BY EmptyStack
<1>3. a.pad = Running BY <1>2 DEF Fresh
<1>4. Becomes(Len(acts[run]) + 1, a) BY <1>2, MakesCall DEF Invoke, Call
<1> QED BY <1>1, <1>3, <1>4, LandingRuns

LEMMA LandingReturn == Typed /\ Landing /\ InvokeReturns => Landing' /\ Pads' = Pads
<1> SUFFICES ASSUME Typed, Landing, InvokeReturns PROVE Landing' /\ Pads' = Pads OBVIOUS
<1>1. mode = "run" /\ UNCHANGED <<g_eh_exc, g_eh_ti, run>> /\ Top.pad = Running /\ Len(acts[run]) > 1
  BY DEF InvokeReturns, Return, gvars, Runs, Callee
<1>2. PICK a : a = acts[run][Len(acts[run]) - 1] OBVIOUS
<1>3. Becomes(Len(acts[run]) - 1, a) BY <1>1, <1>2, MakesReturn DEF InvokeReturns, Return
<1> QED BY <1>1, <1>2, <1>3, LandingRuns

LEMMA LandingScopes == Typed /\ Landing /\ Scopes => Landing' /\ Pads' = Pads
<1> SUFFICES ASSUME Typed, Landing, Scopes PROVE Landing' /\ Pads' = Pads OBVIOUS
<1>1. mode = "run" /\ UNCHANGED <<g_eh_exc, g_eh_ti>> BY DEF Scopes, gvars
<1>2. PICK a : Becomes(Len(acts[run]), a) /\ a.pad = Running /\ Top.pad = Running /\ UNCHANGED run
  <2>1. CASE Enter
    <3>1. PICK s \in Scope : Open(s) BY <2>1, EnterOpens
    <3>2. PICK a : a = Fresh(Append(Top.scopes, s)) OBVIOUS
    <3>3. Becomes(Len(acts[run]), a) /\ UNCHANGED run /\ Top.pad = Running
      BY <3>1, <3>2, OpenTypes DEF Open, Runs
    <3>4. a.pad = Running BY <3>2 DEF Fresh
    <3> QED BY <3>3, <3>4
  <2>2. CASE Leave
    <3>1. PICK a : a = Fresh(Outer) OBVIOUS
    <3>2. Becomes(Len(acts[run]), a) /\ UNCHANGED run /\ Top.pad = Running
      BY <2>2, <3>1, Leaves DEF Leave, Runs
    <3>3. a.pad = Running BY <3>1 DEF Fresh
    <3> QED BY <3>2, <3>3
  <2> QED BY <2>1, <2>2 DEF Scopes
<1> QED BY <1>1, <1>2, LandingRuns

LEMMA PadsQuiet == ASSUME Typed, Quiet(run) PROVE Pads = {}
<1>1. run \in Coros BY TopTypes
<1> QED BY <1>1, ActsTypes DEF Pads, Quiet, Fresh

LEMMA LandingSwap ==
  ASSUME ~SwapsInScopes, NEW c \in Coros
  PROVE  Typed /\ Chained /\ Landing /\ SwapTo(c) => Landing' /\ Pads' = {} /\ Pads = {}
<1> SUFFICES ASSUME Typed, Chained, Landing, SwapTo(c) PROVE Landing' /\ Pads' = {} /\ Pads = {}
  OBVIOUS
<1>1. UNCHANGED <<g_eh_exc, g_eh_ti, acts>> /\ run' = c /\ c # run /\ Quiet(run)
  BY DEF SwapTo, Swap, gvars
<1>2. Quiet(c) BY <1>1 DEF Chained
<1>3. Pads' = {}
  <2>1. Pads' = {d \in 1 .. Len(acts[c]) : acts[c][d].pad # Running} BY <1>1 DEF Pads
  <2> QED BY <1>2, <2>1, ActsTypes DEF Quiet, Fresh
<1> QED BY <1>1, <1>3, PadsQuiet, LandingNone

LEMMA LandingThrow ==
  ASSUME ~Overlaps, NEW e \in Objects, NEW t \in Types
  PROVE  Typed /\ Counts /\ Landing /\ __cxa_throw(e, t) => Landing'
<1> SUFFICES ASSUME Typed, Counts, Landing, __cxa_throw(e, t) PROVE Landing' OBVIOUS
<1>1. /\ mode = "run" /\ Alive = {} /\ UNCHANGED <<acts, run>> /\ g_eh_ti' = t
  BY DEF __cxa_throw
<1>2. g_eh_exc = NoObject BY <1>1 DEF Typed, TypeOK
<1>3. Pads = {} BY <1>1, <1>2 DEF Counts, InFlight
<1>4. Pads' = {} BY <1>1, <1>3 DEF Pads
<1> QED BY <1>1, <1>4 DEF Landing

(* Steps that leave the activations alone.                                 *)
LEMMA LandingSame ==
  ASSUME Landing, mode # "halt", UNCHANGED <<g_eh_exc, g_eh_ti, acts, run>>
  PROVE  Landing' /\ Pads' = Pads
<1>1. Pads' = Pads BY DEF Pads
<1> QED BY <1>1, LandingKept

LEMMA LandingThrows ==
  Landing /\ (__cxa_rethrow \/ OutOfMemory \/ __cvm_eh_resume \/ __cvm_eh_terminate) => Landing'
BY LandingSame DEF __cxa_rethrow, OutOfMemory, __cvm_eh_resume, __cvm_eh_terminate, gvars

(* A turn of the walk either passes the innermost call left or lands in it.*)
LandsIn(k) ==
  LET a == [scopes |-> acts[run][k].scopes, pad |-> Selector(Desc(acts[run][k].scopes))]
  IN  /\ a \in Activation /\ a.pad # Running /\ Becomes(k, a)
      /\ acts' = [acts EXCEPT ![run] = Append(SubSeq(@, 1, k - 1), a)]

LEMMA Walks ==
  ASSUME Typed, Chained, Counts, eh_unwind
  PROVE  \E k \in Pending(run) :
           /\ k \in 1 .. Len(acts[run]) - 1
           /\ \A d \in Pending(run) : d > k => ~Catches(Desc(acts[run][d].scopes))
           /\ Catches(Desc(acts[run][k].scopes)) =>
                /\ LandsIn(k) /\ run' = run /\ mode' = "run" /\ Pads' = {k}
           /\ ~Catches(Desc(acts[run][k].scopes)) => UNCHANGED <<acts, run, mode>> /\ Pads' = Pads
<1>1. PICK k \in Pending(run) :
           /\ g_eh_top = <<run, k>> /\ <<run, k>> \in Addresses
           /\ k \in 1 .. Len(acts[run]) - 1
           /\ frames[<<run, k>>] = [jb |-> acts[run][k].scopes, desc |-> Desc(acts[run][k].scopes),
                                    next |-> FrameBelow(run, k)]
           /\ \A d \in Pending(run) : d > k => ~Catches(Desc(acts[run][d].scopes))
  BY Turn
<1>2. run \in Coros /\ Len(acts[run]) \in 1 .. MaxDepth /\ mode = "unwind"
  BY TopTypes, ActsTypes DEF eh_unwind
<1>3. PICK x : x = Desc(acts[run][k].scopes) OBVIOUS
<1>4. frames[<<run, k>>].desc = x /\ frames[<<run, k>>].jb = acts[run][k].scopes BY <1>1, <1>3
<1>5. ASSUME ~Catches(x) PROVE UNCHANGED <<acts, run, mode>> /\ Pads' = Pads
  BY <1>1, <1>4, <1>5 DEF eh_unwind, Pads
<1>6. ASSUME Catches(x) PROVE LandsIn(k) /\ run' = run /\ mode' = "run" /\ Pads' = {k}
  <2>1. PICK f \in Addresses : f = <<run, k>> BY <1>1
  <2>2. longjmp(f) BY <1>1, <1>4, <1>6, <2>1 DEF eh_unwind
  <2>3. f[1] = run /\ f[2] = k /\ k <= Len(acts[run]) BY <1>1, <1>2, <2>1
  <2>4. PICK a \in Activation : a = [scopes |-> frames[f].jb, pad |-> Selector(frames[f].desc)]
    BY <2>2, <2>3, Landed
  <2>5. acts' = [acts EXCEPT ![run] = Append(SubSeq(@, 1, k - 1), a)] /\ run' = run /\ mode' = "run"
    BY <2>2, <2>3, <2>4, Landed
  <2>6. k \in 1 .. Len(acts[run]) /\ k \in 1 .. Len(acts[run]) + 1 /\ k < Len(acts[run])
    BY <1>1, <1>2
  <2>7. Becomes(k, a) BY <2>5, <2>6, MakesLanding
  <2>8. a = [scopes |-> acts[run][k].scopes, pad |-> Selector(Desc(acts[run][k].scopes))]
    BY <1>3, <1>4, <2>1, <2>4
  <2>9. a.pad # Running
    <3>1. frames[f].desc \in Descriptor BY DEF Typed
    <3>2. Selector(frames[f].desc) \in Catchable BY <3>1, SelectorType
    <3> QED BY <2>4, <3>2, RunningApart
  <2>10. Pads' = {k}
    <3>1. Pads' = {d \in Pads : d < k} \cup {d \in {k} : a.pad # Running}
      BY <2>5, <2>6, <2>7, PadsAfter
    <3>2. \A d \in Pads : d = Len(acts[run]) BY <1>2 DEF Counts, OnePad
    <3>3. ~(Len(acts[run]) < k) BY <1>2, <2>6
    <3> QED BY <2>9, <3>1, <3>2, <3>3
  <2>11. LandsIn(k) BY <2>5, <2>7, <2>8, <2>9 DEF LandsIn
  <2> QED BY <2>5, <2>10, <2>11
<1> QED BY <1>1, <1>3, <1>5, <1>6

LEMMA LandingUnwind == Typed /\ Chained /\ Counts /\ Landing /\ eh_unwind => Landing'
<1> SUFFICES ASSUME Typed, Chained, Counts, Landing, eh_unwind PROVE Landing' OBVIOUS
<1>1. PICK k \in Pending(run) :
           /\ Catches(Desc(acts[run][k].scopes)) =>
                /\ LandsIn(k) /\ run' = run /\ mode' = "run" /\ Pads' = {k}
           /\ ~Catches(Desc(acts[run][k].scopes)) => UNCHANGED <<acts, run, mode>>
  BY Walks
<1>2. UNCHANGED <<g_eh_exc, g_eh_ti>> /\ mode = "unwind" BY DEF eh_unwind, gvars
<1>3. CASE Catches(Desc(acts[run][k].scopes))
  <2>1. PICK a : a = [scopes |-> acts[run][k].scopes, pad |-> Selector(Desc(acts[run][k].scopes))]
    OBVIOUS
  <2>2. acts'[run][k] = a BY <1>1, <1>3, <2>1 DEF LandsIn, Becomes
  <2>3. Reads(a) BY <2>1 DEF Reads
  <2>4. Reads(a)' BY <1>2, <2>3, ReadsKept
  <2>5. a = (acts[run][k])' BY <1>1, <1>3, <2>2
  <2>6. Reads(acts[run][k])' BY <2>4, <2>5 DEF Reads
  <2> QED BY <1>1, <1>2, <1>3, <2>6 DEF Landing
<1>4. CASE ~Catches(Desc(acts[run][k].scopes)) BY <1>1, <1>2, <1>4, LandingSame
<1> QED BY <1>3, <1>4

LEMMA PadPlace == ASSUME Typed, Counts, mode # "halt", ~Runs PROVE Pads = {Len(acts[run])}
<1>1. Top = acts[run][Len(acts[run])] /\ Len(acts[run]) \in 1 .. Len(acts[run])
  BY TopTypes, ActsTypes
<1>2. Len(acts[run]) \in Pads BY <1>1 DEF Pads, Runs
<1> QED BY <1>2 DEF Counts, OnePad

LEMMA NoneHit == HitsIn(<<>>) = {}
BY DEF HitsIn

LEMMA HandlersNat == ASSUME Typed, Chained PROVE Handlers \in Nat
<1>1. PICK e : e = g_eh_exc OBVIOUS
<1>2. Cardinality(HandlersOf(e)) \in Nat BY HandlersFinite
<1> QED BY <1>1, <1>2 DEF Handlers

(* The handler that is left by an exception has it still: the count is     *)
(* negative.                                                               *)
LEMMA EndKeeps ==
  ASSUME Typed, Chained, Counts, mode = "run", ~Runs, __cxa_end_catch
  PROVE  UNCHANGED <<g_eh_exc, g_eh_ti>>
<1>1. g_eh_exc # NoObject /\ Count = -Handlers
  <2>1. InFlight BY PadPlace DEF InFlight
  <2> QED BY <2>1 DEF Counts
<1>2. PICK N \in Nat : N = Handlers BY HandlersNat
<1>3. Count # 1
  <2>1. \A n \in Int : -n = 0 - n OBVIOUS
  <2>2. Count = 0 - N BY <1>1, <1>2, <2>1
  <2> QED BY <1>2, <2>2
<1> QED BY <1>1, <1>3 DEF __cxa_end_catch, Count, gvars

LEMMA LandingLeaveHandler == Typed /\ Chained /\ Counts /\ Landing /\ LeaveHandler => Landing'
<1> SUFFICES ASSUME Typed, Chained, Counts, Landing, LeaveHandler PROVE Landing' OBVIOUS
<1>1. /\ mode = "run" /\ Top.scopes # <<>> /\ Inner.kind = "handler" /\ PadLeave /\ __cxa_end_catch
      /\ UNCHANGED <<run, mode>>
  BY DEF LeaveHandler, Within, PadLeave
<1>2. PICK a : a = [Top EXCEPT !.scopes = Outer] OBVIOUS
<1>3. Becomes(Len(acts[run]), a) /\ a.scopes = Outer /\ a.pad = Top.pad
  <2>1. Top \in Activation BY TopTypes
  <2> QED BY <1>1, <1>2, <2>1, PadLeaves DEF Activation
<1>4. Pads' = Pads BY <1>1, <1>3, PadsStay
<1>5. Inner.clauses = <<>>
  <2>1. Inner \in Scope BY <1>1, TopTypes
  <2> QED BY <1>1, <2>1 DEF Scope, Try, Noexcept, Guard, Handler
<1>6. CASE Runs
  <2>1. g_eh_exc' # NoObject => UNCHANGED <<g_eh_exc, g_eh_ti>>
    BY <1>1 DEF __cxa_end_catch, gvars
  <2>2. \A d \in Pads' : d \in Pads /\ acts'[run][d] = acts[run][d]
    <3>1. Len(acts[run]) \in Nat /\ Top = acts[run][Len(acts[run])] BY TopTypes, ActsTypes
    <3>2. \A d \in Pads : d \in 1 .. Len(acts[run]) /\ d # Len(acts[run])
      BY <1>6, <3>1 DEF Pads, Runs
    <3>3. \A d \in Pads : d \in 1 .. Len(acts[run]) - 1 BY <3>1, <3>2
    <3> QED BY <1>3, <1>4, <3>3 DEF Becomes
  <2>3. CASE g_eh_exc' # NoObject BY <1>1, <2>1, <2>2, <2>3, LandingKept
  <2>4. CASE g_eh_exc' = NoObject
    <3>1. Pads = {} \/ g_eh_exc # NoObject BY <1>1 DEF Counts, InFlight
    <3>2. CASE UNCHANGED <<g_eh_exc, g_eh_ti>> BY <1>1, <2>2, <3>2, LandingKept
    <3>3. CASE ~UNCHANGED <<g_eh_exc, g_eh_ti>>
      <4>1. g_eh_exc # NoObject /\ Count = 1 BY <1>1, <3>3 DEF __cxa_end_catch, gvars, Count
      <4>2. Pads = {}
        <5> SUFFICES ASSUME Pads # {} PROVE FALSE OBVIOUS
        <5>1. Count = -Handlers BY <1>1 DEF Counts, InFlight
        <5>2. PICK N \in Nat : N = Handlers BY HandlersNat
        <5>3. \A n \in Int : -n = 0 - n OBVIOUS
        <5>4. 1 = 0 - N BY <4>1, <5>1, <5>2, <5>3
        <5> QED BY <5>2, <5>4
      <4> QED BY <1>4, <2>4, <4>2 DEF Landing
    <3> QED BY <3>2, <3>3
  <2> QED BY <2>3, <2>4
<1>7. CASE ~Runs
  <2>1. UNCHANGED <<g_eh_exc, g_eh_ti>> BY <1>1, <1>7, EndKeeps
  <2>2. HitsIn(Inner.clauses) = {} BY <1>5, NoneHit
  <2>3. \A d \in 1 .. Len(acts[run]) - 1 : acts'[run][d] = acts[run][d] BY <1>3 DEF Becomes
  <2>4. acts'[run][Len(acts[run])] = [Top EXCEPT !.scopes = Outer] BY <1>2, <1>3 DEF Becomes
  <2> QED BY <1>1, <1>4, <2>1, <2>2, <2>3, <2>4, LandingLeft
<1> QED BY <1>6, <1>7

LEMMA LandingDestroy == Typed /\ Counts /\ Landing /\ Destroy => Landing' /\ Pads' = Pads
<1> SUFFICES ASSUME Typed, Counts, Landing, Destroy PROVE Landing' /\ Pads' = Pads OBVIOUS
<1>1. /\ mode = "run" /\ UNCHANGED <<run, g_eh_exc, g_eh_ti>> /\ Top.scopes # <<>>
      /\ Inner.kind = "guard" /\ PadDestroy
  BY DEF Destroy, PadDestroy, PadLeave, Within, gvars
<1>2. PICK L : L = Len(acts[run]) OBVIOUS
<1>3. PICK a : a = [Top EXCEPT !.scopes = Outer] OBVIOUS
<1>4. a.pad = Top.pad /\ L \in 1 .. MaxDepth /\ Top = acts[run][L]
  <2>1. Top \in Activation BY TopTypes
  <2> QED BY <1>2, <1>3, <2>1, TopTypes, ActsTypes DEF Activation
<1>5. /\ \A d \in 1 .. L - 1 : acts'[run][d] = acts[run][d]
      /\ acts'[run][L] = a /\ Pads' = Pads
  <2>1. CASE Becomes(L, a) BY <1>1, <1>2, <1>4, <2>1, PadsStay DEF Becomes
  <2>2. CASE CallsDestructor
    <3>1. /\ Len(acts'[run]) = L + 1 /\ \A d \in 1 .. L - 1 : acts'[run][d] = acts[run][d]
          /\ acts'[run][L] = a /\ acts'[run][L + 1] = Destructor
      BY <1>2, <1>3, <2>2 DEF CallsDestructor
    <3>2. Pads' = {d \in 1 .. L + 1 : acts'[run][d].pad # Running} BY <1>1, <3>1 DEF Pads
    <3>3. Pads = {d \in 1 .. L : acts[run][d].pad # Running} BY <1>2 DEF Pads
    <3>4. acts'[run][L + 1].pad = Running BY <3>1 DEF Destructor, Fresh
    <3>5. \A d \in 1 .. L : acts'[run][d].pad = acts[run][d].pad
      <4>1. \A d \in 1 .. L : d \in 1 .. L - 1 \/ d = L BY <1>4
      <4> QED BY <1>4, <3>1, <4>1
    <3>6. 1 .. L + 1 = (1 .. L) \cup {L + 1} BY <1>4
    <3>7. Pads' = Pads BY <3>2, <3>3, <3>4, <3>5, <3>6
    <3> QED BY <3>1, <3>7
  <2> QED BY <1>1, <1>2, <1>3, <2>1, <2>2, Destroys
<1>6. HitsIn(Inner.clauses) = {}
  <2>1. Inner \in Scope BY <1>1, TopTypes
  <2>2. Inner.clauses = <<>> BY <1>1, <2>1 DEF Scope, Try, Noexcept, Guard, Handler
  <2> QED BY <2>2, NoneHit
<1> QED BY <1>1, <1>2, <1>3, <1>5, <1>6, LandingLeft

(* The landing pad selects, of the scope it looks at, the first clause     *)
(* that hits.                                                              *)
LEMMA PadSelects ==
  ASSUME Typed, Counts, Landing, mode # "halt", ~Runs, Top.scopes # <<>>
  PROVE  SameFirst(Selected(Inner), HitsIn(Inner.clauses))
<1>1. PICK o \in Seq(Scope), s \in Scope : o = Outer /\ s = Inner /\ Top.scopes = Append(o, s)
  BY TopTypes, StackTypes
<1>2. Reads(Top)
  <2>1. Len(acts[run]) \in Pads BY PadPlace
  <2> QED BY <2>1, TopTypes DEF Landing
<1>3. PICK pad : pad = Top.pad OBVIOUS
<1>4. pad = Selector(Desc(Append(o, s))) BY <1>1, <1>2, <1>3 DEF Reads
<1>5. SameFirst(Chosen(s.clauses, Selector(Desc(Append(o, s)))), HitsIn(s.clauses))
  BY SelectsWhatHits
<1>6. Selected(Inner) = Chosen(s.clauses, pad) BY <1>1, <1>3 DEF Selected, Chosen
<1> QED BY <1>1, <1>4, <1>5, <1>6

LEMMA CatchPads ==
  ASSUME Typed, Counts, mode # "halt", ~Runs, Top.scopes # <<>>,
         NEW e \in Exceptional, NEW k \in Clauses, PadCatch(e, k, 0)
  PROVE  Pads' = {}
<1>1. Becomes(Len(acts[run]), Fresh(Append(Outer, Handler(e, k, 0)))) /\ UNCHANGED run
  BY PadCatches DEF PadCatch
<1>2. Len(acts[run]) \in 1 .. Len(acts[run]) + 1 BY TopTypes, ActsTypes
<1>3. PICK a : a = Fresh(Append(Outer, Handler(e, k, 0))) OBVIOUS
<1>4. a.pad = Running BY <1>3 DEF Fresh
<1>5. Pads' = {d \in Pads : d < Len(acts[run])} \cup {d \in {Len(acts[run])} : a.pad # Running}
  BY <1>1, <1>2, <1>3, PadsAfter
<1>6. Pads = {Len(acts[run])} BY PadPlace
<1>7. ~(Len(acts[run]) < Len(acts[run])) BY TopTypes, ActsTypes
<1> QED BY <1>4, <1>5, <1>6, <1>7

LEMMA LeavePads ==
  ASSUME Typed, Top.scopes # <<>>, PadLeave
  PROVE  Pads' = Pads /\ UNCHANGED run
<1>1. PICK a : a = [Top EXCEPT !.scopes = Outer] OBVIOUS
<1>2. Becomes(Len(acts[run]), a) /\ UNCHANGED run BY <1>1, PadLeaves DEF PadLeave
<1>3. a.pad = Top.pad
  <2>1. Top \in Activation BY TopTypes
  <2> QED BY <1>1, <2>1 DEF Activation
<1> QED BY <1>2, <1>3, PadsStay

LEMMA LandingDispatch == Typed /\ Counts /\ Landing /\ Dispatch => Landing'
<1> SUFFICES ASSUME Typed, Counts, Landing, Dispatch PROVE Landing' OBVIOUS
<1>1. /\ mode = "run" /\ ~Runs /\ Top.scopes # <<>> /\ UNCHANGED <<g_eh_exc, g_eh_ti>>
  BY DEF Dispatch, Within, gvars
<1>2. CASE Selected(Inner) = {}
  <2>1. PadLeave /\ UNCHANGED <<mode, run>> BY <1>2, Dispatches DEF PadLeave
  <2>2. PICK a : a = [Top EXCEPT !.scopes = Outer] OBVIOUS
  <2>3. Becomes(Len(acts[run]), a) BY <1>1, <2>1, <2>2, PadLeaves
  <2>4. a.pad = Top.pad
    <3>1. Top \in Activation BY TopTypes
    <3> QED BY <2>2, <3>1 DEF Activation
  <2>5. Pads' = Pads BY <2>1, <2>3, <2>4, PadsStay
  <2>6. \A d \in 1 .. Len(acts[run]) - 1 : acts'[run][d] = acts[run][d] BY <2>3 DEF Becomes
  <2>7. acts'[run][Len(acts[run])] = [Top EXCEPT !.scopes = Outer] BY <2>2, <2>3 DEF Becomes
  <2>8. HitsIn(Inner.clauses) = {} BY <1>1, <1>2, PadSelects DEF SameFirst
  <2> QED BY <1>1, <2>1, <2>5, <2>6, <2>7, <2>8, LandingLeft
<1>3. CASE Selected(Inner) # {}
  <2>1. PICK k \in Clauses : PadCatch(g_eh_exc, k, 0) BY <1>3, Dispatches
  <2>2. PICK e \in Exceptional : e = g_eh_exc BY TypedParts DEF HeadersTyped
  <2>4. Pads' = {} BY <1>1, <2>1, <2>2, CatchPads
  <2> QED BY <1>1, <2>4, LandingNone
<1> QED BY <1>2, <1>3

LEMMA LandingInit == InitEh => Landing
<1> SUFFICES ASSUME InitEh PROVE Landing OBVIOUS
<1>1. Typed BY TypedInit
<1>2. Quiet(run)
  <2>1. PICK a : a = Fresh(<<>>) OBVIOUS
  <2>2. acts[run] = <<a>> BY <2>1, CartAssumption DEF InitEh, InitCart
  <2>3. \A d \in DOMAIN <<a>> : <<a>>[d] = a OBVIOUS
  <2> QED BY <2>1, <2>2, <2>3 DEF Quiet
<1>3. Pads = {} BY <1>1, <1>2, PadsQuiet
<1> QED BY <1>3 DEF Landing, InitEh

LEMMA LandingAll ==
  ASSUME ~Overlaps, ~SwapsInScopes
  PROVE  Typed /\ Chained /\ Counts /\ Landing /\ [NextEh]_vars => Landing'
<1>1. ASSUME Landing, UNCHANGED vars PROVE Landing'
  <2>1. UNCHANGED <<acts, run, mode, g_eh_exc, g_eh_ti>> BY <1>1 DEF vars, gvars
  <2>2. CASE mode = "halt" BY <1>1, <2>1, <2>2 DEF Landing
  <2>3. CASE mode # "halt" BY <1>1, <2>1, <2>3, LandingSame
  <2> QED BY <2>2, <2>3
<1> QED
  BY <1>1, LandingInvoke, LandingReturn, LandingScopes, LandingSwap, LandingThrow, LandingThrows,
     LandingUnwind, LandingLeaveHandler, LandingDestroy, LandingDispatch DEF NextEh, Done

(* ---------------------------------------------------------------------- *)
(* What Exceptions sees of the activations                                 *)

(* Of a landing pad, that it is one.                                       *)
Mark(a) == [a EXCEPT !.pad = IF @ = Running THEN Running ELSE "landed"]
Marks(s) == [d \in DOMAIN s |-> Mark(s[d])]
Seen == [c \in Coros |-> Marks(acts[c])]
Marked == [scopes : Stack, pad : {Running, "landed"}]

LEMMA MarkTypes ==
  ASSUME NEW a \in Activation
  PROVE  /\ Mark(a) \in Marked /\ Mark(a).scopes = a.scopes
         /\ Mark(a).pad = Running <=> a.pad = Running
         /\ a.pad = Running => Mark(a) = a
BY DEF Mark, Marked, Activation, Running

LEMMA MarksTypes ==
  ASSUME NEW s \in Seq(Activation)
  PROVE  /\ Marks(s) \in Seq(Marked) /\ Len(Marks(s)) = Len(s) /\ Len(s) \in Nat
         /\ DOMAIN Marks(s) = 1 .. Len(s) /\ DOMAIN s = 1 .. Len(s)
         /\ \A i \in 1 .. Len(s) : Marks(s)[i] = Mark(s[i]) /\ s[i] \in Activation
<1>1. DOMAIN s = 1 .. Len(s) /\ Len(s) \in Nat BY LenProperties
<1>2. \A i \in 1 .. Len(s) : s[i] \in Activation BY ElementOfSeq
<1>3. \A i \in 1 .. Len(s) : Mark(s[i]) \in Marked BY <1>2, MarkTypes
<1>4. PICK n \in Nat : n = Len(s) BY <1>1
<1>5. PICK m : m = Marks(s) OBVIOUS
<1>6. m = [d \in 1 .. n |-> Mark(s[d])] BY <1>1, <1>4, <1>5 DEF Marks
<1>7. m \in [1 .. n -> Marked] BY <1>3, <1>4, <1>6
<1>8. m \in Seq(Marked) /\ Len(m) = n BY <1>7
<1> QED BY <1>1, <1>2, <1>4, <1>5, <1>6, <1>8

LEMMA MarksAppend ==
  ASSUME NEW s \in Seq(Activation), NEW a \in Activation
  PROVE  Marks(Append(s, a)) = Append(Marks(s), Mark(a))
<1>0. PICK t : t = Append(s, a) OBVIOUS
<1>1. /\ t \in Seq(Activation) /\ Len(t) = Len(s) + 1 /\ t[Len(s) + 1] = a
      /\ \A i \in 1 .. Len(s) : t[i] = s[i]
  BY <1>0, Appended
<1>2. PICK n \in Nat : n = Len(s) BY MarksTypes
<1>3. PICK m \in Seq(Marked) : m = Marks(s) /\ Len(m) = n /\ \A i \in 1 .. n : m[i] = Mark(s[i])
  BY <1>2, MarksTypes
<1>4. PICK w \in Seq(Marked) :
        w = Marks(t) /\ Len(w) = n + 1 /\ \A i \in 1 .. n + 1 : w[i] = Mark(t[i])
  BY <1>1, <1>2, MarksTypes
<1>5. PICK b \in Marked : b = Mark(a) BY MarkTypes
<1>9. PICK v : v = Append(m, b) OBVIOUS
<1>6. v \in Seq(Marked) /\ Len(v) = n + 1 /\ v[n + 1] = b /\ \A i \in 1 .. n : v[i] = m[i]
  BY <1>3, <1>9, Appended
<1>7. \A i \in 1 .. n + 1 : w[i] = v[i]
  <2>1. \A i \in 1 .. n + 1 : i = n + 1 \/ i \in 1 .. n BY <1>2
  <2>2. w[n + 1] = v[n + 1] BY <1>1, <1>2, <1>4, <1>5, <1>6
  <2>3. \A i \in 1 .. n : i \in 1 .. n + 1 BY <1>2
  <2>4. \A i \in 1 .. n : w[i] = v[i] BY <1>1, <1>2, <1>3, <1>4, <1>6, <2>3
  <2> QED BY <2>1, <2>2, <2>4
<1>8. w = v BY <1>4, <1>6, <1>7, SeqEqual
<1> QED BY <1>0, <1>3, <1>4, <1>5, <1>8, <1>9

LEMMA MarksLast ==
  ASSUME NEW s \in Seq(Activation), s # <<>>
  PROVE  Last(Marks(s)) = Mark(Last(s)) /\ Front(Marks(s)) = Marks(Front(s)) /\ Marks(s) # <<>>
<1>1. PICK f \in Seq(Activation), a \in Activation : f = Front(s) /\ a = Last(s) /\ s = Append(f, a)
  BY FrontLast
<1>2. PICK m \in Seq(Marked), b \in Marked : m = Marks(f) /\ b = Mark(a) BY MarkTypes, MarksTypes
<1>3. Marks(s) = Append(m, b) BY <1>1, <1>2, MarksAppend
<1>4. Last(Append(m, b)) = b /\ Front(Append(m, b)) = m /\ Append(m, b) # <<>> BY Appended
<1> QED BY <1>1, <1>2, <1>3, <1>4

LEMMA FirstOnes ==
  ASSUME NEW S, NEW s \in Seq(S), NEW k \in 1 .. Len(s)
  PROVE  /\ SubSeq(s, 1, k - 1) \in Seq(S) /\ Len(SubSeq(s, 1, k - 1)) = k - 1
         /\ \A i \in 1 .. k - 1 : SubSeq(s, 1, k - 1)[i] = s[i]
<1>0. Len(s) \in Nat BY LenProperties
<1>1. PICK n \in Int : n = k - 1 /\ 0 <= n /\ n < Len(s) BY <1>0
<1>2. \A i \in 1 .. n : i \in 1 .. Len(s) BY <1>0, <1>1
<1>3. 1 \in Int /\ \A i \in 1 .. n : s[i] \in S BY <1>2, ElementOfSeq
<1>4. /\ SubSeq(s, 1, n) \in Seq(S)
      /\ Len(SubSeq(s, 1, n)) = IF 1 <= n THEN n - 1 + 1 ELSE 0
      /\ \A i \in 1 .. n - 1 + 1 : SubSeq(s, 1, n)[i] = s[1 + i - 1]
  BY <1>3, SubSeqProperties
<1>5. n - 1 + 1 = n /\ \A i \in 1 .. n : 1 + i - 1 = i OBVIOUS
<1>6. (IF 1 <= n THEN n - 1 + 1 ELSE 0) = n BY <1>1
<1> QED BY <1>1, <1>4, <1>5, <1>6

LEMMA MarksFirst ==
  ASSUME NEW s \in Seq(Activation), NEW k \in 1 .. Len(s)
  PROVE  Marks(SubSeq(s, 1, k - 1)) = SubSeq(Marks(s), 1, k - 1)
<1>1. PICK n : n = k - 1 OBVIOUS
<1>2. PICK t \in Seq(Activation) :
        t = SubSeq(s, 1, n) /\ Len(t) = n /\ \A i \in 1 .. n : t[i] = s[i]
  <2>1. PICK t : t = SubSeq(s, 1, k - 1) OBVIOUS
  <2>2. t \in Seq(Activation) /\ Len(t) = k - 1 /\ \A i \in 1 .. k - 1 : t[i] = s[i]
    BY <2>1, FirstOnes
  <2> QED BY <1>1, <2>1, <2>2, Zenon
<1>3. PICK m \in Seq(Marked) :
        m = Marks(s) /\ Len(m) = Len(s) /\ \A i \in 1 .. Len(s) : m[i] = Mark(s[i])
  BY MarksTypes
<1>4. PICK w \in Seq(Marked) : w = Marks(t) /\ Len(w) = n /\ \A i \in 1 .. n : w[i] = Mark(t[i])
  BY <1>2, MarksTypes
<1>9. PICK v : v = SubSeq(m, 1, k - 1) OBVIOUS
<1>5. v \in Seq(Marked) /\ Len(v) = n /\ \A i \in 1 .. n : v[i] = m[i]
  <2>1. k \in 1 .. Len(m) BY <1>3
  <2> QED BY <1>1, <1>3, <1>9, <2>1, FirstOnes
<1>6. \A i \in 1 .. n : i \in 1 .. Len(s)
  <2>1. Len(s) \in Nat BY LenProperties
  <2> QED BY <1>1, <2>1
<1>7. \A i \in 1 .. n : w[i] = v[i] BY <1>2, <1>3, <1>4, <1>5, <1>6
<1>8. w = v BY <1>4, <1>5, <1>7, SeqEqual
<1> QED BY <1>1, <1>2, <1>3, <1>4, <1>8, <1>9

LEMMA SeenIs ==
  ASSUME Typed
  PROVE  /\ \A c \in Coros : Seen[c] = Marks(acts[c])
         /\ Seen[run] = Marks(acts[run]) /\ Seen[run] \in Seq(Marked) /\ Seen[run] # <<>>
         /\ Len(Seen[run]) = Len(acts[run]) /\ Last(Seen[run]) = Mark(Top)
         /\ Front(Seen[run]) = Marks(Front(acts[run]))
<1>1. \A c \in Coros : Seen[c] = Marks(acts[c]) BY DEF Seen
<1>2. PICK s \in Seq(Activation) : s = acts[run] /\ s # <<>> BY TopTypes, ActsTypes
<1>3. Seen[run] = Marks(s) BY <1>1, <1>2, TopTypes
<1>4. Marks(s) \in Seq(Marked) /\ Len(Marks(s)) = Len(s) BY MarksTypes
<1>5. Last(Marks(s)) = Mark(Last(s)) /\ Front(Marks(s)) = Marks(Front(s)) /\ Marks(s) # <<>>
  BY <1>2, MarksLast
<1> QED BY <1>1, <1>2, <1>3, <1>4, <1>5 DEF Top

(* The words of Exceptions, read with what it sees.                        *)
LEMMA SameWords ==
  /\ Abstract!Running = Running /\ Abstract!CatchAll = CatchAll
  /\ Abstract!Noexcept = Noexcept /\ Abstract!Guard = Guard
  /\ \A o : Abstract!Fresh(o) = Fresh(o)
  /\ \A q : Abstract!Try(q) = Try(q)
  /\ \A s : Abstract!IsCleanup(s) <=> IsCleanup(s)
  /\ \A e, k, p : Abstract!Handler(e, k, p) = Handler(e, k, p)
BY DEF Abstract!Running, Running, Abstract!CatchAll, CatchAll, Abstract!Noexcept, Noexcept,
       Abstract!Guard, Guard, Abstract!Fresh, Fresh, Abstract!Try, Try,
       Abstract!IsCleanup, IsCleanup, Abstract!Handler, Handler

LEMMA SeenTop ==
  /\ Abstract!Top = Last(Seen[run])
  /\ Abstract!Runs <=> Abstract!Top.pad = Running
  /\ Abstract!Inner = Last(Abstract!Top.scopes) /\ Abstract!Outer = Front(Abstract!Top.scopes)
  /\ \A a : Abstract!WithTop(a) = [Seen EXCEPT ![run] = Append(Front(@), a)]
<1>1. Abstract!Top = Last(Seen[run]) BY DEF Abstract!Top, Abstract!Last, Last, Seen, Marks, Mark
<1>2. Abstract!Runs <=> Abstract!Top.pad = Running BY SameWords DEF Abstract!Runs
<1>3. Abstract!Inner = Last(Abstract!Top.scopes) /\ Abstract!Outer = Front(Abstract!Top.scopes)
  BY DEF Abstract!Inner, Abstract!Outer, Abstract!Last, Last, Abstract!Front, Front
<1>4. \A a : Abstract!WithTop(a) = [Seen EXCEPT ![run] = Append(Front(@), a)]
  BY DEF Abstract!WithTop, Abstract!Front, Front, Seen, Marks, Mark
<1> QED BY <1>1, <1>2, <1>3, <1>4

LEMMA SameTop ==
  ASSUME Typed
  PROVE  /\ Abstract!Top = Mark(Top) /\ Abstract!Top.scopes = Top.scopes
         /\ Abstract!Inner = Inner /\ Abstract!Outer = Outer
         /\ Abstract!Runs <=> Runs
         /\ \A k : Abstract!Within(k) <=> Within(k)
         /\ Abstract!Callee <=> Callee
         /\ Runs => Mark(Top) = Top
<1>1. Abstract!Top = Mark(Top) BY SeenIs, SeenTop
<1>2. Top \in Activation BY TopTypes
<1>3. Mark(Top).scopes = Top.scopes /\ (Mark(Top).pad = Running <=> Top.pad = Running)
      /\ (Top.pad = Running => Mark(Top) = Top)
  BY <1>2, MarkTypes
<1>4. Abstract!Top.scopes = Top.scopes BY <1>1, <1>3
<1>5. Abstract!Inner = Inner /\ Abstract!Outer = Outer BY <1>4, SeenTop DEF Inner, Outer
<1>6. Abstract!Runs <=> Runs BY <1>1, <1>3, SeenTop DEF Runs
<1>7. ASSUME NEW k PROVE Abstract!Within(k) <=> Within(k)
  BY <1>4, <1>5 DEF Abstract!Within, Within
<1>8. Abstract!Callee <=> Callee BY <1>4, <1>6 DEF Abstract!Callee, Callee
<1> QED BY <1>1, <1>3, <1>4, <1>5, <1>6, <1>7, <1>8 DEF Runs

LEMMA SeenActivation ==
  ASSUME Typed, NEW c \in Coros
  PROVE  /\ DOMAIN Seen[c] = DOMAIN acts[c] /\ DOMAIN acts[c] = 1 .. Len(acts[c])
         /\ \A d \in DOMAIN acts[c] : Seen[c][d] = Mark(acts[c][d]) /\ Seen[c][d].scopes = acts[c][d].scopes
<1>1. PICK s \in Seq(Activation) : s = acts[c] BY ActsTypes
<1>2. Seen[c] = Marks(s) BY <1>1, SeenIs
<1>3. /\ DOMAIN Marks(s) = 1 .. Len(s) /\ DOMAIN s = 1 .. Len(s)
      /\ \A i \in 1 .. Len(s) : Marks(s)[i] = Mark(s[i]) /\ s[i] \in Activation
  BY MarksTypes
<1>4. \A i \in 1 .. Len(s) : Mark(s[i]).scopes = s[i].scopes BY <1>3, MarkTypes
<1> QED BY <1>1, <1>2, <1>3, <1>4

LEMMA SameHandlers == ASSUME Typed, NEW e PROVE Abstract!HandlersOf(e) = HandlersOf(e)
<1>1. Abstract!HandlersOf(e) =
        {h \in Coros \X (1 .. MaxDepth) \X (1 .. MaxScopes) :
           /\ h[2] \in DOMAIN Seen[h[1]] /\ h[3] \in DOMAIN Seen[h[1]][h[2]].scopes
           /\ LET s == Seen[h[1]][h[2]].scopes[h[3]] IN s.kind = "handler" /\ s.exc = e}
  BY DEF Abstract!HandlersOf, Seen, Marks, Mark
<1>2. ASSUME NEW h \in Coros \X (1 .. MaxDepth) \X (1 .. MaxScopes)
      PROVE  /\ h[2] \in DOMAIN Seen[h[1]] <=> h[2] \in DOMAIN acts[h[1]]
             /\ h[2] \in DOMAIN acts[h[1]] => Seen[h[1]][h[2]].scopes = acts[h[1]][h[2]].scopes
  BY SeenActivation
<1> QED BY <1>1, <1>2, Zenon DEF HandlersOf

(* What Exceptions sees of a step of the running coroutine.                *)
LEMMA SeenNext ==
  ASSUME Typed, NEW t \in Seq(Activation), acts' = [acts EXCEPT ![run] = t]
  PROVE  Seen' = [Seen EXCEPT ![run] = Marks(t)]
<1>1. acts \in [Coros -> Activations] /\ run \in Coros BY DEF Typed, TypeOK
<1>2. Seen' = [c \in Coros |-> Marks(acts'[c])] BY DEF Seen
<1>3. \A c \in Coros : acts'[c] = IF c = run THEN t ELSE acts[c] BY <1>1
<1>4. \A c \in Coros : Marks(acts'[c]) = IF c = run THEN Marks(t) ELSE Marks(acts[c]) BY <1>3
<1>5. Seen = [c \in Coros |-> Marks(acts[c])] BY DEF Seen
<1> QED BY <1>1, <1>2, <1>4, <1>5

LEMMA SeenWithTop ==
  ASSUME Typed, NEW a \in Activation, acts' = WithTop(a)
  PROVE  Seen' = [Seen EXCEPT ![run] = Append(Front(@), Mark(a))]
<1>1. PICK s \in Seq(Activation) : s = acts[run] /\ s # <<>> BY TopTypes, ActsTypes
<1>2. PICK f \in Seq(Activation) : f = Front(s) BY <1>1, FrontLast
<1>3. PICK t \in Seq(Activation) : t = Append(f, a) BY Appended
<1>4. acts' = [acts EXCEPT ![run] = t] BY <1>1, <1>2, <1>3 DEF WithTop
<1>5. Seen' = [Seen EXCEPT ![run] = Marks(t)] BY <1>4, SeenNext
<1>6. Marks(t) = Append(Marks(f), Mark(a)) BY <1>3, MarksAppend
<1>7. Marks(f) = Front(Seen[run]) BY <1>1, <1>2, SeenIs
<1> QED BY <1>5, <1>6, <1>7

LEMMA SeenCall ==
  ASSUME Typed, NEW a \in Activation, acts' = [acts EXCEPT ![run] = Append(@, a)]
  PROVE  Seen' = [Seen EXCEPT ![run] = Append(@, Mark(a))]
<1>1. PICK s \in Seq(Activation) : s = acts[run] BY TopTypes, ActsTypes
<1>3. PICK t \in Seq(Activation) : t = Append(s, a) BY Appended
<1>4. acts' = [acts EXCEPT ![run] = t] BY <1>1, <1>3
<1>5. Seen' = [Seen EXCEPT ![run] = Marks(t)] BY <1>4, SeenNext
<1>6. Marks(t) = Append(Marks(s), Mark(a)) BY <1>3, MarksAppend
<1>7. Marks(s) = Seen[run] BY <1>1, SeenIs
<1> QED BY <1>5, <1>6, <1>7

LEMMA SeenReturn ==
  ASSUME Typed, acts' = [acts EXCEPT ![run] = Front(@)]
  PROVE  Seen' = [Seen EXCEPT ![run] = Front(@)]
<1>1. PICK s \in Seq(Activation) : s = acts[run] /\ s # <<>> BY TopTypes, ActsTypes
<1>3. PICK t \in Seq(Activation) : t = Front(s) BY <1>1, FrontLast
<1>4. acts' = [acts EXCEPT ![run] = t] BY <1>1, <1>3
<1>5. Seen' = [Seen EXCEPT ![run] = Marks(t)] BY <1>4, SeenNext
<1>6. Marks(t) = Front(Seen[run]) BY <1>1, <1>3, SeenIs
<1> QED BY <1>5, <1>6

LEMMA SeenLanding ==
  ASSUME Typed, NEW k \in 1 .. Len(acts[run]), NEW a \in Activation,
         acts' = [acts EXCEPT ![run] = Append(SubSeq(@, 1, k - 1), a)]
  PROVE  Seen' = [Seen EXCEPT ![run] = Append(SubSeq(@, 1, k - 1), Mark(a))]
<1>1. PICK s \in Seq(Activation) : s = acts[run] BY TopTypes, ActsTypes
<1>2. PICK f \in Seq(Activation) : f = SubSeq(s, 1, k - 1) BY <1>1, FirstOnes
<1>3. PICK t \in Seq(Activation) : t = Append(f, a) BY Appended
<1>4. acts' = [acts EXCEPT ![run] = t] BY <1>1, <1>2, <1>3
<1>5. Seen' = [Seen EXCEPT ![run] = Marks(t)] BY <1>4, SeenNext
<1>6. Marks(t) = Append(Marks(f), Mark(a)) BY <1>3, MarksAppend
<1>7. Marks(f) = SubSeq(Marks(s), 1, k - 1) BY <1>1, <1>2, MarksFirst
<1>8. Marks(s) = Seen[run] BY <1>1, SeenIs
<1> QED BY <1>5, <1>6, <1>7, <1>8

(* The exceptions that live: none, or the one of the globals.              *)
Living == [e \in Alive |-> headers[e].ti]

LEMMA FlyingIs ==
  Typed /\ Chained =>
    Flying = IF mode = "unwind" \/ (mode = "run" /\ Pads # {}) THEN g_eh_exc ELSE NoObject
BY PadsIs DEF Flying

LEMMA FlyingNext ==
  Typed' /\ Chained' =>
    Flying' = IF mode' = "unwind" \/ (mode' = "run" /\ Pads' # {}) THEN g_eh_exc' ELSE NoObject
<1>1. (Typed /\ Chained =>
         Flying = IF mode = "unwind" \/ (mode = "run" /\ Pads # {}) THEN g_eh_exc ELSE NoObject)'
  BY FlyingIs, PTL
<1> QED BY <1>1

LEMMA FlyingSame ==
  ASSUME Typed, Chained, Typed', Chained', UNCHANGED <<g_eh_exc, mode>>, Pads' = Pads
  PROVE  Flying' = Flying
<1>1. PICK b : b = Pads OBVIOUS
<1>2. Flying = IF mode = "unwind" \/ (mode = "run" /\ b # {}) THEN g_eh_exc ELSE NoObject
  BY <1>1, FlyingIs
<1>3. Flying' = IF mode' = "unwind" \/ (mode' = "run" /\ b # {}) THEN g_eh_exc' ELSE NoObject
  BY <1>1, FlyingNext
<1> QED BY <1>2, <1>3

LivingGlobals ==
  /\ Living = IF g_eh_exc = NoObject THEN <<>> ELSE [x \in {g_eh_exc} |-> g_eh_ti]
  /\ Alive = IF g_eh_exc = NoObject THEN {} ELSE {g_eh_exc}
  /\ DOMAIN Living = Alive
  /\ g_eh_exc # NoObject => Living[g_eh_exc] = g_eh_ti

LEMMA LivingIs == Typed /\ Counts => LivingGlobals
<1> SUFFICES ASSUME Typed, Counts PROVE LivingGlobals OBVIOUS
<1> USE DEF LivingGlobals
<1>1. CASE g_eh_exc = NoObject
  <2>1. NoObject \notin Objects BY CartAssumption
  <2>2. Alive = {} BY <1>1, <2>1 DEF Counts, Alive
  <2>3. Living = <<>> BY <2>2 DEF Living
  <2> QED BY <1>1, <2>2, <2>3
<1>2. CASE g_eh_exc # NoObject
  <2>1. g_eh_exc \in Alive /\ headers[g_eh_exc].ti = g_eh_ti BY <1>2 DEF Typed, TypeOK
  <2>2. Alive = {g_eh_exc} BY <2>1 DEF Counts
  <2>3. Living = [x \in {g_eh_exc} |-> g_eh_ti] BY <2>1, <2>2 DEF Living
  <2> QED BY <1>2, <2>2, <2>3
<1> QED BY <1>1, <1>2

LEMMA LivingNext == Typed' /\ Counts' => LivingGlobals'
BY LivingIs, PTL

LEMMA LivingSame == ASSUME UNCHANGED headers PROVE Living' = Living
BY DEF Living, Alive

(* ---------------------------------------------------------------------- *)
(* Every step is one of Exceptions, or none                                *)

Holds == Typed /\ Chained /\ Counts /\ Landing

LEMMA SeenActions ==
  /\ \A s : Abstract!Open(s) <=>
       /\ Abstract!Runs /\ Len(Abstract!Top.scopes) < MaxScopes /\ Len(Seen[run]) < MaxDepth
       /\ Seen' = Abstract!WithTop(Abstract!Fresh(Append(Abstract!Top.scopes, s)))
       /\ UNCHANGED run
  /\ Abstract!Leave <=>
       /\ Abstract!Runs
       /\ Abstract!Within("try") \/ Abstract!Within("guard") \/ Abstract!Within("noexcept")
       /\ Seen' = Abstract!WithTop(Abstract!Fresh(Abstract!Outer)) /\ UNCHANGED run
  /\ Abstract!Call <=>
       /\ Abstract!Runs /\ Len(Seen[run]) < MaxDepth
       /\ Seen' = [Seen EXCEPT ![run] = Append(@, Abstract!Fresh(<<>>))] /\ UNCHANGED run
  /\ Abstract!Return <=>
       /\ Abstract!Callee /\ Len(Seen[run]) > 1
       /\ Seen' = [Seen EXCEPT ![run] = Front(@)] /\ UNCHANGED run
  /\ \A c : Abstract!Swap(c) <=> c # run /\ run' = c /\ UNCHANGED Seen
  /\ Abstract!PadLeave <=>
       Seen' = Abstract!WithTop([Abstract!Top EXCEPT !.scopes = Abstract!Outer]) /\ UNCHANGED run
  /\ \A e, k, p : Abstract!PadCatch(e, k, p) <=>
       /\ Seen' = Abstract!WithTop(Abstract!Fresh(Append(Abstract!Outer, Abstract!Handler(e, k, p))))
       /\ UNCHANGED run
<1>1. ASSUME NEW s
      PROVE  Abstract!Open(s) <=>
               /\ Abstract!Runs /\ Len(Abstract!Top.scopes) < MaxScopes /\ Len(Seen[run]) < MaxDepth
               /\ Seen' = Abstract!WithTop(Abstract!Fresh(Append(Abstract!Top.scopes, s)))
               /\ UNCHANGED run
  BY DEF Abstract!Open, Seen, Marks, Mark
<1>2. Abstract!Leave <=>
       /\ Abstract!Runs
       /\ Abstract!Within("try") \/ Abstract!Within("guard") \/ Abstract!Within("noexcept")
       /\ Seen' = Abstract!WithTop(Abstract!Fresh(Abstract!Outer)) /\ UNCHANGED run
  BY DEF Abstract!Leave, Seen, Marks, Mark
<1>3. Abstract!Call <=>
       /\ Abstract!Runs /\ Len(Seen[run]) < MaxDepth
       /\ Seen' = [Seen EXCEPT ![run] = Append(@, Abstract!Fresh(<<>>))] /\ UNCHANGED run
  BY DEF Abstract!Call, Seen, Marks, Mark
<1>4. Abstract!Return <=>
       /\ Abstract!Callee /\ Len(Seen[run]) > 1
       /\ Seen' = [Seen EXCEPT ![run] = Front(@)] /\ UNCHANGED run
  BY DEF Abstract!Return, Abstract!Front, Front, Seen, Marks, Mark
<1>5. ASSUME NEW c PROVE Abstract!Swap(c) <=> c # run /\ run' = c /\ UNCHANGED Seen
  BY DEF Abstract!Swap, Seen, Marks, Mark
<1>6. Abstract!PadLeave <=>
       Seen' = Abstract!WithTop([Abstract!Top EXCEPT !.scopes = Abstract!Outer]) /\ UNCHANGED run
  BY DEF Abstract!PadLeave, Seen, Marks, Mark
<1>7. ASSUME NEW e, NEW k, NEW p
      PROVE  Abstract!PadCatch(e, k, p) <=>
               /\ Seen' = Abstract!WithTop(Abstract!Fresh(Append(Abstract!Outer, Abstract!Handler(e, k, p))))
               /\ UNCHANGED run
  BY DEF Abstract!PadCatch, Seen, Marks, Mark
<1> QED BY <1>1, <1>2, <1>3, <1>4, <1>5, <1>6, <1>7

LEMMA SeenFresh == \A o \in Stack : Fresh(o) \in Activation /\ Mark(Fresh(o)) = Fresh(o)
BY FreshType, MarkTypes DEF Fresh

LEMMA OpensToo == ASSUME Typed, NEW s \in Scope, Open(s) PROVE Abstract!Open(s)
<1>1. PICK o \in Stack : o = Append(Top.scopes, s) BY OpenTypes
<1>2. Seen' = [Seen EXCEPT ![run] = Append(Front(@), Mark(Fresh(o)))]
  BY <1>1, SeenFresh, SeenWithTop DEF Open
<1>3. Seen' = Abstract!WithTop(Abstract!Fresh(o)) BY <1>2, SeenFresh, SeenTop, SameWords
<1>4. Len(Seen[run]) = Len(acts[run]) BY SeenIs
<1> QED BY <1>1, <1>3, <1>4, SameTop, SeenActions DEF Open

LEMMA EntersToo == ASSUME Typed, Enter PROVE Abstract!Enter
<1>1. ASSUME NEW q \in Tries, Open(Try(q)) PROVE Abstract!Enter
  <2>1. Try(q) \in Scope BY DEF Scope
  <2>2. Abstract!Open(Abstract!Try(q)) BY <1>1, <2>1, OpensToo, SameWords
  <2> QED BY <2>2 DEF Abstract!Enter
<1>2. ASSUME Open(Guard) PROVE Abstract!Enter
  <2>1. Guard \in Scope BY DEF Scope
  <2>2. Abstract!Open(Abstract!Guard) BY <1>2, <2>1, OpensToo, SameWords
  <2> QED BY <2>2 DEF Abstract!Enter
<1>3. ASSUME Open(Noexcept), Top.scopes = <<>> PROVE Abstract!Enter
  <2>1. Noexcept \in Scope BY DEF Scope
  <2>2. Abstract!Open(Abstract!Noexcept) /\ Abstract!Top.scopes = <<>>
    BY <1>3, <2>1, OpensToo, SameWords, SameTop
  <2> QED BY <2>2 DEF Abstract!Enter
<1> QED BY <1>1, <1>2, <1>3 DEF Enter

LEMMA LeavesToo == ASSUME Typed, Leave PROVE Abstract!Leave
<1>1. PICK o \in Stack : o = Outer BY Leaves, TopTypes
<1>2. Seen' = [Seen EXCEPT ![run] = Append(Front(@), Mark(Fresh(o)))]
  BY <1>1, SeenFresh, SeenWithTop DEF Leave
<1>3. Seen' = Abstract!WithTop(Abstract!Fresh(o)) BY <1>2, SeenFresh, SeenTop, SameWords
<1> QED BY <1>1, <1>3, SameTop, SeenActions DEF Leave

LEMMA CallsToo == ASSUME Typed, Call PROVE Abstract!Call
<1>1. Seen' = [Seen EXCEPT ![run] = Append(@, Mark(Fresh(<<>>)))]
  BY EmptyStack, SeenCall DEF Call
<1>2. Mark(Fresh(<<>>)) = Abstract!Fresh(<<>>) BY EmptyStack, SeenFresh, SameWords
<1>3. Len(Seen[run]) = Len(acts[run]) BY SeenIs
<1> QED BY <1>1, <1>2, <1>3, SameTop, SeenActions DEF Call

LEMMA ReturnsToo == ASSUME Typed, Return PROVE Abstract!Return
<1>1. Seen' = [Seen EXCEPT ![run] = Front(@)] BY SeenReturn DEF Return
<1>2. Len(Seen[run]) = Len(acts[run]) BY SeenIs
<1> QED BY <1>1, <1>2, SameTop, SeenActions DEF Return

LEMMA SwapsToo == ASSUME NEW c, Swap(c) PROVE Abstract!Swap(c)
<1>1. UNCHANGED Seen BY DEF Swap, Seen, Marks, Mark
<1> QED BY <1>1, SeenActions DEF Swap

LEMMA SeenSteps ==
  /\ Abstract!Program <=>
       /\ mode = "run"
       /\ \/ Abstract!Enter \/ Abstract!Leave \/ Abstract!Call \/ Abstract!Return
          \/ \E c \in Coros : Abstract!Swap(c)
       /\ UNCHANGED <<mode, Flying, Living>>
  /\ \A e, t : Abstract!Throw(e, t) <=>
       /\ mode = "run" /\ Abstract!Callee /\ Living = <<>>
       /\ Living' = [x \in {e} |-> t] /\ Flying' = e /\ mode' = "unwind"
       /\ UNCHANGED <<Seen, run>>
  /\ Abstract!Rethrow <=>
       /\ mode = "run" /\ Abstract!Callee /\ Flying = NoObject
       /\ \E e \in DOMAIN Living : Abstract!HandlersOf(e) # {} /\ Flying' = e
       /\ mode' = "unwind" /\ UNCHANGED <<Seen, run, Living>>
  /\ Abstract!Uncaught <=>
       /\ mode = "unwind" /\ \A d \in DOMAIN Seen[run] : ~Abstract!Lands(d)
       /\ mode' = "halt" /\ Flying' = NoObject /\ UNCHANGED <<Seen, run, Living>>
  /\ Abstract!GoOn <=>
       /\ mode = "run" /\ ~Abstract!Runs /\ Abstract!Top.scopes = <<>>
       /\ mode' = "unwind" /\ UNCHANGED <<Seen, run, Flying, Living>>
  /\ Abstract!OutOfMemory <=>
       /\ mode = "run" /\ Abstract!Callee
       /\ mode' = "halt" /\ Flying' = NoObject /\ UNCHANGED <<Seen, run, Living>>
<1>1. Abstract!Program <=>
       /\ mode = "run"
       /\ \/ Abstract!Enter \/ Abstract!Leave \/ Abstract!Call \/ Abstract!Return
          \/ \E c \in Coros : Abstract!Swap(c)
       /\ UNCHANGED <<mode, Flying, Living>>
  BY DEF Abstract!Program, Living
<1>2. ASSUME NEW e, NEW t
      PROVE  Abstract!Throw(e, t) <=>
       /\ mode = "run" /\ Abstract!Callee /\ Living = <<>>
       /\ Living' = [x \in {e} |-> t] /\ Flying' = e /\ mode' = "unwind"
       /\ UNCHANGED <<Seen, run>>
  BY DEF Abstract!Throw, Living, Seen, Marks, Mark
<1>3. Abstract!Rethrow <=>
       /\ mode = "run" /\ Abstract!Callee /\ Flying = NoObject
       /\ \E e \in DOMAIN Living : Abstract!HandlersOf(e) # {} /\ Flying' = e
       /\ mode' = "unwind" /\ UNCHANGED <<Seen, run, Living>>
  BY DEF Abstract!Rethrow, Living, Seen, Marks, Mark
<1>4. Abstract!Uncaught <=>
       /\ mode = "unwind" /\ \A d \in DOMAIN Seen[run] : ~Abstract!Lands(d)
       /\ mode' = "halt" /\ Flying' = NoObject /\ UNCHANGED <<Seen, run, Living>>
  BY DEF Abstract!Uncaught, Living, Seen, Marks, Mark
<1>5. Abstract!GoOn <=>
       /\ mode = "run" /\ ~Abstract!Runs /\ Abstract!Top.scopes = <<>>
       /\ mode' = "unwind" /\ UNCHANGED <<Seen, run, Flying, Living>>
  BY DEF Abstract!GoOn, Living, Seen, Marks, Mark
<1>6. Abstract!OutOfMemory <=>
       /\ mode = "run" /\ Abstract!Callee
       /\ mode' = "halt" /\ Flying' = NoObject /\ UNCHANGED <<Seen, run, Living>>
  BY DEF Abstract!OutOfMemory, Living, Seen, Marks, Mark
<1> QED BY <1>1, <1>2, <1>3, <1>4, <1>5, <1>6

LEMMA SeenSame == ASSUME UNCHANGED acts PROVE UNCHANGED Seen
BY DEF Seen, Marks, Mark

LEMMA LivingKept ==
  ASSUME Typed, Counts, Typed', Counts', UNCHANGED <<g_eh_exc, g_eh_ti>>
  PROVE  Living' = Living
BY LivingIs, LivingNext DEF LivingGlobals

(* What the program does between exceptions.                               *)
LEMMA ProgramToo ==
  ASSUME ~SwapsInScopes, Holds, Holds',
         Invoke \/ InvokeReturns \/ Scopes \/ \E c \in Coros : SwapTo(c)
  PROVE  Abstract!Program
<1>1. Typed /\ Chained /\ Landing /\ Typed' /\ Chained' BY DEF Holds
<1>2. ASSUME Pads' = Pads, UNCHANGED <<mode, g_eh_exc, headers>>, mode = "run",
             \/ Abstract!Enter \/ Abstract!Leave \/ Abstract!Call \/ Abstract!Return
             \/ \E c \in Coros : Abstract!Swap(c)
      PROVE  Abstract!Program
  BY <1>1, <1>2, FlyingSame, LivingSame, SeenSteps
<1>3. CASE Invoke
  <2>1. Abstract!Call BY <1>1, <1>3, CallsToo DEF Invoke
  <2>2. Pads' = Pads BY <1>1, <1>3, LandingInvoke
  <2> QED BY <1>2, <1>3, <2>1, <2>2 DEF Invoke, gvars
<1>4. CASE InvokeReturns
  <2>1. Abstract!Return BY <1>1, <1>4, ReturnsToo DEF InvokeReturns
  <2>2. Pads' = Pads BY <1>1, <1>4, LandingReturn
  <2> QED BY <1>2, <1>4, <2>1, <2>2 DEF InvokeReturns, gvars
<1>5. CASE Scopes
  <2>1. Abstract!Enter \/ Abstract!Leave BY <1>1, <1>5, EntersToo, LeavesToo DEF Scopes
  <2>2. Pads' = Pads BY <1>1, <1>5, LandingScopes
  <2> QED BY <1>2, <1>5, <2>1, <2>2 DEF Scopes, gvars
<1>6. CASE \E c \in Coros : SwapTo(c)
  <2>1. PICK c \in Coros : SwapTo(c) BY <1>6
  <2>2. Abstract!Swap(c) BY <2>1, SwapsToo DEF SwapTo
  <2>3. Pads' = {} /\ Pads = {} BY <1>1, <2>1, LandingSwap
  <2>4. Pads' = Pads BY <2>3
  <2> QED BY <1>2, <2>1, <2>2, <2>4 DEF SwapTo, gvars
<1> QED BY <1>3, <1>4, <1>5, <1>6

LEMMA ThrowsToo ==
  ASSUME ~Overlaps, Holds, Holds', NEW e \in Objects, NEW t \in Types, __cxa_throw(e, t)
  PROVE  Abstract!Throw(e, t)
<1>1. Typed /\ Chained /\ Counts /\ Typed' /\ Chained' /\ Counts' BY DEF Holds
<1>2. /\ mode = "run" /\ Callee /\ Alive = {} /\ g_eh_exc' = e /\ g_eh_ti' = t
      /\ mode' = "unwind" /\ UNCHANGED <<acts, run>>
  BY DEF __cxa_throw
<1>3. e # NoObject BY CartAssumption
<1>4. g_eh_exc = NoObject
  <2>1. Alive = IF g_eh_exc = NoObject THEN {} ELSE {g_eh_exc}
    BY <1>1, LivingIs DEF LivingGlobals
  <2> QED BY <1>2, <2>1
<1>5. Living = <<>> BY <1>1, <1>4, LivingIs DEF LivingGlobals
<1>6. Living' = [x \in {e} |-> t] BY <1>1, <1>2, <1>3, LivingNext DEF LivingGlobals
<1>7. Flying' = e BY <1>1, <1>2, FlyingNext
<1> QED BY <1>1, <1>2, <1>5, <1>6, <1>7, SameTop, SeenSame, SeenSteps

LEMMA RethrowsToo == ASSUME ~Overlaps, Holds, Holds', __cxa_rethrow PROVE Abstract!Rethrow
<1>1. Typed /\ Chained /\ Counts /\ Typed' /\ Chained' /\ Counts' BY DEF Holds
<1>2. /\ mode = "run" /\ Callee /\ ~AtPad /\ UNCHANGED <<g_eh_exc, g_eh_ti>>
      /\ mode' = "unwind" /\ UNCHANGED <<acts, run>>
  BY DEF __cxa_rethrow, gvars
<1>3. PICK e \in Objects : HandlersOf(e) # {} BY DEF __cxa_rethrow
<1>4. e = g_eh_exc /\ e # NoObject BY <1>1, <1>3 DEF Counts, Exceptional
<1>5. e \in DOMAIN Living BY <1>1, <1>4, LivingIs DEF LivingGlobals
<1>6. Living' = Living BY <1>1, <1>2, LivingKept
<1>7. Flying = NoObject BY <1>2 DEF Flying
<1>8. Flying' = e BY <1>1, <1>2, <1>4, FlyingNext
<1>9. Abstract!HandlersOf(e) # {} BY <1>1, <1>3, SameHandlers
<1> QED BY <1>1, <1>2, <1>5, <1>6, <1>7, <1>8, <1>9, SameTop, SeenSame, SeenSteps

LEMMA StopsToo == ASSUME Holds, Holds', OutOfMemory PROVE Abstract!OutOfMemory
<1>1. Typed /\ Chained /\ Typed' /\ Chained' BY DEF Holds
<1>2. /\ mode = "run" /\ Callee /\ mode' = "halt" /\ UNCHANGED <<acts, run, headers>>
  BY DEF OutOfMemory
<1>3. Flying' = NoObject BY <1>1, <1>2, FlyingNext
<1> QED BY <1>1, <1>2, <1>3, SameTop, SeenSame, LivingSame, SeenSteps

LEMMA GoesOn == ASSUME Holds, Holds', __cvm_eh_resume PROVE Abstract!GoOn
<1>1. Typed /\ Chained /\ Counts /\ Typed' /\ Chained' BY DEF Holds
<1>2. /\ mode = "run" /\ ~Runs /\ Top.scopes = <<>> /\ mode' = "unwind"
      /\ UNCHANGED <<acts, run, headers, g_eh_exc>>
  BY DEF __cvm_eh_resume, gvars
<1>3. Pads # {} BY <1>1, <1>2, PadPlace
<1>4. Flying = g_eh_exc BY <1>1, <1>2, <1>3, FlyingIs
<1>5. Flying' = g_eh_exc' BY <1>1, <1>2, FlyingNext
<1> QED BY <1>1, <1>2, <1>4, <1>5, SameTop, SeenSame, LivingSame, SeenSteps

(* The exception is caught by the clauses that hit.                        *)
LEMMA SameCatching ==
  ASSUME Holds, Flying = g_eh_exc, g_eh_exc # NoObject, NEW s
  PROVE  Abstract!Catching(s) = HitsIn(s.clauses)
<1>1. Living[Flying] = g_eh_ti BY LivingIs DEF Holds, LivingGlobals
<1>2. PICK t \in Types : t = g_eh_ti BY DEF Holds, Landing
<1>3. ASSUME NEW k PROVE Abstract!Catches(k, t) <=> Hit(k)
  <2>1. eh_type_matches(t, k) <=> \E y \in Abstract!Subobjects[t] : y[1] = k BY TypeMatches
  <2> QED BY <1>2, <2>1, SameWords DEF Abstract!Catches, Hit
<1>4. Abstract!Catching(s) = {i \in DOMAIN s.clauses : Abstract!Catches(s.clauses[i], Living[Flying])}
  BY DEF Abstract!Catching, Living
<1> QED BY <1>1, <1>2, <1>3, <1>4 DEF HitsIn

LEMMA UnwindFlies == ASSUME Holds, mode = "unwind" PROVE Flying = g_eh_exc /\ g_eh_exc # NoObject
<1>1. Flying = g_eh_exc BY FlyingIs DEF Holds
<1>2. InFlight BY DEF InFlight
<1> QED BY <1>1, <1>2 DEF Holds, Counts

(* Where the walk stops.                                                   *)
LEMMA LandsWhere ==
  ASSUME Holds, mode = "unwind", NEW d \in DOMAIN acts[run]
  PROVE  Abstract!Lands(d) <=> d \in Pending(run) /\ Catches(Desc(acts[run][d].scopes))
<1>1. Typed /\ Counts /\ run \in Coros BY TopTypes DEF Holds
<1>2. PICK n \in Nat : n = Len(acts[run]) /\ DOMAIN acts[run] = 1 .. n BY <1>1, ActsTypes
<1>3. PICK o \in Seq(Scope) : o = acts[run][d].scopes /\ o \in Stack
  BY <1>1, <1>2, ActsTypes, StackTypes
<1>4. Abstract!Lands(d) <=>
        \E i \in DOMAIN Seen[run][d].scopes :
          \/ Abstract!IsCleanup(Seen[run][d].scopes[i])
          \/ Abstract!Catching(Seen[run][d].scopes[i]) # {}
  BY DEF Abstract!Lands, Seen, Marks, Mark
<1>5. Seen[run][d].scopes = o BY <1>1, <1>3, SeenActivation
<1>6. \A s : Abstract!Catching(s) = HitsIn(s.clauses) BY UnwindFlies, SameCatching
<1>7. Abstract!Lands(d) <=> \E i \in DOMAIN o : IsCleanup(o[i]) \/ HitsIn(o[i].clauses) # {}
  BY <1>4, <1>5, <1>6, SameWords
<1>8. Abstract!Lands(d) <=> Catches(Desc(o)) BY <1>7, CatchesOf
<1>9. ASSUME o # <<>> PROVE d \in Pending(run)
  <2>1. Pads \subseteq {n} /\ Top.scopes = <<>> BY <1>1, <1>2 DEF Counts, OnePad
  <2>2. Top = acts[run][n] BY <1>1, <1>2, TopTypes
  <2>3. d # n BY <1>3, <1>9, <2>1, <2>2
  <2>4. d \in 1 .. n - 1 BY <1>2, <2>3
  <2>5. d \notin Pads BY <2>1, <2>3
  <2>6. acts[run][d].pad = Running BY <1>2, <2>5 DEF Pads
  <2> QED BY <1>2, <1>3, <1>9, <2>4, <2>6 DEF Pending
<1>10. o = <<>> => ~\E i \in DOMAIN o : TRUE OBVIOUS
<1> QED BY <1>3, <1>7, <1>8, <1>9, <1>10

LEMMA TerminatesToo == ASSUME Holds, Holds', __cvm_eh_terminate PROVE Abstract!Uncaught
<1>1. Typed /\ Chained /\ Typed' /\ Chained' /\ run \in Coros BY TopTypes DEF Holds
<1>2. /\ mode = "unwind" /\ g_eh_top = NULL /\ mode' = "halt"
      /\ UNCHANGED <<acts, run, headers>>
  BY DEF __cvm_eh_terminate
<1>3. PICK j \in 1 .. MaxDepth + 1 : Passed(j) BY <1>1, <1>2 DEF Chained
<1>4. FrameBelow(run, j) = NULL BY <1>2, <1>3 DEF Passed, Linked
<1>5. Behind(run, j) = {}
  <2>1. j \in Int OBVIOUS
  <2>2. ASSUME NEW k, FrameBelow(run, j) = <<run, k>> PROVE FALSE BY <1>4, <2>2 DEF NULL
  <2> QED BY <1>1, <2>1, <2>2, BelowIs
<1>6. ASSUME NEW d \in Pending(run) PROVE ~Catches(Desc(acts[run][d].scopes))
  <2>1. d \in Int /\ ~(d < j) BY <1>1, <1>5, Depths DEF Behind
  <2>2. d >= j BY <2>1
  <2> QED BY <1>3, <2>2 DEF Passed
<1>7. \A d \in DOMAIN Seen[run] : ~Abstract!Lands(d)
  BY <1>1, <1>2, <1>6, LandsWhere, SeenActivation
<1>8. Flying' = NoObject BY <1>1, <1>2, FlyingNext
<1> QED BY <1>2, <1>7, <1>8, SeenSame, LivingSame, SeenSteps

LEMMA SeenLand ==
  ASSUME NEW d
  PROVE  Abstract!Land(d) <=>
           /\ mode = "unwind" /\ Abstract!Lands(d)
           /\ \A k \in d + 1 .. Len(Seen[run]) : ~Abstract!Lands(k)
           /\ Seen' = [Seen EXCEPT ![run] =
                         Append(SubSeq(@, 1, d - 1), [@[d] EXCEPT !.pad = "landed"])]
           /\ mode' = "run" /\ UNCHANGED <<run, Flying, Living>>
BY DEF Abstract!Land, Living, Seen, Marks, Mark

LEMMA UnwindsToo ==
  ASSUME Holds, Holds', eh_unwind
  PROVE  \/ \E d \in 1 .. MaxDepth : d \in DOMAIN Seen[run] /\ Abstract!Land(d)
         \/ UNCHANGED <<Seen, run, mode, Flying, Living>>
<1>1. Typed /\ Chained /\ Counts /\ Typed' /\ Chained' /\ run \in Coros BY TopTypes DEF Holds
<1>2. mode = "unwind" /\ UNCHANGED <<g_eh_exc, headers>> BY DEF eh_unwind, gvars
<1>3. PICK k \in Pending(run) :
           /\ k \in 1 .. Len(acts[run]) - 1
           /\ \A d \in Pending(run) : d > k => ~Catches(Desc(acts[run][d].scopes))
           /\ Catches(Desc(acts[run][k].scopes)) =>
                /\ LandsIn(k) /\ run' = run /\ mode' = "run" /\ Pads' = {k}
           /\ ~Catches(Desc(acts[run][k].scopes)) => UNCHANGED <<acts, run, mode>> /\ Pads' = Pads
  BY <1>1, Walks
<1>4. Living' = Living BY <1>2, LivingSame
<1>5. CASE ~Catches(Desc(acts[run][k].scopes))
  <2>1. UNCHANGED <<acts, run, mode>> /\ Pads' = Pads BY <1>3, <1>5
  <2>2. Flying' = Flying BY <1>1, <1>2, <2>1, FlyingSame
  <2> QED BY <1>4, <2>1, <2>2, SeenSame
<1>6. CASE Catches(Desc(acts[run][k].scopes))
  <2>1. LandsIn(k) /\ run' = run /\ mode' = "run" /\ Pads' = {k} BY <1>3, <1>6
  <2>2. Flying = g_eh_exc BY <1>2, UnwindFlies
  <2>3. Flying' = g_eh_exc' BY <1>1, <2>1, FlyingNext
  <2>4. PICK n \in Nat : n = Len(acts[run]) /\ n \in 1 .. MaxDepth /\ DOMAIN acts[run] = 1 .. n
    BY <1>1, ActsTypes
  <2>5. k \in 1 .. n /\ k \in 1 .. MaxDepth
    <3>1. MaxDepth \in Nat BY CartAssumption
    <3> QED BY <1>3, <2>4, <3>1
  <2>6. Abstract!Lands(k) BY <1>2, <1>3, <1>6, <2>4, <2>5, LandsWhere
  <2>7. \A d \in k + 1 .. Len(Seen[run]) : ~Abstract!Lands(d)
    <3> SUFFICES ASSUME NEW d \in k + 1 .. n PROVE ~Abstract!Lands(d)
      BY <1>1, <2>4, SeenIs
    <3>1. d \in DOMAIN acts[run] /\ d > k BY <2>4, <2>5
    <3> QED BY <1>2, <1>3, <3>1, LandsWhere
  <2>8. PICK a \in Activation :
          a = [scopes |-> acts[run][k].scopes, pad |-> Selector(Desc(acts[run][k].scopes))]
    BY <2>1 DEF LandsIn
  <2>9. a.pad # Running /\ acts' = [acts EXCEPT ![run] = Append(SubSeq(@, 1, k - 1), a)]
    BY <2>1, <2>8 DEF LandsIn
  <2>10. Seen' = [Seen EXCEPT ![run] = Append(SubSeq(@, 1, k - 1), Mark(a))]
    BY <1>1, <2>4, <2>5, <2>9, SeenLanding
  <2>11. Mark(a) = [Seen[run][k] EXCEPT !.pad = "landed"]
    <3>1. PICK b \in Activation : b = acts[run][k] BY <1>1, <2>4, <2>5, ActsTypes
    <3>2. PICK m \in Marked : m = Mark(b) /\ m.scopes = b.scopes BY MarkTypes
    <3>3. a.scopes = b.scopes /\ Seen[run][k] = m
      BY <1>1, <2>4, <2>5, <2>8, <3>1, <3>2, SeenActivation
    <3>4. Mark(a) = [scopes |-> a.scopes, pad |-> "landed"] BY <2>9 DEF Mark, Activation
    <3>5. [m EXCEPT !.pad = "landed"] = [scopes |-> m.scopes, pad |-> "landed"] BY DEF Marked
    <3> QED BY <3>2, <3>3, <3>4, <3>5
  <2>12. Abstract!Land(k) BY <1>2, <1>4, <2>1, <2>2, <2>3, <2>6, <2>7, <2>10, <2>11, SeenLand
  <2>13. k \in DOMAIN Seen[run] BY <1>1, <2>4, <2>5, SeenActivation
  <2> QED BY <2>5, <2>12, <2>13
<1> QED BY <1>5, <1>6

LEMMA LeavesPadToo == ASSUME Typed, Top.scopes # <<>>, PadLeave PROVE Abstract!PadLeave
<1>1. PICK a \in Activation : a = [Top EXCEPT !.scopes = Outer] BY PadLeaves
<1>2. Seen' = [Seen EXCEPT ![run] = Append(Front(@), Mark(a))] BY <1>1, SeenWithTop DEF PadLeave
<1>3. Mark(a) = [Mark(Top) EXCEPT !.scopes = Outer]
  <2>1. PICK b \in Activation : b = Top BY TopTypes
  <2>2. [Mark(b) EXCEPT !.scopes = Outer] = Mark([b EXCEPT !.scopes = Outer])
    BY DEF Mark, Activation
  <2> QED BY <1>1, <2>1, <2>2
<1> QED BY <1>2, <1>3, SameTop, SeenTop, SeenActions DEF PadLeave

LEMMA SeenPads ==
  /\ Abstract!Destroy <=>
       /\ mode = "run" /\ ~Abstract!Runs /\ Abstract!Within("guard")
       /\ \/ Abstract!PadLeave
          \/ /\ Len(Seen[run]) < MaxDepth
             /\ Seen' = [Abstract!WithTop([Abstract!Top EXCEPT !.scopes = Abstract!Outer]) EXCEPT
                           ![run] = Append(@, Abstract!Fresh(<<Abstract!Noexcept>>))]
             /\ UNCHANGED run
       /\ UNCHANGED <<mode, Flying, Living>>
  /\ Abstract!Pass <=>
       /\ mode = "run" /\ ~Abstract!Runs /\ Abstract!Within("try")
       /\ Abstract!Catching(Abstract!Inner) = {}
       /\ Abstract!PadLeave /\ UNCHANGED <<mode, Flying, Living>>
  /\ Abstract!LeaveHandler <=>
       /\ mode = "run" /\ Abstract!Within("handler")
       /\ Abstract!PadLeave /\ Living' = Abstract!Released(Abstract!Inner.exc)
       /\ UNCHANGED <<mode, Flying>>
  /\ \A e : Abstract!Released(e) =
       IF e = Flying \/ Cardinality(Abstract!HandlersOf(e)) > 1 THEN Living
       ELSE [x \in DOMAIN Living \ {e} |-> Living[x]]
<1>1. Abstract!Destroy <=>
       /\ mode = "run" /\ ~Abstract!Runs /\ Abstract!Within("guard")
       /\ \/ Abstract!PadLeave
          \/ /\ Len(Seen[run]) < MaxDepth
             /\ Seen' = [Abstract!WithTop([Abstract!Top EXCEPT !.scopes = Abstract!Outer]) EXCEPT
                           ![run] = Append(@, Abstract!Fresh(<<Abstract!Noexcept>>))]
             /\ UNCHANGED run
       /\ UNCHANGED <<mode, Flying, Living>>
  BY DEF Abstract!Destroy, Abstract!PadDestroy, Living, Seen, Marks, Mark
<1>2. Abstract!Pass <=>
       /\ mode = "run" /\ ~Abstract!Runs /\ Abstract!Within("try")
       /\ Abstract!Catching(Abstract!Inner) = {}
       /\ Abstract!PadLeave /\ UNCHANGED <<mode, Flying, Living>>
  BY DEF Abstract!Pass, Living
<1>3. Abstract!LeaveHandler <=>
       /\ mode = "run" /\ Abstract!Within("handler")
       /\ Abstract!PadLeave /\ Living' = Abstract!Released(Abstract!Inner.exc)
       /\ UNCHANGED <<mode, Flying>>
  BY DEF Abstract!LeaveHandler, Living
<1>4. ASSUME NEW e
      PROVE  Abstract!Released(e) =
               IF e = Flying \/ Cardinality(Abstract!HandlersOf(e)) > 1 THEN Living
               ELSE [x \in DOMAIN Living \ {e} |-> Living[x]]
  BY DEF Abstract!Released, Abstract!Restrict, Living, Abstract!Cardinality, Cardinality
<1> QED BY <1>1, <1>2, <1>3, <1>4

LEMMA DestroysToo == ASSUME Holds, Holds', Destroy PROVE Abstract!Destroy
<1>1. Typed /\ Chained /\ Counts /\ Landing /\ Typed' /\ Chained' BY DEF Holds
<1>2. /\ mode = "run" /\ UNCHANGED <<mode, headers, g_eh_exc>> /\ PadDestroy
      /\ ~Runs /\ Within("guard") /\ Top.scopes # <<>>
  BY DEF Destroy, PadDestroy, Within, gvars
<1>3. Pads' = Pads BY <1>1, LandingDestroy
<1>4. UNCHANGED <<Flying, Living>> BY <1>1, <1>2, <1>3, FlyingSame, LivingSame
<1>5. CASE PadLeave
  <2>1. Abstract!PadLeave BY <1>1, <1>2, <1>5, LeavesPadToo
  <2> QED BY <1>1, <1>2, <1>4, <2>1, SameTop, SeenPads
<1>6. CASE /\ Len(acts[run]) < MaxDepth
           /\ acts' = [WithTop([Top EXCEPT !.scopes = Outer]) EXCEPT
                         ![run] = Append(@, Fresh(<<Noexcept>>))]
           /\ UNCHANGED run
  <2>1. PICK a \in Activation : a = [Top EXCEPT !.scopes = Outer]
    BY <1>1, <1>2, TopTypes DEF Activation
  <2>2. PICK x \in Activation : x = Fresh(<<Noexcept>>) /\ Mark(x) = x
    <3>1. Len(Top.scopes) \in 1 .. MaxScopes BY <1>1, <1>2, TopTypes
    <3>2. 1 <= MaxScopes BY <3>1, CartAssumption
    <3>3. <<Noexcept>> \in Seq(Scope) /\ Len(<<Noexcept>>) = 1 BY DEF Scope
    <3>4. <<Noexcept>> \in Stack BY <3>2, <3>3 DEF Stack
    <3> QED BY <3>4, SeenFresh
  <2>3. PICK s \in Seq(Activation) : s = acts[run] /\ s # <<>> BY <1>1, TopTypes, ActsTypes
  <2>4. PICK f \in Seq(Activation) : f = Front(s) BY <2>3, FrontLast
  <2>5. PICK t \in Seq(Activation) : t = Append(f, a) BY Appended
  <2>6. PICK w \in Seq(Activation) : w = Append(t, x) BY Appended
  <2>7. acts' = [acts EXCEPT ![run] = w]
    <3>1. acts \in [Coros -> Activations] /\ run \in Coros BY <1>1 DEF Typed, TypeOK
    <3>2. WithTop(a) = [acts EXCEPT ![run] = t] BY <2>3, <2>4, <2>5 DEF WithTop
    <3>3. acts' = [WithTop(a) EXCEPT ![run] = Append(@, x)] BY <1>6, <2>1, <2>2
    <3>4. WithTop(a)[run] = t BY <3>1, <3>2
    <3>5. acts' = [[acts EXCEPT ![run] = t] EXCEPT ![run] = w] BY <3>2, <3>3, <3>4, <2>6
    <3> QED BY <3>1, <3>5
  <2>8. Seen' = [Seen EXCEPT ![run] = Marks(w)] BY <1>1, <2>7, SeenNext
  <2>9. Marks(w) = Append(Append(Front(Seen[run]), Mark(a)), x)
    <3>1. Marks(w) = Append(Marks(t), x) BY <2>2, <2>6, MarksAppend
    <3>2. Marks(t) = Append(Marks(f), Mark(a)) BY <2>5, MarksAppend
    <3>3. Marks(f) = Front(Seen[run]) BY <1>1, <2>3, <2>4, SeenIs
    <3> QED BY <3>1, <3>2, <3>3
  <2>10. Mark(a) = [Abstract!Top EXCEPT !.scopes = Abstract!Outer]
    <3>1. PICK b \in Activation : b = Top BY <1>1, TopTypes
    <3>2. [Mark(b) EXCEPT !.scopes = Outer] = Mark([b EXCEPT !.scopes = Outer])
      BY DEF Mark, Activation
    <3> QED BY <1>1, <2>1, <3>1, <3>2, SameTop
  <2>11. PICK W : W = Abstract!WithTop(Mark(a)) OBVIOUS
  <2>12. W = [Seen EXCEPT ![run] = Append(Front(@), Mark(a))] BY <2>11, SeenTop
  <2>13. Seen' = [W EXCEPT ![run] = Append(@, x)]
    <3>1. run \in DOMAIN Seen BY <1>1, TopTypes DEF Seen
    <3> QED BY <2>8, <2>9, <2>12, <3>1
  <2>14. x = Abstract!Fresh(<<Abstract!Noexcept>>) BY <2>2, SameWords
  <2>15. Len(Seen[run]) < MaxDepth BY <1>1, <1>6, SeenIs
  <2> QED BY <1>1, <1>2, <1>4, <1>6, <2>10, <2>11, <2>13, <2>14, <2>15, SameTop, SeenPads
<1> QED BY <1>2, <1>5, <1>6 DEF PadDestroy

(* The object goes with the handler that has it last, or not while it      *)
(* flies: then its count is negative.                                      *)
LEMMA ReleasesToo == ASSUME Holds, Holds', LeaveHandler PROVE Abstract!LeaveHandler
<1>1. Typed /\ Chained /\ Counts /\ Typed' /\ Chained' /\ Counts' BY DEF Holds
<1>2. /\ mode = "run" /\ Within("handler") /\ Top.scopes # <<>> /\ Inner.kind = "handler"
      /\ PadLeave /\ __cxa_end_catch /\ UNCHANGED <<mode, run>>
  BY DEF LeaveHandler, Within, PadLeave
<1>3. Abstract!PadLeave BY <1>1, <1>2, LeavesPadToo
<1>4. Pads' = Pads BY <1>1, <1>2, LeavePads
<1>5. PICK e : e = Inner.exc OBVIOUS
<1>6. HandlersOf(e) # {}
  <2>1. PICK a : a = [Top EXCEPT !.scopes = Outer] OBVIOUS
  <2>2. Becomes(Len(acts[run]), a) /\ a.scopes = Outer
    <3>1. Top \in Activation BY <1>1, TopTypes
    <3> QED BY <1>1, <1>2, <2>1, <3>1, PadLeaves DEF Activation
  <2>3. <<run, Len(acts[run]), Len(Top.scopes)>> \in HandlersOf(e)
    BY <1>1, <1>2, <1>5, <2>2, HandlersLeft
  <2> QED BY <2>3
<1>7. e = g_eh_exc /\ e # NoObject
  <2>1. Inner \in Scope BY <1>1, <1>2, TopTypes
  <2>2. e \in Exceptional BY <1>2, <1>5, <2>1 DEF Scope, Try, Noexcept, Guard, Handler
  <2> QED BY <1>1, <1>6, <2>2 DEF Counts
<1>8. Flying = IF Pads # {} THEN e ELSE NoObject BY <1>1, <1>2, <1>7, FlyingIs
<1>9. PICK N \in Nat : N = Cardinality(HandlersOf(e)) /\ N = Handlers
  BY <1>1, <1>7, HandlersNat DEF Handlers
<1>10. Abstract!Released(e) = IF e = Flying \/ N > 1 THEN Living
                              ELSE [x \in DOMAIN Living \ {e} |-> Living[x]]
  BY <1>1, <1>9, SameHandlers, SeenPads
<1>11. CASE Count # 1
  <2>1. UNCHANGED <<g_eh_exc, g_eh_ti>> BY <1>2, <1>7, <1>11 DEF __cxa_end_catch, Count, gvars
  <2>2. Living' = Living BY <1>1, <2>1, LivingKept
  <2>3. Flying' = Flying BY <1>1, <1>2, <1>4, <2>1, FlyingSame
  <2>4. e = Flying \/ N > 1
    <3>1. CASE Pads # {} BY <1>8, <3>1
    <3>2. CASE Pads = {}
      <4>1. Count = N /\ N > 0 BY <1>1, <1>2, <1>7, <1>9, <3>2 DEF Counts, InFlight
      <4> QED BY <1>11, <4>1
    <3> QED BY <3>1, <3>2
  <2> QED BY <1>1, <1>2, <1>3, <1>5, <1>10, <2>2, <2>3, <2>4, SameTop, SeenPads
<1>12. CASE Count = 1
  <2>1. Pads = {}
    <3> SUFFICES ASSUME Pads # {} PROVE FALSE OBVIOUS
    <3>1. Count = -N BY <1>1, <1>2, <1>9 DEF Counts, InFlight
    <3>2. \A n \in Int : -n = 0 - n OBVIOUS
    <3>3. 1 = 0 - N BY <1>12, <3>1, <3>2
    <3> QED BY <3>3
  <2>2. N = 1 BY <1>1, <1>2, <1>7, <1>9, <1>12, <2>1 DEF Counts, InFlight
  <2>3. g_eh_exc' = NoObject BY <1>2, <1>7, <1>12 DEF __cxa_end_catch, Count
  <2>4. Living' = <<>> BY <1>1, <2>3, LivingNext DEF LivingGlobals
  <2>5. Flying = NoObject /\ Flying' = NoObject BY <1>1, <1>8, <2>1, <2>3, FlyingNext
  <2>6. DOMAIN Living = {e} BY <1>1, <1>7, LivingIs DEF LivingGlobals
  <2>7. Abstract!Released(e) = [x \in DOMAIN Living \ {e} |-> Living[x]]
    BY <1>7, <1>10, <2>2, <2>5
  <2>8. DOMAIN Living \ {e} = {} BY <2>6
  <2>9. [x \in DOMAIN Living \ {e} |-> Living[x]] = <<>> BY <2>8
  <2>10. Living' = Abstract!Released(Abstract!Inner.exc) BY <1>1, <1>5, <2>4, <2>7, <2>9, SameTop
  <2>11. UNCHANGED <<mode, Flying>> BY <1>2, <2>5
  <2> QED BY <1>1, <1>2, <1>3, <2>10, <2>11, SameTop, SeenPads
<1> QED BY <1>11, <1>12

LEMMA SeenCatch ==
  ASSUME NEW e, NEW k, NEW p, e = Flying, p = Abstract!Place(k, Living[Flying]),
         k = Abstract!Inner.clauses[Min(Abstract!Catching(Abstract!Inner))],
         mode = "run", ~Abstract!Runs, Abstract!Within("try") \/ Abstract!Within("noexcept"),
         Abstract!Catching(Abstract!Inner) # {}, Abstract!PadCatch(e, k, p),
         mode' = IF Abstract!Within("try") THEN "run" ELSE "halt",
         Flying' = NoObject, UNCHANGED Living
  PROVE  Abstract!Catch
BY DEF Abstract!Catch, Abstract!PadCatch, Abstract!Min, Min, Living

LEMMA SeenPlace ==
  \A k, t : Abstract!Place(k, t) =
       IF k = CatchAll THEN 0 ELSE (CHOOSE s \in Abstract!Subobjects[t] : s[1] = k)[2]
BY SameWords DEF Abstract!Place

(* A handler refers to the object itself.                                  *)
LEMMA PlaceZero ==
  ASSUME NoOffsets, NEW t \in Types, NEW k, k = CatchAll \/ eh_type_matches(t, k)
  PROVE  Abstract!Place(k, t) = 0
<1>1. CASE k = CatchAll BY <1>1, SeenPlace
<1>2. CASE k # CatchAll
  <2>1. \E s \in Abstract!Subobjects[t] : s[1] = k BY <1>2, TypeMatches
  <2>2. PICK x : x = (CHOOSE s \in Abstract!Subobjects[t] : s[1] = k) OBVIOUS
  <2>3. x \in Abstract!Subobjects[t] BY <2>1, <2>2
  <2>4. x[2] = 0 BY <2>3, NoPlaces
  <2> QED BY <1>2, <2>2, <2>4, SeenPlace
<1> QED BY <1>1, <1>2

LEMMA DispatchesToo ==
  ASSUME NoOffsets, Holds, Holds', Dispatch
  PROVE  Abstract!Pass \/ Abstract!Catch
<1>1. Typed /\ Chained /\ Counts /\ Landing /\ Typed' /\ Chained' /\ Counts' BY DEF Holds
<1>2. /\ mode = "run" /\ ~Runs /\ (Within("try") \/ Within("noexcept"))
      /\ Top.scopes # <<>> /\ UNCHANGED <<g_eh_exc, g_eh_ti>>
  BY DEF Dispatch, Within, gvars
<1>3. Pads # {} BY <1>1, <1>2, PadPlace
<1>4. Flying = g_eh_exc /\ g_eh_exc # NoObject
  BY <1>1, <1>2, <1>3, FlyingIs DEF Counts, InFlight
<1>5. PICK H : H = HitsIn(Inner.clauses) OBVIOUS
<1>6. Abstract!Catching(Abstract!Inner) = H BY <1>1, <1>4, <1>5, SameCatching, SameTop
<1>7. SameFirst(Selected(Inner), H) BY <1>1, <1>2, <1>5, PadSelects
<1>8. Living' = Living BY <1>1, <1>2, LivingKept
<1>9. CASE H = {}
  <2>1. PadLeave /\ UNCHANGED mode BY <1>1, <1>7, <1>9, Dispatches DEF SameFirst
  <2>2. Abstract!PadLeave BY <1>1, <1>2, <2>1, LeavesPadToo
  <2>3. Pads' = Pads BY <1>1, <1>2, <2>1, LeavePads
  <2>4. Flying' = Flying BY <1>1, <1>2, <2>1, <2>3, FlyingSame
  <2>5. Within("try")
    <3> SUFFICES ASSUME Within("noexcept") PROVE FALSE BY <1>2
    <3>1. Inner = Noexcept BY <1>1, <1>2, TopTypes, ScopeClauses DEF Within
    <3>2. 1 \in H BY <1>5, <3>1 DEF HitsIn, Hit, Noexcept
    <3> QED BY <1>9, <3>2
  <2> QED BY <1>1, <1>2, <1>6, <1>8, <1>9, <2>1, <2>2, <2>4, <2>5, SameTop, SeenPads
<1>10. CASE H # {}
  <2>1. Selected(Inner) # {} /\ Min(Selected(Inner)) = Min(H) BY <1>7, <1>10 DEF SameFirst
  <2>2. PICK k \in Clauses : k = Inner.clauses[Min(H)] /\ PadCatch(g_eh_exc, k, 0)
    BY <1>1, <2>1, Dispatches
  <2>3. mode' = IF Within("noexcept") THEN "halt" ELSE mode BY <2>1 DEF Dispatch
  <2>4. PICK e \in Exceptional : e = g_eh_exc BY <1>1, TypedParts DEF HeadersTyped
  <2>5. Pads' = {} BY <1>1, <1>2, <2>2, <2>4, CatchPads
  <2>6. mode' = IF Within("try") THEN "run" ELSE "halt" BY <1>2, <2>3 DEF Within
  <2>7. Flying' = NoObject BY <1>1, <2>5, <2>6, FlyingNext
  <2>8. PICK t \in Types : t = g_eh_ti /\ Living[Flying] = t
    <3>1. Living[g_eh_exc] = g_eh_ti BY <1>1, <1>4, LivingIs DEF LivingGlobals
    <3> QED BY <1>1, <1>4, <3>1 DEF Landing
  <2>9. Abstract!Place(k, t) = 0
    <3>1. Min(H) \in H
      <4>1. Inner \in Scope BY <1>1, <1>2, TopTypes
      <4>2. PICK q \in Seq(Clauses) : q = Inner.clauses BY <4>1, ScopeClauses
      <4>3. H \subseteq Nat
        <5>1. HitsIn(q) \subseteq 1 .. Len(q) BY HitsRange
        <5> QED BY <1>5, <4>2, <5>1
      <4> QED BY <1>10, <4>3, MinIn
    <3>2. Hit(k) BY <1>5, <2>2, <3>1 DEF HitsIn
    <3> QED BY <2>8, <3>2, PlaceZero DEF Hit
  <2>10. Abstract!PadCatch(e, k, 0)
    <3>1. PICK o \in Stack : o = Append(Outer, Handler(e, k, 0))
      BY <1>1, <1>2, <2>2, <2>4, PadCatches
    <3>2. acts' = WithTop(Fresh(o)) /\ UNCHANGED run BY <2>2, <2>4, <3>1 DEF PadCatch
    <3>3. Seen' = [Seen EXCEPT ![run] = Append(Front(@), Mark(Fresh(o)))]
      BY <1>1, <3>2, SeenFresh, SeenWithTop
    <3>4. Seen' = Abstract!WithTop(Abstract!Fresh(o)) BY <3>3, SeenFresh, SeenTop, SameWords
    <3>5. o = Append(Abstract!Outer, Abstract!Handler(e, k, 0)) BY <1>1, <3>1, SameTop, SameWords
    <3> QED BY <3>2, <3>4, <3>5, SeenActions
  <2>11. Abstract!Inner = Inner BY <1>1, SameTop
  <2>12. k = Abstract!Inner.clauses[Min(Abstract!Catching(Abstract!Inner))]
    BY <1>6, <2>2, <2>11
  <2>14. /\ ~Abstract!Runs /\ (Abstract!Within("try") \/ Abstract!Within("noexcept"))
         /\ (Abstract!Within("try") <=> Within("try"))
    BY <1>1, <1>2, SameTop
  <2>15. mode' = IF Abstract!Within("try") THEN "run" ELSE "halt" BY <2>6, <2>14
  <2>16. e = Flying /\ 0 = Abstract!Place(k, Living[Flying]) BY <1>4, <2>4, <2>8, <2>9
  <2> QED BY <1>2, <1>6, <1>8, <1>10, <2>7, <2>10, <2>12, <2>14, <2>15, <2>16, SeenCatch
<1> QED BY <1>9, <1>10

LEMMA SeenInit == InitEh => Abstract!InitEh
<1> SUFFICES ASSUME InitEh PROVE Abstract!InitEh OBVIOUS
<1>1. Typed /\ Chained /\ Counts BY TypedInit, ChainedInit, CountsInit
<1>2. run = Main /\ mode = "run" /\ g_eh_exc = NoObject BY DEF InitEh, InitCart
<1>3. Flying = NoObject BY <1>1, <1>2, FlyingIs
<1>4. Living = <<>> BY <1>1, <1>2, LivingIs DEF LivingGlobals
<1>5. PICK a \in Activation : a = Fresh(<<>>) /\ Mark(a) = a BY EmptyStack, SeenFresh
<1>6. acts = [c \in Coros |-> <<a>>] BY <1>5 DEF InitEh, InitCart
<1>7. Marks(<<a>>) = <<a>>
  <2>1. <<>> \in Seq(Activation) /\ <<a>> = Append(<<>>, a) BY EmptySeq
  <2>2. Marks(<<a>>) = Append(Marks(<<>>), a) BY <1>5, <2>1, MarksAppend
  <2>3. Marks(<<>>) = <<>> BY DEF Marks
  <2> QED BY <2>1, <2>2, <2>3
<1>8. Seen = [c \in Coros |-> <<a>>] BY <1>6, <1>7 DEF Seen
<1>9. a = Abstract!Fresh(<<>>) BY <1>5, SameWords
<1>10. Abstract!InitCart <=> Seen = [c \in Coros |-> <<Abstract!Fresh(<<>>)>>] /\ run = Main
  BY DEF Abstract!InitCart, Seen, Marks, Mark
<1>11. Abstract!InitEh <=> Abstract!InitCart /\ mode = "run" /\ Flying = NoObject /\ Living = <<>>
  BY DEF Abstract!InitEh, Living
<1> QED BY <1>2, <1>3, <1>4, <1>8, <1>9, <1>10, <1>11

LEMMA StepMaps ==
  ASSUME ~Overlaps, ~SwapsInScopes, NoOffsets, Holds, Holds', [NextEh]_vars
  PROVE  Abstract!NextEh \/ UNCHANGED <<Seen, run, mode, Flying, Living>>
<1>1. ASSUME UNCHANGED vars PROVE UNCHANGED <<Seen, run, mode, Flying, Living>>
  <2>1. UNCHANGED <<acts, run, mode, g_eh_exc, headers>> BY <1>1 DEF vars, gvars
  <2>2. Pads' = Pads BY <2>1 DEF Pads
  <2>3. Flying' = Flying BY <2>1, <2>2, FlyingSame DEF Holds
  <2> QED BY <2>1, <2>3, SeenSame, LivingSame
<1>2. CASE Invoke \/ InvokeReturns \/ Scopes \/ \E c \in Coros : SwapTo(c)
  <2>1. Abstract!Program BY <1>2, ProgramToo
  <2> QED BY <2>1 DEF Abstract!NextEh
<1>3. CASE \E e \in Objects, t \in Types : __cxa_throw(e, t)
  <2>1. PICK e \in Objects, t \in Types : __cxa_throw(e, t) BY <1>3
  <2>2. Abstract!Throw(e, t) BY <2>1, ThrowsToo
  <2> QED BY <2>2 DEF Abstract!NextEh
<1>4. CASE OutOfMemory
  <2>1. Abstract!OutOfMemory BY <1>4, StopsToo
  <2> QED BY <2>1 DEF Abstract!NextEh
<1>5. CASE __cxa_rethrow
  <2>1. Abstract!Rethrow BY <1>5, RethrowsToo
  <2> QED BY <2>1 DEF Abstract!NextEh
<1>6. CASE eh_unwind
  <2>1. CASE \E d \in 1 .. MaxDepth : d \in DOMAIN Seen[run] /\ Abstract!Land(d)
    BY <2>1 DEF Abstract!NextEh, Seen, Marks, Mark
  <2> QED BY <1>6, <2>1, UnwindsToo
<1>7. CASE __cvm_eh_terminate
  <2>1. Abstract!Uncaught BY <1>7, TerminatesToo
  <2> QED BY <2>1 DEF Abstract!NextEh
<1>8. CASE LeaveHandler
  <2>1. Abstract!LeaveHandler BY <1>8, ReleasesToo
  <2> QED BY <2>1 DEF Abstract!NextEh
<1>9. CASE Destroy
  <2>1. Abstract!Destroy BY <1>9, DestroysToo
  <2> QED BY <2>1 DEF Abstract!NextEh
<1>10. CASE Dispatch
  <2>1. Abstract!Pass \/ Abstract!Catch BY <1>10, DispatchesToo
  <2> QED BY <2>1 DEF Abstract!NextEh
<1>11. CASE __cvm_eh_resume
  <2>1. Abstract!GoOn BY <1>11, GoesOn
  <2> QED BY <2>1 DEF Abstract!NextEh
<1> QED BY <1>1, <1>2, <1>3, <1>4, <1>5, <1>6, <1>7, <1>8, <1>9, <1>10, <1>11 DEF NextEh, Done

LEMMA SeenVars == UNCHANGED <<Seen, run, mode, Flying, Living>> => UNCHANGED Abstract!evars
BY DEF Abstract!evars, Seen, Marks, Mark, Living

(* What cvm_cxxrt.cpp does of a throw, from __cxa_throw to __cxa_end_catch *)
(* and the translated landing pads, is what Exceptions says of it: the     *)
(* handler is the one C++ names, whatever the base classes and the scopes, *)
(* and the object is destroyed with the last handler that has it.  For     *)
(* programs that have one exception at a time, swap no coroutines inside   *)
(* scopes and derive from no class at an offset: the runs eh_overlap and   *)
(* eh_subobject show it lost without the first and the last, and the chain *)
(* is one for all coroutines.                                              *)
THEOREM HandledAsPromised ==
  ASSUME ~Overlaps, ~SwapsInScopes, NoOffsets
  PROVE  Spec => HandlesExceptions
<1>1. InitEh => Holds BY TypedInit, ChainedInit, CountsInit, LandingInit DEF Holds
<1>2. Holds /\ [NextEh]_vars => Holds'
  <2> SUFFICES ASSUME Holds, [NextEh]_vars PROVE Holds' OBVIOUS
  <2>1. Typed /\ Chained /\ Counts /\ Landing BY DEF Holds
  <2>2. Typed' BY <2>1, TypedStep
  <2>3. Chained' BY <2>1, ChainedAll
  <2>4. Counts' BY <2>1, <2>2, CountsAll
  <2>5. Landing' BY <2>1, LandingAll
  <2> QED BY <2>2, <2>3, <2>4, <2>5 DEF Holds
<1>3. Holds /\ Holds' /\ [NextEh]_vars => [Abstract!NextEh]_(Abstract!evars)
  BY StepMaps, SeenVars
<1> QED BY <1>1, <1>2, <1>3, SeenInit, PTL DEF Spec, HandlesExceptions, Abstract!EhSpec
=============================================================================
