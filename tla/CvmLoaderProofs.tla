-------------------------- MODULE CvmLoaderProofs --------------------------
(***************************************************************************)
(* Proofs about the loader, for every set of binaries and allocators, for  *)
(* every failure of an allocation and every number of loads: the types are *)
(* kept, no block leaks or is freed twice, nothing is read outside the     *)
(* file, the memory is laid out without overlap, and what is accepted is a *)
(* cart the interpreter can run.                                           *)
(***************************************************************************)
EXTENDS CvmLoader, NatLemmas, SequenceTheorems, TLAPS

-----------------------------------------------------------------------------
(* Words.                                                                  *)

LEMMA WordFacts == WordMod \in Nat /\ WordMod >= 256 /\ \A n \in Word : n \in Nat
<1>1. ByteBase \in Nat /\ ByteBase >= 4
  BY ByteBaseAssumption
<1>2. \A m \in Nat : ByteBase * m \in Nat /\ ByteBase * m >= 4 * m
  BY <1>1
<1> QED
  BY <1>1, <1>2 DEF HalfMod, TriMod, WordMod, Word

LEMMA ToWordFacts ==
  /\ \A n \in Nat : ToWord(n) \in Word
  /\ \A n \in Word : ToWord(n) = n
BY WordFacts DEF ToWord, Word

LEMMA AlignedFacts ==
  ASSUME NEW n \in Nat
  PROVE  Aligned(n) \in Nat /\ n <= Aligned(n)
BY DEF Aligned

-----------------------------------------------------------------------------
(* The lists of checks: if a list is passed, none of its conditions held.  *)

LEMMA Passes5 ==
  ASSUME NEW c1, NEW c2, NEW c3, NEW c4, NEW c5,
         NEW e1, NEW e2, NEW e3, NEW e4, NEW e5,
         Passes(<< <<c1, e1>>, <<c2, e2>>, <<c3, e3>>, <<c4, e4>>, <<c5, e5>> >>)
  PROVE  ~c1 /\ ~c2 /\ ~c3 /\ ~c4 /\ ~c5
<1> DEFINE c == << <<c1, e1>>, <<c2, e2>>, <<c3, e3>>, <<c4, e4>>, <<c5, e5>> >>
<1>1. \A k \in 1 .. 5 : k \in DOMAIN c
  OBVIOUS
<1>2. 1 \in 1 .. 5 /\ 2 \in 1 .. 5 /\ 3 \in 1 .. 5 /\ 4 \in 1 .. 5 /\ 5 \in 1 .. 5
  OBVIOUS
<1> QED
  BY <1>1, <1>2, Zenon DEF Passes

LEMMA Passes7 ==
  ASSUME NEW c1, NEW c2, NEW c3, NEW c4, NEW c5, NEW c6, NEW c7,
         NEW e1, NEW e2, NEW e3, NEW e4, NEW e5, NEW e6, NEW e7,
         Passes(<< <<c1, e1>>, <<c2, e2>>, <<c3, e3>>, <<c4, e4>>, <<c5, e5>>,
                   <<c6, e6>>, <<c7, e7>> >>)
  PROVE  ~c1 /\ ~c2 /\ ~c3 /\ ~c4 /\ ~c5 /\ ~c6 /\ ~c7
<1> DEFINE c == << <<c1, e1>>, <<c2, e2>>, <<c3, e3>>, <<c4, e4>>, <<c5, e5>>,
                   <<c6, e6>>, <<c7, e7>> >>
<1>1. \A k \in 1 .. 7 : k \in DOMAIN c
  OBVIOUS
<1>2. /\ 1 \in 1 .. 7 /\ 2 \in 1 .. 7 /\ 3 \in 1 .. 7 /\ 4 \in 1 .. 7
      /\ 5 \in 1 .. 7 /\ 6 \in 1 .. 7 /\ 7 \in 1 .. 7
  OBVIOUS
<1> QED
  BY <1>1, <1>2, Zenon DEF Passes

LEMMA HeaderPasses ==
  ASSUME NEW f, Passes(HeaderChecks(f))
  PROVE  ~(f.len < HEADER_SIZE) /\ f.magic /\ TableFits(f)
<1> DEFINE c1 == f.len < HEADER_SIZE
           c2 == ~f.magic
           c3 == ~f.version
           c4 == f.flags # 0
           c5 == ~TableFits(f)
<1>1. Passes(<< <<c1, "TRUNCATED">>, <<c2, "BAD_MAGIC">>, <<c3, "BAD_VERSION">>,
                <<c4, "BAD_SECTION">>, <<c5, "TRUNCATED">> >>)
  BY DEF HeaderChecks
<1> HIDE DEF c1, c2, c3, c4, c5
<1>2. ~c1 /\ ~c2 /\ ~c5
  BY <1>1, Passes5, Zenon
<1> QED
  BY <1>2 DEF c1, c2, c5

(* What a section has passed when the loader stores it.                    *)
SectionSound(s) ==
  /\ s.type \notin NoPayload => s.off + s.size <= file.len
  /\ s.type \in {"CODE", "FUNCS"} => s.size # 0 /\ s.size % 4 = 0

LEMMA SectionPasses ==
  ASSUME file.len \in Nat, NEW s \in Section, Passes(SectionChecks(s))
  PROVE  /\ s.type # "BAD"
         /\ s.type = "DEBUG" \/ s.type \notin L.seen
         /\ SectionSound(s)
<1> DEFINE c1 == s.flags # 0
           c2 == s.type = "BAD"
           c3 == s.type # "DEBUG" /\ s.type \in L.seen
           c4 == s.type \notin NoPayload /\ s.off + s.size > file.len
           c5 == s.type \in NoPayload /\ s.off # 0
           c6 == s.type = "CODE" /\ (s.size = 0 \/ s.size % 4 # 0)
           c7 == s.type = "FUNCS" /\ (s.size = 0 \/ s.size % 4 # 0)
<1>1. Passes(<< <<c1, "BAD_SECTION">>, <<c2, "BAD_SECTION">>, <<c3, "DUP_SECTION">>,
                <<c4, "TRUNCATED">>, <<c5, "BAD_SECTION">>, <<c6, "BAD_SECTION">>,
                <<c7, "BAD_FUNCS">> >>)
  BY DEF SectionChecks
<1> HIDE DEF c1, c2, c3, c4, c5, c6, c7
<1>2. ~c1 /\ ~c2 /\ ~c3 /\ ~c4 /\ ~c5 /\ ~c6 /\ ~c7
  BY <1>1, Passes7, Zenon
<1>3. s.off \in Nat /\ s.size \in Nat
  BY WordFacts DEF Section
<1> QED
  BY <1>2, <1>3 DEF c1, c2, c3, c4, c5, c6, c7, SectionSound

LEMMA EndOfSectionsPasses ==
  ASSUME Passes(<< <<"CODE" \notin L.seen, "NO_CODE">>,
                   <<file.entry >= code_count, "BAD_ENTRY">>,
                   <<size("HOST_REGION") \in 1 .. 3, "BAD_REGION">>,
                   <<region_count > MAX_U16, "BAD_REGION">>,
                   <<size("HOST_REGION") > 0 /\ ~RegionsFit, "BAD_REGION">> >>)
  PROVE  /\ "CODE" \in L.seen /\ ~(file.entry >= code_count)
         /\ size("HOST_REGION") \notin 1 .. 3
         /\ ~(size("HOST_REGION") > 0 /\ ~RegionsFit)
<1> DEFINE c1 == "CODE" \notin L.seen
           c2 == file.entry >= code_count
           c3 == size("HOST_REGION") \in 1 .. 3
           c4 == region_count > MAX_U16
           c5 == size("HOST_REGION") > 0 /\ ~RegionsFit
<1>1. Passes(<< <<c1, "NO_CODE">>, <<c2, "BAD_ENTRY">>, <<c3, "BAD_REGION">>,
                <<c4, "BAD_REGION">>, <<c5, "BAD_REGION">> >>)
  OBVIOUS
<1> HIDE DEF c1, c2, c3, c4, c5
<1>2. ~c1 /\ ~c2 /\ ~c3 /\ ~c5
  BY <1>1, Passes5, Zenon
<1> QED
  BY <1>2 DEF c1, c2, c3, c5

(* The checks of a region entry, of which same and total are the last two. *)
RegionChecks(e, same, total) ==
  << <<~e.terminated \/ e.name = <<>>, "BAD_REGION">>,
     <<e.flags # 0, "BAD_REGION">>,
     <<e.dir \notin 1 .. 3, "BAD_REGION">>,
     <<same, "BAD_REGION">>,
     <<total > MAX_U32, "BAD_REGION">> >>

LEMMA RegionPasses ==
  ASSUME NEW e, NEW same, NEW total, Passes(RegionChecks(e, same, total))
  PROVE  e.terminated /\ e.name # <<>> /\ ~same /\ ~(total > MAX_U32)
<1> DEFINE c1 == ~e.terminated \/ e.name = <<>>
           c2 == e.flags # 0
           c3 == e.dir \notin 1 .. 3
           c5 == total > MAX_U32
<1>1. Passes(<< <<c1, "BAD_REGION">>, <<c2, "BAD_REGION">>, <<c3, "BAD_REGION">>,
                <<same, "BAD_REGION">>, <<c5, "BAD_REGION">> >>)
  BY DEF RegionChecks
<1> HIDE DEF c1, c2, c3, c5
<1>2. ~c1 /\ ~same /\ ~c5
  BY <1>1, Passes5, Zenon
<1> QED
  BY <1>2 DEF c1, c5

LEMMA EndOfRegionsPasses ==
  ASSUME NEW c5, NEW c6, NEW c7,
         Passes(<< <<heap_total > MAX_U32, "BAD_SECTION">>,
                   <<size("STACK_RESERVE") \in 1 .. 3, "BAD_SECTION">>,
                   <<mem_total > MAX_U32, "BAD_SECTION">>,
                   <<size("IMPORTS") \in 1 .. 3, "BAD_IMPORTS">>,
                   <<c5, "BAD_IMPORTS">>, <<c6, "BAD_IMPORTS">>,
                   <<c7, "BAD_IMPORTS">> >>)
  PROVE  /\ ~(heap_total > MAX_U32) /\ ~(mem_total > MAX_U32)
         /\ size("STACK_RESERVE") \notin 1 .. 3
<1> DEFINE c1 == heap_total > MAX_U32
           c2 == size("STACK_RESERVE") \in 1 .. 3
           c3 == mem_total > MAX_U32
           c4 == size("IMPORTS") \in 1 .. 3
<1>1. Passes(<< <<c1, "BAD_SECTION">>, <<c2, "BAD_SECTION">>, <<c3, "BAD_SECTION">>,
                <<c4, "BAD_IMPORTS">>, <<c5, "BAD_IMPORTS">>, <<c6, "BAD_IMPORTS">>,
                <<c7, "BAD_IMPORTS">> >>)
  OBVIOUS
<1> HIDE DEF c1, c2, c3, c4
<1>2. ~c1 /\ ~c2 /\ ~c3
  BY <1>1, Passes7, Zenon
<1> QED
  BY <1>2 DEF c1, c2, c3

(* What a step that makes checks does: it goes on, or the load ends.       *)
LEMMA CheckCases ==
  ASSUME NEW checks, NEW next, NEW locals, NEW read,
         Check(checks, next, locals, read)
  PROVE  /\ reads' = read
         /\ UNCHANGED <<file, allocator, out, loads, live, misfreed>>
         /\ \/ Passes(checks) /\ stage' = next /\ L' = locals /\ err' = err
            \/ stage' = "none" /\ L' = NoLocals /\ err' \in LoadErrors
BY DEF Check, Continue, Return

-----------------------------------------------------------------------------
(* Types.  The type invariant of the module says what the fields of the    *)
(* locals and of the image are; that they are records is needed as well.   *)

LocalsShape ==
  L = [i |-> L.i, seen |-> L.seen, sec |-> L.sec, region_total |-> L.region_total,
       cursor |-> L.cursor, ptr |-> L.ptr, mem |-> L.mem, funcs |-> L.funcs,
       regions |-> L.regions]

OutShape ==
  out = [blocks |-> out.blocks, allocator |-> out.allocator, code |-> out.code,
         funcs |-> out.funcs, entry |-> out.entry, heap |-> out.heap,
         heapSize |-> out.heapSize, reserve |-> out.reserve,
         stackSize |-> out.stackSize, memSize |-> out.memSize,
         romOffset |-> out.romOffset, romSize |-> out.romSize,
         regions |-> out.regions, names |-> out.names, imports |-> out.imports]

Typed == TypeOK /\ LocalsShape /\ OutShape

LEMMA FileFacts ==
  ASSUME Typed
  PROVE  /\ IsFile(file)
         /\ file.len \in Nat /\ file.table_off \in Nat /\ file.entry \in Nat
         /\ Len(file.sections) \in Nat /\ Len(file.regions) \in Nat
         /\ Len(file.imports) \in Nat
         /\ \A k \in 1 .. Len(file.sections) : file.sections[k] \in Section
         /\ \A k \in 1 .. Len(file.regions) :
              /\ file.regions[k] \in RegionEntry
              /\ file.regions[k].size \in Nat
<1>1. IsFile(file)
  <2>1. IsFile(NoFile)
    BY WordFacts DEF IsFile, NoFile, Word
  <2> QED
    BY <2>1, FilesAssumption DEF Typed, TypeOK
<1>2. /\ file.sections \in Seq(Section) /\ file.regions \in Seq(RegionEntry)
      /\ file.imports \in Seq(ImportEntry)
      /\ file.len \in Nat /\ file.table_off \in Word /\ file.entry \in Word
  BY <1>1 DEF IsFile
<1>3. \A k \in 1 .. Len(file.regions) : file.regions[k] \in RegionEntry
  BY <1>2
<1>4. \A e \in RegionEntry : e.size \in Nat
  BY WordFacts DEF RegionEntry
<1> QED
  BY <1>1, <1>2, <1>3, <1>4, WordFacts

LEMMA SizeFacts ==
  ASSUME Typed, NEW t \in SecTypes
  PROVE  /\ size(t) \in Word /\ off(t) \in Word
         /\ size(t) \in Nat /\ off(t) \in Nat
<1>1. L.sec[t] \in [off : Word, size : Word]
  BY DEF Typed, TypeOK
<1>2. size(t) \in Word /\ off(t) \in Word
  BY <1>1 DEF size, off
<1> QED
  BY <1>2, WordFacts

LEMMA TypesInitial == Init => Typed
BY WordFacts, HostAssumption
   DEF Init, Typed, TypeOK, LocalsShape, OutShape, NoLocals, NoImage, Stages,
       LoadErrors, Word, SecTypes, NoPayload, HostOnly

LEMMA NoLocalsTyped ==
  ASSUME L' = NoLocals
  PROVE  /\ LocalsShape'
         /\ L'.i \in Nat \ {0} /\ L'.seen \subseteq SecTypes
         /\ L'.sec \in [SecTypes -> [off : Word, size : Word]]
         /\ L'.region_total \in Word /\ L'.cursor \in Word
         /\ L'.ptr \subseteq AllBlocks
BY WordFacts DEF NoLocals, LocalsShape, Word

(* What a step keeps that changes only the locals.                         *)
LEMMA TypedFrame ==
  ASSUME Typed, UNCHANGED <<file, allocator, out, loads, live>>,
         stage' \in Stages, err' = err \/ err' \in LoadErrors,
         LocalsShape', L'.i \in Nat \ {0}, L'.seen \subseteq SecTypes,
         L'.sec \in [SecTypes -> [off : Word, size : Word]],
         L'.region_total \in Word, L'.cursor \in Word, L'.ptr \subseteq AllBlocks
  PROVE  Typed'
BY DEF Typed, TypeOK, OutShape

LEMMA TypesFail ==
  ASSUME Typed, UNCHANGED <<file, allocator, out, loads, live>>,
         stage' = "none", L' = NoLocals, err' \in LoadErrors
  PROVE  Typed'
BY NoLocalsTyped, TypedFrame DEF Stages

LEMMA TypesLoad ==
  ASSUME Typed, NEW f \in Files, NEW a \in Allocators, cvm_load_ex(f, a)
  PROVE  Typed'
<1>1. /\ file' = f /\ allocator' = a /\ out' = NoImage /\ L' = NoLocals
      /\ live' = live /\ loads' = loads + 1 /\ loads < MaxLoads
      /\ stage' \in {"sections", "none"} /\ err' \in LoadErrors \cup {"OK"}
  BY DEF cvm_load_ex
<1>2. OutShape' /\ out'.blocks \subseteq AllBlocks
  BY <1>1 DEF OutShape, NoImage
<1>3. loads' \in 0 .. MaxLoads
  BY <1>1, HostAssumption DEF Typed, TypeOK
<1> QED
  BY <1>1, <1>2, <1>3, NoLocalsTyped DEF Typed, TypeOK, Stages

LEMMA TypesReadSection == ASSUME Typed, ReadSection PROVE Typed'
<1> DEFINE s == file.sections[L.i]
           locals == [L EXCEPT !.i = @ + 1, !.seen = @ \cup ({s.type} \ {"DEBUG"}),
                       !.sec = IF s.type \in HostOnly THEN @
                               ELSE [@ EXCEPT ![s.type] = [off |-> s.off, size |-> s.size]]]
           read == Span(file.table_off + (L.i - 1) * SECTION_SIZE, SECTION_SIZE)
<1>1. stage = "sections" /\ L.i <= Len(file.sections)
      /\ Check(SectionChecks(s), "sections", locals, read)
  BY DEF ReadSection
<1>2. s \in Section
  BY <1>1, FileFacts DEF Typed, TypeOK
<1>3. CASE Passes(SectionChecks(s)) /\ stage' = "sections" /\ L' = locals /\ err' = err
  <2>1. s.type \in SecTypes /\ s.off \in Word /\ s.size \in Word
    BY <1>2, <1>3, FileFacts, SectionPasses DEF Section
  <2>2. [off |-> s.off, size |-> s.size] \in [off : Word, size : Word]
    BY <2>1
  <2> HIDE DEF s
  <2>3. /\ L'.i = L.i + 1 /\ L'.seen = L.seen \cup ({s.type} \ {"DEBUG"})
        /\ L'.sec = IF s.type \in HostOnly THEN L.sec
                    ELSE [L.sec EXCEPT ![s.type] = [off |-> s.off, size |-> s.size]]
        /\ L'.region_total = L.region_total /\ L'.cursor = L.cursor /\ L'.ptr = L.ptr
        /\ LocalsShape'
    BY <1>3 DEF Typed, LocalsShape
  <2>4. L'.sec \in [SecTypes -> [off : Word, size : Word]]
    BY <2>1, <2>2, <2>3 DEF Typed, TypeOK
  <2> QED
    BY <1>1, <1>3, <2>1, <2>3, <2>4, CheckCases, TypedFrame DEF Typed, TypeOK
<1>4. CASE stage' = "none" /\ L' = NoLocals /\ err' \in LoadErrors
  BY <1>1, <1>4, CheckCases, TypesFail, Zenon
<1> HIDE DEF s, locals, read
<1> QED
  BY <1>1, <1>3, <1>4, CheckCases, Zenon

LEMMA TypesEndOfSections == ASSUME Typed, EndOfSections PROVE Typed'
<1>1. /\ UNCHANGED <<file, allocator, out, loads, live>>
      /\ \/ stage' = "regions" /\ L' = [L EXCEPT !.i = 1] /\ err' = err
         \/ stage' = "none" /\ L' = NoLocals /\ err' \in LoadErrors
  BY CheckCases, Zenon DEF EndOfSections
<1>2. CASE stage' = "regions" /\ L' = [L EXCEPT !.i = 1] /\ err' = err
  <2>1. /\ L'.i = 1 /\ L'.seen = L.seen /\ L'.sec = L.sec /\ L'.ptr = L.ptr
        /\ L'.region_total = L.region_total /\ L'.cursor = L.cursor /\ LocalsShape'
    BY <1>2 DEF Typed, LocalsShape
  <2> QED
    BY <1>1, <1>2, <2>1, TypedFrame DEF Typed, TypeOK, Stages
<1> QED
  BY <1>1, <1>2, TypesFail

LEMMA TypesCheckRegion == ASSUME Typed, CheckRegion PROVE Typed'
<1> DEFINE e == file.regions[L.i]
           total == L.region_total + Aligned(e.size)
           locals == [L EXCEPT !.i = @ + 1, !.region_total = total]
           same == \E j \in 1 .. L.i - 1 : file.regions[j].name = e.name
           checks == RegionChecks(e, same, total)
           read == UNION {EntryAt(j) : j \in 1 .. L.i}
<1>1. L.i <= region_count /\ Check(checks, "regions", locals, read)
  BY DEF CheckRegion, RegionChecks
<1>2. CASE Passes(checks) /\ stage' = "regions" /\ L' = locals /\ err' = err
  <2>1. L.i \in 1 .. Len(file.regions)
    BY <1>1, FileFacts DEF region_count, Typed, TypeOK
  <2>2. e.size \in Nat /\ L.region_total \in Nat
    BY <2>1, FileFacts, WordFacts DEF Typed, TypeOK
  <2>3. Aligned(e.size) \in Nat
    BY <2>2, AlignedFacts, Zenon
  <2>4. ~(total > MAX_U32)
    <3> HIDE DEF e, total, same
    <3> QED
      BY <1>2, RegionPasses, Zenon
  <2>5. total \in Word
    <3> HIDE DEF e
    <3> QED
      BY <2>2, <2>3, <2>4, WordFacts DEF MAX_U32, Word
  <2> HIDE DEF total, e
  <2>6. /\ L'.i = L.i + 1 /\ L'.seen = L.seen /\ L'.sec = L.sec /\ L'.ptr = L.ptr
        /\ L'.region_total = total /\ L'.cursor = L.cursor /\ LocalsShape'
    BY <1>2 DEF Typed, LocalsShape
  <2>7. UNCHANGED <<file, allocator, out, loads, live>>
    BY <1>1, CheckCases, Zenon
  <2>8. L'.i \in Nat \ {0} /\ stage' \in Stages
    BY <1>2, <2>6 DEF Typed, TypeOK, Stages
  <2> QED
    BY <1>2, <2>5, <2>6, <2>7, <2>8, TypedFrame DEF Typed, TypeOK
<1>3. CASE stage' = "none" /\ L' = NoLocals /\ err' \in LoadErrors
  BY <1>1, <1>3, CheckCases, TypesFail, Zenon
<1> HIDE DEF checks, locals, read
<1> QED
  BY <1>1, <1>2, <1>3, CheckCases, Zenon

LEMMA TypesEndOfRegions == ASSUME Typed, EndOfRegions PROVE Typed'
<1>1. /\ UNCHANGED <<file, allocator, out, loads, live>>
      /\ \/ stage' = "alloc" /\ L' = [L EXCEPT !.i = 1] /\ err' = err
         \/ stage' = "none" /\ L' = NoLocals /\ err' \in LoadErrors
  BY CheckCases, Zenon DEF EndOfRegions
<1>2. CASE stage' = "alloc" /\ L' = [L EXCEPT !.i = 1] /\ err' = err
  <2>1. /\ L'.i = 1 /\ L'.seen = L.seen /\ L'.sec = L.sec /\ L'.ptr = L.ptr
        /\ L'.region_total = L.region_total /\ L'.cursor = L.cursor /\ LocalsShape'
    BY <1>2 DEF Typed, LocalsShape
  <2> QED
    BY <1>1, <1>2, <2>1, TypedFrame DEF Typed, TypeOK, Stages
<1> QED
  BY <1>1, <1>2, TypesFail

(* The steps behind the checks change few of the locals: the counter, the  *)
(* blocks, the memory, the functions, the regions and the cursor.          *)
LEMMA TypesLocals ==
  ASSUME Typed, UNCHANGED <<file, allocator, out, loads, live>>, err' = err,
         stage' \in Stages, LocalsShape',
         L'.i \in Nat \ {0}, L'.seen = L.seen, L'.sec = L.sec,
         L'.region_total = L.region_total, L'.cursor \in Word, L'.ptr = L.ptr
  PROVE  Typed'
BY TypedFrame DEF Typed, TypeOK

LEMMA TypesOom == ASSUME Typed, Oom PROVE Typed'
<1>1. /\ UNCHANGED <<file, allocator, out, loads>>
      /\ stage' = "none" /\ L' = NoLocals /\ err' = "NOMEM" /\ live' \subseteq live
  BY DEF Oom, Return, Free
<1> QED
  BY <1>1, NoLocalsTyped DEF Typed, TypeOK, OutShape, Stages, LoadErrors

LEMMA TypesAlloc == ASSUME Typed, cvm_int_alloc PROVE Typed'
<1> DEFINE b == Blocks[L.i]
<1>1. stage = "alloc" /\ L.i \in 1 .. 8
  BY DEF cvm_int_alloc, Typed, TypeOK, Blocks
<1>2. b \in AllBlocks
  BY <1>1 DEF Blocks, AllBlocks, ImportArrays
<1>3. CASE Continue("alloc", [L EXCEPT !.i = @ + 1], {})
  <2>1. /\ UNCHANGED <<file, allocator, out, loads, live>> /\ err' = err
        /\ stage' \in Stages
    BY <1>3 DEF Continue, Stages
  <2>2. /\ L'.i = L.i + 1 /\ L'.seen = L.seen /\ L'.sec = L.sec /\ L'.ptr = L.ptr
        /\ L'.region_total = L.region_total /\ L'.cursor = L.cursor /\ LocalsShape'
    BY <1>3 DEF Continue, Typed, LocalsShape
  <2> QED
    BY <1>1, <2>1, <2>2, TypesLocals DEF Typed, TypeOK
<1>4. CASE /\ live' = live \cup {<<b, allocator>>}
           /\ L' = [L EXCEPT !.i = @ + 1, !.ptr = @ \cup {b}]
           /\ UNCHANGED <<file, allocator, stage, out, misfreed, err, loads>>
  <2> HIDE DEF b
  <2>1. /\ L'.i = L.i + 1 /\ L'.seen = L.seen /\ L'.sec = L.sec
        /\ L'.ptr = L.ptr \cup {b}
        /\ L'.region_total = L.region_total /\ L'.cursor = L.cursor /\ LocalsShape'
    BY <1>4 DEF Typed, LocalsShape
  <2>2. live' \subseteq AllBlocks \X Allocators
    BY <1>2, <1>4 DEF Typed, TypeOK
  <2>3. L'.i \in Nat \ {0}
    BY <1>1, <2>1
  <2> QED
    BY <1>2, <1>4, <2>1, <2>2, <2>3 DEF Typed, TypeOK, OutShape
<1> QED
  BY <1>3, <1>4, TypesOom DEF cvm_int_alloc

LEMMA TypesEndOfAlloc == ASSUME Typed, EndOfAlloc PROVE Typed'
<1>1. CASE Continue("fill", L, {})
  BY <1>1 DEF Continue, Typed, TypeOK, LocalsShape, OutShape, Stages
<1> QED
  BY <1>1, TypesOom DEF EndOfAlloc

LEMMA TypesFillMemory == ASSUME Typed, FillMemory PROVE Typed'
<1>1. /\ UNCHANGED <<file, allocator, out, loads, live>> /\ err' = err
      /\ stage' \in Stages /\ L' = [L EXCEPT !.i = 1, !.mem = InitialMemory]
  BY DEF FillMemory, Continue, Stages
<1>2. /\ L'.i = 1 /\ L'.seen = L.seen /\ L'.sec = L.sec /\ L'.ptr = L.ptr
      /\ L'.region_total = L.region_total /\ L'.cursor = L.cursor /\ LocalsShape'
  BY <1>1 DEF Typed, LocalsShape
<1> QED
  BY <1>1, <1>2, TypesLocals DEF Typed, TypeOK

LEMMA TypesCopyFunc == ASSUME Typed, CopyFunc PROVE Typed'
<1> DEFINE target == file.funcs[L.i]
           read == Span(off("FUNCS") + (L.i - 1) * 4, 4)
<1>1. CASE /\ Free(FuncsFrees \cap L.ptr, allocator) /\ Return("BAD_FUNCS", read)
  <2>1. /\ UNCHANGED <<file, allocator, out, loads>>
        /\ stage' = "none" /\ L' = NoLocals /\ err' = "BAD_FUNCS" /\ live' \subseteq live
    BY <1>1 DEF Return, Free
  <2> QED
    BY <2>1, NoLocalsTyped DEF Typed, TypeOK, OutShape, Stages, LoadErrors
<1>2. CASE Continue("funcs", [L EXCEPT !.i = @ + 1, !.funcs = Append(@, target)], read)
  <2>1. /\ UNCHANGED <<file, allocator, out, loads, live>> /\ err' = err
        /\ stage' \in Stages
    BY <1>2 DEF Continue, Stages
  <2> HIDE DEF target
  <2>2. /\ L'.i = L.i + 1 /\ L'.seen = L.seen /\ L'.sec = L.sec /\ L'.ptr = L.ptr
        /\ L'.region_total = L.region_total /\ L'.cursor = L.cursor /\ LocalsShape'
    BY <1>2 DEF Continue, Typed, LocalsShape
  <2> QED
    BY <2>1, <2>2, TypesLocals DEF Typed, TypeOK
<1> QED
  BY <1>1, <1>2 DEF CopyFunc

LEMMA TypesCopyImports == ASSUME Typed, CopyImports PROVE Typed'
<1> DEFINE cursor == ToWord(size("DATA") + size("BSS"))
<1>1. /\ UNCHANGED <<file, allocator, out, loads, live>> /\ err' = err
      /\ stage' \in Stages /\ L' = [L EXCEPT !.i = 1, !.cursor = cursor]
  BY DEF CopyImports, Continue, Stages
<1>2. cursor \in Word
  BY SizeFacts, ToWordFacts DEF SecTypes, NoPayload
<1> HIDE DEF cursor
<1>3. /\ L'.i = 1 /\ L'.seen = L.seen /\ L'.sec = L.sec /\ L'.ptr = L.ptr
      /\ L'.region_total = L.region_total /\ L'.cursor = cursor /\ LocalsShape'
  BY <1>1 DEF Typed, LocalsShape
<1> QED
  BY <1>1, <1>2, <1>3, TypesLocals DEF Typed, TypeOK

LEMMA TypesPlaceRegion == ASSUME Typed, PlaceRegion PROVE Typed'
<1> DEFINE e == file.regions[L.i]
           placed == [name |-> e.name, size |-> e.size, offset |-> L.cursor]
           cursor == ToWord(L.cursor + Aligned(e.size))
<1>1. /\ UNCHANGED <<file, allocator, out, loads, live>> /\ err' = err
      /\ stage' \in Stages /\ L.i <= region_count
      /\ L' = [L EXCEPT !.i = @ + 1, !.regions = Append(@, placed), !.cursor = cursor]
  BY DEF PlaceRegion, Continue, Stages, Typed, LocalsShape
<1>2. L.i \in 1 .. Len(file.regions)
  BY <1>1, FileFacts DEF region_count, Typed, TypeOK
<1>3. e.size \in Nat /\ L.cursor \in Nat
  BY <1>2, FileFacts, WordFacts DEF Typed, TypeOK
<1>4. Aligned(e.size) \in Nat
  BY <1>3, AlignedFacts, Zenon
<1>5. cursor \in Word
  BY <1>3, <1>4, ToWordFacts
<1> HIDE DEF placed, cursor
<1>6. /\ L'.i = L.i + 1 /\ L'.seen = L.seen /\ L'.sec = L.sec /\ L'.ptr = L.ptr
      /\ L'.region_total = L.region_total /\ L'.cursor = cursor /\ LocalsShape'
  BY <1>1 DEF Typed, LocalsShape
<1>7. L'.i \in Nat \ {0}
  BY <1>6 DEF Typed, TypeOK
<1> QED
  BY <1>1, <1>5, <1>6, <1>7, TypesLocals

LEMMA TypesPublish == ASSUME Typed, Publish PROVE Typed'
<1>1. OutShape' /\ out'.blocks = L.ptr
  BY DEF Publish, OutShape
<1>2. UNCHANGED <<file, allocator, L, live, loads>> /\ stage' = "loaded" /\ err' = "OK"
  BY DEF Publish
<1> QED
  BY <1>1, <1>2 DEF Typed, TypeOK, LocalsShape, Stages

LEMMA TypesLink == ASSUME Typed, NEW name, cvm_link(name) PROVE Typed'
<1>1. OutShape' /\ out'.blocks = out.blocks
  BY DEF cvm_link, Typed, OutShape
<1>2. /\ UNCHANGED <<file, allocator, stage, L, live, loads>>
      /\ err' \in LoadErrors \cup {"OK"}
  BY DEF cvm_link, LoadErrors
<1> QED
  BY <1>1, <1>2 DEF Typed, TypeOK, LocalsShape

LEMMA TypesFree == ASSUME Typed, cvm_image_free PROVE Typed'
<1>1. OutShape' /\ out'.blocks = {}
  BY DEF cvm_image_free, NoImage, OutShape
<1>2. /\ UNCHANGED <<file, allocator, err, loads>> /\ stage' = "none"
      /\ L' = NoLocals /\ live' \subseteq live
  BY DEF cvm_image_free, Free
<1> QED
  BY <1>1, <1>2, NoLocalsTyped DEF Typed, TypeOK, Stages

LEMMA TypesStep == ASSUME Typed, [Next]_vars PROVE Typed'
<1>1. CASE UNCHANGED vars
  BY <1>1 DEF vars, Typed, TypeOK, LocalsShape, OutShape
<1>2. CASE Step
  BY <1>2, TypesReadSection, TypesEndOfSections, TypesCheckRegion, TypesEndOfRegions,
     TypesAlloc, TypesEndOfAlloc, TypesFillMemory, TypesCopyFunc, TypesCopyImports,
     TypesPlaceRegion, TypesPublish DEF Step
<1>3. CASE Host
  BY <1>3, TypesLoad, TypesLink, TypesFree DEF Host
<1> QED
  BY <1>1, <1>2, <1>3 DEF Next, Done

(* The types of the loader: sizes and offsets stay 32-bit words, also the  *)
(* region total and the cursor, whatever the files say.                    *)
THEOREM TypeCorrect == Spec => []TypeOK
<1>1. Typed /\ [Next]_vars => Typed'
  BY TypesStep
<1>2. Typed => TypeOK
  BY DEF Typed
<1> QED
  BY <1>1, <1>2, TypesInitial, PTL DEF Spec

LEMMA TypedHolds == Spec => []Typed
<1>1. Typed /\ [Next]_vars => Typed'
  BY TypesStep
<1> QED
  BY <1>1, TypesInitial, PTL DEF Spec

-----------------------------------------------------------------------------
(* Blocks.  While a load is under way the blocks allocated are those that  *)
(* ptr records, and there are none before the stage that allocates.        *)

Ownership ==
  /\ misfreed = {}
  /\ stage # "loaded" => out.blocks = {}
  /\ stage = "none" => live = {}
  /\ stage \in {"sections", "regions"} => L.ptr = {}
  /\ stage \notin {"none", "loaded"} => live = L.ptr \X {allocator}
  /\ stage = "loaded" => live = out.blocks \X {out.allocator}

LEMMA FreeAll ==
  ASSUME NEW blocks \in SUBSET AllBlocks, NEW a, live = blocks \X {a},
         misfreed = {}, Free(AllBlocks \cap blocks, a)
  PROVE  live' = {} /\ misfreed' = {}
<1>1. AllBlocks \cap blocks = blocks
  OBVIOUS
<1>2. \A b \in blocks : <<b, a>> \in live
  OBVIOUS
<1> QED
  BY <1>1, <1>2 DEF Free

LEMMA OwnershipFrame ==
  ASSUME Ownership, UNCHANGED <<allocator, out, live, misfreed>>,
         stage \notin {"none", "loaded"}, L'.ptr = L.ptr,
         stage' \notin {"none", "loaded"},
         stage' \in {"sections", "regions"} => stage \in {"sections", "regions"}
  PROVE  Ownership'
BY DEF Ownership

LEMMA OwnershipFail ==
  ASSUME Ownership, UNCHANGED <<allocator, out, live, misfreed>>,
         stage \in {"sections", "regions"}, stage' = "none"
  PROVE  Ownership'
BY DEF Ownership

LEMMA OwnershipCheck ==
  ASSUME Typed, Ownership, stage \in {"sections", "regions"},
         NEW next, next \in {"sections", "regions", "alloc"}, NEW locals,
         locals.ptr = L.ptr, NEW checks, NEW read, Check(checks, next, locals, read)
  PROVE  Ownership'
<1>1. CASE stage' = next /\ L' = locals
  BY <1>1, CheckCases, OwnershipFrame DEF Ownership
<1>2. CASE stage' = "none"
  BY <1>2, CheckCases, OwnershipFail
<1> QED
  BY <1>1, <1>2, CheckCases, Zenon

LEMMA OwnershipOom ==
  ASSUME Typed, Ownership, stage \notin {"none", "loaded"},
         Free(AllBlocks \cap L.ptr, allocator), stage' = "none", UNCHANGED out
  PROVE  Ownership'
<1>1. live' = {} /\ misfreed' = {}
  BY FreeAll DEF Ownership, Typed, TypeOK
<1> QED
  BY <1>1 DEF Ownership

LEMMA OwnershipValidate ==
  ASSUME Typed, Ownership,
         ReadSection \/ EndOfSections \/ CheckRegion \/ EndOfRegions
  PROVE  Ownership'
<1>1. CASE ReadSection
  <2> DEFINE s == file.sections[L.i]
             locals == [L EXCEPT !.i = @ + 1, !.seen = @ \cup ({s.type} \ {"DEBUG"}),
                       !.sec = IF s.type \in HostOnly THEN @
                               ELSE [@ EXCEPT ![s.type] = [off |-> s.off, size |-> s.size]]]
             read == Span(file.table_off + (L.i - 1) * SECTION_SIZE, SECTION_SIZE)
  <2>1. stage = "sections" /\ Check(SectionChecks(s), "sections", locals, read)
    BY <1>1 DEF ReadSection
  <2>2. locals.ptr = L.ptr
    BY DEF Typed, LocalsShape
  <2> HIDE DEF locals, read, s
  <2> QED
    BY <2>1, <2>2, OwnershipCheck
<1>2. CASE EndOfSections
  <2> DEFINE locals == [L EXCEPT !.i = 1]
  <2>1. PICK checks, read : stage = "sections" /\ Check(checks, "regions", locals, read)
    BY <1>2, Zenon DEF EndOfSections
  <2>2. locals.ptr = L.ptr
    BY DEF Typed, LocalsShape
  <2> HIDE DEF locals
  <2> QED
    BY <2>1, <2>2, OwnershipCheck
<1>3. CASE CheckRegion
  <2> DEFINE locals == [L EXCEPT !.i = @ + 1,
                          !.region_total = L.region_total + Aligned(file.regions[L.i].size)]
  <2>1. PICK checks, read : stage = "regions" /\ Check(checks, "regions", locals, read)
    BY <1>3, Zenon DEF CheckRegion
  <2>2. locals.ptr = L.ptr
    BY DEF Typed, LocalsShape
  <2> HIDE DEF locals
  <2> QED
    BY <2>1, <2>2, OwnershipCheck
<1>4. CASE EndOfRegions
  <2> DEFINE locals == [L EXCEPT !.i = 1]
  <2>1. PICK checks, read : stage = "regions" /\ Check(checks, "alloc", locals, read)
    BY <1>4, Zenon DEF EndOfRegions
  <2>2. locals.ptr = L.ptr
    BY DEF Typed, LocalsShape
  <2> HIDE DEF locals
  <2> QED
    BY <2>1, <2>2, OwnershipCheck
<1> QED
  BY <1>1, <1>2, <1>3, <1>4

LEMMA OwnershipAlloc == ASSUME Typed, Ownership, cvm_int_alloc PROVE Ownership'
<1> DEFINE b == Blocks[L.i]
<1>1. stage = "alloc"
  BY DEF cvm_int_alloc
<1>2. CASE Continue("alloc", [L EXCEPT !.i = @ + 1], {})
  <2>1. L'.ptr = L.ptr
    BY <1>2 DEF Continue, Typed, LocalsShape
  <2> QED
    BY <1>1, <1>2, <2>1, OwnershipFrame DEF Continue
<1>3. CASE /\ live' = live \cup {<<b, allocator>>}
           /\ L' = [L EXCEPT !.i = @ + 1, !.ptr = @ \cup {b}]
           /\ UNCHANGED <<file, allocator, stage, out, misfreed, err, loads>>
  <2> HIDE DEF b
  <2>1. L'.ptr = L.ptr \cup {b}
    BY <1>3 DEF Typed, LocalsShape
  <2>2. live' = L'.ptr \X {allocator'}
    BY <1>1, <1>3, <2>1 DEF Ownership
  <2> QED
    BY <1>1, <1>3, <2>2 DEF Ownership
<1>4. CASE Oom
  BY <1>1, <1>4, OwnershipOom DEF Oom, OomFrees, Return
<1> QED
  BY <1>2, <1>3, <1>4 DEF cvm_int_alloc

LEMMA OwnershipFill ==
  ASSUME Typed, Ownership,
         EndOfAlloc \/ FillMemory \/ CopyFunc \/ CopyImports \/ PlaceRegion
  PROVE  Ownership'
<1>1. CASE EndOfAlloc
  <2>1. CASE Oom
    BY <1>1, <2>1, OwnershipOom DEF EndOfAlloc, Oom, OomFrees, Return
  <2>2. CASE Continue("fill", L, {})
    BY <1>1, <2>2, OwnershipFrame DEF EndOfAlloc, Continue
  <2> QED
    BY <1>1, <2>1, <2>2 DEF EndOfAlloc
<1>2. CASE FillMemory
  <2>1. L'.ptr = L.ptr
    BY <1>2 DEF FillMemory, Continue, Typed, LocalsShape
  <2> QED
    BY <1>2, <2>1, OwnershipFrame DEF FillMemory, Continue
<1>3. CASE CopyFunc
  <2>1. CASE stage' = "none"
    BY <1>3, <2>1, OwnershipOom DEF CopyFunc, FuncsFrees, Return, Continue
  <2>2. CASE stage' # "none"
    <3>1. L'.ptr = L.ptr
      BY <1>3, <2>2 DEF CopyFunc, Continue, Return, Typed, LocalsShape
    <3> QED
      BY <1>3, <2>2, <3>1, OwnershipFrame DEF CopyFunc, Continue, Return
  <2> QED
    BY <2>1, <2>2
<1>4. CASE CopyImports
  <2>1. L'.ptr = L.ptr
    BY <1>4 DEF CopyImports, Continue, Typed, LocalsShape
  <2> QED
    BY <1>4, <2>1, OwnershipFrame DEF CopyImports, Continue
<1>5. CASE PlaceRegion
  <2>1. L'.ptr = L.ptr
    BY <1>5 DEF PlaceRegion, Continue, Typed, LocalsShape
  <2> QED
    BY <1>5, <2>1, OwnershipFrame DEF PlaceRegion, Continue
<1> QED
  BY <1>1, <1>2, <1>3, <1>4, <1>5

LEMMA OwnershipHost == ASSUME Typed, Ownership, Publish \/ Host PROVE Ownership'
<1>1. CASE Publish
  <2>1. /\ out'.blocks = L.ptr /\ out'.allocator = allocator /\ stage' = "loaded"
        /\ UNCHANGED <<live, misfreed>> /\ stage = "place"
    BY <1>1 DEF Publish
  <2> QED
    BY <2>1 DEF Ownership
<1>2. ASSUME NEW f \in Files, NEW a \in Allocators, cvm_load_ex(f, a)
      PROVE  Ownership'
  <2>1. /\ stage = "none" /\ stage' \in {"sections", "none"}
        /\ out' = NoImage /\ L' = NoLocals /\ UNCHANGED <<live, misfreed>>
    BY <1>2 DEF cvm_load_ex
  <2> QED
    BY <2>1 DEF Ownership, NoImage, NoLocals
<1>3. ASSUME NEW name, cvm_link(name) PROVE Ownership'
  <2>1. /\ stage = "loaded" /\ UNCHANGED <<stage, live, misfreed>>
        /\ out'.blocks = out.blocks /\ out'.allocator = out.allocator
    BY <1>3 DEF cvm_link, Typed, OutShape
  <2> QED
    BY <2>1 DEF Ownership
<1>4. CASE cvm_image_free
  <2>1. /\ stage = "loaded" /\ stage' = "none" /\ out'.blocks = {}
        /\ Free(AllBlocks \cap out.blocks, out.allocator)
    BY <1>4 DEF cvm_image_free, ImageFrees, NoImage
  <2>2. live' = {} /\ misfreed' = {}
    BY <2>1, FreeAll DEF Ownership, Typed, TypeOK
  <2> QED
    BY <2>1, <2>2 DEF Ownership
<1> QED
  BY <1>1, <1>2, <1>3, <1>4 DEF Host

(* Every exit of a load frees what it allocated, through the allocator it  *)
(* came from and once, whichever check or allocation fails.                *)
THEOREM BlocksHeld == Spec => []BlocksOwned
<1>1. Init => Ownership
  BY DEF Init, Ownership, NoImage, NoLocals
<1>2. Typed /\ Ownership /\ [Next]_vars => Ownership'
  <2> SUFFICES ASSUME Typed, Ownership, [Next]_vars PROVE Ownership'
    OBVIOUS
  <2>1. CASE UNCHANGED vars
    BY <2>1 DEF vars, Ownership
  <2> QED
    BY <2>1, OwnershipValidate, OwnershipAlloc, OwnershipFill, OwnershipHost
       DEF Next, Step, Done
<1>3. Ownership => BlocksOwned
  BY DEF Ownership, BlocksOwned
<1> QED
  BY <1>1, <1>2, <1>3, TypedHolds, PTL DEF Spec


-----------------------------------------------------------------------------
(***************************************************************************)
(* What the loader has established when it accepts a binary: nothing       *)
(* outside the file is read on the way, the memory is laid out without     *)
(* overlap although its sums are kept in 32 bits, and the image is a cart  *)
(* the interpreter can run.                                                *)
(*                                                                         *)
(* The inductive invariant has one layer per phase of cvm_load_ex, and     *)
(* each layer holds from the phase that establishes it until the load is   *)
(* over: TableScanned, SectionsChecked, RegionsChecked, TotalsChecked,     *)
(* Copied.                                                                 *)
(***************************************************************************)

(* The steps, by the phase they leave and what they keep of the locals.    *)

LEMMA LoadCases ==
  ASSUME NEW f \in Files, NEW a, cvm_load_ex(f, a), stage' # "none"
  PROVE  /\ file' = f /\ L' = NoLocals /\ stage' = "sections"
         /\ HEADER_SIZE <= f.len /\ f.magic /\ TableFits(f)
<1>1. file' = f /\ L' = NoLocals /\ stage' = "sections" /\ Passes(HeaderChecks(f))
  BY DEF cvm_load_ex
<1>2. f.len \in Nat
  BY FilesAssumption DEF IsFile
<1> QED
  BY <1>1, <1>2, HeaderPasses DEF HEADER_SIZE

LEMMA ReadSectionCases ==
  ASSUME Typed, ReadSection, stage' # "none", NEW s, s = file.sections[L.i]
  PROVE  /\ stage = "sections" /\ stage' = "sections" /\ file' = file
         /\ L.i \in 1 .. Len(file.sections)
         /\ s \in Section /\ s.type \in SecTypes /\ SectionSound(s)
         /\ s.type = "DEBUG" \/ s.type \notin L.seen
         /\ L'.i = L.i + 1 /\ L'.seen = L.seen \cup ({s.type} \ {"DEBUG"})
         /\ L'.sec = IF s.type \in HostOnly THEN L.sec
                     ELSE [L.sec EXCEPT ![s.type] = [off |-> s.off, size |-> s.size]]
         /\ L'.region_total = L.region_total /\ L'.funcs = L.funcs
         /\ L'.regions = L.regions
<1> DEFINE locals == [L EXCEPT !.i = @ + 1, !.seen = @ \cup ({s.type} \ {"DEBUG"}),
                       !.sec = IF s.type \in HostOnly THEN @
                               ELSE [@ EXCEPT ![s.type] = [off |-> s.off, size |-> s.size]]]
           read == Span(file.table_off + (L.i - 1) * SECTION_SIZE, SECTION_SIZE)
<1>1. stage = "sections" /\ L.i <= Len(file.sections)
      /\ Check(SectionChecks(s), "sections", locals, read)
  BY DEF ReadSection
<1>2. L.i \in 1 .. Len(file.sections) /\ s \in Section /\ file.len \in Nat
  BY <1>1, FileFacts DEF Typed, TypeOK
<1>3. /\ Passes(SectionChecks(s)) /\ stage' = "sections" /\ L' = locals /\ file' = file
  <2> HIDE DEF locals, read
  <2> QED
    BY <1>1, CheckCases, Zenon
<1>4. /\ s.type # "BAD" /\ SectionSound(s)
      /\ s.type = "DEBUG" \/ s.type \notin L.seen
  BY <1>2, <1>3, SectionPasses
<1>5. s.type \in SecTypes
  BY <1>2, <1>4 DEF Section
<1>6. /\ L'.i = L.i + 1 /\ L'.seen = L.seen \cup ({s.type} \ {"DEBUG"})
      /\ L'.sec = IF s.type \in HostOnly THEN L.sec
                  ELSE [L.sec EXCEPT ![s.type] = [off |-> s.off, size |-> s.size]]
      /\ L'.region_total = L.region_total /\ L'.funcs = L.funcs
      /\ L'.regions = L.regions
  BY <1>3 DEF Typed, LocalsShape
<1> QED
  BY <1>1, <1>2, <1>3, <1>4, <1>5, <1>6

(* What the later steps keep of a load under way.                          *)
KeepsTable ==
  file' = file /\ L'.seen = L.seen /\ L'.sec = L.sec

KeepsRest == L'.funcs = L.funcs /\ L'.regions = L.regions

LEMMA EndOfSectionsCases ==
  ASSUME Typed, EndOfSections, stage' # "none"
  PROVE  /\ stage = "sections" /\ stage' = "regions" /\ KeepsTable /\ KeepsRest
         /\ L.i > Len(file.sections) /\ L'.i = 1 /\ L'.region_total = L.region_total
         /\ "CODE" \in L.seen /\ ~(file.entry >= code_count)
         /\ size("HOST_REGION") \notin 1 .. 3
         /\ ~(size("HOST_REGION") > 0 /\ ~RegionsFit)
<1> DEFINE checks == << <<"CODE" \notin L.seen, "NO_CODE">>,
                   <<file.entry >= code_count, "BAD_ENTRY">>,
                   <<size("HOST_REGION") \in 1 .. 3, "BAD_REGION">>,
                   <<region_count > MAX_U16, "BAD_REGION">>,
                   <<size("HOST_REGION") > 0 /\ ~RegionsFit, "BAD_REGION">> >>
           locals == [L EXCEPT !.i = 1]
           read == IF size("HOST_REGION") < 4 THEN {} ELSE Span(off("HOST_REGION"), 4)
<1>1. stage = "sections" /\ L.i > Len(file.sections)
      /\ Check(checks, "regions", locals, read)
  BY DEF EndOfSections
<1>2. Passes(checks) /\ stage' = "regions" /\ L' = locals /\ file' = file
  <2> HIDE DEF checks, locals, read
  <2> QED
    BY <1>1, CheckCases, Zenon
<1>3. KeepsTable /\ KeepsRest /\ L'.i = 1 /\ L'.region_total = L.region_total
  BY <1>2 DEF Typed, LocalsShape, KeepsTable, KeepsRest
<1>4. /\ "CODE" \in L.seen /\ ~(file.entry >= code_count)
      /\ size("HOST_REGION") \notin 1 .. 3
      /\ ~(size("HOST_REGION") > 0 /\ ~RegionsFit)
  BY <1>2, EndOfSectionsPasses, Zenon
<1> QED
  BY <1>1, <1>2, <1>3, <1>4, Zenon

LEMMA CheckRegionCases ==
  ASSUME Typed, CheckRegion, stage' # "none", NEW e, e = file.regions[L.i]
  PROVE  /\ stage = "regions" /\ stage' = "regions" /\ KeepsTable /\ KeepsRest
         /\ L.i \in 1 .. region_count /\ region_count <= Len(file.regions)
         /\ e.terminated /\ e.name # <<>>
         /\ \A j \in 1 .. L.i - 1 : file.regions[j].name # e.name
         /\ L'.i = L.i + 1 /\ L'.region_total = L.region_total + Aligned(e.size)
<1> DEFINE total == L.region_total + Aligned(e.size)
           locals == [L EXCEPT !.i = @ + 1, !.region_total = total]
           same == \E j \in 1 .. L.i - 1 : file.regions[j].name = e.name
           checks == RegionChecks(e, same, total)
           read == UNION {EntryAt(j) : j \in 1 .. L.i}
<1>1. stage = "regions" /\ L.i <= region_count /\ Check(checks, "regions", locals, read)
  BY DEF CheckRegion, RegionChecks
<1>2. Passes(checks) /\ stage' = "regions" /\ L' = locals /\ file' = file
  <2> HIDE DEF checks, locals, read
  <2> QED
    BY <1>1, CheckCases, Zenon
<1>3. L.i \in 1 .. region_count /\ region_count <= Len(file.regions)
  BY <1>1, FileFacts DEF region_count, Typed, TypeOK
<1>4. e.terminated /\ e.name # <<>> /\ ~same
  <2> HIDE DEF same, total
  <2> QED
    BY <1>2, RegionPasses, Zenon
<1> HIDE DEF total
<1>5. /\ KeepsTable /\ KeepsRest
      /\ L'.i = L.i + 1 /\ L'.region_total = total
  BY <1>2 DEF Typed, LocalsShape, KeepsTable, KeepsRest
<1> QED
  BY <1>1, <1>2, <1>3, <1>4, <1>5, Zenon DEF total

LEMMA EndOfRegionsCases ==
  ASSUME Typed, EndOfRegions, stage' # "none"
  PROVE  /\ stage = "regions" /\ stage' = "alloc" /\ KeepsTable /\ KeepsRest
         /\ L.i > region_count /\ L'.i = 1 /\ L'.region_total = L.region_total
         /\ ~(heap_total > MAX_U32) /\ ~(mem_total > MAX_U32)
         /\ size("STACK_RESERVE") \notin 1 .. 3
<1> DEFINE locals == [L EXCEPT !.i = 1]
           c5 == import_count > MAX_U16
           c6 == size("IMPORTS") > 0 /\ ~ImportsFit
           c7 == \E k \in 1 .. import_count :
                  \/ file.imports[k].off >= size("IMPORTS")
                  \/ ~file.imports[k].terminated
           checks == << <<heap_total > MAX_U32, "BAD_SECTION">>,
                   <<size("STACK_RESERVE") \in 1 .. 3, "BAD_SECTION">>,
                   <<mem_total > MAX_U32, "BAD_SECTION">>,
                   <<size("IMPORTS") \in 1 .. 3, "BAD_IMPORTS">>,
                   <<c5, "BAD_IMPORTS">>, <<c6, "BAD_IMPORTS">>,
                   <<c7, "BAD_IMPORTS">> >>
<1>1. stage = "regions" /\ L.i > region_count
      /\ Check(checks, "alloc", locals, ImportReads)
  BY DEF EndOfRegions
<1>2. Passes(checks) /\ stage' = "alloc" /\ L' = locals /\ file' = file
  <2> HIDE DEF checks, locals
  <2> QED
    BY <1>1, CheckCases, Zenon
<1>3. KeepsTable /\ KeepsRest /\ L'.i = 1 /\ L'.region_total = L.region_total
  BY <1>2 DEF Typed, LocalsShape, KeepsTable, KeepsRest
<1> HIDE DEF c5, c6, c7
<1>4. /\ ~(heap_total > MAX_U32) /\ ~(mem_total > MAX_U32)
      /\ size("STACK_RESERVE") \notin 1 .. 3
  BY <1>2, EndOfRegionsPasses, Zenon
<1> QED
  BY <1>1, <1>2, <1>3, <1>4, Zenon

Late == {"alloc", "fill", "funcs", "place", "loaded"}

KeepsTotal == KeepsTable /\ L'.region_total = L.region_total

LEMMA LateCases ==
  ASSUME Typed, [Next]_vars, stage \in Late, stage' # "none"
  PROVE  stage' \in Late /\ KeepsTotal
<1> USE DEF Late, KeepsTotal, KeepsTable, Continue, Typed, LocalsShape
<1>1. CASE UNCHANGED vars
  BY <1>1 DEF vars
<1>2. CASE cvm_int_alloc
  BY <1>2 DEF cvm_int_alloc, Oom, Return
<1>3. CASE EndOfAlloc
  BY <1>3 DEF EndOfAlloc, Oom, Return
<1>4. CASE FillMemory
  BY <1>4 DEF FillMemory
<1>5. CASE CopyFunc
  BY <1>5 DEF CopyFunc, Return
<1>6. CASE CopyImports
  BY <1>6 DEF CopyImports
<1>7. CASE PlaceRegion
  BY <1>7 DEF PlaceRegion
<1>8. CASE Publish
  BY <1>8 DEF Publish
<1>9. CASE Host
  BY <1>9 DEF Host, cvm_load_ex, cvm_link, cvm_image_free
<1>10. ~(ReadSection \/ EndOfSections \/ CheckRegion \/ EndOfRegions)
  BY DEF ReadSection, EndOfSections, CheckRegion, EndOfRegions
<1> QED
  BY <1>1, <1>2, <1>3, <1>4, <1>5, <1>6, <1>7, <1>8, <1>9, <1>10
     DEF Next, Step, Done, vars

(* The steps of the phases before: each is one of those above.             *)
LEMMA EarlyCases ==
  ASSUME [Next]_vars, stage' # "none"
  PROVE  \/ UNCHANGED vars
         \/ stage = "none" /\ \E f \in Files, a \in Allocators : cvm_load_ex(f, a)
         \/ ReadSection \/ EndOfSections \/ CheckRegion \/ EndOfRegions
         \/ stage \in Late
<1>1. CASE Step
  BY <1>1 DEF Step, Late, cvm_int_alloc, EndOfAlloc, FillMemory, CopyFunc,
     CopyImports, PlaceRegion, Publish
<1>2. CASE Host
  BY <1>2 DEF Host, Late, cvm_load_ex, cvm_link, cvm_image_free
<1> QED
  BY <1>1, <1>2 DEF Next, Done

-----------------------------------------------------------------------------
(* The section table.  What is known of a section type depends on how far  *)
(* the table is read: a type that was not seen has offset and size zero; a *)
(* type that was seen has those of the one section of that type.           *)

Scanned == IF stage = "sections" THEN L.i - 1 ELSE Len(file.sections)

StoredFrom(t, k) ==
  LET s == file.sections[k] IN
    /\ s.type = t /\ SectionSound(s)
    /\ L.sec[t] = [off |-> s.off, size |-> s.size]
    /\ \A j \in 1 .. Scanned : file.sections[j].type = t => j = k

Absent(t) ==
  /\ t \notin L.seen /\ L.sec[t] = [off |-> 0, size |-> 0]
  /\ \A k \in 1 .. Scanned : file.sections[k].type # t

Present(t) == t \in L.seen /\ \E k \in 1 .. Scanned : StoredFrom(t, k)

(* An entry that was read, of any type.                                    *)
EntryScanned(k) ==
  LET s == file.sections[k] IN
    /\ SectionSound(s)
    /\ s.type # "DEBUG" =>
         /\ s.type \in L.seen
         /\ \A j \in 1 .. Scanned : file.sections[j].type = s.type => j = k

TableScanned ==
  stage # "none" =>
    /\ HEADER_SIZE <= file.len /\ file.magic /\ TableFits(file)
    /\ Scanned <= Len(file.sections)
    /\ \A k \in 1 .. Scanned : EntryScanned(k)
    /\ \A t \in SecTypes \ HostOnly : Absent(t) \/ Present(t)

LEMMA TableRead ==
  ASSUME Typed, Typed', TableScanned, ReadSection PROVE TableScanned'
<1> SUFFICES ASSUME stage' # "none" PROVE TableScanned'
  BY DEF TableScanned
<1> DEFINE s == file.sections[L.i]
<1>1. /\ stage = "sections" /\ stage' = "sections" /\ file' = file
      /\ L.i \in 1 .. Len(file.sections)
      /\ s \in Section /\ s.type \in SecTypes /\ SectionSound(s)
      /\ s.type = "DEBUG" \/ s.type \notin L.seen
      /\ L'.i = L.i + 1 /\ L'.seen = L.seen \cup ({s.type} \ {"DEBUG"})
      /\ L'.sec = IF s.type \in HostOnly THEN L.sec
                  ELSE [L.sec EXCEPT ![s.type] = [off |-> s.off, size |-> s.size]]
  BY ReadSectionCases
<1>2. Len(file.sections) \in Nat
  BY FileFacts
<1>3. Scanned = L.i - 1 /\ Scanned' = L.i
  BY <1>1, <1>2 DEF Scanned
<1>4. 1 .. L.i = (1 .. L.i - 1) \cup {L.i} /\ L.i \notin 1 .. L.i - 1
  BY <1>1, <1>2
<1>5. \A j : SectionSound(file.sections[j])' <=> SectionSound(file.sections[j])
  BY <1>1 DEF SectionSound
<1>6. ASSUME NEW t \in SecTypes \ HostOnly PROVE Absent(t)' \/ Present(t)'
  <2>1. t # "DEBUG" /\ t \in SecTypes
    BY DEF HostOnly
  <2>2. DOMAIN L.sec = SecTypes
    BY DEF Typed, TypeOK
  <2>3. CASE s.type = t
    <3>1. t \notin L.seen /\ t \in L'.seen
      BY <1>1, <2>1, <2>3
    <3>2. Absent(t)
      BY <1>1, <3>1 DEF TableScanned, Present
    <3>3. \A k \in 1 .. L.i - 1 : file.sections[k].type # t
      BY <3>2, <1>3 DEF Absent
    <3>4. L'.sec[t] = [off |-> s.off, size |-> s.size]
      BY <1>1, <2>1, <2>2, <2>3
    <3>5. PICK n : n = L.i
      OBVIOUS
    <3>6. StoredFrom(t, n)'
      BY <1>1, <1>3, <1>4, <1>5, <2>3, <3>3, <3>4, <3>5 DEF StoredFrom
    <3>7. n \in 1 .. L.i
      BY <1>1, <3>5
    <3> QED
      BY <1>3, <3>1, <3>6, <3>7 DEF Present
  <2>4. CASE s.type # t
    <3>1. L'.sec[t] = L.sec[t] /\ (t \in L'.seen <=> t \in L.seen)
      BY <1>1, <2>1, <2>2, <2>4
    <3>2. CASE Absent(t)
      <4>1. \A k \in 1 .. L.i : file.sections[k].type # t
        BY <1>3, <1>4, <2>4, <3>2 DEF Absent
      <4> QED
        BY <1>1, <1>3, <3>1, <3>2, <4>1 DEF Absent
    <3>3. CASE Present(t)
      <4>1. PICK k \in 1 .. L.i - 1 : StoredFrom(t, k)
        BY <1>3, <3>3 DEF Present
      <4>2. StoredFrom(t, k)'
        BY <1>1, <1>3, <1>4, <1>5, <2>4, <3>1, <4>1 DEF StoredFrom
      <4> QED
        BY <1>3, <1>4, <3>1, <3>3, <4>1, <4>2 DEF Present
    <3> QED
      BY <1>1, <3>2, <3>3 DEF TableScanned
  <2> QED
    BY <2>3, <2>4
<1>7. Scanned' <= Len(file'.sections)
  BY <1>1, <1>3
<1>8. HEADER_SIZE <= file'.len /\ file'.magic /\ TableFits(file')
  BY <1>1 DEF TableScanned
<1>9. ASSUME NEW k \in 1 .. Scanned' PROVE EntryScanned(k)'
  <2>1. \A j \in 1 .. L.i - 1 : EntryScanned(j)
    BY <1>1, <1>3 DEF TableScanned
  <2>2. CASE k = L.i
    <3>1. ASSUME s.type # "DEBUG", NEW j \in 1 .. L.i - 1 PROVE file.sections[j].type # s.type
      BY <1>1, <2>1, <3>1 DEF EntryScanned
    <3> QED
      BY <1>1, <1>3, <1>4, <1>5, <2>2, <3>1 DEF EntryScanned
  <2>3. CASE k \in 1 .. L.i - 1
    <3>1. EntryScanned(k)
      BY <2>1, <2>3
    <3>2. file.sections[k].type # "DEBUG" => s.type # file.sections[k].type
      BY <1>1, <3>1 DEF EntryScanned
    <3> QED
      BY <1>1, <1>3, <1>4, <1>5, <3>1, <3>2 DEF EntryScanned
  <2> QED
    BY <1>3, <1>4, <2>2, <2>3
<1> QED
  BY <1>6, <1>7, <1>8, <1>9 DEF TableScanned

LEMMA TableKept ==
  ASSUME TableScanned, stage # "none", stage' # "none", KeepsTable, Scanned' = Scanned
  PROVE  TableScanned'
<1>1. \A j : SectionSound(file.sections[j])' <=> SectionSound(file.sections[j])
  BY DEF KeepsTable, SectionSound
<1>2. ASSUME NEW t PROVE (Absent(t)' <=> Absent(t)) /\ (Present(t)' <=> Present(t))
  <2>1. Absent(t)' <=> Absent(t)
    BY DEF Absent, KeepsTable
  <2>2. ASSUME NEW k PROVE StoredFrom(t, k)' <=> StoredFrom(t, k)
    BY <1>1 DEF StoredFrom, KeepsTable
  <2>3. Present(t)' <=> Present(t)
    BY <2>2 DEF Present, KeepsTable
  <2> QED
    BY <2>1, <2>3
<1>3. ASSUME NEW k PROVE EntryScanned(k)' <=> EntryScanned(k)
  BY <1>1 DEF EntryScanned, KeepsTable
<1> QED
  BY <1>2, <1>3 DEF TableScanned, KeepsTable

LEMMA TableStep ==
  ASSUME Typed, Typed', TableScanned, [Next]_vars PROVE TableScanned'
<1> SUFFICES ASSUME stage' # "none" PROVE TableScanned'
  BY DEF TableScanned
<1>1. CASE UNCHANGED vars
  BY <1>1, TableKept DEF vars, KeepsTable, Scanned
<1>2. ASSUME NEW f \in Files, NEW a \in Allocators, cvm_load_ex(f, a)
      PROVE  TableScanned'
  <2>1. /\ file' = f /\ L' = NoLocals /\ stage' = "sections"
        /\ HEADER_SIZE <= f.len /\ f.magic /\ TableFits(f)
    BY <1>2, LoadCases
  <2>2. Scanned' = 0
    BY <2>1 DEF Scanned, NoLocals
  <2>3. Len(f.sections) \in Nat
    BY FilesAssumption DEF IsFile
  <2>4. \A t \in SecTypes : Absent(t)'
    BY <2>1, <2>2 DEF Absent, NoLocals
  <2> QED
    BY <2>1, <2>2, <2>3, <2>4 DEF TableScanned
<1>3. CASE ReadSection
  BY <1>3, TableRead
<1>4. CASE EndOfSections
  <2>1. /\ stage = "sections" /\ stage' = "regions" /\ KeepsTable
        /\ L.i > Len(file.sections)
    BY <1>4, EndOfSectionsCases
  <2>2. Scanned = L.i - 1 /\ Scanned' = Len(file.sections)
    BY <2>1 DEF Scanned, KeepsTable
  <2>3. L.i - 1 <= Len(file.sections)
    BY <2>1, <2>2 DEF TableScanned
  <2>4. L.i \in Nat /\ Len(file.sections) \in Nat
    BY FileFacts DEF Typed, TypeOK
  <2>5. Scanned' = Scanned
    BY <2>1, <2>2, <2>3, <2>4
  <2> QED
    BY <2>1, <2>5, TableKept
<1>5. CASE CheckRegion
  BY <1>5, CheckRegionCases, TableKept DEF Scanned, KeepsTable
<1>6. CASE EndOfRegions
  BY <1>6, EndOfRegionsCases, TableKept DEF Scanned, KeepsTable
<1>7. CASE stage \in Late
  <2>1. stage' \in Late /\ KeepsTable
    BY <1>7, LateCases DEF KeepsTotal
  <2> QED
    BY <1>7, <2>1, TableKept DEF Scanned, KeepsTable, Late
<1> QED
  BY <1>1, <1>2, <1>3, <1>4, <1>5, <1>6, <1>7, EarlyCases

LEMMA TableHolds == Spec => []TableScanned
<1>1. Init => TableScanned
  BY DEF Init, TableScanned
<1>2. Typed /\ Typed' /\ TableScanned /\ [Next]_vars => TableScanned'
  BY TableStep
<1> QED
  BY <1>1, <1>2, TypedHolds, PTL DEF Spec

(* What the first section of a type is, once the table is read.            *)
LEMMA SectionOf ==
  ASSUME Typed, TableScanned, stage \notin {"none", "sections"},
         NEW t \in SecTypes \ HostOnly
  PROVE  \/ /\ t \notin L.seen /\ size(t) = 0 /\ off(t) = 0
            /\ \A k \in 1 .. Len(file.sections) : file.sections[k].type # t
         \/ /\ t \in L.seen
            /\ \E k \in 1 .. Len(file.sections) :
                 /\ file.sections[k].type = t /\ SectionSound(file.sections[k])
                 /\ off(t) = file.sections[k].off /\ size(t) = file.sections[k].size
                 /\ \A j \in 1 .. Len(file.sections) :
                      file.sections[j].type = t => j = k
<1>1. Scanned = Len(file.sections)
  BY DEF Scanned
<1>2. CASE Absent(t)
  BY <1>1, <1>2 DEF Absent, size, off
<1>3. CASE Present(t)
  <2>1. PICK k \in 1 .. Len(file.sections) : StoredFrom(t, k)
    BY <1>1, <1>3 DEF Present
  <2> QED
    BY <1>1, <1>3, <2>1 DEF StoredFrom, Present, size, off
<1> QED
  BY <1>2, <1>3 DEF TableScanned

(* What the offset and size of a stored section mean.                      *)
LEMMA SectionFacts ==
  ASSUME Typed, TableScanned, stage \notin {"none", "sections"},
         NEW t \in SecTypes \ HostOnly, size(t) # 0
  PROVE  /\ t \in L.seen
         /\ t \notin NoPayload => off(t) + size(t) <= file.len
         /\ t \in {"CODE", "FUNCS"} => size(t) % 4 = 0
         /\ t = "CODE" => size(t) = 4 * Len(file.code)
         /\ t = "FUNCS" => size(t) = 4 * Len(file.funcs)
         /\ t = "DATA" => size(t) = Len(file.data)
         /\ t = "ROM" => size(t) = Len(file.rom)
<1>1. t \in L.seen
  BY SectionOf
<1>2. PICK k \in 1 .. Len(file.sections) :
        /\ file.sections[k].type = t /\ SectionSound(file.sections[k])
        /\ off(t) = file.sections[k].off /\ size(t) = file.sections[k].size
  BY SectionOf
<1>3. Holds(file, file.sections[k])
  <2>1. k \in DOMAIN file.sections
    BY <1>2, FileFacts DEF IsFile
  <2> QED
    BY <2>1, FileFacts DEF IsFile
<1> QED
  BY <1>1, <1>2, <1>3 DEF SectionSound, Holds

(* Of a binary that loads, a host that peeks before the load finds every   *)
(* section with a payload, META and SEAL included: no type but DEBUG       *)
(* occurs twice, so the first of a type is the only one, and of the types  *)
(* the loader uses it is the one it used.                                  *)
THEOREM PeekSeesLoaded == Spec => []PeekAgrees
<1>1. Typed /\ TableScanned => PeekAgrees
  <2> SUFFICES ASSUME Typed, TableScanned, stage = "loaded",
                      NEW t \in SecTypes \ NoPayload, NEW all,
                      all = {k \in DOMAIN file.sections : file.sections[k].type = t}
               PROVE  LET found == cvm_peek_section(file, t) IN
                        /\ all = {} => found = <<0, 0, 0>>
                        /\ all # {} => found[1] = 1 /\ found[2] + found[3] <= file.len
                        /\ t # "DEBUG" => \A k \in all :
                             found = <<1, file.sections[k].off, file.sections[k].size>>
                        /\ t \notin HostOnly =>
                             found = <<IF t \in L.seen THEN 1 ELSE 0, off(t), size(t)>>
    BY DEF PeekAgrees
  <2> DEFINE first == CHOOSE k \in all : \A j \in all : k <= j
             s == file.sections[first]
  <2>1. ~(file.len < HEADER_SIZE \/ ~file.magic \/ ~TableFits(file))
    BY FileFacts DEF TableScanned, HEADER_SIZE
  <2>2. DOMAIN file.sections = 1 .. Len(file.sections)
    BY FileFacts DEF IsFile
  <2>3. CASE all = {}
    <3>1. cvm_peek_section(file, t) = <<0, 0, 0>>
      BY <2>1, <2>3 DEF cvm_peek_section
    <3>2. t \notin HostOnly => t \notin L.seen /\ off(t) = 0 /\ size(t) = 0
      BY <2>2, <2>3, SectionOf
    <3> QED
      BY <2>3, <3>1, <3>2
  <2>4. CASE all # {}
    <3>1. first \in all
      <4>1. all \subseteq Nat
        BY <2>2
      <4>2. \E k \in all : \A j \in all : k <= j
        BY <2>4, <4>1, Least
      <4> QED
        BY <4>2
    <3>2. first \in 1 .. Len(file.sections) /\ s.type = t /\ EntryScanned(first)
      BY <2>2, <3>1 DEF TableScanned, Scanned
    <3>3. s.off + s.size <= file.len
      BY <3>2 DEF EntryScanned, SectionSound
    <3>4. ~(s.off + s.size > file.len)
      <4>1. s \in Section /\ file.len \in Nat
        BY <3>2, FileFacts
      <4>2. s.off \in Nat /\ s.size \in Nat
        BY <4>1, WordFacts DEF Section
      <4> HIDE DEF s
      <4> QED
        BY <3>3, <4>1, <4>2
    <3>5. cvm_peek_section(file, t) = <<1, s.off, s.size>>
      <4> HIDE DEF s
      <4> QED
        BY <2>1, <2>4, <3>4 DEF cvm_peek_section, s
    <3>6. t # "DEBUG" => all = {first}
      BY <2>2, <3>1, <3>2 DEF EntryScanned, Scanned
    <3>7. t \notin HostOnly => t \in L.seen /\ off(t) = s.off /\ size(t) = s.size
      BY <2>2, <3>2, SectionOf
    <3> HIDE DEF first
    <3> QED
      BY <2>4, <3>3, <3>5, <3>6, <3>7
  <2> QED
    BY <2>3, <2>4
<1> QED
  BY <1>1, TypedHolds, TableHolds, PTL

LEMMA KeptFacts ==
  ASSUME KeepsTable
  PROVE  /\ file' = file /\ L'.seen = L.seen /\ L'.sec = L.sec
         /\ \A t : size(t)' = size(t) /\ off(t)' = off(t)
         /\ code_count' = code_count /\ func_count' = func_count
         /\ region_count' = region_count /\ import_count' = import_count
         /\ RegionsFit' = RegionsFit /\ ImportsFit' = ImportsFit
<1>1. file' = file /\ L'.seen = L.seen /\ L'.sec = L.sec
  BY DEF KeepsTable
<1>2. \A t : size(t)' = size(t) /\ off(t)' = off(t)
  BY <1>1 DEF size, off
<1>3. code_count' = code_count /\ func_count' = func_count
  BY <1>1 DEF code_count, func_count, size
<1>4. region_count' = region_count /\ import_count' = import_count
  BY <1>1 DEF region_count, import_count, size
<1>5. RegionsFit' = RegionsFit /\ ImportsFit' = ImportsFit
  BY <1>1, <1>4 DEF RegionsFit, ImportsFit, size
<1> QED
  BY <1>1, <1>2, <1>3, <1>4, <1>5

LEMMA CountFacts ==
  ASSUME Typed
  PROVE  /\ code_count \in Nat /\ func_count \in Nat
         /\ region_count \in Nat /\ import_count \in Nat
         /\ region_count <= Len(file.regions) /\ import_count <= Len(file.imports)
         /\ region_count # 0 => size("HOST_REGION") # 0
         /\ import_count # 0 => size("IMPORTS") # 0
<1>1. size("CODE") \in Nat /\ size("FUNCS") \in Nat
  BY SizeFacts DEF SecTypes
<1> QED
  BY <1>1, FileFacts DEF code_count, func_count, region_count, import_count

-----------------------------------------------------------------------------
(* The checks behind the section table: there is code, the entry is in it, *)
(* and the table of the host regions holds all its entries.                *)

SectionsChecked ==
  stage \notin {"none", "sections"} =>
    /\ "CODE" \in L.seen /\ file.entry < code_count
    /\ size("HOST_REGION") \notin 1 .. 3
    /\ size("HOST_REGION") > 0 => RegionsFit

LEMMA SectionsKept ==
  ASSUME SectionsChecked, stage \notin {"none", "sections"}, KeepsTable
  PROVE  SectionsChecked'
BY KeptFacts DEF SectionsChecked

LEMMA SectionsStep ==
  ASSUME Typed, SectionsChecked, [Next]_vars PROVE SectionsChecked'
<1> SUFFICES ASSUME stage' # "none" PROVE SectionsChecked'
  BY DEF SectionsChecked
<1>1. CASE UNCHANGED vars
  <2>1. KeepsTable /\ stage' = stage
    BY <1>1 DEF vars, KeepsTable
  <2> QED
    BY <2>1, SectionsKept DEF SectionsChecked
<1>2. CASE \E f \in Files, a \in Allocators : cvm_load_ex(f, a)
  BY <1>2, LoadCases DEF SectionsChecked
<1>3. CASE ReadSection
  BY <1>3, ReadSectionCases DEF SectionsChecked
<1>4. CASE EndOfSections
  <2>1. /\ KeepsTable /\ "CODE" \in L.seen /\ ~(file.entry >= code_count)
        /\ size("HOST_REGION") \notin 1 .. 3
        /\ ~(size("HOST_REGION") > 0 /\ ~RegionsFit)
    BY <1>4, EndOfSectionsCases
  <2>2. file.entry < code_count
    BY <2>1, CountFacts, FileFacts
  <2> QED
    BY <2>1, <2>2, KeptFacts DEF SectionsChecked
<1>5. CASE CheckRegion
  BY <1>5, CheckRegionCases, SectionsKept
<1>6. CASE EndOfRegions
  BY <1>6, EndOfRegionsCases, SectionsKept
<1>7. CASE stage \in Late
  BY <1>7, LateCases, SectionsKept DEF KeepsTotal, Late
<1> QED
  BY <1>1, <1>2, <1>3, <1>4, <1>5, <1>6, <1>7, EarlyCases

-----------------------------------------------------------------------------
(* The host regions.  Those checked so far have names, and different ones; *)
(* region_total is the last of the running sums of their aligned sizes,    *)
(* and the placing of the regions goes through the same sums.              *)

Seen == IF stage = "regions" THEN L.i - 1 ELSE region_count

NamesChecked ==
  /\ \A k \in 1 .. Seen : file.regions[k].terminated /\ file.regions[k].name # <<>>
  /\ \A j, k \in 1 .. Seen : file.regions[j].name = file.regions[k].name => j = k

RegionsStart == size("DATA") + size("BSS")

PlacedAt(t, k) ==
  [name |-> file.regions[k].name, size |-> file.regions[k].size,
   offset |-> RegionsStart + t[k - 1]]

IsSums(t, n) ==
  /\ t \in [0 .. n -> Nat] /\ t[0] = 0
  /\ \A k \in 1 .. n : t[k] = t[k - 1] + Aligned(file.regions[k].size)
  /\ \A j, k \in 0 .. n : j <= k => t[j] <= t[k]

PlacedSoFar(t) ==
  stage = "place" =>
    /\ L.i - 1 <= region_count
    /\ L.cursor = RegionsStart + t[L.i - 1]
    /\ L.regions = [k \in 1 .. L.i - 1 |-> PlacedAt(t, k)]

RegionsChecked ==
  /\ stage = "sections" => L.region_total = 0
  /\ stage \notin {"none", "sections"} =>
       /\ Seen <= region_count /\ NamesChecked
       /\ \E t : IsSums(t, Seen) /\ L.region_total = t[Seen] /\ PlacedSoFar(t)

(* From here on the totals fit in a word, so that no sum wraps.            *)
TotalsChecked ==
  stage \in Late => /\ heap_total <= MAX_U32 /\ mem_total <= MAX_U32
                    /\ size("STACK_RESERVE") \notin 1 .. 3

(* What is copied so far.                                                  *)
Copied ==
  /\ stage \notin {"none", "place", "loaded"} => L.regions = <<>>
  /\ stage \notin {"none", "funcs", "place", "loaded"} => L.funcs = <<>>
  /\ stage \in {"funcs", "place", "loaded"} =>
       /\ L.funcs \in Seq(Nat) /\ \A k \in DOMAIN L.funcs : L.funcs[k] < code_count
       /\ L.mem = InitialMemory

LEMMA TotalsKeptFacts ==
  ASSUME KeepsTotal
  PROVE  /\ KeepsTable /\ L'.region_total = L.region_total
         /\ heap_total' = heap_total /\ mem_total' = mem_total
         /\ rom_offset' = rom_offset /\ RegionsStart' = RegionsStart
         /\ size("STACK_RESERVE")' = size("STACK_RESERVE")
         /\ InitialMemory' = InitialMemory
<1>1. KeepsTable /\ L'.region_total = L.region_total
  BY DEF KeepsTotal
<1>2. \A t : size(t)' = size(t)
  BY <1>1, KeptFacts
<1>3. heap_total' = heap_total
  BY <1>1, <1>2 DEF heap_total
<1>4. mem_total' = mem_total
  BY <1>2, <1>3 DEF mem_total
<1>5. rom_offset' = rom_offset
  BY <1>1, <1>2 DEF rom_offset
<1>6. DataBytes' = DataBytes /\ RomBytes' = RomBytes
  BY <1>1, <1>2, KeptFacts DEF DataBytes, RomBytes
<1>7. InitialMemory' = InitialMemory
  BY <1>2, <1>4, <1>5, <1>6 DEF InitialMemory
<1> QED
  BY <1>1, <1>2, <1>3, <1>4, <1>5, <1>7 DEF RegionsStart

LEMMA TotalFacts ==
  ASSUME Typed
  PROVE  /\ heap_total \in Nat /\ mem_total \in Nat /\ RegionsStart \in Nat
         /\ L.region_total \in Nat /\ MAX_U32 \in Nat
         /\ \A n \in Nat : n <= MAX_U32 <=> n \in Word
         /\ heap_total = RegionsStart + L.region_total + size("ROM") + size("HEAP_RESERVE")
         /\ mem_total = heap_total + size("STACK_RESERVE")
<1>1. /\ size("DATA") \in Nat /\ size("BSS") \in Nat /\ size("ROM") \in Nat
      /\ size("HEAP_RESERVE") \in Nat /\ size("STACK_RESERVE") \in Nat
  BY SizeFacts DEF SecTypes, NoPayload
<1>2. L.region_total \in Nat
  BY WordFacts DEF Typed, TypeOK
<1>3. MAX_U32 \in Nat /\ \A n \in Nat : n <= MAX_U32 <=> n \in Word
  BY WordFacts DEF MAX_U32, Word
<1> QED
  BY <1>1, <1>2, <1>3 DEF heap_total, mem_total, RegionsStart

LEMMA TotalsKept ==
  ASSUME TotalsChecked, stage \in Late, KeepsTotal PROVE TotalsChecked'
BY TotalsKeptFacts DEF TotalsChecked, MAX_U32, WordMod, TriMod, HalfMod

LEMMA TotalsStep ==
  ASSUME Typed, TotalsChecked, [Next]_vars PROVE TotalsChecked'
<1> SUFFICES ASSUME stage' \in Late PROVE TotalsChecked'
  BY DEF TotalsChecked
<1>0. stage' # "none"
  BY DEF Late
<1>1. CASE UNCHANGED vars
  <2>1. KeepsTotal /\ stage' = stage
    BY <1>1 DEF vars, KeepsTable, KeepsTotal
  <2> QED
    BY <2>1, TotalsKept
<1>2. CASE \E f \in Files, a \in Allocators : cvm_load_ex(f, a)
  BY <1>0, <1>2, LoadCases DEF Late
<1>3. CASE ReadSection \/ EndOfSections \/ CheckRegion
  BY <1>0, <1>3, ReadSectionCases, EndOfSectionsCases, CheckRegionCases DEF Late
<1>4. CASE EndOfRegions
  <2>1. /\ KeepsTotal /\ ~(heap_total > MAX_U32) /\ ~(mem_total > MAX_U32)
        /\ size("STACK_RESERVE") \notin 1 .. 3
    BY <1>0, <1>4, EndOfRegionsCases DEF KeepsTotal
  <2>2. heap_total <= MAX_U32 /\ mem_total <= MAX_U32
    BY <2>1, TotalFacts
  <2>3. MAX_U32' = MAX_U32
    BY DEF MAX_U32, WordMod, TriMod, HalfMod
  <2> QED
    BY <2>1, <2>2, <2>3, TotalsKeptFacts DEF TotalsChecked
<1>5. CASE stage \in Late
  BY <1>0, <1>5, LateCases, TotalsKept
<1> QED
  BY <1>0, <1>1, <1>2, <1>3, <1>4, <1>5, EarlyCases

(* The steps into and in the phase that places the regions.                *)
LEMMA PlaceCases ==
  ASSUME [Next]_vars, stage \in Late, stage' = "place"
  PROVE  UNCHANGED vars \/ CopyImports \/ PlaceRegion
<1>1. CASE Step
  BY <1>1 DEF Step, Late, ReadSection, EndOfSections, CheckRegion, EndOfRegions,
     cvm_int_alloc, EndOfAlloc, Oom, Return, FillMemory, CopyFunc, Continue, Publish
<1>2. CASE Host
  BY <1>2 DEF Host, cvm_load_ex, cvm_link, cvm_image_free
<1> QED
  BY <1>1, <1>2 DEF Next, Done

LEMMA RegionsKept ==
  ASSUME NEW n, n = Seen, Seen' = Seen, KeepsTable,
         NEW t, IsSums(t, n) /\ NamesChecked
  PROVE  IsSums(t, n)' /\ NamesChecked'
<1>1. file' = file
  BY KeptFacts
<1>2. IsSums(t, n)'
  <2>1. IsSums(t, n)
    OBVIOUS
  <2> QED
    BY <1>1, <2>1 DEF IsSums, Aligned
<1>3. NamesChecked'
  BY <1>1 DEF NamesChecked
<1> QED
  BY <1>2, <1>3

LEMMA SumsExtended ==
  ASSUME NEW n \in Nat, NEW t, IsSums(t, n), NEW a \in Nat,
         a = Aligned(file.regions[n + 1].size)
  PROVE  \E u : IsSums(u, n + 1) /\ u[n + 1] = t[n] + a
<1> DEFINE u == [k \in 0 .. n + 1 |-> IF k = n + 1 THEN t[n] + a ELSE t[k]]
<1>1. /\ t \in [0 .. n -> Nat] /\ t[0] = 0
      /\ \A k \in 1 .. n : t[k] = t[k - 1] + Aligned(file.regions[k].size)
      /\ \A j, k \in 0 .. n : j <= k => t[j] <= t[k]
  BY DEF IsSums
<1>2. t[n] \in Nat /\ \A k \in 0 .. n : t[k] <= t[n]
  BY <1>1
<1>3. u[n + 1] = t[n] + a /\ \A k \in 0 .. n : u[k] = t[k]
  OBVIOUS
<1>4. u \in [0 .. n + 1 -> Nat]
  BY <1>1, <1>2
<1> HIDE DEF u
<1>5. \A k \in 1 .. n + 1 : u[k] = u[k - 1] + Aligned(file.regions[k].size)
  <2> SUFFICES ASSUME NEW k \in 1 .. n + 1
               PROVE  u[k] = u[k - 1] + Aligned(file.regions[k].size)
    OBVIOUS
  <2>1. CASE k = n + 1
    BY <1>3, <2>1
  <2>2. CASE k \in 1 .. n
    <3>1. k - 1 \in 0 .. n /\ k \in 0 .. n
      BY <2>2
    <3> QED
      BY <1>1, <1>3, <2>2, <3>1
  <2> QED
    BY <2>1, <2>2
<1>6. \A j, k \in 0 .. n + 1 : j <= k => u[j] <= u[k]
  <2> SUFFICES ASSUME NEW j \in 0 .. n + 1, NEW k \in 0 .. n + 1, j <= k
               PROVE  u[j] <= u[k]
    OBVIOUS
  <2>1. CASE k \in 0 .. n
    <3>1. j \in 0 .. n
      BY <2>1
    <3> QED
      BY <1>1, <1>3, <2>1, <3>1
  <2>2. CASE k = n + 1 /\ j \in 0 .. n
    <3>1. u[j] <= t[n] /\ u[j] \in Nat
      BY <1>2, <1>3, <1>4, <2>2
    <3> QED
      BY <1>2, <1>3, <2>2, <3>1
  <2>3. CASE k = n + 1 /\ j = n + 1
    <3>1. u[k] \in Nat
      BY <1>4
    <3> QED
      BY <2>3, <3>1
  <2> QED
    BY <2>1, <2>2, <2>3
<1>7. u[0] = 0
  BY <1>1, <1>3
<1> QED
  BY <1>3, <1>4, <1>5, <1>6, <1>7 DEF IsSums

LEMMA RegionChecked ==
  ASSUME Typed, RegionsChecked, CheckRegion, stage' # "none"
  PROVE  RegionsChecked'
<1> DEFINE e == file.regions[L.i]
<1>1. /\ stage = "regions" /\ stage' = "regions" /\ KeepsTable
      /\ L.i \in 1 .. region_count /\ region_count <= Len(file.regions)
      /\ e.terminated /\ e.name # <<>>
      /\ \A j \in 1 .. L.i - 1 : file.regions[j].name # e.name
      /\ L'.i = L.i + 1 /\ L'.region_total = L.region_total + Aligned(e.size)
  BY CheckRegionCases
<1>2. PICK n : n = L.i - 1
  OBVIOUS
<1>3. n \in Nat /\ n + 1 = L.i /\ region_count \in Nat
  BY <1>1, <1>2, CountFacts
<1>4. Seen = n /\ Seen' = n + 1 /\ region_count' = region_count /\ file' = file
  BY <1>1, <1>2, <1>3, KeptFacts DEF Seen
<1>5. NamesChecked /\ \E t : IsSums(t, n) /\ L.region_total = t[n]
  BY <1>1, <1>4 DEF RegionsChecked
<1>6. PICK t : IsSums(t, n) /\ L.region_total = t[n]
  BY <1>5
<1>7. e.size \in Nat
  BY <1>1, FileFacts, CountFacts
<1>8. PICK a : a \in Nat /\ a = Aligned(e.size)
  BY <1>7, AlignedFacts
<1>9. PICK u : IsSums(u, n + 1) /\ u[n + 1] = t[n] + a
  BY <1>3, <1>6, <1>8, SumsExtended
<1>10. IsSums(u, n + 1)'
  BY <1>4, <1>9 DEF IsSums, Aligned
<1>11. L'.region_total = u[n + 1]
  BY <1>1, <1>6, <1>8, <1>9
<1>12. NamesChecked'
  <2>1. 1 .. n + 1 = (1 .. n) \cup {n + 1}
    BY <1>3
  <2>2. /\ \A k \in 1 .. n : file.regions[k].terminated /\ file.regions[k].name # <<>>
        /\ \A j, k \in 1 .. n : file.regions[j].name = file.regions[k].name => j = k
    BY <1>4, <1>5 DEF NamesChecked
  <2>3. \A k \in 1 .. n + 1 : file.regions[k].terminated /\ file.regions[k].name # <<>>
    BY <1>1, <1>3, <2>1, <2>2
  <2>4. \A j \in 1 .. n : file.regions[j].name # file.regions[n + 1].name
    BY <1>1, <1>2, <1>3
  <2>5. \A j, k \in 1 .. n + 1 : file.regions[j].name = file.regions[k].name => j = k
    BY <2>1, <2>2, <2>4
  <2> QED
    BY <1>4, <2>3, <2>5 DEF NamesChecked
<1>13. PlacedSoFar(u)'
  BY <1>1 DEF PlacedSoFar
<1> QED
  BY <1>1, <1>3, <1>4, <1>10, <1>11, <1>12, <1>13 DEF RegionsChecked

LEMMA StartsPlacing ==
  ASSUME Typed, RegionsChecked, TotalsChecked, Copied, CopyImports
  PROVE  RegionsChecked'
<1>1. /\ stage = "funcs" /\ stage' = "place" /\ KeepsTotal /\ L'.i = 1
      /\ L'.regions = L.regions /\ L'.cursor = ToWord(RegionsStart)
  BY DEF CopyImports, Continue, KeepsTotal, KeepsTable, RegionsStart, Typed, LocalsShape
<1>2. PICK n : n = region_count
  OBVIOUS
<1>3. Seen = n /\ Seen' = n /\ n \in Nat /\ region_count' = n
  BY <1>1, <1>2, CountFacts, TotalsKeptFacts, KeptFacts DEF Seen
<1>4. NamesChecked /\ \E t : IsSums(t, n) /\ L.region_total = t[n]
  BY <1>1, <1>3 DEF RegionsChecked
<1>5. PICK t : IsSums(t, n) /\ L.region_total = t[n]
  BY <1>4
<1>6. IsSums(t, n)' /\ NamesChecked'
  BY <1>1, <1>3, <1>4, <1>5, RegionsKept, TotalsKeptFacts
<1>7. ToWord(RegionsStart) = RegionsStart
  <2>1. heap_total <= MAX_U32 /\ RegionsStart <= heap_total
    BY <1>1, TotalFacts, SizeFacts DEF TotalsChecked, Late, SecTypes, NoPayload
  <2>2. RegionsStart \in Word
    BY <2>1, TotalFacts
  <2> QED
    BY <2>2, ToWordFacts
<1>8. L.regions = <<>>
  BY <1>1 DEF Copied
<1>9. PlacedSoFar(t)'
  <2>1. t[0] = 0 /\ RegionsStart \in Nat /\ RegionsStart' = RegionsStart
    BY <1>1, <1>5, TotalFacts, TotalsKeptFacts DEF IsSums
  <2>2. L'.cursor = RegionsStart' + t[L'.i - 1]
    BY <1>1, <1>7, <2>1
  <2>3. L'.i - 1 = 0 /\ L'.i - 1 <= region_count'
    BY <1>1, <1>3
  <2>4. L'.regions = [k \in 1 .. L'.i - 1 |-> PlacedAt(t, k)']
    BY <1>1, <1>8, <2>3
  <2> QED
    BY <2>2, <2>3, <2>4 DEF PlacedSoFar
<1>10. L'.region_total = t[n]
  BY <1>1, <1>5, TotalsKeptFacts
<1> QED
  BY <1>1, <1>3, <1>6, <1>9, <1>10 DEF RegionsChecked

LEMMA AppendToFunction ==
  ASSUME NEW m \in Nat, NEW g, g = [k \in 1 .. m + 1 |-> g[k]]
  PROVE  Append([k \in 1 .. m |-> g[k]], g[m + 1]) = g
<1> DEFINE S == {g[k] : k \in 1 .. m + 1}
           q == [k \in 1 .. m |-> g[k]]
<1>1. q \in Seq(S) /\ Len(q) = m /\ g[m + 1] \in S
  <2>1. m + 1 \in 1 .. m + 1 /\ \A k \in 1 .. m : k \in 1 .. m + 1
    OBVIOUS
  <2>2. g[m + 1] \in S
    BY <2>1
  <2>3. q \in [1 .. m -> S]
    BY <2>1
  <2>4. q \in Seq(S)
    BY <2>3, SeqDef
  <2>5. DOMAIN q = 1 .. m /\ DOMAIN q = 1 .. Len(q) /\ Len(q) \in Nat
    BY <2>3, <2>4, LenProperties
  <2>6. Len(q) = m
    BY <2>5
  <2> QED
    BY <2>2, <2>4, <2>6
<1> DEFINE r == Append(q, g[m + 1])
<1>2. r \in Seq(S) /\ Len(r) = m + 1
  BY <1>1
<1>3. \A k \in 1 .. m + 1 : r[k] = g[k]
  <2>1. \A k \in 1 .. m : r[k] = q[k] /\ q[k] = g[k]
    BY <1>1
  <2>2. r[m + 1] = g[m + 1]
    BY <1>1
  <2> QED
    BY <2>1, <2>2
<1> HIDE DEF r
<1>4. r = [k \in 1 .. m + 1 |-> r[k]]
  BY <1>2
<1> QED
  BY <1>3, <1>4 DEF r

LEMMA PlacesNext ==
  ASSUME Typed, RegionsChecked, TotalsChecked, PlaceRegion
  PROVE  RegionsChecked'
<1> DEFINE e == file.regions[L.i]
           placed == [name |-> e.name, size |-> e.size, offset |-> L.cursor]
<1>1. /\ stage = "place" /\ stage' = "place" /\ KeepsTotal /\ L.i <= region_count
      /\ L'.i = L.i + 1 /\ L'.regions = Append(L.regions, placed)
      /\ L'.cursor = ToWord(L.cursor + Aligned(e.size))
  BY DEF PlaceRegion, Continue, KeepsTotal, KeepsTable, Typed, LocalsShape
<1>2. PICK n : n = region_count
  OBVIOUS
<1>3. PICK m : m = L.i - 1
  OBVIOUS
<1>4. /\ n \in Nat /\ m \in Nat /\ m + 1 = L.i /\ m + 1 \in 1 .. n
      /\ n <= Len(file.regions)
  <2>1. L.i \in Nat \ {0} /\ n \in Nat /\ n <= Len(file.regions) /\ L.i <= n
    BY <1>1, <1>2, CountFacts DEF Typed, TypeOK
  <2> QED
    BY <1>3, <2>1
<1>5. Seen = n /\ Seen' = n /\ region_count' = n /\ file' = file
  BY <1>1, <1>2, TotalsKeptFacts, KeptFacts DEF Seen
<1>6. NamesChecked /\ \E t : IsSums(t, n) /\ L.region_total = t[n] /\ PlacedSoFar(t)
  BY <1>1, <1>5 DEF RegionsChecked
<1>7. PICK t : IsSums(t, n) /\ L.region_total = t[n] /\ PlacedSoFar(t)
  BY <1>6
<1>8. IsSums(t, n)' /\ NamesChecked'
  BY <1>1, <1>5, <1>6, <1>7, RegionsKept, TotalsKeptFacts
<1>9. /\ L.cursor = RegionsStart + t[m]
      /\ L.regions = [k \in 1 .. m |-> PlacedAt(t, k)]
  BY <1>1, <1>3, <1>7 DEF PlacedSoFar
<1>10. e.size \in Nat
  BY <1>4, FileFacts
<1>11. PICK a : a \in Nat /\ a = Aligned(e.size)
  BY <1>10, AlignedFacts
<1>12. /\ t[m] \in Nat /\ t[m + 1] \in Nat /\ t[m + 1] = t[m] + a
       /\ t[m + 1] <= t[n]
  <2>1. m \in 0 .. n /\ m + 1 \in 0 .. n /\ n \in 0 .. n /\ m + 1 \in 1 .. n /\ m + 1 <= n
    BY <1>4
  <2>2. /\ t \in [0 .. n -> Nat]
        /\ \A k \in 1 .. n : t[k] = t[k - 1] + Aligned(file.regions[k].size)
        /\ \A j, k \in 0 .. n : j <= k => t[j] <= t[k]
    BY <1>7 DEF IsSums
  <2>3. t[m] \in Nat /\ t[m + 1] \in Nat BY <2>1, <2>2
  <2>4. t[m + 1] = t[m] + a
    <3>1. t[m + 1] = t[(m + 1) - 1] + Aligned(file.regions[m + 1].size) BY <2>1, <2>2
    <3>2. (m + 1) - 1 = m /\ m + 1 = L.i BY <1>4
    <3> QED BY <1>11, <3>1, <3>2
  <2>5. t[m + 1] <= t[n] BY <2>1, <2>2
  <2> QED BY <2>3, <2>4, <2>5
<1>13. L'.cursor = RegionsStart + t[m + 1]
  <2>1. heap_total <= MAX_U32 /\ RegionsStart + t[m + 1] <= heap_total
    <3>1. heap_total <= MAX_U32
      BY <1>1 DEF TotalsChecked, Late
    <3>2. size("ROM") \in Nat /\ size("HEAP_RESERVE") \in Nat
      BY SizeFacts DEF SecTypes, NoPayload
    <3> QED
      BY <1>7, <1>12, <3>1, <3>2, TotalFacts
  <2>2. RegionsStart \in Nat
    BY TotalFacts
  <2>3. RegionsStart + t[m + 1] \in Word
    BY <1>12, <2>1, <2>2, TotalFacts
  <2>4. L.cursor + a = RegionsStart + t[m + 1]
    BY <1>9, <1>11, <1>12, <2>2
  <2> QED
    BY <1>1, <1>11, <2>3, <2>4, ToWordFacts
<1>14. L'.regions = [k \in 1 .. m + 1 |-> PlacedAt(t, k)]
  <2>1. placed = PlacedAt(t, m + 1)
    <3>1. e = file.regions[m + 1] /\ (m + 1) - 1 = m
      BY <1>4
    <3> QED
      BY <1>9, <3>1, Zenon DEF PlacedAt
  <2> DEFINE g == [k \in 1 .. m + 1 |-> PlacedAt(t, k)]
  <2>2. DOMAIN g = 1 .. m + 1
    OBVIOUS
  <2>3. L.regions = [k \in 1 .. m |-> g[k]] /\ L'.regions = Append(L.regions, g[m + 1])
    BY <1>1, <1>4, <1>9, <2>1
  <2>4. g = [k \in 1 .. m + 1 |-> g[k]]
    OBVIOUS
  <2> HIDE DEF g
  <2>5. L'.regions = g
    BY <1>4, <2>3, <2>4, AppendToFunction, Zenon
  <2> QED
    BY <2>5 DEF g
<1>15. PlacedSoFar(t)'
  <2>1. ASSUME NEW k PROVE PlacedAt(t, k)' = PlacedAt(t, k)
    BY <1>1, <1>5, TotalsKeptFacts DEF PlacedAt
  <2>2. RegionsStart' = RegionsStart /\ L'.i - 1 = m + 1
    BY <1>1, <1>4, TotalsKeptFacts
  <2>3. L'.cursor = RegionsStart' + t[L'.i - 1]
    BY <1>13, <2>2
  <2>4. L'.regions = [k \in 1 .. L'.i - 1 |-> PlacedAt(t, k)']
    BY <1>14, <2>1, <2>2
  <2>5. L'.i - 1 <= region_count'
    BY <1>4, <1>5, <2>2
  <2> QED
    BY <2>3, <2>4, <2>5 DEF PlacedSoFar
<1>16. L'.region_total = t[n]
  BY <1>1, <1>7, TotalsKeptFacts
<1> QED
  BY <1>1, <1>4, <1>5, <1>8, <1>15, <1>16 DEF RegionsChecked

(* Every other step keeps the regions where they are.                      *)
LEMMA RegionsFrame ==
  ASSUME RegionsChecked, stage \notin {"none", "sections"},
         stage' \notin {"none", "sections"}, KeepsTable, Seen' = Seen,
         L'.region_total = L.region_total,
         stage' = "place" => UNCHANGED <<stage, L>>
  PROVE  RegionsChecked'
<1>1. PICK n : n = Seen
  OBVIOUS
<1>2. region_count' = region_count /\ file' = file
  BY KeptFacts
<1>3. NamesChecked /\ n <= region_count
      /\ \E t : IsSums(t, n) /\ L.region_total = t[n] /\ PlacedSoFar(t)
  BY <1>1 DEF RegionsChecked
<1>4. PICK t : IsSums(t, n) /\ L.region_total = t[n] /\ PlacedSoFar(t)
  BY <1>3
<1>5. IsSums(t, n)' /\ NamesChecked'
  BY <1>1, <1>3, <1>4, RegionsKept
<1>6. PlacedSoFar(t)'
  <2>1. ASSUME NEW k PROVE PlacedAt(t, k)' = PlacedAt(t, k)
    BY <1>2, KeptFacts DEF PlacedAt, RegionsStart
  <2>2. RegionsStart' = RegionsStart
    BY KeptFacts DEF RegionsStart
  <2>3. CASE stage' = "place"
    <3>1. L' = L /\ stage = "place"
      BY <2>3
    <3> QED
      BY <1>2, <1>4, <2>1, <2>2, <3>1 DEF PlacedSoFar
  <2>4. CASE stage' # "place"
    BY <2>4 DEF PlacedSoFar
  <2> QED
    BY <2>3, <2>4
<1> QED
  BY <1>1, <1>2, <1>3, <1>4, <1>5, <1>6 DEF RegionsChecked

LEMMA RegionsStep ==
  ASSUME Typed, RegionsChecked, TotalsChecked, Copied, [Next]_vars
  PROVE  RegionsChecked'
<1> SUFFICES ASSUME stage' # "none" PROVE RegionsChecked'
  BY DEF RegionsChecked
<1>1. CASE UNCHANGED vars
  <2>1. stage' = stage /\ L' = L /\ file' = file
    BY <1>1 DEF vars
  <2>2. CASE stage = "sections"
    BY <2>1, <2>2 DEF RegionsChecked
  <2>3. CASE stage # "sections"
    <3>1. KeepsTable /\ Seen' = Seen
      BY <2>1 DEF KeepsTable, Seen, region_count, size
    <3> QED
      BY <2>1, <2>3, <3>1, RegionsFrame
  <2> QED
    BY <2>2, <2>3
<1>2. CASE \E f \in Files, a \in Allocators : cvm_load_ex(f, a)
  BY <1>2, LoadCases DEF RegionsChecked, NoLocals
<1>3. CASE ReadSection
  BY <1>3, ReadSectionCases DEF RegionsChecked
<1>4. CASE EndOfSections
  <2>1. /\ stage = "sections" /\ stage' = "regions" /\ KeepsTable
        /\ L'.i = 1 /\ L'.region_total = 0
    BY <1>4, EndOfSectionsCases DEF RegionsChecked
  <2>2. Seen' = 0 /\ region_count' \in Nat
    BY <2>1, CountFacts, KeptFacts DEF Seen
  <2>3. NamesChecked'
    BY <2>2 DEF NamesChecked
  <2> DEFINE t == [k \in 0 .. 0 |-> 0]
  <2>4. IsSums(t, 0)'
    BY DEF IsSums
  <2>5. t[0] = 0 /\ PlacedSoFar(t)'
    BY <2>1 DEF PlacedSoFar
  <2> HIDE DEF t
  <2> QED
    BY <2>1, <2>2, <2>3, <2>4, <2>5 DEF RegionsChecked
<1>5. CASE CheckRegion
  BY <1>5, RegionChecked
<1>6. CASE EndOfRegions
  <2>1. /\ stage = "regions" /\ stage' = "alloc" /\ KeepsTable
        /\ L.i > region_count /\ L'.region_total = L.region_total
    BY <1>6, EndOfRegionsCases
  <2>2. Seen = L.i - 1 /\ Seen <= region_count
    BY <2>1 DEF RegionsChecked, Seen
  <2>3. L.i \in Nat /\ region_count \in Nat
    BY CountFacts DEF Typed, TypeOK
  <2>4. Seen' = Seen
    BY <2>1, <2>2, <2>3, KeptFacts DEF Seen
  <2> QED
    BY <2>1, <2>4, RegionsFrame
<1>7. CASE stage \in Late
  <2>1. stage' \in Late /\ KeepsTable /\ L'.region_total = L.region_total
    BY <1>7, LateCases DEF KeepsTotal
  <2>2. Seen' = Seen
    BY <1>7, <2>1, KeptFacts DEF Seen, Late
  <2>3. CASE stage' # "place"
    BY <1>7, <2>1, <2>2, <2>3, RegionsFrame DEF Late
  <2>4. CASE stage' = "place"
    BY <1>1, <1>7, <2>4, PlaceCases, StartsPlacing, PlacesNext
  <2> QED
    BY <2>3, <2>4
<1> QED
  BY <1>1, <1>2, <1>3, <1>4, <1>5, <1>6, <1>7, EarlyCases

-----------------------------------------------------------------------------
(* The copies.                                                             *)

LEMMA CopiedKept ==
  ASSUME Copied, stage' = stage \/ (stage = "place" /\ stage' = "loaded")
                 \/ (stage = "funcs" /\ stage' = "place"),
         KeepsTotal, L'.mem = L.mem, L'.funcs = L.funcs,
         L'.regions = L.regions \/ stage \in {"place", "loaded"}
  PROVE  Copied'
BY KeptFacts, TotalsKeptFacts DEF Copied

LEMMA FuncCopied ==
  ASSUME Typed, TableScanned, Copied, CopyFunc, stage' # "none"
  PROVE  Copied'
<1> DEFINE target == file.funcs[L.i]
<1>1. /\ stage = "funcs" /\ stage' = "funcs" /\ KeepsTotal /\ L.i <= func_count
      /\ target < code_count
      /\ L'.mem = L.mem /\ L'.regions = L.regions
      /\ L'.funcs = Append(L.funcs, target)
  BY DEF CopyFunc, Continue, Return, KeepsTotal, KeepsTable, Typed, LocalsShape
<1>2. target \in Nat
  <2>1. L.i \in Nat \ {0} /\ func_count \in Nat
    BY CountFacts DEF Typed, TypeOK
  <2>2. size("FUNCS") \in Nat /\ "FUNCS" \in SecTypes \ HostOnly
    BY SizeFacts DEF SecTypes, HostOnly
  <2>3. size("FUNCS") # 0
    BY <1>1, <2>1, <2>2 DEF func_count
  <2>4. size("FUNCS") = 4 * Len(file.funcs) /\ file.funcs \in Seq(Word)
    BY <1>1, <2>2, <2>3, SectionFacts, FileFacts DEF IsFile
  <2>5. func_count = Len(file.funcs)
    BY <2>4 DEF func_count
  <2>6. target \in Word
    BY <1>1, <2>1, <2>4, <2>5
  <2> QED
    BY <2>6, WordFacts
<1>3. L.funcs \in Seq(Nat) /\ \A k \in DOMAIN L.funcs : L.funcs[k] < code_count
  BY <1>1 DEF Copied
<1> HIDE DEF target
<1>4. L'.funcs \in Seq(Nat) /\ \A k \in DOMAIN L'.funcs : L'.funcs[k] < code_count
  BY <1>1, <1>2, <1>3
<1>5. code_count' = code_count /\ InitialMemory' = InitialMemory
  BY <1>1, TotalsKeptFacts, KeptFacts
<1> QED
  BY <1>1, <1>4, <1>5 DEF Copied

LEMMA CopiedStep ==
  ASSUME Typed, TableScanned, Copied, [Next]_vars PROVE Copied'
<1> SUFFICES ASSUME stage' # "none" PROVE Copied'
  BY DEF Copied
<1> USE DEF KeepsTotal, KeepsTable, Typed, LocalsShape, Continue
<1>1. CASE UNCHANGED vars
  <2>1. stage' = stage /\ L' = L /\ file' = file
    BY <1>1 DEF vars
  <2> QED
    BY <2>1, CopiedKept
<1>2. CASE \E f \in Files, a \in Allocators : cvm_load_ex(f, a)
  BY <1>2, LoadCases DEF Copied, NoLocals
<1>3. CASE ReadSection
  BY <1>3, ReadSectionCases DEF Copied
<1>4. CASE EndOfSections
  BY <1>4, EndOfSectionsCases DEF Copied, KeepsRest
<1>5. CASE CheckRegion
  BY <1>5, CheckRegionCases DEF Copied, KeepsRest
<1>6. CASE EndOfRegions
  BY <1>6, EndOfRegionsCases DEF Copied, KeepsRest
<1>7. CASE cvm_int_alloc \/ EndOfAlloc
  <2>1. /\ stage = "alloc" /\ stage' \in {"alloc", "fill"}
        /\ L'.funcs = L.funcs /\ L'.regions = L.regions
    BY <1>7 DEF cvm_int_alloc, EndOfAlloc, Oom, Return
  <2> QED
    BY <2>1 DEF Copied
<1>8. CASE FillMemory
  <2>1. /\ stage = "fill" /\ stage' = "funcs" /\ KeepsTotal
        /\ L'.funcs = L.funcs /\ L'.regions = L.regions /\ L'.mem = InitialMemory
    BY <1>8 DEF FillMemory
  <2>2. L.funcs = <<>> /\ L.regions = <<>>
    BY <2>1 DEF Copied
  <2>3. <<>> \in Seq(Nat) /\ DOMAIN <<>> = {}
    OBVIOUS
  <2>4. InitialMemory' = InitialMemory
    BY <2>1, TotalsKeptFacts
  <2> QED
    BY <2>1, <2>2, <2>3, <2>4 DEF Copied
<1>9. CASE CopyFunc
  BY <1>9, FuncCopied
<1>10. CASE CopyImports
  <2>1. /\ stage = "funcs" /\ stage' = "place" /\ KeepsTotal /\ L'.mem = L.mem
        /\ L'.funcs = L.funcs /\ L'.regions = L.regions
    BY <1>10 DEF CopyImports
  <2> QED
    BY <2>1, CopiedKept
<1>11. CASE PlaceRegion
  <2>1. /\ stage = "place" /\ stage' = "place" /\ KeepsTotal /\ L'.mem = L.mem
        /\ L'.funcs = L.funcs
    BY <1>11 DEF PlaceRegion
  <2> QED
    BY <2>1, CopiedKept
<1>12. CASE Publish
  <2>1. stage = "place" /\ stage' = "loaded" /\ L' = L /\ file' = file
    BY <1>12 DEF Publish
  <2> QED
    BY <2>1, CopiedKept
<1>13. CASE \E name \in LinkNames : cvm_link(name)
  <2>1. stage' = stage /\ L' = L /\ file' = file
    BY <1>13 DEF cvm_link
  <2> QED
    BY <2>1, CopiedKept
<1>14. ~cvm_image_free
  BY DEF cvm_image_free
<1> QED
  BY <1>1, <1>2, <1>3, <1>4, <1>5, <1>6, <1>7, <1>8, <1>9, <1>10, <1>11, <1>12,
     <1>13, <1>14 DEF Next, Step, Host, Done

(* All layers together.                                                    *)
Loading == /\ TableScanned /\ SectionsChecked /\ RegionsChecked
           /\ TotalsChecked /\ Copied

LEMMA LoadingHolds == Spec => [](Typed /\ Loading)
<1>1. Init => Loading
  BY DEF Init, Loading, TableScanned, SectionsChecked, RegionsChecked, TotalsChecked,
     Copied, Late
<1>2. Typed /\ Typed' /\ Loading /\ [Next]_vars => Loading'
  BY TableStep, SectionsStep, RegionsStep, TotalsStep, CopiedStep DEF Loading
<1> QED
  BY <1>1, <1>2, TypedHolds, PTL DEF Spec

-----------------------------------------------------------------------------
(* Reading the file.                                                       *)

InFile(bytes) == bytes \subseteq 0 .. file.len - 1

LEMMA SpanInFile ==
  ASSUME file.len \in Nat, NEW a \in Nat, NEW n \in Int, a + n <= file.len
  PROVE  InFile(Span(a, n))
BY DEF InFile, Span

(* The payload of a section the loader copies lies in the file.            *)
LEMMA PayloadFacts ==
  ASSUME Typed, TableScanned, stage \notin {"none", "sections"},
         NEW t \in SecTypes \ HostOnly, t \notin NoPayload
  PROVE  /\ size(t) \in Nat /\ off(t) \in Nat
         /\ size(t) # 0 => off(t) + size(t) <= file.len
         /\ InFile(Span(off(t), size(t)))
<1>1. size(t) \in Nat /\ off(t) \in Nat /\ file.len \in Nat
  BY SizeFacts, FileFacts
<1>2. size(t) # 0 => off(t) + size(t) <= file.len
  BY SectionFacts
<1>3. CASE size(t) = 0
  BY <1>1, <1>3 DEF InFile, Span
<1>4. CASE size(t) # 0
  BY <1>1, <1>2, <1>4, SpanInFile
<1> QED
  BY <1>1, <1>2, <1>3, <1>4

LEMMA EntryInFile ==
  ASSUME Typed, TableScanned, SectionsChecked, stage \notin {"none", "sections"},
         NEW k \in 1 .. region_count
  PROVE  InFile(EntryAt(k))
<1> DEFINE t == "HOST_REGION"
<1>1. t \in SecTypes \ HostOnly /\ t \notin NoPayload
  BY DEF SecTypes, HostOnly, NoPayload
<1>2. region_count \in Nat /\ size(t) # 0
  BY CountFacts
<1>3. size(t) \in Nat /\ off(t) \in Nat /\ off(t) + size(t) <= file.len
  BY <1>1, <1>2, PayloadFacts
<1>4. 4 + region_count * REGION_ENTRY_SIZE <= size(t)
  BY <1>2, <1>3 DEF SectionsChecked, RegionsFit
<1> HIDE DEF t
<1>5. off(t) + 4 + (k - 1) * 28 + 28 <= file.len
  BY <1>2, <1>3, <1>4, FileFacts DEF REGION_ENTRY_SIZE
<1>6. off(t) + 4 + (k - 1) * 28 \in Nat
  BY <1>2, <1>3
<1> QED
  BY <1>5, <1>6, SpanInFile, FileFacts DEF EntryAt, REGION_ENTRY_SIZE, t

LEMMA SectionEntryInFile ==
  ASSUME Typed, TableScanned, stage = "sections", L.i <= Len(file.sections)
  PROVE  InFile(Span(file.table_off + (L.i - 1) * SECTION_SIZE, SECTION_SIZE))
<1>1. L.i \in Nat \ {0} /\ file.table_off \in Nat /\ file.len \in Nat
  BY FileFacts DEF Typed, TypeOK
<1>2. file.table_off + Len(file.sections) * 16 <= file.len /\ Len(file.sections) \in Nat
  BY FileFacts DEF TableScanned, TableFits, SECTION_SIZE
<1>3. /\ file.table_off + (L.i - 1) * 16 \in Nat
      /\ file.table_off + (L.i - 1) * 16 + 16 <= file.len
  <2>1. PICK i, n, o : i = L.i /\ n = Len(file.sections) /\ o = file.table_off
    OBVIOUS
  <2>2. /\ i \in Nat \ {0} /\ n \in Nat /\ o \in Nat /\ i <= n
        /\ o + n * 16 <= file.len
    BY <1>1, <1>2, <2>1
  <2>3. o + (i - 1) * 16 \in Nat /\ o + (i - 1) * 16 + 16 <= file.len
    BY <1>1, <2>2
  <2> QED
    BY <2>1, <2>3
<1> QED
  BY <1>1, <1>3, SpanInFile DEF SECTION_SIZE

LEMMA ImportsInFile ==
  ASSUME Typed, TableScanned, stage \notin {"none", "sections"}
  PROVE  InFile(ImportReads)
<1> DEFINE t == "IMPORTS"
<1>1. t \in SecTypes \ HostOnly /\ t \notin NoPayload
  BY DEF SecTypes, HostOnly, NoPayload
<1>2. size(t) \in Nat /\ off(t) \in Nat /\ file.len \in Nat
  BY <1>1, PayloadFacts, FileFacts
<1>3. CASE size(t) < 4
  BY <1>2, <1>3 DEF ImportReads, InFile
<1>4. CASE ~(size(t) < 4)
  <2> DEFINE name(k) == Span(off(t) + file.imports[k].off,
                             size(t) - file.imports[k].off)
  <2>1. off(t) + size(t) <= file.len /\ 4 <= size(t)
    BY <1>1, <1>2, <1>4, PayloadFacts
  <2>2. InFile(Span(off(t), 4))
    BY <1>2, <2>1, SpanInFile
  <2>3. CASE ~ImportsFit
    BY <2>2, <2>3, <1>4 DEF ImportReads, InFile
  <2>4. CASE ImportsFit
    <3>1. import_count \in Nat /\ 4 + import_count * 4 <= size(t)
          /\ import_count <= Len(file.imports)
      BY <2>4, CountFacts DEF ImportsFit
    <3>2. InFile(Span(off(t) + 4, 4 * import_count))
      BY <1>2, <2>1, <3>1, SpanInFile
    <3>3. ASSUME NEW k \in 1 .. import_count PROVE InFile(name(k))
      <4>1. file.imports[k] \in ImportEntry
        BY <3>1, FileFacts DEF IsFile
      <4>2. file.imports[k].off \in Nat
        BY <4>1, WordFacts DEF ImportEntry
      <4> QED
        BY <1>2, <2>1, <4>2, SpanInFile
    <3>4. ImportReads = Span(off(t), 4) \cup (Span(off(t) + 4, 4 * import_count) \cup
                        UNION {name(k) : k \in 1 .. import_count})
      BY <1>4, <2>4 DEF ImportReads
    <3> HIDE DEF name
    <3> QED
      BY <2>2, <3>2, <3>3, <3>4 DEF InFile
  <2> QED
    BY <2>3, <2>4
<1> QED
  BY <1>3, <1>4

LEMMA FuncInFile ==
  ASSUME Typed, TableScanned, stage = "funcs", L.i <= func_count
  PROVE  InFile(Span(off("FUNCS") + (L.i - 1) * 4, 4))
<1> DEFINE t == "FUNCS"
<1>1. t \in SecTypes \ HostOnly /\ t \notin NoPayload
  BY DEF SecTypes, HostOnly, NoPayload
<1>2. size(t) \in Nat /\ off(t) \in Nat /\ file.len \in Nat
  BY <1>1, PayloadFacts, FileFacts
<1>3. L.i \in Nat \ {0} /\ L.i <= size(t) \div 4
  BY DEF Typed, TypeOK, func_count
<1> HIDE DEF t
<1>4. size(t) # 0 /\ 4 * L.i <= size(t)
  BY <1>2, <1>3
<1>5. off(t) + size(t) <= file.len
  BY <1>1, <1>4, PayloadFacts
<1>6. off(t) + (L.i - 1) * 4 \in Nat /\ off(t) + (L.i - 1) * 4 + 4 <= file.len
  BY <1>2, <1>3, <1>4, <1>5
<1> QED
  BY <1>2, <1>6, SpanInFile DEF t

LEMMA ReadsStep ==
  ASSUME Typed, Loading, ReadsInFile, [Next]_vars PROVE ReadsInFile'
<1> USE DEF Loading
<1>1. CASE UNCHANGED vars
  BY <1>1 DEF vars, ReadsInFile
<1>2. ASSUME NEW f \in Files, NEW a \in Allocators, cvm_load_ex(f, a)
      PROVE  ReadsInFile'
  <2>1. file' = f /\ f.len \in Nat
        /\ reads' = IF f.len < HEADER_SIZE THEN {} ELSE Span(0, HEADER_SIZE)
    BY <1>2, FilesAssumption DEF cvm_load_ex, IsFile
  <2> QED
    BY <2>1 DEF ReadsInFile, Span, HEADER_SIZE
<1>3. ASSUME file' = file, InFile(reads') PROVE ReadsInFile'
  BY <1>3 DEF InFile, ReadsInFile
<1>4. InFile({})
  BY DEF InFile
<1>5. CASE ReadSection
  <2>1. /\ stage = "sections" /\ L.i <= Len(file.sections) /\ file' = file
        /\ reads' = Span(file.table_off + (L.i - 1) * SECTION_SIZE, SECTION_SIZE)
    BY <1>5, CheckCases, Zenon DEF ReadSection
  <2> QED
    BY <1>3, <2>1, SectionEntryInFile
<1>6. CASE EndOfSections
  <2> DEFINE read == IF size("HOST_REGION") < 4 THEN {} ELSE Span(off("HOST_REGION"), 4)
  <2>0. PICK checks, locals : Check(checks, "regions", locals, read)
    BY <1>6, Zenon DEF EndOfSections
  <2>1. /\ stage = "sections" /\ file' = file /\ L.i > Len(file.sections)
        /\ reads' = read
    <3> HIDE DEF read
    <3> QED
      BY <1>6, <2>0, CheckCases, Zenon DEF EndOfSections
  <2>2. Scanned = Len(file.sections)
    <3>1. L.i \in Nat /\ Len(file.sections) \in Nat
      BY FileFacts DEF Typed, TypeOK
    <3>2. Scanned = L.i - 1 /\ Scanned <= Len(file.sections)
      BY <2>1 DEF TableScanned, Scanned
    <3> QED
      BY <2>1, <3>1, <3>2
  <2>3. "HOST_REGION" \in SecTypes \ HostOnly /\ "HOST_REGION" \notin NoPayload
    BY DEF SecTypes, HostOnly, NoPayload
  <2>4. size("HOST_REGION") # 0 =>
          off("HOST_REGION") + size("HOST_REGION") <= file.len
    <3>1. CASE Absent("HOST_REGION")
      BY <3>1 DEF Absent, size
    <3>2. CASE Present("HOST_REGION")
      BY <2>3, <3>2 DEF Present, StoredFrom, SectionSound, size, off
    <3> QED
      BY <2>1, <2>3, <3>1, <3>2 DEF TableScanned
  <2> QED
    BY <1>3, <1>4, <2>1, <2>3, <2>4, SpanInFile, SizeFacts, FileFacts
<1>7. CASE CheckRegion
  <2> DEFINE read == UNION {EntryAt(j) : j \in 1 .. L.i}
  <2>0. PICK checks, locals : Check(checks, "regions", locals, read)
    BY <1>7, Zenon DEF CheckRegion
  <2>1. /\ stage = "regions" /\ L.i <= region_count /\ file' = file
        /\ reads' = read
    <3> HIDE DEF read
    <3> QED
      BY <1>7, <2>0, CheckCases, Zenon DEF CheckRegion
  <2>2. \A j \in 1 .. L.i : InFile(EntryAt(j))
    BY <2>1, EntryInFile, CountFacts DEF Typed, TypeOK
  <2> QED
    BY <1>3, <2>1, <2>2 DEF InFile
<1>8. CASE EndOfRegions
  <2>1. stage = "regions" /\ file' = file /\ reads' = ImportReads
    BY <1>8, CheckCases, Zenon DEF EndOfRegions
  <2> QED
    BY <1>3, <2>1, ImportsInFile
<1>9. CASE cvm_int_alloc \/ EndOfAlloc \/ Publish \/ cvm_image_free
           \/ \E name \in LinkNames : cvm_link(name)
  <2>1. file' = file /\ reads' = {}
    BY <1>9 DEF cvm_int_alloc, EndOfAlloc, Publish, cvm_image_free, cvm_link, Oom,
       Return, Continue
  <2> QED
    BY <1>3, <1>4, <2>1
<1>10. CASE FillMemory
  <2>1. /\ stage = "fill" /\ file' = file
        /\ reads' = Span(off("CODE"), size("CODE")) \cup Span(off("DATA"), size("DATA"))
                      \cup Span(off("ROM"), size("ROM"))
    BY <1>10 DEF FillMemory, Continue
  <2>2. \A t \in {"CODE", "DATA", "ROM"} : t \in SecTypes \ HostOnly /\ t \notin NoPayload
    BY DEF SecTypes, HostOnly, NoPayload
  <2>3. \A t \in {"CODE", "DATA", "ROM"} : InFile(Span(off(t), size(t)))
    BY <2>1, <2>2, PayloadFacts
  <2> QED
    BY <1>3, <2>1, <2>3 DEF InFile
<1>11. CASE CopyFunc
  <2>1. /\ stage = "funcs" /\ file' = file /\ L.i <= func_count
        /\ reads' = Span(off("FUNCS") + (L.i - 1) * 4, 4)
    BY <1>11 DEF CopyFunc, Continue, Return
  <2> QED
    BY <1>3, <2>1, FuncInFile
<1>12. CASE CopyImports
  <2>1. /\ stage = "funcs" /\ file' = file
        /\ reads' = Span(off("IMPORTS"), size("IMPORTS"))
    BY <1>12 DEF CopyImports, Continue
  <2>2. "IMPORTS" \in SecTypes \ HostOnly /\ "IMPORTS" \notin NoPayload
    BY DEF SecTypes, HostOnly, NoPayload
  <2> QED
    BY <1>3, <2>1, <2>2, PayloadFacts
<1>13. CASE PlaceRegion
  <2>1. /\ stage = "place" /\ file' = file /\ L.i <= region_count
        /\ reads' = EntryAt(L.i)
    BY <1>13 DEF PlaceRegion, Continue
  <2> QED
    BY <1>3, <2>1, EntryInFile, CountFacts DEF Typed, TypeOK
<1> QED
  BY <1>1, <1>2, <1>5, <1>6, <1>7, <1>8, <1>9, <1>10, <1>11, <1>12, <1>13
     DEF Next, Step, Host, Done

(* cvm_load_ex reads no byte outside the buffer it was given, whatever the *)
(* offsets, sizes and counts in the file say: each read is of a table or a *)
(* payload whose bounds an earlier check compared with the length.         *)
THEOREM ReadsStayInFile == Spec => []ReadsInFile
<1>1. Init => ReadsInFile
  BY DEF Init, ReadsInFile
<1>2. Typed /\ Loading /\ ReadsInFile /\ [Next]_vars => ReadsInFile'
  BY ReadsStep
<1> QED
  BY <1>1, <1>2, LoadingHolds, PTL DEF Spec

-----------------------------------------------------------------------------
(* The image.  When the regions are placed, every part of the memory is    *)
(* behind the one before it, and its bytes are those of the file or zero.  *)

RegionsEnd == RegionsStart + L.region_total

LEMMA RegionsPlaced ==
  ASSUME Typed, RegionsChecked, stage = "place", L.i > region_count
  PROVE  /\ L.regions \in [1 .. region_count ->
                             [name : Seq(Byte \ {0}), size : Nat, offset : Nat]]
         /\ \A k \in 1 .. region_count :
              /\ L.regions[k].name = file.regions[k].name
              /\ Len(L.regions[k].name) \in 1 .. 15
              /\ RegionsStart <= L.regions[k].offset
              /\ L.regions[k].offset + L.regions[k].size <= RegionsEnd
         /\ \A j, k \in 1 .. region_count :
              /\ L.regions[j].name = L.regions[k].name => j = k
              /\ j < k => L.regions[j].offset + L.regions[j].size <= L.regions[k].offset
<1>1. PICK n, i, r0 : n = region_count /\ i = L.i - 1 /\ r0 = RegionsStart
  OBVIOUS
<1>2. /\ n \in Nat /\ n <= Len(file.regions) /\ r0 \in Nat /\ L.i \in Nat \ {0}
      /\ Len(file.regions) \in Nat
  BY <1>1, CountFacts, TotalFacts, FileFacts DEF Typed, TypeOK
<1>3. Seen = n
  BY <1>1 DEF Seen
<1>4. NamesChecked /\ \E t : IsSums(t, n) /\ L.region_total = t[n] /\ PlacedSoFar(t)
  BY <1>3 DEF RegionsChecked
<1>5. PICK t : IsSums(t, n) /\ L.region_total = t[n] /\ PlacedSoFar(t)
  BY <1>4
<1>6. i <= n /\ L.regions = [k \in 1 .. i |-> PlacedAt(t, k)]
  BY <1>1, <1>5 DEF PlacedSoFar
<1>7. i = n
  BY <1>1, <1>2, <1>6
<1>8. ASSUME NEW k \in 1 .. n
      PROVE  /\ L.regions[k] = PlacedAt(t, k)
             /\ L.regions[k].name = file.regions[k].name
             /\ L.regions[k].size = file.regions[k].size
             /\ L.regions[k].offset = r0 + t[k - 1]
  BY <1>1, <1>6, <1>7 DEF PlacedAt
<1>9. ASSUME NEW k \in 1 .. n
      PROVE  /\ file.regions[k] \in RegionEntry /\ file.regions[k].size \in Nat
             /\ file.regions[k].terminated /\ file.regions[k].name # <<>>
             /\ file.regions[k].name \in Seq(Byte \ {0})
             /\ Len(file.regions[k].name) \in 1 .. 15
  <2>1. k \in 1 .. Len(file.regions)
    BY <1>2
  <2>2. file.regions[k] \in RegionEntry /\ file.regions[k].size \in Nat
    BY <2>1, FileFacts
  <2>3. file.regions[k].terminated /\ file.regions[k].name # <<>>
    BY <1>3, <1>4 DEF NamesChecked
  <2>4. file.regions[k].name \in Seq(Byte \ {0})
    BY <2>2 DEF RegionEntry
  <2>5. Len(file.regions[k].name) <= 15
    <3>1. k \in DOMAIN file.regions
      BY <2>1, FileFacts DEF IsFile
    <3> QED
      BY <2>3, <3>1, FileFacts DEF IsFile
  <2>6. Len(file.regions[k].name) \in Nat \ {0}
    BY <2>3, <2>4, EmptySeq
  <2>7. Len(file.regions[k].name) \in 1 .. 15
    <3>1. \A q \in Nat \ {0} : q <= 15 => q \in 1 .. 15
      OBVIOUS
    <3> QED
      BY <2>5, <2>6, <3>1, Zenon
  <2> QED
    BY <2>2, <2>3, <2>4, <2>7
<1>10. ASSUME NEW k \in 1 .. n
       PROVE  /\ t[k - 1] \in Nat /\ t[k] \in Nat /\ t[n] \in Nat
              /\ t[k - 1] + file.regions[k].size <= t[k] /\ t[k] <= t[n]
  <2>1. t[k] = t[k - 1] + Aligned(file.regions[k].size)
    BY <1>5 DEF IsSums
  <2>2. k \in 0 .. n /\ k - 1 \in 0 .. n /\ n \in 0 .. n
    BY <1>2
  <2>3. t[k - 1] \in Nat /\ t[k] \in Nat /\ t[n] \in Nat /\ t[k] <= t[n]
    BY <1>2, <1>5, <2>2 DEF IsSums
  <2>4. PICK a, s : a = Aligned(file.regions[k].size) /\ s = file.regions[k].size
    OBVIOUS
  <2>5. a \in Nat /\ s \in Nat /\ s <= a
    BY <1>9, <2>4, AlignedFacts
  <2> QED
    BY <2>1, <2>3, <2>4, <2>5
<1>11. ASSUME NEW k \in 1 .. n
       PROVE  /\ L.regions[k] \in [name : Seq(Byte \ {0}), size : Nat, offset : Nat]
              /\ r0 <= L.regions[k].offset
              /\ L.regions[k].offset + L.regions[k].size <= r0 + t[k]
              /\ r0 + t[k] <= r0 + t[n]
  <2>1. r0 + t[k - 1] \in Nat
    <3>1. t[k - 1] \in Nat /\ r0 \in Nat
      BY <1>2, <1>10
    <3>2. \A x, y \in Nat : x + y \in Nat
      OBVIOUS
    <3> QED
      BY <3>1, <3>2, Zenon
  <2>2. L.regions[k] = [name |-> file.regions[k].name, size |-> file.regions[k].size,
                        offset |-> r0 + t[k - 1]]
    <3>1. L.regions[k] = PlacedAt(t, k) /\ RegionsStart = r0
      BY <1>1, <1>8
    <3> QED
      BY <3>1, Zenon DEF PlacedAt
  <2>3. L.regions[k] \in [name : Seq(Byte \ {0}), size : Nat, offset : Nat]
    BY <1>9, <2>1, <2>2
  <2>4. PICK z, u, v, w : /\ z = file.regions[k].size /\ u = t[k - 1]
                          /\ v = t[k] /\ w = t[n]
    OBVIOUS
  <2>5. /\ z \in Nat /\ u \in Nat /\ v \in Nat /\ w \in Nat /\ u + z <= v /\ v <= w
    BY <1>9, <1>10, <2>4
  <2>6. r0 <= r0 + u /\ (r0 + u) + z <= r0 + v /\ r0 + v <= r0 + w
    BY <1>2, <2>5
  <2> QED
    BY <1>8, <2>3, <2>4, <2>6
<1>12. L.regions \in [1 .. n -> [name : Seq(Byte \ {0}), size : Nat, offset : Nat]]
  BY <1>6, <1>7, <1>11
<1>13. ASSUME NEW j \in 1 .. n, NEW k \in 1 .. n
       PROVE  /\ L.regions[j].name = L.regions[k].name => j = k
              /\ j < k => L.regions[j].offset + L.regions[j].size <= L.regions[k].offset
  <2>1. L.regions[j].name = L.regions[k].name => j = k
    BY <1>3, <1>4, <1>8 DEF NamesChecked
  <2>2. CASE j < k
    <3>1. j \in 0 .. n /\ k - 1 \in 0 .. n /\ j <= k - 1
      BY <1>2, <2>2
    <3>2. t[j] <= t[k - 1]
      BY <1>5, <3>1 DEF IsSums
    <3>3. L.regions[j].offset + L.regions[j].size <= r0 + t[j]
      BY <1>11
    <3>4. t[j] \in Nat /\ t[k - 1] \in Nat /\ L.regions[k].offset = r0 + t[k - 1]
      BY <1>8, <1>10
    <3>5. L.regions[j].offset \in Nat /\ L.regions[j].size \in Nat
      BY <1>11
    <3>6. PICK o, p, q, u, v : /\ o = L.regions[j].offset /\ p = L.regions[j].size
                               /\ q = L.regions[k].offset /\ u = t[j] /\ v = t[k - 1]
      OBVIOUS
    <3>7. /\ o + p <= r0 + u /\ q = r0 + v /\ u <= v
          /\ u \in Nat /\ v \in Nat /\ o \in Nat /\ p \in Nat
      BY <3>2, <3>3, <3>4, <3>5, <3>6
    <3>8. o + p <= q
      BY <1>2, <3>7
    <3> QED
      BY <2>1, <3>6, <3>8
  <2> QED
    BY <2>1, <2>2
<1>14. RegionsEnd = r0 + t[n]
  BY <1>1, <1>5 DEF RegionsEnd
<1>15. /\ \A k \in 1 .. n :
              /\ L.regions[k].name = file.regions[k].name
              /\ Len(L.regions[k].name) \in 1 .. 15
              /\ r0 <= L.regions[k].offset
              /\ L.regions[k].offset + L.regions[k].size <= RegionsEnd
  <2> SUFFICES ASSUME NEW k \in 1 .. n
               PROVE  /\ L.regions[k].name = file.regions[k].name
                      /\ Len(L.regions[k].name) \in 1 .. 15
                      /\ r0 <= L.regions[k].offset
                      /\ L.regions[k].offset + L.regions[k].size <= RegionsEnd
    OBVIOUS
  <2>1. L.regions[k].offset \in Nat /\ L.regions[k].size \in Nat /\ t[k] \in Nat
        /\ t[n] \in Nat
    BY <1>10, <1>11
  <2>2. L.regions[k].offset + L.regions[k].size <= RegionsEnd
    <3>1. PICK o, p, u, v : /\ o = L.regions[k].offset /\ p = L.regions[k].size
                            /\ u = t[k] /\ v = t[n]
      OBVIOUS
    <3>2. o + p <= r0 + u /\ r0 + u <= r0 + v
      BY <1>11, <3>1
    <3>3. o \in Nat /\ p \in Nat /\ u \in Nat /\ v \in Nat
      BY <2>1, <3>1
    <3>4. o + p <= r0 + v
      BY <1>2, <3>2, <3>3
    <3> QED
      BY <1>14, <3>1, <3>4
  <2> QED
    BY <1>8, <1>9, <1>11, <2>2
<1> QED
  BY <1>1, <1>12, <1>13, <1>15

LEMMA PayloadBytes ==
  ASSUME Typed, TableScanned, stage \notin {"none", "sections"}
  PROVE  /\ DataBytes \in [1 .. size("DATA") -> Byte]
         /\ RomBytes \in [1 .. size("ROM") -> Byte]
         /\ \A k \in 1 .. size("DATA") : DataBytes[k] = file.data[k]
         /\ \A k \in 1 .. size("ROM") : RomBytes[k] = file.rom[k]
         /\ size("DATA") # 0 => size("DATA") = Len(file.data)
<1>1. /\ "DATA" \in SecTypes \ HostOnly /\ "ROM" \in SecTypes \ HostOnly
      /\ size("DATA") \in Nat /\ size("ROM") \in Nat
  BY SizeFacts DEF SecTypes, HostOnly
<1>2. file.data \in Seq(Byte) /\ file.rom \in Seq(Byte)
  BY FileFacts DEF IsFile
<1>3. /\ DataBytes \in [1 .. size("DATA") -> Byte]
      /\ \A k \in 1 .. size("DATA") : DataBytes[k] = file.data[k]
      /\ size("DATA") # 0 => size("DATA") = Len(file.data)
  <2>1. CASE size("DATA") = 0
    BY <2>1 DEF DataBytes
  <2>2. CASE size("DATA") # 0
    <3>1. size("DATA") = Len(file.data) /\ DataBytes = file.data
      BY <1>1, <2>2, SectionFacts DEF DataBytes
    <3> QED
      BY <1>2, <2>2, <3>1
  <2> QED
    BY <2>1, <2>2
<1>4. /\ RomBytes \in [1 .. size("ROM") -> Byte]
      /\ \A k \in 1 .. size("ROM") : RomBytes[k] = file.rom[k]
  <2>1. CASE size("ROM") = 0
    BY <2>1 DEF RomBytes
  <2>2. CASE size("ROM") # 0
    <3>1. size("ROM") = Len(file.rom) /\ RomBytes = file.rom
      BY <1>1, <2>2, SectionFacts DEF RomBytes
    <3> QED
      BY <1>2, <2>2, <3>1
  <2> QED
    BY <2>1, <2>2
<1> QED
  BY <1>3, <1>4

(* Where the parts end: none of the 32-bit sums wraps.                     *)
LEMMA PartsInMemory ==
  ASSUME Typed, TotalsChecked, stage \in Late
  PROVE  /\ rom_offset = RegionsEnd
         /\ size("DATA") \in Nat /\ size("ROM") \in Nat /\ size("HEAP_RESERVE") \in Nat
         /\ RegionsStart \in Nat /\ RegionsEnd \in Word /\ RegionsEnd \in Nat
         /\ size("DATA") <= RegionsStart /\ RegionsStart <= RegionsEnd
         /\ heap_total = RegionsEnd + size("ROM") + size("HEAP_RESERVE")
         /\ mem_total = heap_total + size("STACK_RESERVE")
         /\ heap_total \in Word /\ mem_total \in Word
         /\ heap_total \in Nat /\ mem_total \in Nat /\ heap_total <= mem_total
<1>1. /\ size("DATA") \in Nat /\ size("BSS") \in Nat /\ size("ROM") \in Nat
      /\ size("HEAP_RESERVE") \in Nat /\ size("STACK_RESERVE") \in Nat
  BY SizeFacts DEF SecTypes, NoPayload
<1>2. heap_total <= MAX_U32 /\ mem_total <= MAX_U32
  BY DEF TotalsChecked
<1>3. RegionsEnd \in Nat /\ RegionsEnd <= heap_total
  BY <1>1, TotalFacts DEF RegionsEnd
<1>4. RegionsEnd \in Word
  <2>1. RegionsEnd <= MAX_U32
    BY <1>2, <1>3, TotalFacts
  <2> QED
    BY <1>3, <2>1, TotalFacts
<1>5. rom_offset = RegionsEnd
  BY <1>4, ToWordFacts DEF rom_offset, RegionsEnd, RegionsStart
<1>6. RegionsStart \in Nat /\ size("DATA") <= RegionsStart /\ RegionsStart <= RegionsEnd
  BY <1>1, TotalFacts DEF RegionsStart, RegionsEnd
<1> QED
  BY <1>1, <1>2, <1>3, <1>4, <1>5, <1>6, TotalFacts DEF RegionsEnd

(* Every byte of the memory is initialised: with the DATA section, with    *)
(* the ROM, or with zero.                                                  *)
LEMMA MemoryFilled ==
  ASSUME Typed, TableScanned, TotalsChecked, stage \in Late
  PROVE  /\ InitialMemory \in [0 .. mem_total - 1 -> Byte]
         /\ \A k \in 1 .. size("DATA") : InitialMemory[k - 1] = file.data[k]
         /\ \A k \in 1 .. size("ROM") : InitialMemory[RegionsEnd + k - 1] = file.rom[k]
         /\ \A a \in 0 .. mem_total - 1 :
              a >= size("DATA") /\ a \notin Span(RegionsEnd, size("ROM")) =>
                InitialMemory[a] = 0
<1>1. PICK d, r, z, m : d = size("DATA") /\ r = RegionsEnd /\ z = size("ROM") /\ m = mem_total
  OBVIOUS
<1>2. d \in Nat /\ r \in Nat /\ z \in Nat /\ m \in Nat /\ d <= r /\ r + z <= m
      /\ rom_offset = r
  BY <1>1, PartsInMemory
<1>3. PICK data, rom : data = DataBytes /\ rom = RomBytes
  OBVIOUS
<1>4. /\ data \in [1 .. d -> Byte] /\ rom \in [1 .. z -> Byte]
      /\ \A k \in 1 .. d : data[k] = file.data[k]
      /\ \A k \in 1 .. z : rom[k] = file.rom[k]
  BY <1>1, <1>3, PayloadBytes DEF Late
<1> DEFINE raw == [k \in 0 .. m - 1 |-> UNINIT]
           withData == Blit(raw, 0, data)
           cleared == Clear(withData, d, m)
           whole == Blit(cleared, r, rom)
<1>5. InitialMemory = whole
  BY <1>1, <1>2, <1>3, Zenon DEF InitialMemory
<1>6. ASSUME NEW a \in 0 .. m - 1
      PROVE  withData[a] = IF a + 1 \in 1 .. d THEN data[a + 1] ELSE UNINIT
  BY <1>4 DEF Blit
<1>7. DOMAIN withData = 0 .. m - 1
  BY DEF Blit
<1> HIDE DEF withData
<1>8. ASSUME NEW a \in 0 .. m - 1
      PROVE  cleared[a] = IF a \in d .. m - 1 THEN 0 ELSE withData[a]
  BY <1>7 DEF Clear
<1>9. DOMAIN cleared = 0 .. m - 1
  BY <1>7 DEF Clear
<1> HIDE DEF cleared
<1>10. ASSUME NEW a \in 0 .. m - 1
       PROVE  whole[a] = IF a - r + 1 \in 1 .. z THEN rom[a - r + 1] ELSE cleared[a]
  BY <1>4, <1>9 DEF Blit
<1>11. whole = [a \in 0 .. m - 1 |-> whole[a]]
  BY <1>9 DEF Blit
<1> HIDE DEF whole
<1>12. ASSUME NEW k \in 1 .. d PROVE whole[k - 1] = data[k] /\ k - 1 \in 0 .. m - 1
  <2>1. PICK a : a = k - 1
    OBVIOUS
  <2>2. /\ a \in 0 .. m - 1 /\ a + 1 = k /\ a + 1 \in 1 .. d /\ a - r + 1 \notin 1 .. z
        /\ a \notin d .. m - 1
    BY <1>2, <2>1
  <2> QED
    BY <1>6, <1>8, <1>10, <2>1, <2>2
<1>13. ASSUME NEW k \in 1 .. z
       PROVE  whole[r + k - 1] = rom[k] /\ r + k - 1 \in 0 .. m - 1
  <2>1. PICK a : a = r + k - 1
    OBVIOUS
  <2>2. a \in 0 .. m - 1 /\ a - r + 1 = k /\ a - r + 1 \in 1 .. z
    BY <1>2, <2>1
  <2> QED
    BY <1>10, <2>1, <2>2
<1>14. ASSUME NEW a \in 0 .. m - 1, a >= d, a \notin Span(r, z) PROVE whole[a] = 0
  <2>1. a \in d .. m - 1 /\ a - r + 1 \notin 1 .. z
    BY <1>2, <1>14 DEF Span
  <2> QED
    BY <1>8, <1>10, <2>1
<1>15. ASSUME NEW a \in 0 .. m - 1 PROVE whole[a] \in Byte
  <2>0. 0 \in Byte
    BY ByteBaseAssumption DEF Byte
  <2>1. CASE a < d
    <3>1. PICK k : k \in 1 .. d /\ a = k - 1
      <4>1. a + 1 \in 1 .. d /\ a = (a + 1) - 1
        BY <1>2, <2>1
      <4> QED
        BY <4>1
    <3> QED
      BY <1>4, <1>12, <3>1
  <2>2. CASE a \in Span(r, z)
    <3>1. PICK k : k \in 1 .. z /\ a = r + k - 1
      <4>1. a - r + 1 \in 1 .. z /\ a = r + (a - r + 1) - 1
        BY <1>2, <2>2 DEF Span
      <4> QED
        BY <4>1
    <3> QED
      BY <1>4, <1>13, <3>1
  <2>3. CASE a >= d /\ a \notin Span(r, z)
    BY <1>14, <2>0, <2>3
  <2> QED
    BY <1>2, <2>1, <2>2, <2>3
<1>16. whole \in [0 .. m - 1 -> Byte]
  BY <1>11, <1>15
<1> QED
  BY <1>1, <1>4, <1>5, <1>12, <1>13, <1>14, <1>16

(* An image becomes or stays loaded in three ways only.                    *)
LEMMA LoadedCases ==
  ASSUME [Next]_vars, stage' = "loaded"
  PROVE  UNCHANGED vars \/ Publish \/ \E name \in LinkNames : cvm_link(name)
<1>1. CASE Step
  BY <1>1 DEF Step, ReadSection, EndOfSections, CheckRegion, EndOfRegions, Check,
     cvm_int_alloc, EndOfAlloc, Oom, Return, FillMemory, CopyFunc, CopyImports,
     PlaceRegion, Continue
<1>2. CASE Host
  BY <1>2 DEF Host, cvm_load_ex, cvm_image_free
<1> QED
  BY <1>1, <1>2 DEF Next, Done

LEMMA PublishCases ==
  ASSUME Typed, Publish
  PROVE  /\ stage = "place" /\ L.i > region_count /\ stage' = "loaded"
         /\ file' = file /\ L' = L
         /\ out'.code = file.code /\ out'.funcs = L.funcs /\ out'.entry = file.entry
         /\ out'.heap = L.mem /\ out'.heapSize = heap_total
         /\ out'.reserve = size("HEAP_RESERVE") /\ out'.stackSize = size("STACK_RESERVE")
         /\ out'.memSize = mem_total
         /\ out'.romOffset = IF size("ROM") # 0 THEN rom_offset ELSE 0
         /\ out'.romSize = size("ROM") /\ out'.regions = L.regions
         /\ out'.imports = [k \in 1 .. import_count |-> Bound(file.imports[k].name)]
BY DEF Publish

(* The code and its entries.                                               *)
LEMMA CodeLoaded ==
  ASSUME Typed, Loading, stage \in {"funcs", "place", "loaded"}
  PROVE  /\ file.code \in Seq(Instruction) /\ Len(file.code) \in 1 .. WordMod \div 4
         /\ L.funcs \in Seq(Nat)
         /\ \A k \in DOMAIN L.funcs : L.funcs[k] < Len(file.code)
         /\ file.entry \in Nat /\ file.entry < Len(file.code)
<1>1. "CODE" \in SecTypes \ HostOnly /\ "CODE" \in L.seen
  BY DEF Loading, SectionsChecked, SecTypes, HostOnly
<1>2. size("CODE") # 0
  BY <1>1, SectionOf DEF SectionSound, Loading
<1>3. size("CODE") = 4 * Len(file.code) /\ file.code \in Seq(Instruction)
  BY <1>1, <1>2, SectionFacts, FileFacts DEF Loading, IsFile
<1>4. size("CODE") \in Word /\ Len(file.code) \in Nat
  BY <1>1, <1>3, SizeFacts
<1>5. Len(file.code) \in 1 .. WordMod \div 4
  <2>1. PICK n, w : n = Len(file.code) /\ w = WordMod
    OBVIOUS
  <2>2. n \in Nat /\ n # 0 /\ w \in Nat /\ 4 * n <= w
    BY <1>2, <1>3, <1>4, <2>1, WordFacts DEF Word
  <2>3. n \in 1 .. w \div 4
    BY <2>2
  <2> QED
    BY <2>1, <2>3
<1>6. code_count = Len(file.code)
  BY <1>3, <1>4 DEF code_count
<1>7. file.entry \in Nat /\ file.entry < code_count
  BY FileFacts DEF Loading, SectionsChecked
<1>8. L.funcs \in Seq(Nat) /\ \A k \in DOMAIN L.funcs : L.funcs[k] < code_count
  BY DEF Loading, Copied
<1> QED
  BY <1>3, <1>5, <1>6, <1>7, <1>8

LEMMA PublishesCart ==
  ASSUME Typed, Loading, Publish PROVE IsCart(CartOf(out'))
<1> USE DEF Loading
<1>1. stage = "place" /\ stage \in Late
  BY PublishCases DEF Late
<1>2. PICK n : n = region_count
  OBVIOUS
<1>3. PICK c : c = CartOf(out')
  OBVIOUS
<1>4. /\ c.code = file.code /\ c.funcs = L.funcs /\ c.entry = file.entry
      /\ c.data = L.mem /\ c.heapSize = heap_total
      /\ c.reserve = size("HEAP_RESERVE") /\ c.stackSize = size("STACK_RESERVE")
      /\ c.memSize = mem_total
      /\ c.romOffset = IF size("ROM") # 0 THEN rom_offset ELSE 0
      /\ c.romSize = size("ROM")
      /\ c.imports = [k \in 1 .. import_count |-> Bound(file.imports[k].name)]
      /\ c.regions = {[name |-> L.regions[k].name, offset |-> L.regions[k].offset]
                        : k \in DOMAIN L.regions}
  BY <1>3, PublishCases DEF CartOf
<1>5. c.code \in Seq(Instruction) /\ Len(c.code) \in 1 .. WordMod \div 4
  BY <1>1, <1>4, CodeLoaded
<1>6. c.funcs \in Seq(Nat) /\ \A k \in DOMAIN c.funcs : c.funcs[k] < Len(c.code)
  BY <1>1, <1>4, CodeLoaded
<1>7. c.imports \in Seq(ImportKinds)
  <2>1. import_count \in Nat
    BY CountFacts
  <2>2. \A name : Bound(name) \in ImportKinds
    BY DEF Bound, Builtins, ImportKinds
  <2>3. c.imports \in [1 .. import_count -> ImportKinds]
    BY <1>4, <2>2
  <2> QED
    BY <2>1, <2>3, SeqDef
<1>8. c.entry \in Nat /\ c.entry < Len(c.code)
  BY <1>1, <1>4, CodeLoaded
<1>9. {c.heapSize, c.reserve, c.romOffset, c.romSize, c.stackSize, c.memSize} \subseteq Word
  <2>1. size("HEAP_RESERVE") \in Word /\ size("ROM") \in Word /\ size("STACK_RESERVE") \in Word
    BY SizeFacts DEF SecTypes, NoPayload
  <2>2. heap_total \in Word /\ mem_total \in Word /\ rom_offset \in Word /\ 0 \in Word
    BY <1>1, PartsInMemory, WordFacts DEF Word
  <2> QED
    BY <1>4, <2>1, <2>2
<1>10. c.reserve <= c.heapSize /\ c.memSize = c.heapSize + c.stackSize
  BY <1>1, <1>4, PartsInMemory
<1>11. c.stackSize = 0 \/ c.stackSize >= 4
  <2>1. size("STACK_RESERVE") \in Nat /\ size("STACK_RESERVE") \notin 1 .. 3
    BY <1>1, SizeFacts DEF TotalsChecked, SecTypes, NoPayload
  <2> QED
    BY <1>4, <2>1
<1>12. c.data \in [0 .. c.memSize - 1 -> Byte]
  BY <1>1, <1>4, MemoryFilled DEF Copied
<1>13. /\ L.regions \in [1 .. n -> [name : Seq(Byte \ {0}), size : Nat, offset : Nat]]
       /\ \A k \in 1 .. n :
            /\ Len(L.regions[k].name) \in 1 .. 15
            /\ L.regions[k].offset + L.regions[k].size <= RegionsEnd
       /\ \A j, k \in 1 .. n : L.regions[j].name = L.regions[k].name => j = k
  BY <1>1, <1>2, PublishCases, RegionsPlaced
<1>14. ASSUME NEW r \in c.regions
       PROVE  \E k \in 1 .. n : r = [name |-> L.regions[k].name,
                                     offset |-> L.regions[k].offset]
  BY <1>4, <1>13
<1>15. ASSUME NEW k \in 1 .. n
       PROVE  L.regions[k].name \in Seq(Byte \ {0}) /\ L.regions[k].offset \in Word
  <2>1. L.regions[k] \in [name : Seq(Byte \ {0}), size : Nat, offset : Nat]
    BY <1>13
  <2>2. PICK o, s, e : /\ o = L.regions[k].offset /\ s = L.regions[k].size
                       /\ e = RegionsEnd
    OBVIOUS
  <2>3. o \in Nat /\ s \in Nat /\ o + s <= e /\ e \in Word /\ e \in Nat
    BY <1>1, <1>13, <2>1, <2>2, PartsInMemory
  <2>4. o \in Word
    BY <2>3, WordFacts DEF Word
  <2> QED
    BY <2>1, <2>2, <2>4
<1>16. c.regions \subseteq [name : Seq(Byte \ {0}), offset : Word]
  BY <1>14, <1>15
<1>17. \A r \in c.regions : Len(r.name) \in 1 .. 15
  BY <1>13, <1>14
<1>18. \A r, q \in c.regions : r.name = q.name => r = q
  <2> SUFFICES ASSUME NEW r \in c.regions, NEW q \in c.regions, r.name = q.name
               PROVE  r = q
    OBVIOUS
  <2>1. PICK j \in 1 .. n : r = [name |-> L.regions[j].name, offset |-> L.regions[j].offset]
    BY <1>14
  <2>2. PICK k \in 1 .. n : q = [name |-> L.regions[k].name, offset |-> L.regions[k].offset]
    BY <1>14
  <2>3. j = k
    BY <1>13, <2>1, <2>2
  <2> QED
    BY <2>1, <2>2, <2>3
<1> HIDE DEF Loading
<1>19. IsCart(c)
  BY <1>5, <1>6, <1>7, <1>8, <1>9, <1>10, <1>11, <1>12, <1>16, <1>17, <1>18 DEF IsCart
<1> QED
  BY <1>3, <1>19

(* The host can only replace a handler of a loaded image, never its memory.*)
LEMMA LinksCart ==
  ASSUME Typed, NEW name, cvm_link(name), IsCart(CartOf(out))
  PROVE  IsCart(CartOf(out'))
<1> DEFINE c == CartOf(out)
           d == CartOf(out')
<1>1. /\ c.imports = out.imports /\ d.imports = out'.imports
      /\ d.code = c.code /\ d.funcs = c.funcs /\ d.entry = c.entry
      /\ d.heapSize = c.heapSize /\ d.reserve = c.reserve
      /\ d.romOffset = c.romOffset /\ d.romSize = c.romSize
      /\ d.stackSize = c.stackSize /\ d.memSize = c.memSize
      /\ d.regions = c.regions /\ d.data = c.data
  BY DEF cvm_link, CartOf, Typed, OutShape
<1>2. out'.imports \in Seq(ImportKinds)
  <2>1. out.imports \in Seq(ImportKinds)
    BY <1>1 DEF IsCart
  <2>2. "host" \in ImportKinds
    BY DEF ImportKinds
  <2>3. CASE out' = out
    BY <2>1, <2>3
  <2>4. ASSUME NEW k, out' = [out EXCEPT !.imports[k] = "host"]
        PROVE  out'.imports \in Seq(ImportKinds)
    <3>1. out'.imports = [out.imports EXCEPT ![k] = "host"]
      BY <2>4 DEF Typed, OutShape
    <3>2. CASE k \in 1 .. Len(out.imports)
      BY <2>1, <2>2, <3>1, <3>2, ExceptSeq
    <3>3. CASE k \notin 1 .. Len(out.imports)
      <4>1. out'.imports = out.imports
        BY <2>1, <3>1, <3>3
      <4> QED
        BY <2>1, <4>1
    <3> QED
      BY <3>2, <3>3
  <2> QED
    BY <2>3, <2>4 DEF cvm_link
<1> HIDE DEF c, d
<1>3. IsCart(c)
  BY DEF c
<1>4. IsCart(d)
  BY <1>1, <1>2, <1>3 DEF IsCart
<1> QED
  BY <1>4 DEF d

(* Every image cvm_load_ex hands out, and every image a host has linked    *)
(* its handlers into, meets the contract the interpreter assumes of it.    *)
THEOREM LoadedCarts == Spec => []LoadedIsCart
<1>1. Init => LoadedIsCart
  BY DEF Init, LoadedIsCart
<1>2. Typed /\ Loading /\ LoadedIsCart /\ [Next]_vars => LoadedIsCart'
  <2> SUFFICES ASSUME Typed, Loading, LoadedIsCart, [Next]_vars, stage' = "loaded"
               PROVE  IsCart(CartOf(out'))
    BY DEF LoadedIsCart
  <2>1. CASE UNCHANGED vars
    <3>1. out' = out /\ stage = "loaded"
      BY <2>1 DEF vars
    <3> QED
      BY <3>1 DEF LoadedIsCart
  <2>2. CASE Publish
    BY <2>2, PublishesCart
  <2>3. ASSUME NEW name \in LinkNames, cvm_link(name) PROVE IsCart(CartOf(out'))
    BY <2>3, LinksCart DEF cvm_link, LoadedIsCart
  <2> QED
    BY <2>1, <2>2, <2>3, LoadedCases
<1> QED
  BY <1>1, <1>2, LoadingHolds, PTL DEF Spec

LEMMA PublishesLayout == ASSUME Typed, Loading, Publish PROVE LayoutSound'
<1> USE DEF Loading
<1>1. stage = "place" /\ stage \in Late /\ L.mem = InitialMemory
  BY PublishCases DEF Late, Copied
<1>2. PICK o, n : o = out' /\ n = region_count
  OBVIOUS
<1>3. /\ o.heap = L.mem /\ o.heapSize = heap_total /\ o.memSize = mem_total
      /\ o.reserve = size("HEAP_RESERVE") /\ o.romSize = size("ROM")
      /\ o.romOffset = IF size("ROM") # 0 THEN rom_offset ELSE 0
      /\ o.regions = L.regions
  BY <1>2, PublishCases
<1>4. file' = file /\ size("DATA")' = size("DATA") /\ size("BSS")' = size("BSS")
  BY PublishCases, KeptFacts DEF KeepsTable
<1> DEFINE freeStart == o.heapSize - o.reserve
           romStart == IF o.romSize = 0 THEN freeStart ELSE o.romOffset
<1>5. freeStart = RegionsEnd + size("ROM")
  BY <1>1, <1>3, PartsInMemory
<1>6. romStart = RegionsEnd
  <2>1. CASE size("ROM") = 0
    BY <1>1, <1>3, <1>5, <2>1, PartsInMemory
  <2>2. CASE size("ROM") # 0
    BY <1>1, <1>3, <2>2, PartsInMemory
  <2> QED
    BY <2>1, <2>2
<1> HIDE DEF freeStart, romStart
<1>7. Len(o.regions) = n
  <2>1. PICK S : S = [name : Seq(Byte \ {0}), size : Nat, offset : Nat]
    OBVIOUS
  <2>2. L.regions \in [1 .. n -> S] /\ n \in Nat
    BY <1>1, <1>2, <2>1, PublishCases, RegionsPlaced, CountFacts
  <2>3. L.regions \in Seq(S)
    BY <2>2, SeqDef
  <2>4. DOMAIN L.regions = 1 .. n /\ DOMAIN L.regions = 1 .. Len(L.regions)
        /\ Len(L.regions) \in Nat
    BY <2>2, <2>3, LenProperties
  <2> QED
    BY <1>3, <2>2, <2>4
<1>8. /\ \A k \in 1 .. n : /\ RegionsStart <= o.regions[k].offset
                           /\ o.regions[k].offset + o.regions[k].size <= romStart
      /\ \A j, k \in 1 .. n : j < k =>
           o.regions[j].offset + o.regions[j].size <= o.regions[k].offset
  BY <1>1, <1>2, <1>3, <1>6, PublishCases, RegionsPlaced
<1>9. RegionsStart <= romStart /\ romStart + o.romSize <= freeStart
  BY <1>1, <1>3, <1>5, <1>6, PartsInMemory
<1>10. \A k \in 1 .. Len(file.data) : size("DATA") > 0 => o.heap[k - 1] = file.data[k]
  <2> SUFFICES ASSUME NEW k \in 1 .. Len(file.data), size("DATA") > 0
               PROVE  o.heap[k - 1] = file.data[k]
    OBVIOUS
  <2>1. size("DATA") = Len(file.data)
    BY <1>1, PayloadBytes, PartsInMemory
  <2> QED
    BY <1>1, <1>3, <2>1, MemoryFilled
<1>11. \A k \in 1 .. o.romSize : o.heap[romStart + k - 1] = file.rom[k]
  BY <1>1, <1>3, <1>6, MemoryFilled
<1>12. \A a \in 0 .. o.memSize - 1 :
         a >= size("DATA") /\ a \notin Span(romStart, o.romSize) => o.heap[a] = 0
  BY <1>1, <1>3, <1>6, MemoryFilled
<1> HIDE DEF Loading
<1>13. RegionsStart = size("DATA") + size("BSS")
  BY DEF RegionsStart
<1> QED
  BY <1>2, <1>4, <1>7, <1>8, <1>9, <1>10, <1>11, <1>12, <1>13
     DEF LayoutSound, freeStart, romStart, Span

LEMMA LinksLayout ==
  ASSUME Typed, LayoutSound, stage = "loaded", stage' = stage, file' = file, L' = L,
         \/ out' = out
         \/ \E k : out' = [out EXCEPT !.imports[k] = "host"]
  PROVE  LayoutSound'
<1>1. /\ out'.regions = out.regions /\ out'.heapSize = out.heapSize
      /\ out'.reserve = out.reserve /\ out'.romSize = out.romSize
      /\ out'.romOffset = out.romOffset /\ out'.heap = out.heap
      /\ out'.memSize = out.memSize
  BY DEF Typed, OutShape
<1>2. size("DATA")' = size("DATA") /\ size("BSS")' = size("BSS")
  BY DEF size
<1> QED
  BY <1>1, <1>2 DEF LayoutSound, Span

(* The parts of the memory of a loaded image lie one behind the other      *)
(* without overlap, every byte is that of the file or zero, and none of    *)
(* the 32-bit sums that placed them wrapped.                               *)
THEOREM LoadedLayout == Spec => []LayoutSound
<1>1. Init => LayoutSound
  BY DEF Init, LayoutSound
<1>2. Typed /\ Loading /\ LayoutSound /\ [Next]_vars => LayoutSound'
  <2> SUFFICES ASSUME Typed, Loading, LayoutSound, [Next]_vars, stage' = "loaded"
               PROVE  LayoutSound'
    BY DEF LayoutSound
  <2>1. CASE UNCHANGED vars
    BY <2>1, LinksLayout DEF vars
  <2>2. CASE Publish
    BY <2>2, PublishesLayout
  <2>3. CASE \E name \in LinkNames : cvm_link(name)
    BY <2>3, LinksLayout DEF cvm_link
  <2> QED
    BY <2>1, <2>2, <2>3, LoadedCases
<1> QED
  BY <1>1, <1>2, LoadingHolds, PTL DEF Spec

=============================================================================
