----------------------------- MODULE CvmLoader -----------------------------
(***************************************************************************)
(* The loader: cvm_load_ex, cvm_link and cvm_image_free in src/src/cvm.c.  *)
(*                                                                         *)
(* cvm_load_ex is modelled in the order it works: the header, one step per *)
(* entry of the section table, one per host region, the checks on sizes    *)
(* and imports, one step per block it allocates (each of which may fail),  *)
(* the copies, one step per FUNCS entry and per region placed, and the     *)
(* publication of the image.  Bytes of the file are abstracted to what     *)
(* they decode to; offsets and sizes are kept.                             *)
(***************************************************************************)
EXTENDS CvmImage

CONSTANTS
  Files,        \* the binaries the host may load
  Allocators,   \* the allocators it may pass ("stdlib" stands for NULL)
  LinkNames,    \* the names it calls cvm_link with
  MaxLoads      \* how often it calls cvm_load_ex (a bound of the model)

HEADER_SIZE == 24
SECTION_SIZE == 16
REGION_ENTRY_SIZE == 28
MAX_U32 == WordMod - 1
MAX_U16 == HalfMod - 1

NoPayload == {"BSS", "HEAP_RESERVE", "STACK_RESERVE"}
HostOnly  == {"DEBUG", "META", "SEAL"}
SecTypes  == NoPayload \cup HostOnly \cup
             {"CODE", "DATA", "IMPORTS", "FUNCS", "HOST_REGION", "ROM"}

Builtins == {"heap_start", "heap_size", "get_region", "rom_base", "rom_size"}

LoadErrors == {"TRUNCATED", "BAD_MAGIC", "BAD_VERSION", "BAD_SECTION",
               "DUP_SECTION", "NO_CODE", "BAD_ENTRY", "BAD_REGION",
               "BAD_IMPORTS", "BAD_FUNCS", "NOMEM", "NO_SUCH_IMPORT"}

(***************************************************************************)
(* A binary.  sections is the section table the header announces; the      *)
(* other fields are what the payloads decode to.  A type that is no        *)
(* section type is "BAD"; a name that is not NUL-terminated in its field   *)
(* has terminated = FALSE.                                                 *)
(***************************************************************************)
Section == [type : SecTypes \cup {"BAD"}, off : Word, size : Word, flags : Word]
RegionEntry == [name : Seq(Byte \ {0}), terminated : BOOLEAN, size : Word,
                dir : Word, flags : Word]
ImportEntry == [off : Word, name : STRING, terminated : BOOLEAN]

Holds(f, s) ==
  CASE s.type = "CODE"  -> s.size % 4 = 0 => s.size = 4 * Len(f.code)
    [] s.type = "FUNCS" -> s.size % 4 = 0 => s.size = 4 * Len(f.funcs)
    [] s.type = "DATA"  -> s.size = Len(f.data)
    [] s.type = "ROM"   -> s.size = Len(f.rom)
    [] OTHER -> TRUE

IsFile(f) ==
  /\ f.len \in Nat /\ f.magic \in BOOLEAN /\ f.version \in BOOLEAN
  /\ {f.flags, f.table_off, f.entry} \subseteq Word
  /\ f.sections \in Seq(Section)
  /\ \A k \in DOMAIN f.sections : Holds(f, f.sections[k])
  /\ f.code \in Seq(Instruction)
  /\ f.data \in Seq(Byte) /\ f.rom \in Seq(Byte)
  /\ f.funcs \in Seq(Word)
  /\ f.regions \in Seq(RegionEntry)
  /\ \A k \in DOMAIN f.regions : f.regions[k].terminated => Len(f.regions[k].name) <= 15
  /\ f.imports \in Seq(ImportEntry)

(* The file before the first load.                                         *)
NoFile ==
  [len |-> 0, magic |-> FALSE, version |-> FALSE, flags |-> 0, table_off |-> 0,
   entry |-> 0, sections |-> <<>>, code |-> <<>>, data |-> <<>>, rom |-> <<>>,
   funcs |-> <<>>, regions |-> <<>>, imports |-> <<>>]

ASSUME FilesAssumption == \A f \in Files : IsFile(f)
ASSUME HostAssumption ==
  /\ "stdlib" \in Allocators /\ LinkNames \subseteq STRING
  /\ MaxLoads \in Nat

-----------------------------------------------------------------------------
VARIABLES
  file,         \* bytes, len: the binary of the last load
  allocator,    \* the allocator passed with it
  stage,        \* where the load is: "none", ..., "loaded"
  L,            \* the locals of cvm_load_ex
  out,          \* *out: the caller's struct cvm_image
  live,         \* the blocks allocated and not freed, with their allocator
  misfreed,     \* history: blocks freed twice or through another allocator
  err,          \* the result of the last API call
  loads,        \* history: how many loads the host has started
  reads         \* history: the bytes of the file the last step read

vars == <<file, allocator, stage, L, out, live, misfreed, err, loads, reads>>

NoImage ==
  [blocks |-> {}, allocator |-> "stdlib", code |-> <<>>, funcs |-> <<>>,
   entry |-> 0, heap |-> <<>>, heapSize |-> 0, reserve |-> 0, stackSize |-> 0,
   memSize |-> 0, romOffset |-> 0, romSize |-> 0, regions |-> <<>>,
   names |-> <<>>, imports |-> <<>>]

NoLocals ==
  [i |-> 1, seen |-> {}, sec |-> [t \in SecTypes |-> [off |-> 0, size |-> 0]],
   region_total |-> 0, cursor |-> 0, ptr |-> {}, mem |-> <<>>,
   funcs |-> <<>>, regions |-> <<>>]

Init ==
  /\ file = NoFile /\ allocator = "stdlib"
  /\ stage = "none" /\ L = NoLocals /\ out = NoImage
  /\ live = {} /\ misfreed = {} /\ err = "OK"
  /\ loads = 0 /\ reads = {}

size(t) == L.sec[t].size
off(t)  == L.sec[t].off

(* A list of checks <<condition, error>> in the order the code makes them: *)
(* the first condition that holds decides.                                 *)
Fails(checks, e) ==
  \E k \in DOMAIN checks : /\ checks[k][1] /\ checks[k][2] = e
                           /\ \A j \in 1 .. k - 1 : ~checks[j][1]
Passes(checks) == \A k \in DOMAIN checks : ~checks[k][1]

Continue(next, locals, read) ==
  /\ stage' = next /\ L' = locals /\ reads' = read
  /\ UNCHANGED <<file, allocator, out, live, misfreed, err, loads>>

Return(e, read) ==
  /\ stage' = "none" /\ L' = NoLocals /\ reads' = read /\ err' = e
  /\ UNCHANGED <<file, allocator, out, loads>>

Check(checks, next, locals, read) ==
  \/ Passes(checks) /\ Continue(next, locals, read)
  \/ \E e \in LoadErrors :
       Fails(checks, e) /\ Return(e, read) /\ UNCHANGED <<live, misfreed>>

-----------------------------------------------------------------------------
(* Validation.                                                             *)
TableFits(f) == f.table_off + Len(f.sections) * SECTION_SIZE <= f.len

HeaderChecks(f) ==
  << <<f.len < HEADER_SIZE, "TRUNCATED">>,
     <<~f.magic, "BAD_MAGIC">>,
     <<~f.version, "BAD_VERSION">>,
     <<f.flags # 0, "BAD_SECTION">>,
     <<~TableFits(f), "TRUNCATED">> >>

cvm_load_ex(f, a) ==
  /\ stage = "none" /\ loads < MaxLoads /\ loads' = loads + 1
  /\ file' = f /\ allocator' = a
  /\ out' = NoImage /\ L' = NoLocals
  /\ reads' = IF f.len < HEADER_SIZE THEN {} ELSE Span(0, HEADER_SIZE)
  /\ \/ Passes(HeaderChecks(f)) /\ stage' = "sections" /\ err' = "OK"
     \/ \E e \in LoadErrors :
          Fails(HeaderChecks(f), e) /\ stage' = "none" /\ err' = e
  /\ UNCHANGED <<live, misfreed>>

(* Faulty: the end of a section as a uint32_t sum.                         *)
SectionChecksWrapped(s) ==
  << <<s.flags # 0, "BAD_SECTION">>,
     <<s.type = "BAD", "BAD_SECTION">>,
     <<s.type # "DEBUG" /\ s.type \in L.seen, "DUP_SECTION">>,
     <<s.type \notin NoPayload /\ ToWord(s.off + s.size) > file.len, "TRUNCATED">>,
     <<s.type \in NoPayload /\ s.off # 0, "BAD_SECTION">>,
     <<s.type = "CODE" /\ (s.size = 0 \/ s.size % 4 # 0), "BAD_SECTION">>,
     <<s.type = "FUNCS" /\ (s.size = 0 \/ s.size % 4 # 0), "BAD_FUNCS">> >>

(* Faulty: a second section of the same type replaces the first.           *)
SectionChecksNoDup(s) ==
  << <<s.flags # 0, "BAD_SECTION">>,
     <<s.type = "BAD", "BAD_SECTION">>,
     <<s.type \notin NoPayload /\ s.off + s.size > file.len, "TRUNCATED">>,
     <<s.type \in NoPayload /\ s.off # 0, "BAD_SECTION">>,
     <<s.type = "CODE" /\ (s.size = 0 \/ s.size % 4 # 0), "BAD_SECTION">>,
     <<s.type = "FUNCS" /\ (s.size = 0 \/ s.size % 4 # 0), "BAD_FUNCS">> >>

SectionChecks(s) ==
  << <<s.flags # 0, "BAD_SECTION">>,
     <<s.type = "BAD", "BAD_SECTION">>,
     <<s.type # "DEBUG" /\ s.type \in L.seen, "DUP_SECTION">>,
     <<s.type \notin NoPayload /\ s.off + s.size > file.len, "TRUNCATED">>,
     <<s.type \in NoPayload /\ s.off # 0, "BAD_SECTION">>,
     <<s.type = "CODE" /\ (s.size = 0 \/ s.size % 4 # 0), "BAD_SECTION">>,
     <<s.type = "FUNCS" /\ (s.size = 0 \/ s.size % 4 # 0), "BAD_FUNCS">> >>

ReadSection ==
  /\ stage = "sections" /\ L.i <= Len(file.sections)
  /\ LET s == file.sections[L.i] IN
       Check(SectionChecks(s), "sections",
             [L EXCEPT !.i = @ + 1, !.seen = @ \cup ({s.type} \ {"DEBUG"}),
                       !.sec = IF s.type \in HostOnly THEN @
                               ELSE [@ EXCEPT ![s.type] = [off |-> s.off, size |-> s.size]]],
             Span(file.table_off + (L.i - 1) * SECTION_SIZE, SECTION_SIZE))

code_count == size("CODE") \div 4
func_count == size("FUNCS") \div 4
region_count == IF size("HOST_REGION") = 0 THEN 0 ELSE Len(file.regions)
import_count == IF size("IMPORTS") = 0 THEN 0 ELSE Len(file.imports)

RegionsFit == 4 + region_count * REGION_ENTRY_SIZE <= size("HOST_REGION")
ImportsFit == 4 + import_count * 4 <= size("IMPORTS")

EndOfSections ==
  /\ stage = "sections" /\ L.i > Len(file.sections)
  /\ Check(<< <<"CODE" \notin L.seen, "NO_CODE">>,
              <<file.entry >= code_count, "BAD_ENTRY">>,
              <<size("HOST_REGION") \in 1 .. 3, "BAD_REGION">>,
              <<region_count > MAX_U16, "BAD_REGION">>,
              <<size("HOST_REGION") > 0 /\ ~RegionsFit, "BAD_REGION">> >>,
           "regions", [L EXCEPT !.i = 1],
           IF size("HOST_REGION") < 4 THEN {} ELSE Span(off("HOST_REGION"), 4))

(* (n + 3) & ~3, in as many bits as n + 3 needs.                           *)
Aligned(n) == 4 * ((n + 3) \div 4)

EntryAt(k) == Span(off("HOST_REGION") + 4 + (k - 1) * REGION_ENTRY_SIZE,
                   REGION_ENTRY_SIZE)

(* Faulty: the sum of the region sizes is not limited.                     *)
CheckRegionUnlimited ==
  /\ stage = "regions" /\ L.i <= region_count
  /\ LET e == file.regions[L.i] IN
       Check(<< <<~e.terminated \/ e.name = <<>>, "BAD_REGION">>,
                <<e.flags # 0, "BAD_REGION">>,
                <<e.dir \notin 1 .. 3, "BAD_REGION">> >>,
             "regions",
             [L EXCEPT !.i = @ + 1, !.region_total = @ + Aligned(e.size)],
             EntryAt(L.i))

CheckRegion ==
  /\ stage = "regions" /\ L.i <= region_count
  /\ LET e == file.regions[L.i]
         total == L.region_total + Aligned(e.size) IN
       Check(<< <<~e.terminated \/ e.name = <<>>, "BAD_REGION">>,
                <<e.flags # 0, "BAD_REGION">>,
                <<e.dir \notin 1 .. 3, "BAD_REGION">>,
                <<\E j \in 1 .. L.i - 1 : file.regions[j].name = e.name, "BAD_REGION">>,
                <<total > MAX_U32, "BAD_REGION">> >>,
             "regions", [L EXCEPT !.i = @ + 1, !.region_total = total],
             UNION {EntryAt(j) : j \in 1 .. L.i})

(* The layout of the memory: DATA | BSS | REGIONS | ROM | RESERVE | STACK. *)
(* rom_offset is a uint32_t sum, the totals are uint64_t.                  *)
rom_offset == ToWord(size("DATA") + size("BSS") + L.region_total)
heap_total == size("DATA") + size("BSS") + L.region_total + size("ROM")
              + size("HEAP_RESERVE")
mem_total == heap_total + size("STACK_RESERVE")

ImportReads ==
  IF size("IMPORTS") < 4 THEN {}
  ELSE Span(off("IMPORTS"), 4) \cup
       IF ~ImportsFit THEN {}
       ELSE Span(off("IMPORTS") + 4, 4 * import_count) \cup
            UNION {Span(off("IMPORTS") + file.imports[k].off,
                        size("IMPORTS") - file.imports[k].off)
                     : k \in 1 .. import_count}

EndOfRegions ==
  /\ stage = "regions" /\ L.i > region_count
  /\ Check(<< <<heap_total > MAX_U32, "BAD_SECTION">>,
              <<size("STACK_RESERVE") \in 1 .. 3, "BAD_SECTION">>,
              <<mem_total > MAX_U32, "BAD_SECTION">>,
              <<size("IMPORTS") \in 1 .. 3, "BAD_IMPORTS">>,
              <<import_count > MAX_U16, "BAD_IMPORTS">>,
              <<size("IMPORTS") > 0 /\ ~ImportsFit, "BAD_IMPORTS">>,
              <<\E k \in 1 .. import_count :
                  \/ file.imports[k].off >= size("IMPORTS")
                  \/ ~file.imports[k].terminated, "BAD_IMPORTS">> >>,
           "alloc", [L EXCEPT !.i = 1], ImportReads)

-----------------------------------------------------------------------------
(* Allocation.  A block that is not needed keeps its NULL pointer.  The    *)
(* last three are tested together once all were asked for.                 *)
Blocks == <<"code", "heap", "funcs", "regions", "blob", "names", "fns", "ud">>
ImportArrays == {"names", "fns", "ud"}
AllBlocks == {"code", "heap", "funcs", "regions", "blob"} \cup ImportArrays

Needed(b) == CASE b = "code"    -> TRUE
               [] b = "heap"    -> mem_total > 0
               [] b = "funcs"   -> size("FUNCS") > 0
               [] b = "regions" -> region_count > 0
               [] b = "blob"    -> size("IMPORTS") > 0
               [] OTHER         -> import_count > 0

(* cvm_int_free on each of the blocks through the allocator a.             *)
Free(blocks, a) ==
  /\ live' = live \ (blocks \X {a})
  /\ misfreed' = misfreed \cup {b \in blocks : <<b, a>> \notin live}

(* Faulty: the list of an error path forgets the block added last.         *)
OomFreesPartly == AllBlocks \ {"regions"}

OomFrees == AllBlocks
FuncsFrees == AllBlocks
ImageFrees == AllBlocks

Oom == Free(OomFrees \cap L.ptr, allocator) /\ Return("NOMEM", {})

cvm_int_alloc ==
  /\ stage = "alloc" /\ L.i <= Len(Blocks)
  /\ LET b == Blocks[L.i] IN
       \/ ~Needed(b) /\ Continue("alloc", [L EXCEPT !.i = @ + 1], {})
       \/ /\ Needed(b)
          /\ live' = live \cup {<<b, allocator>>}
          /\ L' = [L EXCEPT !.i = @ + 1, !.ptr = @ \cup {b}]
          /\ reads' = {}
          /\ UNCHANGED <<file, allocator, stage, out, misfreed, err, loads>>
       \/ /\ Needed(b) /\ b \in ImportArrays
          /\ Continue("alloc", [L EXCEPT !.i = @ + 1], {})
       \/ Needed(b) /\ b \notin ImportArrays /\ Oom

ImportArraysMissing == import_count > 0 /\ ~(ImportArrays \subseteq L.ptr)

EndOfAlloc ==
  /\ stage = "alloc" /\ L.i > Len(Blocks)
  /\ \/ ImportArraysMissing /\ Oom
     \/ ~ImportArraysMissing /\ Continue("fill", L, {})

-----------------------------------------------------------------------------
(* Filling the blocks.  A fresh block holds no value the program may use.  *)
UNINIT == -1

Blit(m, at, bytes) ==
  [k \in DOMAIN m |-> IF k - at + 1 \in DOMAIN bytes THEN bytes[k - at + 1] ELSE m[k]]
Clear(m, from, to) == [k \in DOMAIN m |-> IF k \in from .. to - 1 THEN 0 ELSE m[k]]

DataBytes == IF size("DATA") = 0 THEN <<>> ELSE file.data
RomBytes == IF size("ROM") = 0 THEN <<>> ELSE file.rom

(* Faulty: the zero-fill comes after the ROM.                              *)
InitialMemoryWiped ==
  LET raw == [k \in 0 .. mem_total - 1 |-> UNINIT]
  IN  Clear(Blit(Blit(raw, 0, DataBytes), rom_offset, RomBytes),
            size("DATA"), mem_total)

InitialMemory ==
  LET raw == [k \in 0 .. mem_total - 1 |-> UNINIT]
  IN  Blit(Clear(Blit(raw, 0, DataBytes), size("DATA"), mem_total),
           rom_offset, RomBytes)

FillMemory ==
  /\ stage = "fill"
  /\ Continue("funcs", [L EXCEPT !.i = 1, !.mem = InitialMemory],
              Span(off("CODE"), size("CODE")) \cup Span(off("DATA"), size("DATA"))
                \cup Span(off("ROM"), size("ROM")))

(* Faulty: the bound of a function offset is off by one.                   *)
CopyFuncOffByOne ==
  /\ stage = "funcs" /\ L.i <= func_count
  /\ LET target == file.funcs[L.i]
         read == Span(off("FUNCS") + (L.i - 1) * 4, 4) IN
       \/ /\ target > code_count
          /\ Free(FuncsFrees \cap L.ptr, allocator) /\ Return("BAD_FUNCS", read)
       \/ /\ target <= code_count
          /\ Continue("funcs", [L EXCEPT !.i = @ + 1, !.funcs = Append(@, target)], read)

CopyFunc ==
  /\ stage = "funcs" /\ L.i <= func_count
  /\ LET target == file.funcs[L.i]
         read == Span(off("FUNCS") + (L.i - 1) * 4, 4) IN
       \/ /\ target >= code_count
          /\ Free(FuncsFrees \cap L.ptr, allocator) /\ Return("BAD_FUNCS", read)
       \/ /\ target < code_count
          /\ Continue("funcs", [L EXCEPT !.i = @ + 1, !.funcs = Append(@, target)], read)

CopyImports ==
  /\ stage = "funcs" /\ L.i > func_count
  /\ Continue("place", [L EXCEPT !.i = 1, !.cursor = ToWord(size("DATA") + size("BSS"))],
              Span(off("IMPORTS"), size("IMPORTS")))

(* Faulty: the next region starts where the bytes of the last one end.     *)
PlaceRegionPacked ==
  /\ stage = "place" /\ L.i <= region_count
  /\ LET e == file.regions[L.i] IN
       Continue("place",
                [L EXCEPT !.i = @ + 1,
                          !.regions = Append(@, [name |-> e.name, size |-> e.size,
                                                 offset |-> L.cursor]),
                          !.cursor = ToWord(@ + e.size)],
                EntryAt(L.i))

PlaceRegion ==
  /\ stage = "place" /\ L.i <= region_count
  /\ LET e == file.regions[L.i] IN
       Continue("place",
                [L EXCEPT !.i = @ + 1,
                          !.regions = Append(@, [name |-> e.name, size |-> e.size,
                                                 offset |-> L.cursor]),
                          !.cursor = ToWord(@ + Aligned(e.size))],
                EntryAt(L.i))

(* auto_bind_builtins: every import that has the name of a built-in.       *)
Bound(name) == IF name \in Builtins THEN name ELSE "unlinked"

Publish ==
  /\ stage = "place" /\ L.i > region_count
  /\ stage' = "loaded" /\ err' = "OK" /\ reads' = {}
  /\ out' = [blocks |-> L.ptr, allocator |-> allocator, code |-> file.code,
             funcs |-> L.funcs, entry |-> file.entry, heap |-> L.mem,
             heapSize |-> heap_total, reserve |-> size("HEAP_RESERVE"),
             stackSize |-> size("STACK_RESERVE"), memSize |-> mem_total,
             romOffset |-> IF size("ROM") # 0 THEN rom_offset ELSE 0,
             romSize |-> size("ROM"), regions |-> L.regions,
             names |-> [k \in 1 .. import_count |-> file.imports[k].name],
             imports |-> [k \in 1 .. import_count |-> Bound(file.imports[k].name)]]
  /\ UNCHANGED <<file, allocator, L, live, misfreed, loads>>

-----------------------------------------------------------------------------
(* The other operations of the host on a loaded image.                     *)
cvm_link(name) ==
  /\ stage = "loaded"
  /\ \/ /\ \A k \in DOMAIN out.names : out.names[k] # name
        /\ err' = "NO_SUCH_IMPORT" /\ UNCHANGED out
     \/ \E k \in DOMAIN out.names :
          /\ out.names[k] = name /\ \A j \in 1 .. k - 1 : out.names[j] # name
          /\ out' = [out EXCEPT !.imports[k] = "host"] /\ err' = "OK"
  /\ reads' = {}
  /\ UNCHANGED <<file, allocator, stage, L, live, misfreed, loads>>

cvm_image_free ==
  /\ stage = "loaded"
  /\ Free(ImageFrees \cap out.blocks, out.allocator)
  /\ out' = NoImage /\ stage' = "none" /\ L' = NoLocals /\ reads' = {}
  /\ UNCHANGED <<file, allocator, err, loads>>

(* cvm_peek_section: <<result, offset, size>> of the first section of the  *)
(* type, without loading the file.                                         *)
cvm_peek_section(f, t) ==
  LET match == {k \in DOMAIN f.sections : f.sections[k].type = t}
      first == CHOOSE k \in match : \A j \in match : k <= j
      s == f.sections[first]
  IN  CASE f.len < HEADER_SIZE \/ ~f.magic \/ ~TableFits(f) -> <<-1, 0, 0>>
        [] OTHER -> CASE match = {} -> <<0, 0, 0>>
                      [] match # {} /\ s.off + s.size > f.len -> <<-1, 0, 0>>
                      [] OTHER -> <<1, s.off, s.size>>

-----------------------------------------------------------------------------
Step == ReadSection \/ EndOfSections \/ CheckRegion \/ EndOfRegions
        \/ cvm_int_alloc \/ EndOfAlloc \/ FillMemory \/ CopyFunc
        \/ CopyImports \/ PlaceRegion \/ Publish

Host == \/ \E f \in Files, a \in Allocators : cvm_load_ex(f, a)
        \/ \E name \in LinkNames : cvm_link(name)
        \/ cvm_image_free

Done == stage = "none" /\ loads = MaxLoads /\ UNCHANGED vars

Next == Step \/ Host \/ Done

Spec == Init /\ [][Next]_vars

-----------------------------------------------------------------------------
Stages == {"none", "sections", "regions", "alloc", "fill", "funcs", "place", "loaded"}

(* The type invariant of a load: sizes, offsets and the cursor are 32-bit  *)
(* words, and so is the region total, which the code keeps in 64 bits.     *)
TypeOK ==
  /\ file \in Files \cup {NoFile} /\ allocator \in Allocators
  /\ stage \in Stages /\ err \in LoadErrors \cup {"OK"}
  /\ L.i \in Nat \ {0} /\ L.seen \subseteq SecTypes
  /\ L.sec \in [SecTypes -> [off : Word, size : Word]]
  /\ L.region_total \in Word /\ L.cursor \in Word
  /\ L.ptr \subseteq AllBlocks /\ out.blocks \subseteq AllBlocks
  /\ live \subseteq AllBlocks \X Allocators
  /\ loads \in 0 .. MaxLoads

(* cvm_load_ex never reads outside the caller's buffer, whatever the       *)
(* offsets, sizes and counts in the file say.                              *)
ReadsInFile == reads \subseteq 0 .. file.len - 1

(* Whichever allocation or check fails: when no load is under way the      *)
(* blocks that are allocated are those the image holds, and every block    *)
(* was freed once, through the allocator it came from.                     *)
BlocksOwned ==
  /\ misfreed = {}
  /\ stage \in {"none", "loaded"} => live = out.blocks \X {out.allocator}

CartOf(o) ==
  [code |-> o.code, funcs |-> o.funcs, imports |-> o.imports, entry |-> o.entry,
   heapSize |-> o.heapSize, reserve |-> o.reserve, romOffset |-> o.romOffset,
   romSize |-> o.romSize, stackSize |-> o.stackSize, memSize |-> o.memSize,
   regions |-> {[name |-> o.regions[k].name, offset |-> o.regions[k].offset]
                  : k \in DOMAIN o.regions},
   data |-> o.heap]

(* What the loader accepts, the interpreter can run: a loaded image meets  *)
(* the contract CvmExec assumes of it.  In particular every byte of its    *)
(* memory is initialised.                                                  *)
LoadedIsCart == stage = "loaded" => IsCart(CartOf(out))

(* The parts of the memory of a loaded image lie one behind the other in   *)
(* the order DATA, BSS, REGIONS, ROM, RESERVE, STACK without overlap, the  *)
(* regions in the order of the file: no 32-bit sum in the code wrapped.    *)
LayoutSound ==
  stage = "loaded" =>
    LET last == Len(out.regions)
        regionsStart == size("DATA") + size("BSS")
        end(k) == out.regions[k].offset + out.regions[k].size
        freeStart == out.heapSize - out.reserve
        romStart == IF out.romSize = 0 THEN freeStart ELSE out.romOffset
    IN  /\ \A k \in 1 .. last : regionsStart <= out.regions[k].offset
                                /\ end(k) <= romStart
        /\ \A j, k \in 1 .. last : j < k => end(j) <= out.regions[k].offset
        /\ regionsStart <= romStart /\ romStart + out.romSize <= freeStart
        /\ \A k \in 1 .. Len(file.data) : size("DATA") > 0 => out.heap[k - 1] = file.data[k]
        /\ \A k \in 1 .. out.romSize : out.heap[romStart + k - 1] = file.rom[k]
        /\ \A a \in 0 .. out.memSize - 1 :
             a >= size("DATA") /\ a \notin Span(romStart, out.romSize) => out.heap[a] = 0

(* The sizes of regions are rounded up to 4 "so that LDW/STW into a region  *)
(* naturally hit aligned addresses" (cvm_load_ex).  They are as aligned as *)
(* the end of DATA and BSS, which is not rounded: all of them if it is a   *)
(* multiple of 4, none of them if it is not.                               *)
RegionsAligned ==
  stage = "loaded" =>
    \A k \in DOMAIN out.regions :
      out.regions[k].offset % 4 = (size("DATA") + size("BSS")) % 4

(* A host looks at a binary before it loads it, for the META of its title *)
(* or the SEAL, which the loader only checks.  For every type that has a   *)
(* payload, cvm_peek_section finds a section of a binary that loads        *)
(* exactly if there is one; it lies in the file; save for DEBUG there is   *)
(* no other of the type; and it is the one the loader used, if it uses any.*)
PeekAgrees ==
  stage = "loaded" =>
    \A t \in SecTypes \ NoPayload :
      LET found == cvm_peek_section(file, t)
          all == {k \in DOMAIN file.sections : file.sections[k].type = t}
      IN  /\ all = {} => found = <<0, 0, 0>>
          /\ all # {} => found[1] = 1 /\ found[2] + found[3] <= file.len
          /\ t # "DEBUG" => \A k \in all :
               found = <<1, file.sections[k].off, file.sections[k].size>>
          /\ t \notin HostOnly =>
               found = <<IF t \in L.seen THEN 1 ELSE 0, off(t), size(t)>>
=============================================================================
