----------------------------- MODULE CvmWriteBin -----------------------------
(***************************************************************************)
(* What the translator writes, loaded: cg_collect_globals and write_bin of *)
(* src/tools/translator/translator.c composed with the loader.             *)
(*                                                                         *)
(* The translator gives every global an address and every function a slot  *)
(* before there is an image; code and initialisers hold them as numbers.   *)
(* They mean something only if the loader puts DATA at address 0 and the   *)
(* entries of FUNCS in the order of the file.                              *)
(***************************************************************************)
EXTENDS CvmLoader

CONSTANT Programs    \* what main hands to write_bin, after its own checks

(* A global is a pointer, if it starts with one, and the bytes behind it.  *)
Global == [align : Nat \ {0}, pointer : {"none", "global", "function"},
           to : Nat, bytes : Seq(Byte)]

(* main accepts region names once, of 1 to 15 characters, with sizes from  *)
(* 1 to 2^31 - 1 (parse_region, parse_size), at most 64 of them, far from  *)
(* the 2^16 of the loader, and chooses an entry.                           *)
IsProgram(p) ==
  /\ p.code \in Seq(Instruction) /\ p.code # <<>>
  /\ p.globals \in Seq(Global)
  /\ p.funcs \in Seq(0 .. Len(p.code) - 1) /\ p.main \in DOMAIN p.funcs
  /\ \A g \in DOMAIN p.globals :
       LET to == p.globals[g].to IN
       CASE p.globals[g].pointer = "global" -> to \in DOMAIN p.globals
         [] p.globals[g].pointer = "function" -> to \in DOMAIN p.funcs
         [] OTHER -> TRUE
  /\ {p.heap_reserve, p.stack_reserve} \subseteq 0 .. WordMod \div 2 - 1
  /\ p.imports \in Seq([name : STRING, len : Nat \ {0}])
  /\ p.regions \in Seq([name : Seq(Byte \ {0}), size : 1 .. WordMod \div 2 - 1, dir : 1 .. 3])
  /\ Len(p.regions) <= MAX_U16
  /\ \A j, k \in DOMAIN p.regions :
       /\ Len(p.regions[k].name) \in 1 .. 15
       /\ p.regions[j].name = p.regions[k].name => j = k
  /\ p.rom \in Seq(Byte) /\ p.meta \in Nat
  /\ {p.calls, p.seal} \subseteq BOOLEAN

ASSUME ProgramsAssumption == \A p \in Programs : IsProgram(p)

-----------------------------------------------------------------------------
(* The FUNCS slot of a function, which is also the value of its pointers:  *)
(* slot 0 is the null pointer, and odd slots are left to the C++ ABI.      *)
CVM_FN_SLOT(k) == 2 * k

(* Addresses of the globals.  Address 0 stays free: it is the null pointer. *)
SizeOf(g) == Len(g.bytes) + IF g.pointer = "none" THEN 0 ELSE 4

RoundUp(n, align) == align * ((n + align - 1) \div align)

(* Faulty: only the size of the global before counts.                      *)
AddressesPacked(gs) ==
  LET at[k \in 0 .. Len(gs)] ==
        IF k = 0 THEN 8
        ELSE at[k - 1] + IF k = 1 THEN 0 ELSE SizeOf(gs[k - 1])
  IN  at

Addresses(gs) ==
  LET at[k \in 0 .. Len(gs)] ==
        IF k = 0 THEN 8
        ELSE RoundUp(at[k - 1] + IF k = 1 THEN 0 ELSE SizeOf(gs[k - 1]), gs[k].align)
  IN  at

data_size(gs) == IF gs = <<>> THEN 0 ELSE Addresses(gs)[Len(gs)] + SizeOf(gs[Len(gs)])

put_u32_le(n) == [k \in 1 .. 4 |-> Digit(n, k - 1)]

(* serialize_constant: a pointer is the address or the slot it stands for. *)
Serialized(gs, g) ==
  (CASE g.pointer = "global"   -> put_u32_le(Addresses(gs)[g.to])
     [] g.pointer = "function" -> put_u32_le(CVM_FN_SLOT(g.to))
     [] OTHER -> <<>>) \o g.bytes

cg_collect_globals(gs) ==
  LET covers(a) == {k \in DOMAIN gs : a - Addresses(gs)[k] \in 0 .. SizeOf(gs[k]) - 1}
  IN  [a \in 1 .. data_size(gs) |->
         IF covers(a - 1) = {} THEN 0
         ELSE LET k == CHOOSE c \in covers(a - 1) : TRUE
              IN  Serialized(gs, gs[k])[a - Addresses(gs)[k]]]

-----------------------------------------------------------------------------
(* The IMPORTS payload: a count, an offset per name, the names with their  *)
(* NULs.  NameEnds(ims)[k] is the end of the k-th name, and so the offset  *)
(* of the next.                                                            *)
NameEnds(ims) ==
  LET at[k \in 0 .. Len(ims)] ==
        IF k = 0 THEN 4 + 4 * Len(ims) ELSE at[k - 1] + ims[k].len + 1
  IN  at

(* Slot 0 and the odd slots hold 0; main asks for the table if any code    *)
(* calls a function or takes its address.                                  *)
FuncsTable(p) ==
  IF ~p.calls THEN <<>>
  ELSE [i \in 1 .. CVM_FN_SLOT(Len(p.funcs)) + 1 |->
          IF \E k \in DOMAIN p.funcs : i = CVM_FN_SLOT(k) + 1
          THEN p.funcs[(i - 1) \div 2] ELSE 0]

(* Faulty: the entries without their count.                                *)
RegionsSizeNoCount(rs) == REGION_ENTRY_SIZE * Len(rs)

RegionsSize(rs) == IF rs = <<>> THEN 0 ELSE 4 + REGION_ENTRY_SIZE * Len(rs)

PayloadSize(p) ==
  [t \in SecTypes |->
     CASE t = "CODE"          -> 4 * Len(p.code)
       [] t = "DATA"          -> data_size(p.globals)
       [] t = "IMPORTS"       -> IF p.imports = <<>> THEN 0
                                 ELSE NameEnds(p.imports)[Len(p.imports)]
       [] t = "HEAP_RESERVE"  -> p.heap_reserve
       [] t = "STACK_RESERVE" -> p.stack_reserve
       [] t = "FUNCS"         -> 4 * Len(FuncsTable(p))
       [] t = "HOST_REGION"   -> RegionsSize(p.regions)
       [] t = "ROM"           -> Len(p.rom)
       [] t = "META"          -> p.meta
       [] t = "SEAL"          -> IF p.seal THEN 12 ELSE 0
       [] OTHER               -> 0]

(* The bytes of the payloads of some types.                                *)
Bytes(p, types) ==
  LET of(t) == IF t \in types THEN PayloadSize(p)[t] ELSE 0
  IN  of("CODE") + of("DATA") + of("IMPORTS") + of("FUNCS") + of("HOST_REGION")
        + of("ROM") + of("META") + of("SEAL")

section_count(p) ==
  LET one(t) == IF PayloadSize(p)[t] > 0 THEN 1 ELSE 0
  IN  1 + one("DATA") + one("IMPORTS") + one("HEAP_RESERVE") + one("STACK_RESERVE")
        + one("FUNCS") + one("HOST_REGION") + one("ROM") + one("META") + one("SEAL")

code_off(p) == HEADER_SIZE + SECTION_SIZE * section_count(p)

(* The payloads each offset adds up; the sums are uint32_t.                *)
Added(t) ==
  CASE t = "CODE"        -> {}
    [] t = "DATA"        -> {"CODE"}
    [] t = "IMPORTS"     -> {"CODE", "DATA"}
    [] t = "FUNCS"       -> {"CODE", "DATA", "IMPORTS"}
    [] t = "HOST_REGION" -> {"CODE", "DATA", "IMPORTS", "FUNCS"}
    [] t = "ROM"         -> {"CODE", "DATA", "IMPORTS", "FUNCS", "HOST_REGION"}
    [] t = "META"        -> {"CODE", "DATA", "IMPORTS", "FUNCS", "HOST_REGION", "ROM"}
    [] OTHER -> {"CODE", "DATA", "IMPORTS", "FUNCS", "HOST_REGION", "ROM", "META"}

PayloadOffset(p, t) ==
  IF t \in NoPayload THEN 0 ELSE ToWord(code_off(p) + Bytes(p, Added(t)))

(* The table has an entry for every type with a size; code there is.       *)
Entry(p, t) ==
  IF PayloadSize(p)[t] = 0 THEN <<>>
  ELSE << [type |-> t, size |-> PayloadSize(p)[t], flags |-> 0,
           off |-> PayloadOffset(p, t)] >>

SectionTable(p) ==
  Entry(p, "CODE") \o Entry(p, "DATA") \o Entry(p, "IMPORTS")
    \o Entry(p, "HEAP_RESERVE") \o Entry(p, "STACK_RESERVE") \o Entry(p, "FUNCS")
    \o Entry(p, "HOST_REGION") \o Entry(p, "ROM") \o Entry(p, "META")
    \o Entry(p, "SEAL")

(* The binary as the loader decodes it.                                    *)
write_bin(p) ==
  [len |-> code_off(p) + Bytes(p, SecTypes),
   magic |-> TRUE, version |-> TRUE, flags |-> 0,
   table_off |-> HEADER_SIZE, entry |-> p.funcs[p.main],
   sections |-> SectionTable(p),
   code |-> p.code, data |-> cg_collect_globals(p.globals), rom |-> p.rom,
   funcs |-> FuncsTable(p),
   regions |-> [k \in DOMAIN p.regions |->
                  [name |-> p.regions[k].name, terminated |-> TRUE,
                   size |-> p.regions[k].size, dir |-> p.regions[k].dir, flags |-> 0]],
   imports |-> [k \in DOMAIN p.imports |->
                  [off |-> NameEnds(p.imports)[k - 1], name |-> p.imports[k].name,
                   terminated |-> TRUE]]]

Written == [p \in Programs |-> write_bin(p)]

-----------------------------------------------------------------------------
(* The bytes of the file: the payloads are written one after the other.    *)
WriteOrder == <<"CODE", "DATA", "IMPORTS", "FUNCS", "HOST_REGION", "ROM", "META", "SEAL">>

WrittenAt(p, t) ==
  LET before == {WriteOrder[j] : j \in {i \in DOMAIN WriteOrder :
                   \E k \in DOMAIN WriteOrder : WriteOrder[k] = t /\ i < k}}
  IN  code_off(p) + Bytes(p, before)

(* What the loader adds up: the regions, and the whole memory.             *)
RegionTotals(p) ==
  LET sum[k \in 0 .. Len(p.regions)] ==
        IF k = 0 THEN 0 ELSE sum[k - 1] + Aligned(p.regions[k].size)
  IN  sum

RegionTotal(p) == RegionTotals(p)[Len(p.regions)]

MemorySize(p) ==
  data_size(p.globals) + Len(p.rom) + p.heap_reserve + p.stack_reserve + RegionTotal(p)

(* What the translator writes the loader takes, unless a block cannot be   *)
(* allocated, the regions, the memory or the file are larger than 32 bits  *)
(* can say, there are more imports than 16 bits can count, or the user     *)
(* asked for a stack smaller than a return address.                        *)
WrittenAccepted ==
  stage = "none" =>
    \A p \in Programs : file = Written[p] =>
      \/ err \in {"OK", "NOMEM", "NO_SUCH_IMPORT"}
      \/ err = "BAD_SECTION" /\ (p.stack_reserve \in 1 .. 3 \/ MemorySize(p) > MAX_U32)
      \/ err = "BAD_REGION" /\ RegionTotal(p) > MAX_U32
      \/ err = "BAD_IMPORTS" /\ Len(p.imports) > MAX_U16
      \/ file.len > MAX_U32

(* A loaded image is what the translator's numbers stand for: every global *)
(* is at its address, aligned, not null and apart from the others; the     *)
(* pointers in it lead to the global or through FUNCS to the function they *)
(* were written for, the latter if the program has the table, which it     *)
(* lacks if no code calls or takes the address of a function; the entry,   *)
(* the imports and the regions are those of the program; and every payload *)
(* is where its section says, so that a seal covers all bytes but its own. *)
LoadsAsWritten ==
  stage = "loaded" =>
    \A p \in Programs : file = Written[p] /\ file.len <= MAX_U32 =>
      LET gs == p.globals
          at(k) == Addresses(gs)[k]
          word(a) == ReadLE(out.heap, a, 4)
          span(k) == Span(at(k), SizeOf(gs[k]))
      IN  /\ out.entry = p.funcs[p.main]
          /\ \A k \in DOMAIN gs :
               /\ at(k) > 0 /\ at(k) % gs[k].align = 0
               /\ \A j \in DOMAIN gs \ {k} : span(j) \cap span(k) = {}
               /\ \A b \in DOMAIN gs[k].bytes :
                    out.heap[at(k) + SizeOf(gs[k]) - Len(gs[k].bytes) + b - 1] = gs[k].bytes[b]
               /\ gs[k].pointer = "global" => word(at(k)) = at(gs[k].to)
               /\ gs[k].pointer = "function" /\ p.calls =>
                    /\ word(at(k)) % 2 = 0 /\ word(at(k)) > 0
                    /\ out.funcs[word(at(k)) + 1] = p.funcs[gs[k].to]
          /\ p.calls => \A k \in DOMAIN p.funcs : out.funcs[CVM_FN_SLOT(k) + 1] = p.funcs[k]
          /\ out.names = [k \in DOMAIN p.imports |-> p.imports[k].name]
          /\ \A k \in DOMAIN p.regions : /\ out.regions[k].name = p.regions[k].name
                                         /\ out.regions[k].size = p.regions[k].size
          /\ \A t \in SecTypes \ NoPayload :
               PayloadSize(p)[t] > 0 =>
                 cvm_peek_section(file, t) = <<1, WrittenAt(p, t), PayloadSize(p)[t]>>
=============================================================================
