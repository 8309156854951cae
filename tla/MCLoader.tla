------------------------------ MODULE MCLoader ------------------------------
(***************************************************************************)
(* Binaries for the loader, on words of 6^4 = 1296 values (a multiple of 4 *)
(* like 2^32): all combinations of small sections, sizes at the 32-bit     *)
(* limit, and every field of a complete binary damaged once.               *)
(***************************************************************************)
EXTENDS CvmWriteBin

Halt == [op |-> "HALT", a |-> 0, b |-> 0, c |-> 0]

(* The binary with the parts <<type, size>> one behind the other.          *)
Pack(parts, contents) ==
  LET n == Len(parts)
      start[k \in 1 .. n + 1] ==
        IF k = 1 THEN HEADER_SIZE + SECTION_SIZE * n
        ELSE start[k - 1] + IF parts[k - 1][1] \in NoPayload THEN 0 ELSE parts[k - 1][2]
      section(k) == [type |-> parts[k][1], size |-> parts[k][2], flags |-> 0,
                     off |-> IF parts[k][1] \in NoPayload THEN 0 ELSE start[k]]
  IN  [len |-> start[n + 1], magic |-> TRUE, version |-> TRUE, flags |-> 0,
       table_off |-> HEADER_SIZE, entry |-> 0,
       sections |-> [k \in 1 .. n |-> section(k)],
       code |-> contents.code, data |-> contents.data, rom |-> contents.rom,
       funcs |-> contents.funcs, regions |-> contents.regions,
       imports |-> contents.imports]

Region(name, n) == [name |-> name, terminated |-> TRUE, size |-> n, dir |-> 3, flags |-> 0]
Import(name, o) == [off |-> o, name |-> name, terminated |-> TRUE]

TwoRegions == <<Region(<<1>>, 5), Region(<<1, 2>>, 4)>>
TwoImports == <<Import("log", 12), Import("rom_base", 16)>>
Doubled == <<Import("log", 12), Import("log", 12)>>

Contents(d, r, f, rg, im) ==
  [code |-> <<Halt, Halt>>, data |-> d, rom |-> r, funcs |-> f, regions |-> rg,
   imports |-> im]

Part(t, n) == IF n = 0 THEN <<>> ELSE << <<t, n>> >>

File(c, bss, reserve, stack) ==
  Pack(<< <<"CODE", 8>> >>
         \o Part("DATA", Len(c.data)) \o Part("BSS", bss)
         \o Part("HOST_REGION", IF c.regions = <<>> THEN 0 ELSE 4 + 28 * Len(c.regions))
         \o Part("ROM", Len(c.rom)) \o Part("HEAP_RESERVE", reserve)
         \o Part("STACK_RESERVE", stack) \o Part("FUNCS", 4 * Len(c.funcs))
         \o Part("IMPORTS", IF c.imports = <<>> THEN 0 ELSE 20), c)

Small == {File(Contents(d, r, f, rg, im), bss, reserve, stack) :
            d \in {<<>>, <<1, 2, 3>>}, r \in {<<>>, <<4, 5>>}, f \in {<<>>, <<0, 1>>},
            rg \in {<<>>, TwoRegions}, im \in {<<>>, Doubled},
            bss \in {0, 6}, reserve \in {0, 7}, stack \in {0, 4}}

(* Sizes at the limit: sums that fit, that overflow by one and that wrap.  *)
Rich == Contents(<<1, 2, 3>>, <<4, 5>>, <<0, 1>>, TwoRegions, TwoImports)
Large == {File([Rich EXCEPT !.regions = <<Region(<<1>>, n), Region(<<2>>, m)>>],
               bss, reserve, stack) :
            n \in {4, 1280, 1293}, m \in {0, 9}, bss \in {0, 1280},
            reserve \in {0, 1282}, stack \in {3, 8, 1290}}

Whole == Pack(<< <<"DEBUG", 1>>, <<"CODE", 8>>, <<"DATA", 3>>, <<"BSS", 1>>,
                 <<"HOST_REGION", 60>>, <<"ROM", 2>>, <<"STACK_RESERVE", 4>>,
                 <<"FUNCS", 8>>, <<"IMPORTS", 20>>, <<"META", 2>>, <<"SEAL", 12>>,
                 <<"DEBUG", 1>> >>, Rich)

Damaged ==
  {[Whole EXCEPT !.len = 10], [Whole EXCEPT !.len = @ - 1],
   [Whole EXCEPT !.len = 200], [Whole EXCEPT !.magic = FALSE],
   [Whole EXCEPT !.version = FALSE], [Whole EXCEPT !.flags = 1],
   [Whole EXCEPT !.table_off = 1000], [Whole EXCEPT !.entry = 2],
   [Whole EXCEPT !.sections = <<>>],
   [Whole EXCEPT !.sections = Tail(Tail(@))],
   [Whole EXCEPT !.sections[2].size = 6], [Whole EXCEPT !.sections[5].size = 3],
   [Whole EXCEPT !.sections[5].size = 59], [Whole EXCEPT !.sections[5].size = 0],
   [Whole EXCEPT !.sections[8].size = 7], [Whole EXCEPT !.sections[9].size = 3],
   [Whole EXCEPT !.sections[9].size = 11], [Whole EXCEPT !.sections[9].size = 0],
   [Whole EXCEPT !.sections[4].off = 24], [Whole EXCEPT !.sections[2].off = 1290],
   [Whole EXCEPT !.funcs = <<0, 2>>], [Whole EXCEPT !.funcs = <<2, 0>>],
   [Whole EXCEPT !.imports[2].off = 20],
   [Whole EXCEPT !.imports[2].terminated = FALSE],
   [Whole EXCEPT !.regions[2].terminated = FALSE],
   [Whole EXCEPT !.regions[2].name = <<>>], [Whole EXCEPT !.regions[2].name = <<1>>],
   [Whole EXCEPT !.regions[2].dir = 0], [Whole EXCEPT !.regions[2].dir = 4],
   [Whole EXCEPT !.regions[1].flags = 1]}
  \cup {[Whole EXCEPT !.sections[k].flags = 1] : k \in {1, 12}}
  \cup {[Whole EXCEPT !.sections[k].type = "BAD"] : k \in {1, 12}}
  \cup {[Whole EXCEPT !.sections = Append(@, [@[k] EXCEPT !.off = 24])] : k \in {2, 3, 5, 6, 9, 10, 11}}

(* Programs as the translator has them when it writes the binary.          *)
Pointers == <<[align |-> 1, pointer |-> "none", to |-> 1, bytes |-> <<5>>],
              [align |-> 4, pointer |-> "global", to |-> 3, bytes |-> <<>>],
              [align |-> 1, pointer |-> "none", to |-> 1, bytes |-> <<1, 2, 3>>],
              [align |-> 8, pointer |-> "function", to |-> 2, bytes |-> <<4, 5>>]>>

Program(gs, im, rg, calls, rom) ==
  [code |-> <<Halt, Halt, Halt>>, globals |-> gs, funcs |-> <<0, 1>>, main |-> 2,
   heap_reserve |-> 7, stack_reserve |-> 4, imports |-> im, regions |-> rg,
   rom |-> rom, meta |-> 2, calls |-> calls, seal |-> TRUE]

OneProgram(gs, im, rg, calls, rom) ==
  Program(gs, IF im THEN <<[name |-> "log", len |-> 3], [name |-> "rom_base", len |-> 8]>> ELSE <<>>,
          IF rg THEN <<[name |-> <<1>>, size |-> 5, dir |-> 3], [name |-> <<1, 2>>, size |-> 4, dir |-> 1]>> ELSE <<>>,
          calls, rom)

Full == OneProgram(Pointers, TRUE, TRUE, TRUE, <<4, 5>>)

(* Every combination of parts, and sizes at the limit of a word.           *)
MCPrograms ==
  {OneProgram(gs, im, rg, calls, rom) :
     gs \in {<<>>, Pointers}, im \in BOOLEAN, rg \in BOOLEAN, calls \in BOOLEAN,
     rom \in {<<>>, <<4, 5>>}}
  \cup {[Full EXCEPT !.stack_reserve = n] : n \in {0, 3, 500, 640}}
  \cup {[Full EXCEPT !.regions[1].size = 647, !.regions[2].size = n] : n \in {644, 647}}
  \cup {[Full EXCEPT !.imports = [k \in 1 .. n |-> [name |-> "log", len |-> 1]]] : n \in {35, 36}}
  \cup {[Full EXCEPT !.heap_reserve = 640, !.stack_reserve = n] : n \in {500, 640}}
  \cup {[OneProgram(<<>>, FALSE, FALSE, FALSE, <<>>) EXCEPT !.meta = m, !.seal = FALSE,
            !.heap_reserve = 0] : m \in {0, 2, 1250}}

WrittenFiles == {Written[p] : p \in MCPrograms}

MCFiles == WrittenFiles \cup Small \cup Large \cup Damaged \cup {Whole}

MCAllocators == {"stdlib", "custom"}
MCLinkNames == {"log", "rom_base", "other"}
=============================================================================
