# CronoVM: a TLA+ model

CronoVM runs *carts*: small binaries compiled from C or C++ through LLVM IR to a
32-bit register machine. A host program loads a cart, links the functions the cart
imports, and calls its entry point or one of its exported functions, once per frame
for a game. This directory models the virtual machine itself (`src/src/cvm.c`), the
binary loader, the allocator, the exception handling and the software arithmetic that
carts carry with them, and the translator that makes carts (instruction selection, registers,
phi moves, code, branch relaxation, binary), checks the models with TLC and proves the main results about
the interpreter, its calls and coroutines, the loader and the writer, the allocator, the exceptions and the software
arithmetic with TLAPS.

## 1. The system

### Components

| component | code | state it keeps | operations | what makes it correct |
|---|---|---|---|---|
| interpreter | `cvm_exec_at` | register file, pc (locals); `img->heap` | the 64 opcodes | no index leaves its array; CALL/RET nest; coroutines resume where they left |
| host entry points | `cvm_run`, `cvm_run_args`, `cvm_call`, `cvm_heap_read`, `cvm_heap_write` | none | start a run; access the memory from a handler | a run starts from a fresh register file with the sentinel on the stack |
| built-in syscalls | `builtin_sys_*`, `auto_bind_builtins` | none | answer heap, region and ROM queries | offsets lie in the memory; names are read within bounds |
| loader | `cvm_load_ex`, `cvm_link`, `cvm_image_free`, `cvm_peek_section` | `struct cvm_image` | validate, allocate, copy, publish; link; free | never reads outside the file; every exit frees what it allocated; an accepted image is one the interpreter can run |
| cart allocator | `runtime/lib/cvm_alloc.h` | the words of the free region, the list head | `cvm_malloc`, `cvm_free` | blocks never overlap; nothing of a block in use changes; no free block is lost |
| seal check | `cvm_crc32`, `cvm_seal_check` | none | checks a checksum | pure function |
| diagnostics | `CVM_DIAG` part of `cvm.c` | shadow memory, redzone table, coverage | hooks in the instructions | a redzone table is a map |
| profiler | `CVM_PROFILE` part of `cvm.c` | counters | a tick per instruction | changes nothing the program sees |
| C++ runtime | `cvm_cxxrt.cpp`, `cvm_cxxstl.cpp` | the chain of landing pads, the exception in flight and its count of handlers | throw, catch, rethrow, guards | an exception reaches the innermost handler and is destroyed once |
| threading shim | `__external_threading` | TLS table | no-op mutexes | sound only while nothing yields in a critical section |
| software arithmetic | `cvm_int64*`, `cvm_float64*`, `cvm_intrin.h` | none (three functions loop) | 64-bit integers, doubles | integers equal to the exact result modulo 2^64; doubles off by no more than their truncation allows |
| translator, selection | the cases of `cg_function` and `cg_emit_i64_def` | none | the instructions for one LLVM instruction | the words left stand for the result, whatever bits narrow operands have above their width |
| translator, code | `cg_function` of `tools/translator/translator.c` and what it calls | registers and slots of values, live sets, code, queued fixups | pre-allocation, liveness, code block by block, relaxation, resolution | the code does what the function in SSA form does |
| translator, binary | `cg_collect_globals`, `write_bin` | addresses of globals, slots of functions | layout, writing | what it writes the loader accepts, and loads at the addresses the code was made for |
| tools | `cvm-cc`, `cvm-dis`, `cvm-fuzz` | none | driver, disassembler, test driver | |
| vendored | `runtime/lib/libcxx` | | third-party | |

### How they interact

The loader turns a file into a `struct cvm_image` and is the only component that
checks it: the interpreter takes over `func_offsets` entries as valid pcs, the
alignment of sizes and the order of the memory areas without looking again. The host
binds imports by name (built-ins first, `cvm_link` afterwards) and starts runs. A run
has the register file and the pc to itself; everything else it shares with the host
through `img->heap`, which survives from run to run. A SYSCALL hands the register
file and the image to a handler, which answers in R[0], may read and write the memory
through the two bounds-checked accessors, and may trap. Coroutines and `setjmp` keep
their state in records in that same memory; so do the allocator and the C++ runtime.
There are no threads.

The translator runs before all this. It gives every global an address and every function
a slot before there is an image; code and initialisers hold them as numbers, which mean
something only if the loader lays the memory out the same way. Its code generator works a
function at a time, one phase after the other, and each phase relies on what the
ones before found out: the moves of an edge on the liveness of registers, relaxation on
the queue of fixups. The code it makes calls the runtime: software arithmetic for `i64`
and `double`, the chain of landing pads and `longjmp` for exceptions.

The memory is one array: `DATA | BSS | REGIONS | ROM | RESERVE | STACK`. SP is an
ordinary register (the last one) and starts at the top.

### What is hard

* The program can write anything anywhere in its memory, the stack, the coroutine
  records and the allocator's headers included. Every value the interpreter takes back
  out of memory (a return pc, a `jmp_buf`, a register number) is arbitrary.
* 32-bit arithmetic at its limits: bounds checks, section offsets and sizes, layout
  sums kept partly in 32 and partly in 64 bits, request sizes of the allocator.
* Failure in the middle of a load: eight allocations and three kinds of exit.
* Order inside one operation: the zero-fill and the ROM copy, the reads and writes of
  CORO_SWAP, unlinking and re-stamping in `cvm_free`.
* Long sequences of calls, swaps and allocations.
* In the translator: values that share a register, are spilled, or are saved across calls;
  moves that are parallel in SSA and one after the other in code; insertions that move
  the targets of branches already measured; what a `longjmp` leaves of the registers; the
  bits of a register above the width of a narrow value, which earlier instructions leave
  and later ones must not see.
* Carries, borrows and roundings written out in words, at every limit of exponent and width.
* Nothing is concurrent in the sense of threads; interleaving comes from coroutines
  and from the host starting runs.

`PROJECT.json` lists each of these at its line, with the property that covers it or
the reason none does yet.

## 2. The modules

```
CvmWord ── CvmImage ──┬── CvmExec ──┬── CvmCalls  (refines CallStack)   MCCalls
   │                  │             ├── CvmCoro   (refines Coroutines)  MCCoro
   │                  │             ├── CvmExecProofs
   │                  │             │      └── CvmControlProofs  (with CvmCalls and CvmCoro)
   │                  │             └── MCExec
   │                  └── CvmLoader ──┬── CvmWriteBin ── MCLoader
   │                                  └── CvmLoaderProofs
   │                                         └── CvmWriteBinProofs  (with CvmWriteBin)
   ├── CvmAlu  (value of the integer opcodes; used by the MC modules)
   │      └── CgSelect ── MCSelect
   └── CvmAlloc (refines Arena) ──┬── MCAlloc
                                  └── CvmAllocProofs
EhCart ── CvmEh (refines Exceptions) ──┬── MCEh
                                       └── CvmEhProofs
NatLemmas  (used by CvmAllocProofs, CvmEhProofs, CvmSoftProofs and CvmWriteBinProofs)
CvmInt64 ──┬── CvmFloat64 (one instance per format)
           └── CvmSoft ──┬── MCSoft
                         └── CvmSoftProofs
SsaFn ──┬── Ssa
        └── CgAlloc ── CgPhi ── CgEmit ──┐
                              CgRelax ───┴── CvmTranslate (refines Ssa) ── MCTranslate
```

**CvmWord.** Words, bytes, little-endian reads and writes. All widths of the machine
are powers of the byte: 2^8 registers, 2^16 immediates, 2^32 words. `ByteBase` stands
for 2^8. With `ByteBase = 4` a word has 8 bits and the machine 4 registers, with the
same relations between all widths, so that wrap-around happens in a small instance.
The proofs hold for every `ByteBase >= 4`, 256 included. A read outside the memory
yields 0 and a write there is lost, so that a missing check shows in a property.

**CvmImage.** Instructions and `IsCart`, the contract of a loaded image: what the
loader guarantees and the interpreter relies on.

**CvmAlu.** The value of each integer instruction. `CvmExec` has it as the constant
operator `Alu`, of which the proofs assume only that it yields words.

**CvmExec.** The interpreter. Variables: `img`, `heap` (`img->heap`), `R`, `pc`,
`status` (the running state or the result code), `result` (`*return_value`), `runs`,
and the history variable `uses`: the indexes the last step used, per array. One action
per opcode or group of opcodes with the same control, one for a start, one each for the
two dispatch errors. A float result is any member of a set of words: the properties do
not depend on which. MEMCPY on overlapping ranges may copy in either direction. The
handlers of the host are external: one that answers any of a set of words or traps, and two
that use the accessors. When a run ends R and pc are reset, as the locals they are.
Both dispatch loops of the file (computed goto, and the switch for other compilers)
have these actions.

**CallStack / CvmCalls.** The abstract call stack: a sequence of return addresses and
a program text, no memory, no registers. The text says which functions there are, where control
flows inside them, where it may halt and which instructions may trap: a RET is not one of these.
`CvmCalls` gives the refinement mapping: the
frames are read back from the words between SP and the top of the memory; and the discipline a
program has to keep (`LeavesStack`): only CALL, CALLR and RET write SP and the words from SP up.

**Coroutines / CvmCoro.** The abstract coroutines: each has a place (pc, SP), one
runs, a swap changes who runs. The refinement mapping reads the places out of the
context records; the status of a record tells whether it is meaningful. The discipline is
`KeepsRecords`: the records are as the cart declares them when a run starts, from then on the program
leaves them to CORO_SWAP, names its own record in each swap and stays on its stack.

**CvmLoader.** `cvm_load_ex` in the order of the code: header, one step per section
entry, one per region, the checks on totals and imports, one step per allocation (each
may fail), the copies, publication. A list of checks is a sequence of pairs
(condition, error) in the order of the code, of which the first decides. A
file is what its bytes decode to, with the offsets and sizes as they are; `reads` is
the set of file bytes the last step read, `live` the blocks allocated with their
allocator. The image that is published is mapped to the record `CvmExec` runs.
`cvm_peek_section` is an operator.

**Arena / CvmAlloc.** The abstract allocator hands out disjoint blocks and never
touches their words. `CvmAlloc` has the words of the free region with headers, footers
and links in them, and the walks and updates of the code in their order; the
program's writes into its blocks are actions. A request whose rounding leaves
`int32_t` is undefined in C; both outcomes a build can show are allowed, the wrapped
sum of the VM's ADD and a refusal.

**EhCart / Exceptions / CvmEh.** `EhCart` is the program: activations with open scopes
(try blocks, objects to destroy, a noexcept body, handlers) as clang lowers them; it is
external. `Exceptions` says what a throw means to it: the innermost scope that fits, the
clean-up on the way, and an object that lives until its last handler is left. It has no
frames and no counts. `CvmEh` adds what the repository does: the invoke sequence of the
translator (descriptor, push, SETJMP, call, pop), the chain, the walk (one frame per step),
`longjmp`, the selector, and `handler_count` with its sign. `Exceptions` finds a handler in
the set of subobjects of a type, `CvmEh` with the recursion of `ti_search`, here a
recursive function. Virtual bases are left out. The words of a frame
that is off the chain are cleared: nothing may read them before the next push.

**CvmWriteBin.** The writer of the translator, composed with the loader: the addresses
`cg_collect_globals` gives to globals, what `serialize_constant` writes for a pointer, the
slots of FUNCS, the sizes and offsets of sections. `write_bin` maps a program to the file
`CvmLoader` decodes, so that the loader is run on what the translator writes and its
memory compared with what the addresses, slots and pointers in the program stand for.
The writer checks no limit but that of the file: it writes regions that add up to more than a
word and more imports than 16 bits count, and the loader refuses both (`BAD_REGION`,
`BAD_IMPORTS`). `WrittenAccepted` names these limits, and the programs of the run reach them.

**CvmInt64 / CvmFloat64 / CvmSoft.** The software arithmetic on pairs of words: a half has
`Bits` bits and a double `ExpBits` bits of exponent, 32 and 11 in the code. The functions
are operators translated carry by carry; `CvmSoft` is a program that calls one of them at
a time. The division of integers, the division of doubles and the square root take one
step for each iteration of their loop, so that a loop invariant can be stated. The
properties compare with exact integer arithmetic. `CvmSoft` has one instance of
`CvmFloat64` for each format it is run with.

**CgSelect.** What the translator emits for one LLVM instruction on integers of 1 to 65 bits:
binary operations, comparisons, conversions, `select`, the intrinsics that are lowered in
place, and `cmpxchg`. The sequences are operators over `CvmAlu`, so that they mean what the VM
does. `val` is the value at hand: its width `w`, the number `n` it is in LLVM, and the words `r`
the code left. Each action applies one instruction to it; the other operand is any of `Held`,
the forms a value of that width may have. The argument is one of assumption and guarantee: what
an instruction may be given is exactly what `Represented` says of what each leaves. A narrow
value may have any bits above its width; a boolean is 0 or 1; a value of two or three words
is sign-extended over them; a float is kept as its number. Words have 8 bits, so that widths
4, 8, 12, 16 and 17 stand for 8 and 16, 32, 33 to 63, 64 and 65. Instructions whose result LLVM leaves undefined are not
taken, nor booleans in arithmetic other than logic, nor constants of 33 to 63 bits (see
"Disagreements"). Divisions and variable shifts of `i64` are calls of `CvmInt64`. `Granted`
names six instructions that the code lowers correctly only for operands with zeros on top (or,
for one, an amount less than the width): the run takes them for such operands only.

**SsaFn / Ssa.** A function in SSA form as LLVM hands it to the translator (external), with the
definitions of predecessor, use and liveness that everything else refers to, and what such
a function does: values that never share anything, phis that take their sources all at
once, calls that change nothing but their result. What an operation computes is any word;
`seen` records the operands it was given.

**CgAlloc.** `cg_pre_alloc_function`: a register for each value, from a pool of those that
died in the block, else the next one, else a slot of the frame; the liveness
analysis, which works on *registers*, that is, on several values at once; the sets of registers
to save across calls, and their slots.

**CgPhi.** `cg_emit`, scratch registers, and `cg_emit_phi_moves`: the parallel copy of an edge
made sequential with the two stacks of the code, through a spare register for
cycles and a stage register from slot to slot.

**CgEmit.** The code of a block: operands fetched, calls with saves and restores, the invoke
sequence, branches that keep the moves of their two edges apart, a switch as chain or
table. Moves of SP and the several instructions that build one constant are one instruction
here or none.

**CgRelax.** `cg_relax_branches`: the Fenwick tree of insertions, a pass over the fixups
that relaxes what no longer reaches, the rebuilt code, fixups and block offsets; and
the resolution of branches and table entries. Its only parameter is the reach of a short
branch.

**CvmTranslate.** `cg_function` as a state machine, then the machine that executes its
code. Actions of the translator: `PreAlloc`, `ComputeLiveness` (one pass), `StartCode`,
`EmitNextBlock`, `StartRelaxing`, `RelaxBranches` (one pass), `Rebuild`, `Resolve`. Actions of
the machine: `Compute`, `Operation`, `SelectMove`, `Call`, `Setjmp`, `Throw`, `Stay`, `TakeEdge`,
`Return`. `loc` has the registers and the words of the frame; a callee leaves junk in all registers
but R253, which is 0 everywhere. The variables of `Ssa` go along as history: whenever the
machine executes the instruction that carries out an SSA instruction, they record what it
was given, and `ImplementsSsa` says that this is a behaviour of `Ssa`.

Definitions named *faulty* in these modules are variants of a definition with a
plausible mistake in it. They are not used by any specification. Replacing the
definition by its variant makes TLC find the property it is listed with violated,
which shows that the property can be broken and that the instance reaches the case.

## 3. What is checked

| run | question | instance | result |
|---|---|---|---|
| `exec` | `Sandboxed`: is every index inside its array? | every opcode alone, and 6 x 9 pairs of an instruction that prepares memory or SP and one that uses it, over 7 memories; arguments from {0, 4, 21, 24, 255} | holds, 111097 states |
| `calls` | `CallsAreNested` (refinement), `RunsEnd` | all 7^4 programs of 4 instructions, 16 bytes of memory, two runs from entry or either function | holds, 83920 states |
| `coro` | `SwapsResume` (refinement), `OneRunning` | main, two workers with one code and own stacks, a dead record; the target of every swap is free | holds, 268 states |
| `loader` | `TypeOK`, `ReadsInFile`, `LoadedIsCart`, `LayoutSound`, `RegionsAligned`, `PeekAgrees`, `BlocksOwned`, `WrittenAccepted`, `LoadsAsWritten` | small binaries in all combinations, sizes at the limit of a word, a complete binary with each field damaged, sections twice, binaries written by the translator; two loads, two allocators, every allocation may fail | holds, 47425 states |
| `alloc` | `TypeOK`, `BlocksTile`, `FreeListExact`, `KeepsPromise` (refinement) | 80 bytes, requests -128, -1, 0, 1, 66 and 116 (five blocks, the whole region with a rest too small to be one, the least `int` and the largest request that can be rounded), a user word that looks like the header of a free block | holds, 18881 states |
| `eh` | `TypeOK`, `ChainExact`, `CountsHandlers`, `HandlesExceptions` (refinement) | two coroutines of three activations, two scopes each, three types; swaps while no scope is open, one exception at a time, rethrows | holds, 167868 states |
| `eh_overlap` | does the count tell handlers and rethrows when a handler throws, as comments say? | as `eh`, two exceptions | violated |
| `eh_subobject` | does a handler for a base class get the base subobject, as a comment says? | a class with two bases | violated |
| `translate` | `ImplementsSsa` (refinement), `LivenessExact`, `LiveValuesApart`, `FenwickCounts`, `RelaxedExactly`, `BlocksKeepTheirCode`, `WindowExact`, `TranslationEnds`, `TypeOK` | seven families of functions: loops whose phis swap, rotate or spill, two ways that meet, one block with values dying at different points, frames, invokes, switches, some with as many moving edges as the scratch registers allow and one more; four registers for values, branches that reach 7 instructions | holds, 177439 states |
| `switch_phi` | do the moves in front of a switch disturb nobody, as a comment says? | a loop left by a switch, with a phi that is read behind it | violated |
| `soft` | `IntegersExact`, `DivisionInvariant`, `SumsBounded`, `ProductsTruncated`, `QuotientsNearest`, `OrderNumeric`, `ConversionsExact`, `SqrtConverges` | halves of 7 bits: integers with halves 0, 1, 37, 63, 64 and 127 (all halves for fixed point and conversions); doubles of two formats with eight mantissas and all or the telling exponents | holds, 1417104 states |
| `select` | `Represented`: does each sequence of instructions compute what LLVM means? | words of 8 bits, every word as a narrow value with any bits above its width; second operands and wide words at the ends of their ranges; chains of any length | holds, 5231 states |

What the properties of `translate`, `select`, `soft` and of the writer say:

* `ImplementsSsa`: each operation, call and return gets the operands it should have and control
  reaches the right block, whatever shares a register, is spilled, saved, moved on
  an edge, or has to be found again after a LONGJMP.
* `LivenessExact`: the analysis on registers finds exactly what liveness of values defines, although
  unrelated values share registers. `LiveValuesApart`: values wanted at the same time are in
  different places.
* `FenwickCounts`, `RelaxedExactly`, `BlocksKeepTheirCode`: the tree counts the insertions, relaxation
  stops with the branches long that have to be and no others, and blocks keep their code when it moves.
* `WindowExact`: a function is refused exactly if it has a switch whose demand exceeds the window: 9
  scratch registers for a table or 2 for a chain, one for a condition that is spilled or a constant, and 2 for every
  edge with moves. Every other instruction gets by with the window, and each branch fits after relaxation.
  `TranslationEnds`: all loops of the translator end.
* `Represented`: the words an instruction leaves stand for the number LLVM gives it, although
  those it read had arbitrary bits above their width.
* `DivisionInvariant`: after each iteration, dividend taken so far = divisor x quotient +
  remainder, and remainder < divisor.
* `SumsBounded` is what a sum does guarantee: truncated when the signs agree; a difference
  keeps its sign and is less than a unit of the *larger operand* too large.
  `ProductsTruncated` and `QuotientsNearest` are about the other roundings, `OrderNumeric` about
  comparisons with zeros of both signs, infinities and NaNs, and `ConversionsExact` about
  conversions, those out of range included: integers saturate, floats become infinite or zero exactly beyond
  their exponents.
* `SqrtConverges`: what is left of the error after a step is what Newton's method leaves of the error before it, and a
  unit in the last place; no truncation is carried on to the next step.
* `RegionsAligned`: regions are as aligned as the end of DATA and BSS: all of them, or, if that is no multiple of 4, none.
* `PeekAgrees`: for every type with a payload, those only the host reads included, `cvm_peek_section` finds in a
  file that loads what the loader saw there.
* `WrittenAccepted`, `LoadsAsWritten`: what `write_bin` writes is accepted (unless too large or without memory)
  and loaded so that every address, slot and pointer in the program means what it was made for.

**Why the bounds are enough.** The checks of the interpreter compare an address with
`mem_size` and the rest with a width from 1 to 16; memory of 24 bytes, with 21, 24 and
255 among the operands, has addresses just inside, at and just past the end and at the
wrap. An instruction's checks depend on registers and memory only, so pairs suffice to
put each of them behind one that changed what it reads; nothing further back is
remembered. The stack of two words overflows at the third call; recursion, mutual
recursion and indirect calls fit in four instructions. In `loader` a word has 1296
values, and totals of DATA, BSS, regions, ROM, RESERVE and STACK are chosen to stay
below, meet and pass that. In `alloc` five blocks give every combination of free and
used neighbours of a block that is freed, and three free ones that do not touch, so
that the middle of the list is unlinked. The least request has no negation, and 116 is the last one whose sum with header
and footer fits in a signed word of 8 bits; those above it are undefined in C (below, `docs/memory.md:163`), and with 117 or 127 among the requests `KeepsPromise` is violated.

In `eh` a handler in the first activation,
a second in the one it calls, and the third that rethrows is the shortest nesting in which
`handler_count` is 2 and negated; a deeper one adds the same steps again.

In `loader` the binaries of the translator have globals of two alignments, pointers to
globals and to functions, imports, regions and a ROM, in the combinations that move
each section.

In `translate` values have four registers (`FirstReg` 3 to `MaxSsaReg` 6) instead of 222, so that
functions of a handful of values spill; emission has the 23 scratch registers of the code
(`MaxEmitReg` 29). A short branch reaches 7 instructions (`ShortMax`) instead of 127, so that functions of
two dozen instructions need relaxation, among them one in which a branch is relaxed only because a later one
has been. Operations yield 0 or 1 (`Words`): both ways of each branch, and values that
can be told apart. `Functions` are seven families, with what flows along the
edges as their parameters; in `Loops` the phis of an edge swap, rotate among three,
duplicate and load constants, with spilled ones among them; in the seventh, switches as table and as chain have
as many edges with moves as the window admits, and one more. `MCTranslate` restricts them in two points, each named: `SwitchSafe`
(`switch_phi` shows why) and `AllocasFirst` (see below).

In `select` the emitted sequences depend on the width of a word only through shift amounts and
masks, which are scaled with it. All 256 words occur as narrow values (loads, constants, and
what chains of instructions leave), each in every instruction, with 15 second operands at 0, at the signs and ends
of both ranges, and with ones above the width of 4; wide values are made of seven words around
the sign and the carries. The six names in `Granted` are what the run shows to be
needed: without any one of them it finds `Represented` violated.

In `soft` the formats are 3 bits of exponent with 10 of mantissa, where the product of two
significands reaches into the fourth word as with 52, and 5 with 8, where exponents are
further apart than two words and every integer can be converted. Operands have mantissas
of all zeros, ones, single bits and borders of the two words. Operands are never subnormal in this
run: the code flushes results that would be, so that a program gets one only from a constant or from memory (the disagreements below say what
then happens; the theorems on sums, products, quotients and comparisons say of subnormal operands what the code does).

The relative error of the seed of the square root is up to 1/2, and an error e above the root becomes
e^2 / (2 (1 + e)): 1/4 after one step, then 1/40, 1/3280, about 2^-24.4, 2^-49.7 and 2^-100. With 10 bits of mantissa three
steps are needed, and with two `SqrtConverges` is violated. What the run shows is that the code
follows the recurrence up to a unit in the last place in each step, not that six steps are needed or enough for 52 bits: that
five leave about 2^-49.7 and the sixth is needed is arithmetic on the recurrence.

**Named bounds.** `MaxRuns` and `MaxLoads` bound how often the host acts; `Carts`,
`ArgVectors`, `FnIndexes`, `HostWords`, `FloatWords`, `Files`, `Requests` and
`UserWords` are the inputs; `HeapSize` is the free region. `MaxDepth` and `MaxScopes` bound the
C++ program. `Overlaps` and `SwapsInScopes` say what it does: the passing run is of
programs that do neither; `eh_overlap` shows why for the one, and with the other `ChainExact` is violated, since all coroutines share
one chain (below). `Programs` is what the translator writes;
`Functions` and `Words` bound what it translates; `SmallWords` and `WideWords` are the operands of
`select`, `InBound` keeps values of several words outside of them from being computed with any
further, and `Granted` is described above; `Bits`, `Formats`, `Integers64` and `Floats` bound the
arithmetic.

**Fairness.** Two properties need any. `RunsEnd`: weak fairness of `Step`, one dispatched
instruction. The interpreter is a loop without waits, so a run that can execute an
instruction does. The host is assumed nothing of: it may never start a run. Programs in
that run have no backward jump, so a run can only go on for ever by calling, which
the check on SP stops. `TranslationEnds`: weak fairness of the translator's actions. The
translator is a sequence of loops and waits for nobody. `Fairness` is written with
the predicate `Translating`, which says when one of these actions is enabled, because evaluating
ENABLED on the emission of a block is expensive; the program it makes may stop at any point.

**Deadlock.** All runs check it. A host that is done stutters (`Done`); an allocator can always be
called, and so can the arithmetic; every value can be converted; a translation that failed and a program that has returned or halted stutter
(`Stopped`).

### Disagreements between code and comments

Shown by a run:

* `cvm_cxxrt.cpp:174` says `handler_count` is the number of live handlers and line 256 that a
  negative one marks a rethrow. A throw out of a handler breaks both: the handler's clean-up calls
  `__cxa_end_catch`, which counts down the *new* exception (`eh_overlap`). Neither
  of the two is destroyed.
* `cvm_cxxrt.cpp:261` says `__cxa_begin_catch` returns "the (possibly base-adjusted) object". It
  is never adjusted (`eh_subobject`).
* `translator.c:5420` says the moves for the phis of a switch's successors do not interfere. All of them
  are made in front of the dispatch (line 5460). In a loop whose switch continues on one case and leaves on
  another, the phi has been overwritten when the exit reads it (`switch_phi`). The branch isolates its
  moves for this reason.

Met while modelling, without a run of their own; the properties of the passing runs state what the code does instead:

* `translator.c:866` says the window of 23 scratch registers "comfortably exceeds" what the heaviest instruction, a
  switch with its nine, needs. Each of its edges that makes moves takes two more (line 2097) and none is given
  back, as often as cases share a target. In a function that uses all registers for values a table is refused from eight such edges
  on (seven if the condition is spilled or a constant), a chain from eleven. With fewer
  values in registers the window is larger.
* `cvm_float64_rt.c:78` says the seed of the square root is within a factor of sqrt(2). It is up to a factor of 2
  too small: the exponent is halved downwards and the mantissa dropped. The comment goes on that five steps reach
  2^-53 and the sixth is margin. From the error of 1/2 it names, five reach 2^-49.7: the sixth is needed.
* `cvm_float64.h:34` says subnormal numbers are treated as zero on input. `cvm_d_iszero` takes only the two
  zeros for zero. A subnormal plus 0 is returned as it is, comparisons order it apart from 0, and sums with other
  numbers, products and quotients give it the leading 1 of a normal number (line 345).
* `include/cvm.h:526` says `cvm_peek_section` returns -1 for a malformed file. It compares the size of BSS, RESERVE
  and STACK, which have no payload, with the length of the file (`cvm.c:266`), and returns -1 for those of a good
  one.
* `cvm.c:407` says rounding the sizes of regions makes their addresses aligned. Their start,
  `data_size + bss_size` (line 551), is not rounded, and the writer does not pad DATA.
* `docs/memory.md:163` says `cvm_malloc(uint32_t)` returns NULL if there is no space. It takes an
  `int`, and near `INT_MAX` the rounding or the sum with header and footer overflows to a negative number: the caller gets a small
  block.
* `translator.c:317` calls the chain of landing pads thread-local. It is one global that all
  coroutines share, and a swap inside a scope mixes their frames.
* `cvm_float64.h:27` says that sums are "within 1 ULP of IEEE". The smaller operand is aligned without
  guard bits (line 357), so a difference that cancels is off by more: 1 - (1 - 2^-53) gives twice the exact
  result. `SumsBounded` states the bound that holds.
* Six places of the translator rely on narrow operands being zero-extended. They are not: `cg_reg_for`
  sign-extends constants (`translator.c:1412`), and arithmetic leaves what it leaves (line 4912 says so). TLC
  finds each when its name is taken out of `Granted`.
  * `translator.c:7302` says that the inputs of a narrow `uadd.sat` are zero-extended, and masks neither
    (`uadd.sat`); nor does `usub.sat` above it. `uadd.sat.i8(x, 200)` is 255 for
    `x` below 56 and `x - 56` from there, `usub.sat.i8(x, 200)` always 0.
  * `translator.c:5271` says "UIToFP is correct as-is" (`uitofp`).
  * `translator.c:7094` says that the operand of a narrow funnel shift must be confined to its bits before it is
    shifted right. `fshl` does so, `fshr` does not (`fshr`).
  * `translator.c:7014` says funnel shifts of 32 bits take the amount modulo 32, and 7023 that the fix-up behind them
    acts when that is 0. It tests the amount itself (line 7121): `fshl(a, b, 32)` is `a | b` (`fsh amount`).
  * `translator.c:3015` says why a narrow source has to be normalised before it becomes the low word of a wide
    one. `zext` to `i65`, above it, does not (`zext i65`).
* `translator.c:2605` says values of 33 to 63 bits are kept sign-extended. Their constants are not
  (`cg_wide_const_words`, line 2819): a negative one compares unequal to the same value computed.
* `docs/isa.md:326` and `include/cvm.h:122` say a CALL past the bottom of the *stack region* is an
  overflow. The code compares SP with 4, the bottom of the *memory*: a deep recursion first
  overwrites the cart's RESERVE, ROM, BSS and DATA.
* `cvm_float64_rt.c:60` says the conversion of a 64-bit integer gives "a SINGLE correctly-rounded 64-bit
  result". It ends in `cvm_d_add`, which truncates: so does the conversion (`ConversionsExact`).
* `translator.c:4777` says an alloca's address is computed in the prologue and held for the whole
  function. Its register is chosen when pre-allocation reaches it (line 3402), perhaps from the pool: a value
  of the entry block that stands in front of the alloca and dies before it has the same register, and
  overwrites the address. Only an alloca behind other instructions is affected; front ends put allocas first
  (`AllocasFirst`).
* `translator.c:529` and 7842 say that odd FUNCS slots trap if called by mistake. They hold 0, which is the
  first instruction of the program; CALLR refuses only slot 0 and indexes out of range (`cvm.c:1443`).
* `cvm_int64_rt.c:16` defines the quotient of a division by zero as all ones. `sdiv64` negates it when the
  dividend is negative, which makes it 1.

## 4. What is proved

Every theorem holds for every value of the constants that satisfies the named assumptions,
and for runs of any length; `PROJECT.json` lists them.

### Interpreter (`CvmExecProofs`)

For every `ByteBase >= 4`, every set of carts that satisfy `IsCart`, every input and any
number of runs: `TypeCorrect` (`Spec => []TypeOK`) and `SandboxHolds` (`Spec => []Sandboxed`). No run checks `TypeOK`:
a register is an `int32_t` and cannot hold anything else, and the theorem is there for the proof of the other.

*Assumptions*: `CartsAssumption` (every cart meets the loader's contract; that the loader
establishes it is the theorem `LoadedCarts` below), `InputsAssumption`, `AluAssumption`
(integer instructions yield words) and `ByteBaseAssumption`.

*The argument.* `Sandboxed` speaks of the indexes the last step used, so it is not
inductive alone: that `pc` is inside the code is checked at each dispatch, but that the
memory still has `memSize` bytes, that registers are words (so that `addr <= memSize`
and `memSize - addr >= n` bound the whole span) and that `func_offsets` entries are pcs
comes from the type invariant. The inductive invariant is the conjunction
`TypeOK /\ Sandboxed`. There is one lemma per action, and lemmas for what they share:
reading and writing little-endian words keeps types, a span that passed `InBounds` lies in
the memory, `Go` with well-typed arguments keeps the invariant and so does a trap or the
end of a run.

### Calls and coroutines (`CvmControlProofs`)

* `CallsNest` (`HaveStacks => (Spec /\ [][LeavesStack]_vars => CallsAreNested)`): CALL, CALLR and RET
  implement `CallStack`.
* `SwapsResumed` (`Spec /\ [][KeepsRecords]_vars => SwapsResume`): CORO_SWAP implements `Coroutines`.
* `OneRuns` (`Spec /\ [][KeepsRecords]_vars => []OneRunning`).

*Assumptions*: those of the interpreter, and `RecordsAssumption` (the records of the coroutines do not overlap, nor do
their stacks). *Hypotheses*: the stack and the records are words of the memory, which a program may write as it
pleases; the theorems are about programs that leave them alone. `LeavesStack` and `KeepsRecords` say so of each
step, in terms of the instruction about to be executed; they constrain the program and its data, not what the instructions
CALL, CALLR, RET and CORO_SWAP do. `HaveStacks`: an image without a stack has no sentinel. The carts of the runs `calls` and
`coro` satisfy them: TLC finds `[][LeavesStack]_vars` and `[][KeepsRecords]_vars` to hold there.

*The argument.* For calls the invariant is `Framed`: SP is a multiple of a word below the top of the memory, the topmost word is the
sentinel and each word between is a return address that fits in the code. `TypeOK` is needed beside it, so
that SP and the addresses are words and nothing wraps. CALL writes the word below SP, which is outside of what `Framed`
speaks of; RET reads the one at SP: a return address if there is a frame, the sentinel if there is none. That
Frames' is Frames with one more or one less is an equality of sequences of words read little-endian. A RET never traps.
For coroutines it is `Scheduled`: the running coroutine is the one whose stack SP is in, and is marked RUNNING or is main
before its first swap; every other record is FRESH with the pc and sp of its entry, DEAD, or SUSPENDED with a
pc and sp in range. CORO_SWAP reads the record of `to`, writes that of `from` and
then the status of `to`; that neither write disturbs another record is `RecordsAssumption`, that the pc and sp it read are those of a
place the coroutine left or starts at is `Scheduled`.

### Loader (`CvmLoaderProofs`)

For every set of files, every allocation that fails and any number of loads:

* `TypeCorrect`, and `BlocksHeld` (`[]BlocksOwned`): on every exit the loader has given back
  what it does not hand over, once and to the allocator it came from;
* `ReadsStayInFile` (`[]ReadsInFile`) and `PeekSeesLoaded` (`[]PeekAgrees`);
* `LoadedLayout` (`[]LayoutSound`) and `LoadedCarts` (`[]LoadedIsCart`).

*Assumptions*: `FilesAssumption` (a file is what its bytes decode to; nothing of its
offsets, sizes and contents is assumed), `HostAssumption`, `ByteBaseAssumption`.

*The argument.* Two invariants are about the bookkeeping: `Typed`, and `Ownership`, which
says for each stage which blocks live. The rest speak of what has been checked, and the loader
checks a thing once and uses it several phases later; the invariant has to carry it. It is
`Loading`, with a layer per phase, each of which holds from its phase to the end of the load:
`TableScanned` (what is recorded of a section is an entry of the table, within the file),
`SectionsChecked` (there is code, the entry is in it, the table of the regions holds its
entries), `RegionsChecked` (names differ, and `region_total` is the sum of the rounded sizes so far), `TotalsChecked` (the totals fit in a word, so that the 32-bit
sums before them cannot have wrapped, see `MAX_U32`), `Copied` (what is in the memory so far).
`IsCart` and `LayoutSound` follow at publication from all five. Where the regions lie, for
example, needs that placing them goes through the same sums as checking them did, and that the areas do
not overlap needs that the totals fit.

### Writer and loader (`CvmWriteBinProofs`)

For every word size and every program that `IsProgram` admits:

* `WrittenBinariesLoad` (`[]WrittenAccepted`): the loader takes what `write_bin` writes, up to the limits named;
* `LoadedAsWritten` (`[]LoadsAsWritten`): what it loads is what the numbers of the translator stand for.

*Assumptions*: `ProgramsAssumption`, and those of the loader.

*The argument.* The two sides count the same things separately. The writer has its cursors: `AddressSteps`, `NameSteps` and
`RegionSteps` give them as sums that only grow, so that globals are aligned and apart (`GlobalsApart`) and names lie in
their payload (`NamesFit`). `WrittenTable` says of the section table that each type is in it once, with its size,
at the place where the payload was written: the sums of 32 bits do not wrap, since each is part of a file that is not larger than a word says.
`SizesLoaded` and `TotalsLoaded` take this to the locals of the loader, which the layers of `Loading` tie to the table, and
from there each check of the loader is passed (`Accepts*`, one lemma per list of checks). `Accepted` is inductive
because a check of the table looks at the types seen before (`SeenRead`).
After the load, `ImageLoaded` and `FuncsLoaded` say that the image is what the locals and the file say; a byte of a
global is then a byte of its serialized initialiser (`GlobalLoaded`), four digits of it are the word of a pointer (`ReadsWord`), and the
word is an address of another global or a slot, both of which fit in a word because they lie below the size of the memory and
of FUNCS.

The attempt to prove `WrittenAccepted` showed that its first form was false: it left out the regions and imports that exceed
a limit. The property now says so, and the run has a program for each.

### Allocator (`CvmAllocProofs`)

For every heap region and every program:

* `TypeCorrect`, `Tiled` (`[]BlocksTile`), `FreeListHolds` (`[]FreeListExact`);
* `PromiseKept`: the allocator implements `Arena` (`Spec => KeepsPromise`).

*Assumptions*: `RegionAssumption`, `ByteBaseAssumption`. *Hypothesis*: `NoOverflow`, that no
request is so large that adding a header and footer to it and rounding wraps in `int`. Without it
the theorems would be false: `cvm_malloc` then returns a block smaller than was asked for (see the list of
disagreements above, `docs/memory.md:163`, and a request of 127 among those of `alloc`).

*The argument.* The state of the allocator is the words of the memory. `AllocInv` says that
there *is* a set of blocks `B` with `Tiles` (headers and footers agree, and each block ends where the next begins), `FreeList`
(the words of the links describe a list of exactly the free ones, ended by NULL in both
directions), `Merged` (no two free neighbours) and `Held` (the blocks not free are the ones handed
out, with room for what was asked). None of these is inductive alone. `cvm_free` reads the footer
in front of the block and the header behind it, so `Tiled` needs headers and footers; it takes a neighbour off
the list by its own links, so the list needs to be doubly linked and to hold that
neighbour; that it need look at only one neighbour on either side is `Merged`; and that a program's writes into its own
blocks touch none of this is `Held`. The first part of the module has what each operation does
to the words: the two structures share the memory, so each lemma on one says which words of the other
it leaves alone.

The list and the tiling are followed by recursive functions (`Chain`, `BlockAt`); that the walk
along the list ends, and meets each free block once, is an induction. See `NatLemmas` below.

### Exceptions (`CvmEhProofs`)

For every set of types, scopes, coroutines and objects and every program over them:

* `TypeCorrect`;
* `ChainHolds` (`[]ChainExact`), for programs that swap no coroutine inside a scope
  (`~SwapsInScopes`);
* `CountsHold` (`[]CountsHandlers`), for those that moreover have no two exceptions in flight
  at once (`~Overlaps`);
* `TypeMatches`: `eh_type_matches` says yes exactly if the thrown type has a public base of the type
  of the clause, in every hierarchy without virtual bases;
* `HandledAsPromised`: the runtime implements `Exceptions` (`Spec => HandlesExceptions`), for programs that
  moreover have no base class at an offset (`NoOffsets`).

*Assumptions*: `CartAssumption`, and `HierarchyAssumption` (inheritance has no cycle). *Hypotheses*: each stands for
something the code does not do, and is no stronger than that. The chain of
landing pads is one global, so a coroutine swapped in inside a `try` finds the pads of another; a throw out of
a handler counts down the wrong exception (`eh_overlap`); `__cxa_begin_catch` does not adjust
the pointer to a base (`eh_subobject`). Programs with single inheritance that catch what they throw before they throw again
satisfy all three.

*The argument.* The invariant `Holds` has four parts. `Chained`: while the program runs, the
frames reached from `g_eh_top` are those of the activations that wait for a call inside a scope, inner
first, each with the scopes it had when its call was made; while the runtime unwinds, they are those from some
depth on, and no frame before has a clause for the exception. The second half is why
`ChainExact` is not inductive: where a `longjmp` leads depends on what the walk has passed. `Counts`: there is one exception at most,
every handler is of it, and its count is the number of handlers, negated while it is in flight.
`Landing`: what a landing pad reads in `g_eh_sel` is still what the walk found for its
scopes. `Typed` includes what activations and frames consist of.

The refinement mapping (`Seen`, `Flying`, `Living`) forgets the chain, the selector and the counts: it keeps
the scopes of each activation, that an activation is at its landing pad, which exception is in flight and which ones exist.
Each action of the runtime is an action of `Exceptions` or a stutter (one lemma each, collected in `StepMaps`);
that `__cvm_eh_resume` goes to the handler C++ names is `TypeMatches` and the first half of `Chained`, that an
object is destroyed with its last handler is `Counts`.

### Software arithmetic (`CvmSoftProofs`)

For every width of a word, every format of doubles and all operands, subnormal doubles included:

* `IntegersReturned` (`[]IntegersExact`), `DivisionsKeep` (`[]DivisionInvariant`),
  `ComparisonsNumeric` (`[]OrderNumeric`), `ProductsAreTruncated` (`[]ProductsTruncated`),
  `QuotientsAreNearest` (`[]QuotientsNearest`), `SumsAreBounded` (`[]SumsBounded`),
  `ConversionsAreExact` (`[]ConversionsExact`).

*Assumptions*: `BitsAssumption` (a word has two bits or more) and `OperandsAssumption` (operands are pairs of words; an
exponent leaves at least one bit to the mantissa in the upper word). 32 and 11 are one case.

*The argument.* A pair of words is its value `lo + 2^Bits * hi`. Each integer function comes down to what crosses the middle: a carry (a sum
that wraps is smaller than its summand), a borrow, or the digits a shift moves, each of which is the quotient or the
remainder of a division by a word or a power of two. The results of the divisions come from their loops: `IntegersExact` is not inductive, `SoftInv` adds `Dividing`,
the equation of `DivisionInvariant` with the types of the quotient and remainder so far and the index in range, and at index -1 the equation
is the quotient and the remainder of the whole. `LoopsInv` has the same for doubles (`FDividing`), where the equation is in powers of
the bits taken. The remainder is shifted before it is compared with the
divisor. That no bit is lost follows from the equation: twice the remainder and the next bit are part of the dividend
taken, which has two words at most, however large the divisor; a significand has its top bits free. For a divisor of 0 the
loop finds all ones and the dividend, which is an invariant of its own.
A comparison is one of sign and magnitude. A product of significands is sixteen steps of adding words and counting carries: `ProductIs`
shows that the three upper words are those of the exact product, `ProductBits` that its top bit is one of two, which `extra` tells,
and `ThreeShifted` that the two words taken out of three are the product divided by the power of two.
A quotient of doubles comes from the equation of its loop at the last index, where it has one bit more than the mantissa:
that bit, `g`, and the remainder `k` of the loop say on which side of the half the exact remainder is, since twice it is
`g` times the divisor plus `k` (`GuardBit`). `RoundIs` takes `cvm_d_div_round_rne` from there: counting up carries into the
upper word or not, and if it fills the significand it is the next power of two (`UpperWord`). The exponent needs `Adjusted`
beside the invariants of the loop: the loop was entered, and `adjust` is -1 if the dividend's significand was the smaller one.
A sum aligns the significand of the smaller operand: `AlignedIs` is the quotient by a power of two, 0 past the width of a
significand (`LargerExponent`, `AlignedBelow`). A sum of one sign then has one bit more at most (`AddedIs`), and a quotient of
a quotient is one (`SameSignsIs`); a difference is shifted up by the position of its leading bit (`LeadingIs`, `SubtractedIs`), and the
digits of the smaller operand that were cut are what it may be too large by.
A double `Scaled` from a word is the word times a power of two: its integer part is the word again (`CutAt`, `IntegerPartIs`).
A 64-bit integer goes through two products with powers of two, which only move the exponent (`MulUnit`, from `MulIs`), and a
sum without a carry (`AddBelow`, from `AddIs`); both words together are the number, cut to the mantissa (`FromBothIs`). That the
intermediate exponents stay in range is what the assumption on `Bias` in `Supports` is needed for; the format of the code meets it.

Powers of two are reached by `Powers` and `PowerSum` of `NatLemmas`: the provers know nothing of exponentiation with a variable
exponent, so that `2^(n+1) = 2 * 2^n` is derived from the number of subsets of a finite set.

### Induction

The theorems of the library on induction take an operator as a parameter, which the installed provers cannot
instantiate. `NatLemmas` has induction in a form they can use: a *set* of numbers that holds 0 and
with each number the next is all of them (`NatInd`, and `UpTo` below a bound), derived from the
well-foundedness of inclusion on finite sets. A recursive *function* on a range of numbers, or on types by their rank, is reached by it:
the walk along the free list, the blocks of the heap, the search through base classes, the
flattening of the scopes of an activation to clauses. RECURSIVE operators are not.

### Only model-checked

* The refinement of `Ssa`, and the phases of the translator, whose properties speak of folds over the function translated;
  the selection of instructions, whose module uses Bitwise.
* Of the arithmetic: `SqrtConverges`, for mantissas of 8 and 10 bits. Of the loader: `RegionsAligned`.
* Liveness: `RunsEnd` and `TranslationEnds`. Liveness under fairness and ENABLED are out of the prover's reach.

## 5. What is not modelled

* Host handlers that start another run on the same image (`cvm_call` from a syscall).
  The model has one run at a time.
* What a handler does to registers other than R[0]: it gets the whole register file in C;
  the documented convention is R[0].
* The values of float instructions; formatting and logging; the profiler and the
  diagnostic build.
* NULL arguments of the API, and a build with `CVM_NO_STDLIB_FALLBACK` and no allocator (every allocation
  fails, which `loader` covers).
* An allocator with only one of its two functions set.
* Freeing a pointer that is not a live block: undefined for `cvm_free`.
* Virtual base classes in the search of a handler, and a `throw;` outside of every handler.
* A second import of one name (`cvm_link` binds the first only, `cvm.c:631`); the sign of the
  offset `builtin_sys_get_region` returns (`cvm.c:187`).
* Of the translator: the passes of LLVM before it; the choice of instructions for floats, addresses, aggregates and
  vectors, the other intrinsics, loads and stores of `i64`; where values wider
  than a word (`i64`, `double`, aggregates, vectors) are kept, which is in slots only; arguments on the stack and
  the moves of SP; undefined sources of phis, which make no move; constructors. Operations are
  opaque in `translate`: what they compute is the subject of `select`, and of `soft` for those that are calls. That a call
  names the right function is not shown.
* Of the software arithmetic: AND, OR, XOR and NOT (word by word).
* Of the C++ runtime: guards of local statics, `dynamic_cast`, operator new, the library classes.
* The redzone table of the diagnostic build and the checksum of the seal (what it covers is in `LoadsAsWritten`).
* The components marked `not_modelled` in `PROJECT.json`.

## 6. Plan

Done: CvmWord, CvmImage, CvmAlu, CvmExec, CvmCalls, CvmCoro, CvmLoader, CvmAlloc, CvmEh, the writer
(CvmWriteBin), the code generator (CgSelect, SsaFn to CvmTranslate) and the arithmetic (CvmInt64, CvmFloat64, CvmSoft), their
abstract specifications and runs, and the theorems on the interpreter, its calls and coroutines, the loader and the writer, the
allocator, the exceptions and the arithmetic. In this order, next:

1. **CgRelax**: a relaxed branch stays relaxed and the passes end. **CgPhi**: a copy step keeps every value somewhere.
2. **CvmNested**: re-entrant runs from a syscall handler over `CallStack`; **Redzones** against a map; the
   seal check.
3. **CvmEh**, the rest: virtual bases, guards of local statics, `dynamic_cast`.
4. **CgEmit**, the rest: values of two words and arguments on the stack; selection for addresses and aggregates.
