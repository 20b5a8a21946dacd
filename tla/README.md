# Formal models of the lbt toolchain for Cpu0

`lbt` is a book about an LLVM toolchain for the teaching processor Cpu0, with the
code of its tools: linker support, an ELF-to-Verilog converter, a disassembler,
an interrupt runtime, library ports and several experiments with clang. This
directory holds TLA+ models of the parts with a behaviour of their own, their TLC
configurations, and proofs for TLAPS.

## 1. Inventory

A program's way to the machine:

    clang/llc (upstream) -> ld.lld + Cpu0.cpp -> elf2hex -> cpu0.hex -> $readmemh -> cpu0.v
                                                                        interrupts: debug.cpp
    llvm-objdump -d -> filterhex -> dishex

| Component | State | Operations | Hard behaviour |
|---|---|---|---|
| **elf2hex** (`exlbt/elf2hex`) | the position in the text it writes (implicit), `lastDumpAddr`, the global vector `Symbols`, `si`, `Index` | one file after another; per section: fill the gap, dump data, or dump text symbol by symbol | the position and `lastDumpAddr` must never part; global state survives from section to section and file to file; exits in the middle |
| **lld's Cpu0 target** (`exlbt/lld/ELF/Arch/Cpu0.cpp`) | the words of the program | `relocate` for 32, HI16, LO16, PC24 | widths, missing range checks |
| **boot vectors** (`PrintBootSection`) | 16 bytes | four jumps, two byte orders | offsets relative to the next instruction, 24 bits |
| **interrupt runtime** (`exlbt/input/debug.cpp`) | registers, `$sw`, `$epc`, one fixed save area | `ISR`, `ISR_Handler`, `int_sim` | interrupts at any instruction; enabling before restoring; a register nobody saves |
| **dishex** (`exlbt/dishex`) | the current line, `eof()` | read, check, disassemble, next file | end of file before the last line is used; errors that exit |
| **filterhex** (`exlbt/filterhex`) | none but its place in the input | copy the bytes of instructions out of a listing | runs concurrently with dishex over a pipe |
| **printf** (`exlbt/input/sanitizer_printf.cpp`) | a buffer of 1000 bytes, the place in it, the length needed | one conversion after another; print the buffer | sign, padding, zero and the most negative number in one loop; a text longer than the buffer |
| **heap** (`exlbt/libc/avr-libc-1.8.1/libc/stdlib`, compiled for Cpu0 by the build scripts) | `__brkval`, the free list `__flp`, a size in front of each chunk | `malloc`, `calloc`, `realloc`, `free` | splitting, joining and giving back in any order; arithmetic of `size_t`; links and data in the same bytes |
| **vector DSL** (`exlbt/clang-tools/vector-dsl.cpp`) | one global array behind every result, a static object for each operator | `*`, `+`, scalar `*`, `=` | results alias; static objects keep the size of their first call; nothing compares a vector's size with the array's; the order of evaluation is open |
| older printf (`exlbt/input/printf-stdarg*.c`) | a 12-byte buffer | as above, straight to the output | as above |
| old Cpu0 linker (`Fig/lld/.../ELF/Cpu0`) | GOT and PLT tables | a pass over the references | each entry made once |
| clang plugins (`exlbt/clang-tools`) | clang's rewrite buffer | visit and edit the AST | order of edits |
| libgloss, `setjmp.S`, `start.cpp` | a register frame | system calls, non-local return | return addresses |
| clang target, driver, lld and llvm-objdump copies, compiler-rt, the rest of avr-libc, newlib's configure, pocl, RISC-V, polly, scripts, tests, the book | - | - | upstream, vendored, generated or straight-line; see `PROJECT.json` |

What makes each part correct: elf2hex, that `$readmemh` reconstructs the memory
image of the file; the linker and the boot table, that jumps and addresses arrive
as the processor computes them; the interrupt runtime, that the interrupted
program cannot tell and no interrupt is lost or repeated; dishex and filterhex,
that every instruction comes out once, in order, and that both end; printf, that
the text is the one C defines, within the buffer; the heap, that no two blocks
share a byte, that data survives every other call, and that no room is lost for
good; the vector DSL, that an expression has its mathematical value although its
intermediate results share one array.

The hazards, each at its line, are listed in `PROJECT.json`.

## 2. Modules

| Module | Models | Used by |
|---|---|---|
| `LoadImage` | abstract: the hex text grows, byte by byte, into the memory image of a file | refined by `Elf2Hex` |
| `Elf2Hex` | `main`, `Reader::DisassembleObject`, the class `VerilogHex` | `MCElf2Hex`, `Elf2HexProofs` |
| `BootImage` | `CPU0::relocate`, `PrintBootSection`, and the processor that follows the jumps | `MCBootImage`, `BootImageProofs` |
| `Interrupt` | `ISR`, `ISR_Handler`, `int_sim`, the processor and the devices | `MCInterrupt`, `InterruptProofs` |
| `DisHex` | `HexToAsm::run` and its callees, on a stream | `DisHexFiles`, `FilterPipe` |
| `DisHexFiles` | `main` over files | `MCDisHex`, `DisHexFilesProofs` |
| `FilterPipe` | `filterhex` and `dishex` as two processes and a pipe | `MCFilterPipe`, `FilterPipeProofs` |
| `SanPrintf` | `VSNPrintf`, its `Append...` functions and `printf` | `MCSanPrintf`, `SanPrintfProofs` |
| `Allocator` | abstract: a set of blocks, apart from each other, that keep their data | refined by `Malloc` |
| `Malloc` | `malloc`, `calloc`, `realloc`, `free` | `MCMalloc`, `MallocProofs` |
| `VectorDsl` | a program of vector assignments: operators, their loops, the copies | `MCVectorDsl`, `VectorDslProofs` |

Operators marked `(deviation)` are plausible wrong versions of the definition
that follows them. Nothing refers to them; they serve to confirm that each
property fails when the code is changed in that way.

### Elf2Hex

One action per exit of the loops of `DisassembleObject`: `OpenFile` (constructor
of `VerilogHex`: boot section and zeros), `SkipSection` (the two `continue`s),
`DataSection` (`ProcessDataSection`, `PrintDataSection`), `TextSection`
(collection and sorting of symbols), `NextSymbol`/`EndText` (the loop over
symbols), `Instruction`/`EndSymbol` (the loop over instructions,
`ProcessDisAsmInstruction`), `SliceAssert` (the assertion of `ArrayRef::slice`),
`CloseFile`, `Exit`. `pos` is the number of bytes written for the current file;
the program has no such variable, it is what `$readmemh` counts. `mem` records
for each position which byte of which section stands there.

Faithful oddities: the vector of symbols is never cleared; `Contents` in
`ProcessDisAsmInstruction` is never assigned, so `lastDumpAddr` always becomes
the next instruction's address; the branch for `.bss` is dead because `getName`
leaves the name empty; `si` is uninitialised (`StackJunk`); reading behind a
section gives `Junk` or an assertion. The vector is kept as a set because it is
sorted, and of entries with the same offset only the last is dumped.

The names in that vector are `StringRef`s into the buffer of the file they came
from, which is freed when `DumpInput` returns (`elf2hex.cpp:543-556`). `Dangling`
says which names are. Sorting compares the names of equal offsets (469), and the
loop over symbols prints one (296): where such a name is dangling, `SortCrash` or
`NameCrash` may end the program, or it goes on, as the freed memory happens to
be. `NoAbort` says that nothing else than this and an instruction that does not
decode stops elf2hex early, and that this takes a second file.

*Abstract specification.* `LoadImage` knows only a command line and, for each
file, the byte at each address: a step extends the text, and a file is begun
when the one before is complete. `Load == INSTANCE LoadImage WITH cmd <- files,
cur <- fi, n <- pos` is checked as property `LoadSpec`.

`WellFormed` names what elf2hex relies on and never checks: sections in ascending
order, word alignment, a symbol at the start of each text section (or none at
all), and later text sections long enough for the symbols left in the vector. The
repository states this nowhere and has no linker script that would see to it, so it
is an assumption about the linked files. `MCElf2Hex_any` drops it.

With several files the text of the second follows the first with no address
directive in between. The properties are about the text of each file; what the
machine does with the joined text is nowhere stated.

### BootImage

`Relocate` applies the next relocation to its word, in the order of the linker;
`PrintBootSection` writes the boot table from the address of `.text` and of the
symbol `ISR`, or 0; `Start` enters a vector; `Step` executes a word. The processor
is external: a jump counts from the next instruction, with a signed 24-bit
offset; `lui` loads the high half and `ori` adds the low one. Words are the 32
bits read as a signed number, since TLC's integers have no more: an address of
2^31 and up is negative. The value that `relocate` gets is that address extended by
its sign, as lld's common part (not in `src/`) hands it over, so `V >> 16`, or-ed in
without a mask (`Cpu0.cpp:81-84`), brings ones into the opcode. `OpcodesKept` says
that this happens to the `lui` of such an address and to nothing else, and
`AddressFormed` speaks of the addresses below.

### Interrupt

The handler is one action per statement that touches shared state, so that an
interrupt can be taken between any two of them: the message (`Report`), the
overflow flag (`ClearOverflow`) and the source bit (`ClearSource`) are three. A
register is abstracted to whether its value is the program's own. External: the
processor takes an interrupt when IE, I and a source bit are set (`Pending`), saves
the next instruction in `$epc`, and clears IE. The processor is not in this
repository, so a program comes with the machine it runs on: the lines devices
may raise, and whether the processor masks interrupts until `c0mov $pc, $epc`.
`debug.cpp:59` enables interrupts before the registers are restored: without the
mask a device that interrupts there overwrites `$epc` and the only save area.
Both kinds of processor run with devices and without, and the history variable
`nested` remembers that a handler was interrupted. A device may also
interrupt between the two instructions of `int_sim` that pass a bit through `$at`.

What holds is stated as exactly as the code allows. `Transparent`: unless a
handler was interrupted, the saved registers and `$lr` are the program's; `$at`,
which the handler overwrites and nobody saves, holds its own value or the address
of the save area. `EpcInMain`: nesting takes a device, no mask, and the three
statements behind `debug.cpp:59`. `OnlyOthersStranded`: line 55 clears I whatever is
pending, and then a source may wait for ever; it is one that was pending together
with the source served, or was set later than the handler read `$sw` (`late`), never
the one served. The flags that arithmetic leaves in `$sw` are not modelled.

### DisHex, DisHexFiles, FilterPipe

A line is abstracted to what `run` and its callees say of it. A line of a listing
has its text, a sequence of characters, one for each range that the programs tell
apart, and the two checks of it are written out apart, as they are in the two
programs: `CheckInput` is filterhex's, `Accepts` and `HexToBytes` are dishex's, and
`KindOf` says what dishex's loop makes of the text. `DisHex`
models the loop over a stream; `DisHexFiles` feeds it files (one may be missing:
`getline` on a stream that failed to open does not set `eof`, so the loop is
entered with an empty line and exits with an error); `FilterPipe` feeds it from
`filterhex` through a pipe of `PipeMax` lines, with SIGPIPE when dishex is gone.

### SanPrintf

`Directive` is one turn of the loop of `VSNPrintf`: `Appended` computes the
characters that the `Append...` functions hand to `AppendChar`, `AppendChars` keeps
those that fit below `buff_end`, and the result counts all. `Finish` adds the 0 and
prints. A directive is a record of what the loop parses; a numeric argument is its
bits, read as signed or unsigned by the conversion, with the widths of `int` and
`long long` as constants. All checks of the original are empty macros in this
repository, so the domain is stated by `Directives` (a width below `kMaxLen`) and
`IsDirective` instead. The reference, `CText`, is written from the C standard: digits by place
value and one rule for padding, not by the loops of `AppendNumber`.

### Malloc and Allocator

One action for each function, `realloc` split by whether it moves the block
(`malloc`, `memcpy`, `free`). The list is the sequence of chunks a walk from
`__flp` meets, the size fields are a function on the chunks there are; an
operation is a function from a heap `[brk, list, size, wrote]` to a heap, so that
`free` within `realloc` is the same `Freed` as `free` alone. Two variables are
not in the code: `block`, the length the program asked for, and `good`, the bytes
that still hold the program's data. `wrote` collects the bytes an operation
writes: new headers, and the links whose chunk has a new successor (`Touched`), the
predecessor's in the list as well as the inserted chunk's. `realloc(NULL, len)` is
`Malloc`, and `free(NULL)` does nothing and is no step. Sums of
addresses are taken modulo `SizeMod` where the code compares or stores them.
`Limits` are the ends of the heap a call may find, since without
`__malloc_heap_end` it is the stack pointer of the moment.

Faithful oddities: a chunk freed in front of a list that is not empty is not
compared with `__brkval`, which is right because the list's last chunk lies above
it; `realloc` on top of the heap stops one byte below the limit that `malloc`
may reach; `realloc` does not round a length up to a pointer's, which is a finding;
when `realloc` fails, the block stays.

*Abstract specification.* `Allocator` knows blocks by address and length and the
bytes that no longer hold what they held; `Allocate`, `Release` and `Resize`
change one block, leave the others, lose no byte, and end with all blocks apart.
`Promise == INSTANCE Allocator WITH blocks <- ..., lost <- BlockBytes \ good` is
checked as property `KeepsBlocks`: a link or header written over data, a copy
that is too short or comes too late would show as a lost byte.

### VectorDsl

A statement assigns an expression: a sequence of operators, each with operands
that are vectors or results before it. `Enter` calls an operator whose operands
are there, in an order C++ leaves open (`Ready`); its static object is made in
the first call and keeps that call's size; the assertion on sizes may abort.
`Loop` is one turn of the RVV or scalar loop for as many elements as `vsetvl`
grants, `Return` ends it, `Assign` copies the object - the array `t` and the
size, not the elements. `Meaning` and `Means` evaluate the same program with a
value of its own for every result. `ChainsRight` names the expressions for which
the two agree, chains in which each operator takes the result before it; `main`
is one. Two results needed at once (`(B*C)+(C*B)`) do not agree, nor does a
vector that is read after a later statement has reused `t`.

Nothing compares the size of a vector with that of `t`. A loop over a longer one
goes on behind the end of `t`, into the array of the vector `Behind`, which an
implementation may have placed there; what lies further behind is not kept.
`AllFit` says that no vector is longer. `InBounds` holds without it for the arrays
of the vectors, and for `t` says that it is left only if a vector is longer;
`ChainsRight` and `OperandsKept` need it, since a longer vector changes what its
neighbour holds.

## 3. Runs

| Run | Question | Bounds |
|---|---|---|
| `MCElf2Hex` | Is the text of a well-formed file its memory image, complete, with `lastDumpAddr` right all the way, and does elf2hex refine `LoadImage` and end? | one file of three sections: text of 8 or 12 bytes at two addresses with five symbol tables, data of 0, 1, 4 or 6 bytes, a tail of data, bss, text or a section below 0x100; an instruction that does not decode; and two files of one and two sections, of which the second may crash over the first's freed names. 64 observed bytes; base 20 instead of 0x100 |
| `MCElf2Hex_any` | What is left when sections overlap, descend, are unaligned, or meet foreign symbols? | 8- and 9-byte texts, odd offsets, data of 1, 4 and 5 bytes at unaligned addresses |
| `MCElf2Hex_stale` | a statement of a comment that the code does not keep | one file |
| `MCBootImage` | Do branches, addresses and vectors arrive? | two relocated halves, two branches, a data word; `.text` at 0x100, inside, and at 8 MB; distances on both sides of the 24-bit reach; variables on both sides of a low half of 2^15 and in the upper half of the 32 bits; both byte orders; with, without and with two `ISR` symbols |
| `MCInterrupt` | Do the repository's programs print what `lld.rst:274-279` and `:328` say, wherever other work lies between their instructions, and what do device interrupts at any point, in the handler too, leave of a program and of each other? | `int_sim`, alone, twice in a row and with work at each place, and two overflows; four programs with two devices and four interrupts, one that sets a source without I, one that passes a bit through `$at`; all on both kinds of processor |
| `MCDisHex_files` | Is dishex's output and exit a function of the files' lines? | two files of up to 3 and 1 lines of five kinds, with and without last newline, a missing file |
| `MCFilterPipe` | Is anything lost, reordered or refused between filterhex and dishex, and do both end? | listings of up to three lines of every sort (no bytes, eight digits in each spelling, nothing, seven digits, nine, another character, a comment, `quit`), and of four whose text is found; a pipe of two |
| `MCSanPrintf` | Does every supported conversion come out as C has it, however little room is left? | integers of 8 bits and 10 bits (`ll`), zero, the largest, the most negative and -3 among them; widths 0 to 6, precisions, both justifications; each conversion alone and three in a row in 9 places |
| `MCSanPrintf_left` | the statement that numbers can be left justified | the same formats |
| `MCMalloc` | Does any sequence of calls break the heap, a block, or lose room, and does the heap implement `Allocator`? | a `size_t` and links of 2 bytes, addresses below 64, a heap from 4 to 20 or to 26 as the stack allows; `malloc` of 0, 3, 6 and two lengths whose sums wrap, `calloc` of 2 times 2, `realloc` to 2, 5, 9 and nearly the whole range |
| `MCMalloc_room` | a statement of a comment that the code does not keep | as above, `realloc` to 0, 1 and 3 |
| `MCVectorDsl` | Do expressions have their value although results share an array, whatever is evaluated first and however many elements `vsetvl` grants? | `main`; a program that updates a vector; one statement of up to three operators and a second of one, over three vectors of 3 elements, and of 6, where `t` has 4; and vectors of 1 to 6 elements in one program, one of which lies behind `t`. Grants of 1 or 2 elements, numbers below 31 |

Why the bounds are enough: the three section kinds with gaps of zero, less than a
word and several words meet in each order; a symbol table of three entries has a
first, a middle and a last symbol and a shared offset; two files are the smallest
number that leaves something in the vector. In `Interrupt`, four raises are two of
each line, and an interrupt can meet each of the handler's thirteen steps; two are
enough to interrupt a handler that was itself entered for one. A pipe
that is shorter than the listing makes filterhex wait. The heap of `MCMalloc`
holds up to five chunks: enough for a free chunk with neighbours above and below,
for two free chunks that a third joins, for a best fit among two and for a block
that must move. Vectors of three elements need two turns of a loop of two, and
three operators are the fewest in which a result is read after another operator
has run.

The violated properties are findings, with the text they contradict
(`PROJECT.json`): the stale vector of symbols (`elf2hex.cpp:485`), the
left-justified 0 (`lib.rst:718`), which loses its digit, and the chunk that
`realloc` leaves without room for a link (`malloc.c:74`). `Rendered` leaves the 0
out, and a precision on a right-justified string, which the list of supported
formats lacks and which counts the blanks in front (`sanitizer_printf.cpp:135`).
Two more oddities are part of the models and listed among the hazards: the
uninitialised `si` (`elf2hex.cpp:293`), and dishex's last line without a newline,
which is read and not looked at (`dishex.cpp:142`).

## 4. Fairness

elf2hex, dishex and filterhex are processes that the operating system runs:
`WF_vars(Next)`, one condition for each process of `FilterPipe`. In `Interrupt`
only the processor is fair; devices need not raise anything. In `BootImage` tools
and processor run to their ends. `Malloc`, `SanPrintf` and `VectorDsl` are
sequential; only safety is stated of them, and a program may stop calling. No
property needs strong fairness.

## 5. Proofs

Every safety property that a passing run checks is proved here for all values of
the constants, both refinements among them.

`Elf2HexProofs`
: `TypeCorrect`: `Spec => []TypeOK`, for any input files. `TypeOK` does not say that the command
  line stays the same, which the symbols of a section need; `TypeInv` adds it.
: `WordsStayWhole`, `NamesAtSymbols` and `DataStaysTogether`, for any input files, as in
  `MCElf2Hex_any`. `DataInOnePiece` speaks of the end of a file; `PieceInv` says it of
  each section already passed, and of those to come that none of their bytes was
  written.
: `KeepsStep`: if all inputs are well formed, `Spec => []InStep`. `pos = last` is not inductive:
  whether a section starts behind `last`, and whether the last instruction of a
  symbol ends where the next begins, depends on the sections passed, on the
  symbols in the vector and on alignment. `StepInv` adds these: every symbol comes
  from a section visited (`SymbolsInv`), `last` is at most the address of the
  next section (`SectionInv`), and inside a text section `last` is the address of
  the current offset (`TextInv`, `SymbolInv`, `InsnInv`). `AbortsOnBadOnly`
  (`NoAbort`) follows from it: `SliceAssert` cannot happen, and what else stops elf2hex
  is an instruction that does not decode or, with several files, a freed name.
: `TextIsImage` and `AllIsWritten` (`ImageRight`, `NothingLost`), for well-formed inputs.
  `ImageInv` adds to `StepInv` that `mem` is the image of the file up to `pos` and
  nothing behind it, and that every dumped section passed ends at or before `pos`
  (`Behind`). That one section at most covers an address makes the byte written
  the byte of the image.
: `LoadsImage`: under the same condition `Spec => LoadSpec`, the refinement of `LoadImage`. Each
  step that writes maps to `BeginFile` or to an extension of the text by bytes of
  the image, every other step to a stutter.
: `LoopsAdvance`: `[][Advances]_vars`, for any input files. Files, sections, symbols and bytes
  that are left count lexicographically; each step lowers one and keeps those before
  it, also where bytes do not decode or symbols overlap, so no loop of
  `DisassembleObject` goes round without advancing.

`InterruptProofs`
: `TypeCorrect` and `NoneSpurious`, without a condition: also on machines that nest interrupts a
  source is reported at most as often as it was set. The invariant adds up, for
  each source, its reports and the bit that is still pending (`Owed`).
: `InterruptsTransparent`, `ReturnsToProgram` and `NoneStranded` (`Transparent`, `EpcInMain`,
  `OnlyOthersStranded`): for all programs, machines, devices and numbers of
  interrupts, without a condition; that no handler was interrupted is part of the
  first two properties, not of the theorems. The invariant `SavedInv` says, for
  each step of the handler, which registers are still in place and which are in
  the save area, and that a program without devices finds I set until line 55 and
  clear behind it, so that nothing interrupts its handler. `LateInv` follows the
  sources from where `$sw` is read to where I is cleared.
: `ReportsInOrder`: if every program without devices sets IE, I and the bit in `$at`
  before it causes an interrupt (`AllDisciplined`, as `int_sim` does),
  `[]ExpectedOutput`. The invariant says that what is printed is the sequence of
  causes passed, less the one that is pending or being handled.

`BootImageProofs`
: `AlwaysInRange`, `BranchesGoHome` and `OperationsStay` (`TypeOK`, `BranchesLand`, `OpcodesKept`): for
  all programs, from the invariant `Patched` (an applied relocation left its
  result, and each word is patched at most once) and arithmetic on one word, for
  addresses of all 32 bits. Moduli stay symbolic in the proofs.
: `VectorsGoHome`: the action property `VectorsLead`, for all programs and both byte orders, and
  for the first `ISR` of the symbol table if there are several: the four bytes of a vector, read back in the processor's order, are the jump that
  was printed.
: `AddressesForm`: `[]AddressFormed`, if programs load addresses in pairs (`LoadsInPairs`): an
  `ori` with a low half follows the `lui` with the high half of the same symbol,
  and no jump of the linked program leads between the two or behind them.
  `LoadInv` says that the register holds the high half at the `ori` and the
  address behind it. It is about addresses below 2^31, as the property is. Without the condition the property is false: a jump to
  the `ori` finds any value in the register.

`FilterPipeProofs`
: `PipeKeepsOrder` and `NeverRefused` (`AllInOrder`, `FormatAccepted`), for every listing and size
  of the pipe, without a condition. `NeverRefused` rests on the agreement of the two checks,
  `CheckInput` against `Accepts` and `HexToBytes`, for a text of any length. The
  invariant `PInv` gives each line in dishex,
  in the pipe and in filterhex its rank among the instructions of the listing, and
  counts them (`Counted`, `Ordered`): nothing is between the last printed and the
  next, whatever the interleaving.
: `NeverBothWait` and `EachStepIsWork`, what lies behind `BothEnd` without fairness: unless
  both have ended, one of the two processes can take a step, and each step lowers
  a number, `Work`.

`MallocProofs`
: `ChunksTile`: `Spec => []Tiled`, for every start and end of the heap, size of
  pointer and lengths. `Tiled` alone is not inductive, because the operations find
  chunks through the list. `IInv == Sound(Heap, InUse)` adds that sizes are in
  range (`Chunky`), that a chunk is in use or on the list and on it once
  (`Lists`), and is stated of a heap and a set of chunks in use rather than of the
  state, so that one lemma for `Freed` serves `free` and both uses within
  `realloc`. Below it, `Tiles` is a statement about a function of sizes, with one
  lemma for each way the sizes change: cut, merge, grow at the end, lower the end.
  The list need not be sorted for this. It assumes `SaneReLens`: `realloc` is
  asked for no less than a pointer (the finding) and for no more than
  `SizeMod-W-1`, beyond which the address `ptr + len` may wrap without the test at
  `realloc.c:60` noticing.
: `FreeJoinsAll`, `WholeHeapAgain` and `FailsWhenFull` (`Coalesced`, `AllGivenBack`, `FailsOnlyWhenFull`),
  under `SaneReLens`. `OInv == Neat(Heap, InUse)` adds to `IInv` that the list
  ascends and that no free chunk touches another or the end of the heap. It
  explains why `free` may stop after one comparison upward and one downward, and
  why a new head of the list need not be compared with `__brkval`.
: `TypeCorrect` and `NoOverlap`: `[]TypeOK`, and no two blocks share a byte, as long as the
  program keeps both conditions, `SaneReLens` and `SaneArrays`; with a `realloc` near the
  end of `size_t` or a truncated `calloc`, blocks do overlap. `BInv` adds
  to `IInv` that each chunk in use is as large as what was asked for (`Held`), for
  which each operation must leave the sizes of the other chunks in use alone. `SaneArrays`
  says that no product of `calloc` is truncated.
: `HeapKeepsBlocks`: under both conditions `Spec => KeepsBlocks`, the refinement of `Allocator`.
  `Whole` says that the bytes of every block still hold the program's data. It
  rests on what each operation writes: `malloc` the header of the chunk it gives,
  `free` a link into the chunk it takes, `realloc` bytes of its own chunk or the one
  above, behind what the block keeps; and in a move, on the order of copying
  and freeing. `NextShows` then maps each call to `Allocate`, `Release`, `Resize`
  or a stutter.

`VectorDslProofs`
: `LoopsStayInside` and `OperandsStay`: for all programs, sizes and grants, `[]InBounds`, with
  `t` left only in a program that has a vector longer than `t`; and where none has,
  no operator changes a vector that was never assigned. The invariant says that a
  static object that was made has a size of `Sizes` (`ResInv`), which are those up to
  `t`'s if all vectors fit, that sizes fit their arrays and unassigned vectors own
  theirs (`VecInv`), that inside a loop the place and what is left make up the
  operands' size (`LoopInv`), and which places there are (`PlacesInv`).
  `ChainsMean`: `[]ChainsRight`. `CInv` says what the one array `t` holds: between
  statements the vector assigned last (`RestInv`), between the operators of a chain
  the value of the last (`RunInv`), in a loop that of the running operator behind
  its place and what the loop found from there on (`LoopAt`), which is why a loop
  may overwrite its own operand. `Meaning` and `Means` are recursive functions;
  that they have values for every expression is shown by taking a least
  counterexample (`EvaluatesExists`, `MeansExists`, `MeansAgree`), with `ops` and
  `stmts` arbitrary.

`DisHexFilesProofs`
: `FilesRight`: `[]OutputRight`, for every list of files. `OutputRight` speaks of the
  end only and of one flattened sequence; `Inv` says where dishex is: `n` files were
  opened and `p` lines of the last dealt with (`Within`), none of which stops the
  file (`Clean`), and `out` is the output of the files before and the instructions
  of these lines. What is left of a file is `Rest`, which relates the end of the
  stream that `getline` notices to the lines the loop gets to see (`Seen`).
  `FlattenSeq` is a recursive function; `FlattenMore`, one more text at its end, is
  shown by a least counterexample.
: `EachStepAdvances`: `[][Advances]_vars`, for every list of files: each step leaves fewer files
  to open or less to read of the open one.

`SanPrintfProofs`
: `PrintfTypes` and `PrintfRendered`: `[]TypeOK` and `[]Rendered`, for every length of the
  buffer, every modulus of `int` and of `long long` and every format of supported
  directives. The invariant is `Rendered` itself with the types of the texts; the
  work is in the operators, `CText(d)` against `Appended(d)`. `NumBufferDigits`
  gives the digits that the `do` loop collects in closed form, by place value
  (`Power`), and `SizeUnique` shows that their number is the `CSize` which the
  reference only chooses. `PaddedParts` takes the sequence that `AppendNumber` pads
  with zeros and prints apart into blanks, sign, zeros and digits, where `NumBuffer`
  of a number above 0 ends in a digit above 0 (`TopDigit`) and the number 0 is a
  case of its own (`PaddedZero`); `NumberText` and `StringText` compare the parts
  with C's. `PrefixMore` says that text cut to the buffer piece by piece is the
  whole text cut once.

Assumptions on constants are named in each module and evaluated by TLC. The
conditions of theorems (`AllWellFormed`, `AllDisciplined`, `LoadsInPairs`,
`SaneReLens`, `SaneArrays`) are hypotheses. The programs of `MCInterrupt` and of
`MCBootImage` meet theirs, which these modules state as assumptions that TLC
evaluates; the last two hold in `MCMalloc`, the first in `MCElf2Hex` and not in
`MCElf2Hex_any`. Each is a property of the inputs and says nothing of what the
code does with them.

Only model-checked: liveness (`Terminates`, `BothEnd`, `ResetCalls`, `ProgramEnds` and
`HandlerEnds`), which needs fairness and is out of the prover's reach. Of `Terminates`
and `BothEnd` the part without fairness is proved: every step lowers a measure, and
the two processes of the pipe never wait for each other (`NeverBothWait` writes
their guards out in place of `ENABLED`). What the
recursive functions `Meaning`, `NumBuffer`, `Power` and `FlattenSeq` compute would need
induction over data, which the prover lacks; in each case the least element of a
set of numbers stands in for it (`LeastOf`).

## 6. Not modelled

Within the modelled parts: comments, banners and ASCII columns of the hex text,
although the ASCII column of a data section stands in a comment and may contain
the two characters that end one; which garbage is printed or compared where a
freed name does not crash; LLVM's object reader, decoder and instruction printer; command line parsing;
dynamic linking (`writeGotPlt`); `start.cpp`; the self-tests and debug output of
the heap.

Whole components: the GOT/PLT pass of the old linker, since the program it
belonged to is not in the repository and nothing builds it; `setjmp` and `longjmp`,
some lines of assembly without a state to explore; the older printf, which
`sanitizer_printf.cpp` replaces; the clang plugins, whose edits are clang's own;
and the components listed in section 1 as upstream, vendored, generated or
straight-line. By lines these are nearly all of the tree: the header files of
avr-libc that describe AVR devices alone are most of it, and copies of LLVM's
files a good part of the rest. They hold tables and declarations, no behaviour.

## 7. Plan

The modules of section 2, the runs of section 3 and the proofs of section 5 are
complete. What could follow, in this order:

1. Nested interrupts: `EpcInMain` says when a handler can be interrupted, and
   `NoneSpurious` what is kept then; which of the program's registers survive it is
   not stated.
2. The joined text of several input files (`elf2hex.cpp:571`), once the repository
   says what the machine is to do with it.
3. `realloc` with lengths near the end of `size_t` (`realloc.c:60`), and `calloc` with a
   product that is truncated (`calloc.c:43`), which the theorems leave out by name.
