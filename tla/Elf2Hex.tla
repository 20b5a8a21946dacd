------------------------------- MODULE Elf2Hex -------------------------------
(***************************************************************************)
(* exlbt/elf2hex: turns linked ELF files into the hex text that the        *)
(* Verilog machine loads with $readmemh.  The tool writes a boot section,  *)
(* zeros up to TextBase, and then the sections of the file in header       *)
(* order: a data section in one go, a text section symbol by symbol and    *)
(* instruction by instruction, with zeros for the gaps between sections.   *)
(*                                                                         *)
(* A byte of the text is a triple that names where it comes from, a        *)
(* position in the text is a byte address.  The vector Reader::Symbols is  *)
(* sorted before it is walked and entries with equal addresses are skipped *)
(* but for the last, so it is kept here as the set of its entries.         *)
(***************************************************************************)
EXTENDS Integers, Sequences, FiniteSets

CONSTANTS
    Inputs,     \* the command lines to consider: sequences of files
    TextBase,   \* 0x100 in the source: first address after the boot section
    Top,        \* the bytes at positions 0 .. Top-1 are observed
    StackJunk   \* what the uninitialised member VerilogHex::si may hold

\* A file is the sequence of its sections in header order.  `syms' are the
\* symbols of the section as pairs <<offset, name>>, `bad' the offsets at which
\* no instruction of Cpu0 can be decoded.  Name 0 is the empty one.
Section == [addr: Nat, size: Nat, kind: {"text", "data", "bss"},
            syms: SUBSET (Nat \X Nat), bad: SUBSET Nat]

BootSize == 16

ASSUME InputAssumption ==
    /\ Inputs \subseteq Seq(Seq(Section))
    /\ \A cmd \in Inputs : \A i \in DOMAIN cmd : \A k \in DOMAIN cmd[i] :
           IsFiniteSet(cmd[i][k].syms)
ASSUME BaseAssumption == /\ TextBase \in Nat
                         /\ TextBase >= BootSize
                         /\ TextBase % 4 = 0
                         /\ Top \in Nat
                         /\ StackJunk \subseteq Int /\ StackJunk # {}

VARIABLES
    files,      \* the input files named on the command line
    fi,         \* how many of them main's for_each has begun
    pc,         \* where DisassembleObject stands
    sec,        \* the section the loop is at (Reader::_section)
    symbols,    \* Reader::Symbols, entries <<file, section, offset, name>>
    start,      \* offset of the symbol being dumped, -1 before the first
    index,      \* Reader::Index
    last,       \* VerilogHex::lastDumpAddr
    hexSi,      \* VerilogHex::si
    labels,     \* the <<section, offset>> before which a symbol was printed
    pos,        \* bytes written for the current file
    mem         \* the byte at each position

vars == <<files, fi, pc, sec, symbols, start, index, last, hexSi, labels, pos, mem>>

-----------------------------------------------------------------------------
\* Where a byte of the text comes from.
Unwritten      == <<0, 0, 0>>
Zero           == <<0, 0, 1>>
Junk           == <<0, 0, 2>>      \* a byte read behind the section's contents
Boot(f, a)     == <<f, 0, a>>
Byte(f, k, o)  == <<f, k, o>>

Addr == 0 .. Top-1

Up4(m) == ((m + 3) \div 4) * 4

File == files[fi]
Sec  == File[sec]

\* (deviation) only the whole words of a section are dumped
WholeWordsOnly(s) == IF s.kind = "bss" THEN 0 ELSE (s.size \div 4) * 4

\* Contents.size() of getContents(): nothing for a SHT_NOBITS section.
ContentSize(s) == IF s.kind = "bss" THEN 0 ELSE s.size

\* outs() << ... of m bytes, the i-th of them (from 0) being src[i].
Emit(m, src) ==
    /\ pos' = pos + m
    /\ mem' = [a \in Addr |-> IF a >= pos /\ a < pos + m THEN src[a - pos] ELSE mem[a]]

\* (deviations) the last, partial step of the loop is dropped; bytes for words
FillTruncated(from, to) == IF from < to THEN ((to - from) \div 4) * 4 ELSE 0
FillBytewise(from, to) == IF from < to THEN to - from ELSE 0

\* VerilogHex::Fill0s: how many zero bytes it writes, a word at a time.
Fill0s(from, to) == IF from < to THEN Up4(to - from) ELSE 0

\* The zeros written before section s: none if the text is already there.
Gap(s) == IF last < s.addr THEN Fill0s(last, s.addr - 1) ELSE 0
AfterGap(s) == IF last < s.addr THEN s.addr ELSE last

-----------------------------------------------------------------------------
\* The walk over the sorted vector of symbols.
Offsets   == {s[3] : s \in symbols}
\* (deviation) the symbol itself counts as its successor
LaterOrSame(o) == {p \in Offsets : p >= o}
Later(o)  == {p \in Offsets : p > o}
IsNext(o) == o \in Later(start) /\ \A p \in Later(start) : o <= p

\* (deviations) every symbol runs to the section's end; the last one is dumped a
\* word short, or a word too far
InSection   == index < Sec.size
InAllButTail == IF Later(start) = {} THEN index < Sec.size - 4
                ELSE \A p \in Later(start) : index < p - 1
InPastEnd   == IF Later(start) = {} THEN index <= Sec.size
               ELSE \A p \in Later(start) : index < p - 1
\* Index < End, where End is the section's size for the last symbol and one less
\* than the next symbol's offset for the others.
InSymbol == IF Later(start) = {} THEN index < Sec.size
            ELSE \A p \in Later(start) : index < p - 1

\* (deviation) the position is compared instead of the symbol's rank
SiOfIndex == index
\* A name is a reference into the file's buffer, which is freed when DumpInput
\* returns; an empty one refers to no byte.
Dangling(s) == s[1] # fi /\ s[4] # 0

\* Sorting `all' compares the names of equal offsets, and reads a freed one.
SortReadsFreed(all) == \E s, t \in all : s # t /\ s[3] = t[3] /\ Dangling(s) /\ t[4] # 0
\* The name to print may be a freed one; the sort left open which name is last.
PrintReadsFreed == \E s \in symbols : s[3] = start /\ Dangling(s)

\* Reader::si while the symbol at `start' is dumped: its 0-based rank.
CurrentSi == Cardinality({s \in symbols : s[3] <= start}) - 1

-----------------------------------------------------------------------------
Init == /\ files \in Inputs
        /\ fi = 0
        /\ pc = "open"
        /\ sec = 1
        /\ symbols = {}
        /\ start = -1
        /\ index = 0
        /\ last = 0
        /\ hexSi \in StackJunk
        /\ labels = {}
        /\ pos = 0
        /\ mem = [a \in Addr |-> Unwritten]

\* (deviation) one file too many
FilesLeftTooMany == fi <= Len(files)
\* main's for_each has a file left.
FilesLeft == fi < Len(files)

\* The next input file: a new VerilogHex writes the boot section and the zeros
\* up to TextBase.  Reader is a global and keeps its symbols.
OpenFile ==
    /\ pc = "open"
    /\ FilesLeft
    /\ fi' = fi + 1
    /\ LET m == BootSize + Fill0s(BootSize, TextBase) IN
       /\ pos' = m
       /\ mem' = [a \in Addr |-> IF a < BootSize THEN Boot(fi + 1, a)
                                 ELSE IF a < m THEN Zero ELSE Unwritten]
    /\ last' = TextBase
    /\ hexSi' \in StackJunk
    /\ labels' = {}
    /\ sec' = 1
    /\ pc' = "section"
    /\ UNCHANGED <<files, symbols, start, index>>

\* main returns after the last file.
Exit == /\ pc = "open"
        /\ ~ FilesLeft
        /\ pc' = "exit"
        /\ UNCHANGED <<files, fi, sec, symbols, start, index, last, hexSi, labels, pos, mem>>

\* All sections of the file were visited.
CloseFile == /\ pc = "section"
             /\ sec > Len(File)
             /\ pc' = "open"
             /\ UNCHANGED <<files, fi, sec, symbols, start, index, last, hexSi, labels, pos, mem>>

Dumped(s) == s.size > 0 /\ s.addr >= TextBase

\* An empty section, or one below 0x100 (not loaded), is passed over.
SkipSection ==
    /\ pc = "section"
    /\ sec <= Len(File)
    /\ ~ Dumped(Sec)
    /\ sec' = sec + 1
    /\ UNCHANGED <<files, fi, pc, symbols, start, index, last, hexSi, labels, pos, mem>>

\* ProcessDataSection and PrintDataSection.  getName leaves the name empty, so
\* the branch for .bss and .sbss is never taken: a section without contents
\* only has the gap before it filled.
DataSection ==
    /\ pc = "section"
    /\ sec <= Len(File)
    /\ Dumped(Sec)
    /\ Sec.kind # "text"
    /\ LET gap  == Gap(Sec)
           size == ContentSize(Sec)
           m    == gap + Up4(size)
       IN /\ Emit(m, [i \in 0 .. m-1 |-> IF i >= gap /\ i < gap + size
                                         THEN Byte(fi, sec, i - gap) ELSE Zero])
          /\ last' = IF size > 0 THEN Sec.addr + Up4(size) ELSE AfterGap(Sec)
    /\ sec' = sec + 1
    /\ UNCHANGED <<files, fi, pc, symbols, start, index, hexSi, labels>>

\* The symbols of a text section join those already in the vector, which is never
\* cleared.
Collected == symbols \union
                 {<<fi, sec, s[1], s[2]>> : s \in {t \in Sec.syms : t[1] < Sec.size}}

\* A text section: a dummy symbol is added if the vector is still empty.
TextSection ==
    /\ pc = "section"
    /\ sec <= Len(File)
    /\ Dumped(Sec)
    /\ Sec.kind = "text"
    /\ symbols' = IF Collected = {} THEN {<<fi, sec, 0, 0>>} ELSE Collected
    /\ start' = -1
    /\ pc' = "symbol"
    /\ UNCHANGED <<files, fi, sec, index, last, hexSi, labels, pos, mem>>

\* array_pod_sort reads a name of a file that is closed, and its memory is gone; if
\* not, the order of names of one offset is arbitrary, which no byte depends on.
SortCrash ==
    /\ pc = "section"
    /\ sec <= Len(File)
    /\ Dumped(Sec)
    /\ Sec.kind = "text"
    /\ SortReadsFreed(Collected)
    /\ pc' = "crash"
    /\ UNCHANGED <<files, fi, sec, symbols, start, index, last, hexSi, labels, pos, mem>>

\* The for loop over the symbols reaches the next distinct offset.
NextSymbol ==
    /\ pc = "symbol"
    /\ \E o \in Offsets : IsNext(o) /\ start' = o /\ index' = o
    /\ pc' = "insn"
    /\ UNCHANGED <<files, fi, sec, symbols, last, hexSi, labels, pos, mem>>

\* ... or its end.
EndText ==
    /\ pc = "symbol"
    /\ Later(start) = {}
    /\ sec' = sec + 1
    /\ pc' = "section"
    /\ UNCHANGED <<files, fi, symbols, start, index, last, hexSi, labels, pos, mem>>

\* What DisAs::getInstruction does at `index': it ends the program over four
\* bytes that do not decode and over less than four; behind the section the
\* length it is given has wrapped around and it decodes whatever is there.
Decoding == IF index \in Sec.bad THEN {"abort"}
            ELSE IF index + 4 <= Sec.size THEN {"insn"}
            ELSE IF index <= Sec.size THEN {"abort"} ELSE {"abort", "insn"}

\* ProcessDisAsmInstruction: the gap, the symbol's name if si has changed, and
\* the four bytes at `index'.  Contents is never assigned, so lastDumpAddr
\* always becomes the address of the next instruction.  The bytes are
\* written before they are decoded.
Instruction ==
    /\ pc = "insn"
    /\ InSymbol
    /\ LET gap == Gap(Sec)
       IN /\ Emit(gap + 4, [i \in 0 .. gap+3 |->
                     IF i < gap THEN Zero
                     ELSE IF index + i - gap < Sec.size
                     THEN Byte(fi, sec, index + i - gap) ELSE Junk])
          /\ last' = Sec.addr + index + 4
    /\ labels' = IF hexSi # CurrentSi THEN labels \union {<<sec, index>>} ELSE labels
    /\ hexSi' = CurrentSi
    /\ index' = index + 4
    /\ pc' \in Decoding
    /\ UNCHANGED <<files, fi, sec, symbols, start>>

\* ... or the name printed is gone, after the gap.
NameCrash ==
    /\ pc = "insn"
    /\ InSymbol
    /\ hexSi # CurrentSi
    /\ PrintReadsFreed
    /\ Emit(Gap(Sec), [i \in 0 .. Gap(Sec)-1 |-> Zero])
    /\ last' = AfterGap(Sec)
    /\ pc' = "crash"
    /\ UNCHANGED <<files, fi, sec, symbols, start, index, hexSi, labels>>

\* The loop over the instructions of a symbol ends.
EndSymbol ==
    /\ pc = "insn"
    /\ ~ InSymbol
    /\ pc' = "symbol"
    /\ UNCHANGED <<files, fi, sec, symbols, start, index, last, hexSi, labels, pos, mem>>

\* Bytes.slice(Index, 4) asserts when it leaves the section: a build with
\* assertions stops here, one without them reads on (Junk above).
SliceAssert ==
    /\ pc = "insn"
    /\ InSymbol
    /\ index + 4 > Sec.size
    /\ pc' = "abort"
    /\ UNCHANGED <<files, fi, sec, symbols, start, index, last, hexSi, labels, pos, mem>>

Next == \/ OpenFile \/ CloseFile \/ Exit
        \/ SkipSection \/ DataSection \/ TextSection
        \/ NextSymbol \/ EndText
        \/ Instruction \/ EndSymbol \/ SliceAssert
        \/ SortCrash \/ NameCrash

Spec == Init /\ [][Next]_vars

\* The tool is a sequential program: it does not stop between two steps.
FairSpec == Spec /\ WF_vars(Next)

-----------------------------------------------------------------------------
(***************************************************************************)
(* Input files for which the text must be right: sections in the order of  *)
(* their addresses and on word boundaries, as a linker lays them out, and  *)
(* the symbols which stay in the vector from earlier text sections fit     *)
(* into the later ones.                                                    *)
(***************************************************************************)
IsText(s) == Dumped(s) /\ s.kind = "text"

Ascending(file) == \A j, k \in DOMAIN file :
    j < k /\ Dumped(file[j]) /\ Dumped(file[k]) => file[j].addr + Up4(file[j].size) <= file[k].addr

Aligned(s) == /\ s.addr % 4 = 0
              /\ s.kind = "text" => s.size % 4 = 0 /\ \A y \in s.syms : y[1] % 4 = 0

StartsAtSymbol(s) == IsText(s) => s.syms = {} \/ \E y \in s.syms : y[1] = 0

\* Section k of file i is visited before section l of file j.
Visited(i, k, j, l) == i < j \/ (i = j /\ k < l)

SymbolsFit(cmd) ==
    \A i, j \in DOMAIN cmd : \A k \in DOMAIN cmd[i], l \in DOMAIN cmd[j] :
        IsText(cmd[i][k]) /\ IsText(cmd[j][l]) /\ Visited(i, k, j, l)
            => \A y \in cmd[i][k].syms : y[1] < cmd[i][k].size => y[1] <= cmd[j][l].size

WellFormed(cmd) ==
    /\ \A i \in DOMAIN cmd : Ascending(cmd[i])
    /\ \A i \in DOMAIN cmd : \A k \in DOMAIN cmd[i] : Aligned(cmd[i][k]) /\ StartsAtSymbol(cmd[i][k])
    /\ SymbolsFit(cmd)

-----------------------------------------------------------------------------
\* The memory image that a file describes.
ContentEnd(s) == s.addr + ContentSize(s)

Covers(s, a) == Dumped(s) /\ s.addr <= a /\ a < ContentEnd(s)

ByteAt(cmd, f, a) ==
    LET covering == {k \in DOMAIN cmd[f] : Covers(cmd[f][k], a)}
    IN IF a < BootSize THEN Boot(f, a)
       ELSE IF covering = {} THEN Zero
       ELSE LET k == CHOOSE k \in covering : TRUE IN Byte(f, k, a - cmd[f][k].addr)

\* m bytes of text reach behind everything that has contents.
ImageDone(cmd, f, m) == /\ m >= TextBase
                        /\ \A k \in DOMAIN cmd[f] : Dumped(cmd[f][k]) => m >= ContentEnd(cmd[f][k])

-----------------------------------------------------------------------------
\* Every variable stays in its range: offsets and indices are never negative
\* (they are unsigned in the source) and si counts the entries of the vector.
TypeOK ==
    /\ files \in Seq(Seq(Section))
    /\ fi \in 0 .. Len(files)
    /\ pc \in {"open", "section", "symbol", "insn", "exit", "abort", "crash"}
    /\ pc \in {"section", "symbol", "insn"} => fi > 0 /\ sec \in 1 .. Len(File) + 1
    /\ pc \in {"symbol", "insn"} => sec <= Len(File) /\ Dumped(Sec) /\ Sec.kind = "text"
    /\ symbols \subseteq Nat \X Nat \X Nat \X Nat /\ IsFiniteSet(symbols)
    /\ start \in Nat \union {-1}
    /\ index \in Nat
    /\ last \in Nat
    /\ hexSi \in Int
    /\ labels \subseteq Nat \X Nat
    /\ pos \in Nat
    /\ mem \in [Addr -> Nat \X Nat \X Nat]

\* lastDumpAddr, the tool's own idea of the address it has reached, is the
\* number of bytes it has written: otherwise every later byte is loaded at a
\* wrong address, and no message tells (elf2hex.cpp, all updates of lastDumpAddr).
InStep == pc \in {"section", "symbol", "insn"} => pos = last

\* The text written so far is a prefix of the memory image of the file: no
\* byte misplaced, repeated or read from behind a section (DisassembleObject).
ImageRight == fi > 0 => \A a \in Addr : a < pos => mem[a] = ByteAt(files, fi, a)

\* A file is left only when all its contents were written (the loop over
\* sections, the early returns and continues in it).
NothingLost == pc = "open" /\ fi > 0 => ImageDone(files, fi, pos)

\* elf2hex never reads behind a section's contents (Bytes.slice), and stops
\* before the end only over an instruction that does not decode or, with several
\* files, over the freed name of a symbol of a file before (elf2hex.cpp:296, 469,
\* 543-556); with one file no name is freed too early.
NoAbort == /\ pc = "abort" => sec <= Len(File) /\ index > 0 /\ index - 4 \in Sec.bad
           /\ pc = "crash" => \E s \in symbols : s[1] < fi /\ s[4] # 0

\* Whatever the layout of the file, the text consists of whole words, so one
\* misplaced section cannot shear the words of the sections behind it.
WholeWords == pos % 4 = 0

\* Whatever the layout of the file, each data section is written once and
\* without a hole (PrintDataSection), if not at its address.  A text of more
\* than Top bytes is not observed to its end.
DataInOnePiece ==
    pc = "open" /\ fi > 0 /\ pos <= Top =>
        \A k \in DOMAIN File :
            Dumped(File[k]) /\ File[k].kind = "data" =>
                \E p \in Addr :
                    /\ \A i \in 0 .. File[k].size-1 : mem[p + i] = Byte(fi, k, i)
                    /\ \A a \in Addr : mem[a][1] = fi /\ mem[a][2] = k => a \in p .. p + File[k].size-1

\* A symbol's name is printed only in front of the first instruction of a
\* symbol, however stale the entries of the vector are.
LabelsAtSymbols == \A l \in labels : l[2] \in Offsets

\* The tool ends for every input: the loops over sections, symbols and
\* instructions all advance.
Terminates == <>(pc \in {"exit", "abort", "crash"})

\* elf2hex implements LoadImage: the text is the image, file after file.
Load == INSTANCE LoadImage WITH
    cmd <- files, cur <- fi, n <- pos,
    Files <- Len, ByteOf <- ByteAt, Done <- ImageDone
LoadSpec == Load!ASpec

-----------------------------------------------------------------------------
\* elf2hex.cpp:485 "If the section has no symbols just insert a dummy one and
\* disassemble the whole section": in such a section the tool does not stop
\* unless an instruction does not decode, and at its end every byte was written.
NoSymbolsWholeSection ==
    pc \in {"symbol", "insn", "abort"} /\ Sec.syms = {} /\ Sec.bad = {} =>
        /\ pc # "abort"
        /\ pc = "symbol" /\ start >= 0 /\ Later(start) = {} =>
               \A o \in 0 .. Sec.size-1 : \E a \in Addr : mem[a] = Byte(fi, sec, o)
=============================================================================
