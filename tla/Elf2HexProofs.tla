---------------------------- MODULE Elf2HexProofs ----------------------------
(***************************************************************************)
(* What TLAPS proves of Elf2Hex, for every set of inputs and every size of *)
(* the observed memory.                                                    *)
(***************************************************************************)
EXTENDS Elf2Hex, FiniteSetTheorems, TLAPS

\* The command line never changes, which TypeOK does not say.
TypeInv == TypeOK /\ files \in Inputs

LEMMA Up4Fact == \A m \in Nat : /\ Up4(m) \in Nat
                                /\ Up4(m) >= m
                                /\ Up4(m) % 4 = 0
                                /\ m % 4 = 0 => Up4(m) = m
                                /\ m % 4 = 3 => Up4(m) = m + 1
  BY SMT DEF Up4

LEMMA ModFact == \A a, b \in Nat : a % 4 = 0 /\ b % 4 = 0 =>
                    (a + b) % 4 = 0 /\ (a + 4) % 4 = 0 /\ (a < b => a + 4 <= b)
  BY SMT

LEMMA FillFact == \A a, b \in Nat : Fill0s(a, b) \in Nat
  BY Up4Fact DEF Fill0s

LEMMA BootFact == BootSize + Fill0s(BootSize, TextBase) \in Nat
<1>1. BootSize \in Nat
  BY DEF BootSize
<1>2. Fill0s(BootSize, TextBase) \in Nat
  BY <1>1, FillFact, BaseAssumption
<1> QED BY <1>1, <1>2

\* What a data section and an instruction write are triples of numbers.
LEMMA DataBytes ==
  ASSUME NEW g \in Nat, NEW z \in Nat, NEW f \in Nat, NEW k \in Nat, NEW m \in Nat
  PROVE  \A i \in 0 .. m-1 :
           (IF i >= g /\ i < g + z THEN Byte(f, k, i - g) ELSE Zero) \in Nat \X Nat \X Nat
  BY DEF Byte, Zero

LEMMA InstructionBytes ==
  ASSUME NEW g \in Nat, NEW z \in Nat, NEW f \in Nat, NEW k \in Nat, NEW x \in Nat
  PROVE  \A i \in 0 .. (g+4)-1 :
           (IF i < g THEN Zero ELSE IF x + i - g < z THEN Byte(f, k, x + i - g) ELSE Junk)
              \in Nat \X Nat \X Nat
  BY DEF Byte, Zero, Junk

\* The entries a section adds to the vector of symbols.
LEMMA FoundFact ==
  ASSUME NEW T \in SUBSET (Nat \X Nat), IsFiniteSet(T), NEW f \in Nat, NEW k \in Nat
  PROVE  LET found == {<<f, k, s[1], s[2]>> : s \in T}
         IN  IsFiniteSet(found) /\ found \subseteq Nat \X Nat \X Nat \X Nat
<1> DEFINE found == {<<f, k, s[1], s[2]>> : s \in T}
           h == [s \in T |-> <<f, k, s[1], s[2]>>]
<1>1. h \in Surjection(T, found)
  BY DEF Surjection
<1>2. IsFiniteSet(found)
  BY <1>1, FS_Surjection
<1>3. \A s \in T : s[1] \in Nat /\ s[2] \in Nat
  OBVIOUS
<1>4. found \subseteq Nat \X Nat \X Nat \X Nat
  BY <1>3
<1> QED BY <1>2, <1>4

\* The current section is a section, and its symbols are finitely many.
LEMMA CurrentSection ==
  ASSUME TypeInv, pc \in {"section", "symbol", "insn"}, sec <= Len(File)
  PROVE  /\ fi \in DOMAIN files
         /\ sec \in DOMAIN File
         /\ Sec \in Section
         /\ IsFiniteSet(Sec.syms)
         /\ Gap(Sec) \in Nat
         /\ ContentSize(Sec) \in Nat
<1>1. fi \in DOMAIN files /\ sec \in DOMAIN File
  BY DEF TypeInv, TypeOK, File
<1>2. Sec \in Section
  BY <1>1 DEF TypeInv, TypeOK, File, Sec
<1>3. IsFiniteSet(Sec.syms)
  BY <1>1, InputAssumption DEF TypeInv, File, Sec
<1>4. ContentSize(Sec) \in Nat
  BY <1>2 DEF Section, ContentSize
<1>5. Gap(Sec) \in Nat
  <2>1. last \in Nat /\ Sec.addr \in Nat
    BY <1>2 DEF Section, TypeInv, TypeOK
  <2>2. last < Sec.addr => Sec.addr - 1 \in Nat
    BY <2>1
  <2> QED BY <2>1, <2>2, FillFact DEF Gap
<1> QED BY <1>1, <1>2, <1>3, <1>4, <1>5

LEMMA RankIsInt == ASSUME TypeInv PROVE CurrentSi \in Int
<1> DEFINE R == {s \in symbols : s[3] <= start}
<1>1. IsFiniteSet(R)
  BY FS_Subset DEF TypeInv, TypeOK
<1>2. Cardinality(R) \in Nat
  BY <1>1, FS_CardinalityType
<1> QED BY <1>2 DEF CurrentSi

-----------------------------------------------------------------------------
LEMMA TypeInit == Init => TypeInv
<1> SUFFICES ASSUME Init PROVE TypeInv
  OBVIOUS
<1>1. files \in Seq(Seq(Section))
  BY InputAssumption DEF Init
<1>2. IsFiniteSet(symbols)
  BY FS_EmptySet DEF Init
<1>3. mem \in [Addr -> Nat \X Nat \X Nat]
  BY DEF Init, Unwritten
<1>4. hexSi \in Int
  BY BaseAssumption DEF Init
<1> QED BY <1>1, <1>2, <1>3, <1>4 DEF Init, TypeInv, TypeOK

\* Emitting m well-typed bytes keeps the text well-typed.
LEMMA EmitType ==
  ASSUME TypeInv, NEW m \in Nat, NEW src,
         \A i \in 0 .. m-1 : src[i] \in Nat \X Nat \X Nat,
         Emit(m, src)
  PROVE  pos' \in Nat /\ mem' \in [Addr -> Nat \X Nat \X Nat]
<1>1. pos' \in Nat
  BY DEF Emit, TypeInv, TypeOK
<1>2. ASSUME NEW a \in Addr, a >= pos, a < pos + m PROVE src[a - pos] \in Nat \X Nat \X Nat
  <2>1. a \in Int /\ pos \in Nat
    BY BaseAssumption DEF Addr, TypeInv, TypeOK
  <2> QED BY <1>2, <2>1
<1>3. \A a \in Addr : mem[a] \in Nat \X Nat \X Nat
  BY DEF TypeInv, TypeOK
<1> QED BY <1>1, <1>2, <1>3 DEF Emit

LEMMA TypeStep == TypeInv /\ [Next]_vars => TypeInv'
<1> SUFFICES ASSUME TypeInv, [Next]_vars PROVE TypeInv'
  OBVIOUS
<1>1. CASE OpenFile
  <2> DEFINE m == BootSize + Fill0s(BootSize, TextBase)
  <2>1. m \in Nat
    BY BootFact
  <2>2. \A a \in Addr : a \in Nat
    BY BaseAssumption DEF Addr
  <2>3. pos' = m /\ mem' = [a \in Addr |-> IF a < BootSize THEN Boot(fi + 1, a)
                                           ELSE IF a < m THEN Zero ELSE Unwritten]
    BY <1>1 DEF OpenFile
  <2> HIDE DEF m
  <2>4. mem' \in [Addr -> Nat \X Nat \X Nat]
    <3>1. fi + 1 \in Nat
      BY DEF TypeInv, TypeOK
    <3> QED BY <2>2, <2>3, <3>1 DEF Boot, Zero, Unwritten
  <2>5. fi' \in 1 .. Len(files') /\ sec' \in 1 .. Len(File') + 1
    BY <1>1 DEF OpenFile, FilesLeft, File, TypeInv, TypeOK
  <2> QED BY <1>1, <2>1, <2>3, <2>4, <2>5, BaseAssumption DEF OpenFile, TypeInv, TypeOK
<1>2. CASE CloseFile
  BY <1>2 DEF CloseFile, File, TypeInv, TypeOK
<1>3. CASE Exit
  BY <1>3 DEF Exit, TypeInv, TypeOK
<1>4. CASE SkipSection
  BY <1>4 DEF SkipSection, File, TypeInv, TypeOK
<1>5. CASE DataSection
  <2> DEFINE gap  == Gap(Sec)
             size == ContentSize(Sec)
             m    == gap + Up4(size)
             src  == [i \in 0 .. m-1 |-> IF i >= gap /\ i < gap + size
                                         THEN Byte(fi, sec, i - gap) ELSE Zero]
  <2>1. /\ gap \in Nat /\ size \in Nat /\ Sec \in Section
        /\ fi \in Nat /\ sec \in Nat /\ sec <= Len(File) /\ last \in Nat
        /\ Len(File) \in Nat
    BY <1>5, CurrentSection DEF DataSection, TypeInv, TypeOK, File
  <2>2. m \in Nat /\ Up4(size) \in Nat
    BY <2>1, Up4Fact
  <2>3. \A i \in 0 .. m-1 : src[i] \in Nat \X Nat \X Nat
    BY <2>1, <2>2, DataBytes
  <2>4. Emit(m, src) /\ last' = IF size > 0 THEN Sec.addr + Up4(size) ELSE AfterGap(Sec)
    BY <1>5 DEF DataSection
  <2> HIDE DEF gap, size, m, src
  <2>5. pos' \in Nat /\ mem' \in [Addr -> Nat \X Nat \X Nat]
    BY <2>2, <2>3, <2>4, EmitType
  <2>6. last' \in Nat
    BY <2>1, <2>2, <2>4 DEF AfterGap, Section
  <2>7. fi' \in 1 .. Len(files') /\ sec' \in 1 .. Len(File') + 1
    BY <1>5, <2>1 DEF DataSection, TypeInv, TypeOK, File
  <2> QED BY <1>5, <2>5, <2>6, <2>7 DEF DataSection, TypeInv, TypeOK
<1>6. CASE TextSection
  <2> DEFINE T     == {t \in Sec.syms : t[1] < Sec.size}
             found == {<<fi, sec, s[1], s[2]>> : s \in T}
             all   == Collected
  <2>1. Sec \in Section /\ IsFiniteSet(Sec.syms) /\ fi \in Nat /\ sec \in Nat
    BY <1>6, CurrentSection DEF TextSection, TypeInv, TypeOK
  <2>2. T \in SUBSET (Nat \X Nat) /\ IsFiniteSet(T)
    BY <2>1, FS_Subset DEF Section
  <2>3. IsFiniteSet(found) /\ found \subseteq Nat \X Nat \X Nat \X Nat
    <3> HIDE DEF T
    <3> QED BY <2>1, <2>2, FoundFact
  <2>4. symbols' = IF all = {} THEN {<<fi, sec, 0, 0>>} ELSE all
    BY <1>6 DEF TextSection
  <2>9. all = symbols \union found
    BY DEF Collected
  <2> HIDE DEF T, found, all
  <2>5. IsFiniteSet(all) /\ all \subseteq Nat \X Nat \X Nat \X Nat
    BY <2>3, <2>9, FS_Union DEF TypeInv, TypeOK
  <2>6. IsFiniteSet({<<fi, sec, 0, 0>>}) /\ {<<fi, sec, 0, 0>>} \subseteq Nat \X Nat \X Nat \X Nat
    <3>1. {<<fi, sec, 0, 0>>} \subseteq Nat \X Nat \X Nat \X Nat
      BY <2>1
    <3> QED BY <3>1, FS_Singleton
  <2>7. symbols' \subseteq Nat \X Nat \X Nat \X Nat /\ IsFiniteSet(symbols')
    BY <2>4, <2>5, <2>6
  <2>8. fi' = fi /\ files' = files /\ sec' = sec /\ File' = File /\ Sec' = Sec
    BY <1>6 DEF TextSection, File, Sec
  <2> QED BY <1>6, <2>7, <2>8 DEF TextSection, TypeInv, TypeOK
<1>7. CASE NextSymbol
  <2>1. Offsets \subseteq Nat
    BY DEF Offsets, TypeInv, TypeOK
  <2>2. fi' = fi /\ files' = files /\ sec' = sec /\ File' = File /\ Sec' = Sec
    BY <1>7 DEF NextSymbol, File, Sec
  <2>3. start' \in Nat /\ index' \in Nat
    BY <1>7, <2>1 DEF NextSymbol
  <2> QED BY <1>7, <2>2, <2>3 DEF NextSymbol, TypeInv, TypeOK
<1>8. CASE EndText
  BY <1>8 DEF EndText, File, TypeInv, TypeOK
<1>9. CASE Instruction
  <2> DEFINE gap == Gap(Sec)
             src == [i \in 0 .. gap+3 |-> IF i < gap THEN Zero
                       ELSE IF index + i - gap < Sec.size
                       THEN Byte(fi, sec, index + i - gap) ELSE Junk]
  <2>1. gap \in Nat /\ Sec \in Section /\ fi \in Nat /\ sec \in Nat /\ index \in Nat
    BY <1>9, CurrentSection DEF Instruction, TypeInv, TypeOK
  <2>2. Sec.addr \in Nat /\ Sec.size \in Nat
    BY <2>1 DEF Section
  <2>3. gap + 4 \in Nat /\ gap + 3 = (gap + 4) - 1
    BY <2>1
  <2>4. \A i \in 0 .. (gap+4)-1 : src[i] \in Nat \X Nat \X Nat
    BY <2>1, <2>2, <2>3, InstructionBytes
  <2>5. Emit(gap + 4, src)
    BY <1>9 DEF Instruction
  <2> HIDE DEF gap, src
  <2>6. pos' \in Nat /\ mem' \in [Addr -> Nat \X Nat \X Nat]
    BY <2>3, <2>4, <2>5, EmitType
  <2>7. hexSi' \in Int
    BY <1>9, RankIsInt DEF Instruction
  <2>8. last' \in Nat /\ index' \in Nat
    BY <1>9, <2>1, <2>2 DEF Instruction
  <2>9. labels' \subseteq Nat \X Nat
    BY <1>9, <2>1 DEF Instruction, TypeInv, TypeOK
  <2>10. fi' = fi /\ files' = files /\ sec' = sec /\ File' = File /\ Sec' = Sec
    BY <1>9 DEF Instruction, File, Sec
  <2>11. pc = "insn" /\ pc' \in {"insn", "abort"}
    BY <1>9 DEF Instruction, Decoding
  <2> QED BY <1>9, <2>6, <2>7, <2>8, <2>9, <2>10, <2>11 DEF Instruction, TypeInv, TypeOK
<1>10. CASE EndSymbol
  BY <1>10 DEF EndSymbol, File, Sec, TypeInv, TypeOK
<1>11. CASE SliceAssert
  BY <1>11 DEF SliceAssert, TypeInv, TypeOK
<1>12. CASE SortCrash
  BY <1>12 DEF SortCrash, TypeInv, TypeOK
<1>13. CASE NameCrash
  <2> DEFINE src == [i \in 0 .. Gap(Sec)-1 |-> Zero]
  <2>1. Gap(Sec) \in Nat /\ Sec \in Section /\ last \in Nat
    BY <1>13, CurrentSection DEF NameCrash, TypeInv, TypeOK
  <2>2. \A i \in 0 .. Gap(Sec)-1 : src[i] \in Nat \X Nat \X Nat
    BY DEF Zero
  <2>3. Emit(Gap(Sec), src) /\ last' = AfterGap(Sec)
    BY <1>13 DEF NameCrash
  <2> HIDE DEF src
  <2>4. pos' \in Nat /\ mem' \in [Addr -> Nat \X Nat \X Nat]
    BY <2>1, <2>2, <2>3, EmitType
  <2>5. last' \in Nat
    BY <2>1, <2>3 DEF AfterGap, Section
  <2> QED BY <1>13, <2>4, <2>5 DEF NameCrash, TypeInv, TypeOK
<1>14. CASE UNCHANGED vars
  BY <1>14 DEF vars, File, Sec, TypeInv, TypeOK
<1> QED BY <1>1, <1>2, <1>3, <1>4, <1>5, <1>6, <1>7, <1>8, <1>9, <1>10, <1>11, <1>12, <1>13,
           <1>14 DEF Next

\* Every variable of elf2hex stays in its range, whatever the input files: no
\* layout makes an address, an index or an offset negative.
THEOREM TypeCorrect == Spec => []TypeOK
<1>1. TypeInv => TypeOK
  BY DEF TypeInv
<1> QED BY TypeInit, TypeStep, <1>1, PTL DEF Spec

-----------------------------------------------------------------------------
(***************************************************************************)
(* The text keeps step with lastDumpAddr.  Three facts carry the           *)
(* induction: every address the tool meets is a multiple of 4, the         *)
(* sections still to come lie at or above lastDumpAddr, and the entries of *)
(* the vector of symbols, stale ones included, lie inside the section that *)
(* is dumped, with one of them at its beginning.                           *)
(***************************************************************************)
AllWellFormed == \A cmd \in Inputs : WellFormed(cmd)

\* Where the entries of the vector come from: text sections already visited.
Origin(s) == /\ s[1] \in DOMAIN files
             /\ s[2] \in DOMAIN files[s[1]]
             /\ IsText(files[s[1]][s[2]])
             /\ s[3] < files[s[1]][s[2]].size
             /\ s[3] = 0 \/ \E y \in files[s[1]][s[2]].syms : y[1] = s[3]
Passed(s) == /\ s[1] <= fi
             /\ s[1] = fi /\ pc = "section" => s[2] < sec
             /\ s[1] = fi /\ pc \in {"symbol", "insn"} => s[2] <= sec

SymbolsInv == /\ \A s \in symbols : Origin(s) /\ Passed(s) /\ s[3] % 4 = 0
              /\ symbols # {} => 0 \in Offsets

\* Between two sections.
SectionInv == pc = "section" =>
    /\ pos = last /\ last % 4 = 0 /\ last >= TextBase
    /\ \A k \in DOMAIN File : k >= sec /\ Dumped(File[k]) => last <= File[k].addr

\* Inside a text section: its beginning is reached, or the text ends at the
\* current symbol or instruction.
TextInv == pc \in {"symbol", "insn"} =>
    /\ pos = last /\ last % 4 = 0 /\ last >= TextBase
    /\ 0 \in Offsets
    /\ \A o \in Offsets : o <= Sec.size
    /\ \A k \in DOMAIN File : k > sec /\ Dumped(File[k]) => Sec.addr + Sec.size <= File[k].addr

SymbolInv == pc = "symbol" =>
    \/ start = -1 /\ last <= Sec.addr
    \/ /\ start >= 0
       /\ Later(start) = {} => last = Sec.addr + Sec.size
       /\ \A o \in Later(start) : IsNext(o) => last = Sec.addr + o

InsnInv == pc = "insn" =>
    /\ start \in Offsets /\ index % 4 = 0
    /\ index <= Sec.size /\ \A o \in Later(start) : index <= o
    /\ \/ start = 0 /\ index = 0 /\ last <= Sec.addr
       \/ last = Sec.addr + index

StepInv == TypeInv /\ SymbolsInv /\ SectionInv /\ TextInv /\ SymbolInv /\ InsnInv

LEMMA Up4Step == \A d \in Nat : d % 4 = 0 /\ d > 0 => d - 1 \in Nat /\ 0 < d - 1 /\ Up4(d - 1) = d
  BY SMT DEF Up4

\* The gap before a section is filled exactly.
LEMMA GapFact ==
  ASSUME NEW s \in Section, last \in Nat, last % 4 = 0, s.addr % 4 = 0
  PROVE  last + Gap(s) = AfterGap(s) /\ AfterGap(s) \in Nat /\ AfterGap(s) % 4 = 0
<1>1. s.addr \in Nat
  BY DEF Section
<1>2. CASE last < s.addr
  <2>1. s.addr - last \in Nat /\ s.addr - last > 0 /\ (s.addr - last) % 4 = 0
    BY <1>1, <1>2
  <2>2. 0 < (s.addr - last) - 1 /\ Up4((s.addr - last) - 1) = s.addr - last
    BY <2>1, Up4Step
  <2>3. (s.addr - 1) - last = (s.addr - last) - 1 /\ last < s.addr - 1
    BY <1>1, <2>1, <2>2
  <2>4. Gap(s) = s.addr - last
    BY <1>2, <2>2, <2>3 DEF Gap, Fill0s
  <2> QED BY <1>1, <1>2, <2>4 DEF AfterGap
<1>3. CASE ~ (last < s.addr)
  BY <1>1, <1>3 DEF Gap, AfterGap
<1> QED BY <1>2, <1>3

\* What well-formedness says of the file that is dumped.
LEMMA Layout ==
  ASSUME AllWellFormed, TypeInv, fi > 0
  PROVE  /\ fi \in DOMAIN files
         /\ \A k \in DOMAIN File : /\ File[k] \in Section
                                   /\ File[k].addr \in Nat /\ File[k].size \in Nat
                                   /\ File[k].addr % 4 = 0
                                   /\ StartsAtSymbol(File[k])
                                   /\ Aligned(File[k])
                                   /\ File[k].kind = "text" => File[k].size % 4 = 0
         /\ \A j, k \in DOMAIN File : j < k /\ Dumped(File[j]) /\ Dumped(File[k])
                => File[j].addr + Up4(File[j].size) <= File[k].addr
<1>1. fi \in DOMAIN files
  BY DEF TypeInv, TypeOK
<1>2. \A k \in DOMAIN File : File[k] \in Section
  BY <1>1 DEF TypeInv, TypeOK, File
<1>3. WellFormed(files)
  BY DEF AllWellFormed, TypeInv
<1>4. \A k \in DOMAIN File : Aligned(File[k]) /\ StartsAtSymbol(File[k])
  BY <1>1, <1>3 DEF WellFormed, File
<1>5. \A j, k \in DOMAIN File : j < k /\ Dumped(File[j]) /\ Dumped(File[k])
                => File[j].addr + Up4(File[j].size) <= File[k].addr
  BY <1>1, <1>3 DEF WellFormed, File, Ascending
<1>6. \A k \in DOMAIN File : File[k].addr \in Nat /\ File[k].size \in Nat
  BY <1>2 DEF Section
<1> QED BY <1>1, <1>2, <1>4, <1>5, <1>6 DEF Aligned

LEMMA BootIsTextBase == BootSize + Fill0s(BootSize, TextBase) = TextBase
<1>1. CASE TextBase = BootSize
  BY <1>1 DEF BootSize, Fill0s
<1>2. CASE TextBase > 16
  <2>1. TextBase - 16 \in Nat /\ (TextBase - 16) % 4 = 0
    BY <1>2, BaseAssumption
  <2>2. Up4(TextBase - 16) = TextBase - 16
    BY <2>1, Up4Fact
  <2> QED BY <1>2, <2>2, BaseAssumption DEF BootSize, Fill0s
<1> QED BY <1>1, <1>2, BaseAssumption DEF BootSize

LEMMA StepInit == Init => StepInv
  BY TypeInit DEF Init, StepInv, SymbolsInv, SectionInv, TextInv, SymbolInv, InsnInv

\* A step that leaves the vector of symbols alone and moves on keeps SymbolsInv.
LEMMA SymbolsKept ==
  ASSUME SymbolsInv, symbols' = symbols, files' = files,
         \A s \in symbols : Passed(s) => Passed(s)'
  PROVE  SymbolsInv'
  BY DEF SymbolsInv, Origin, Offsets

LEMMA StepOpen == StepInv /\ AllWellFormed /\ OpenFile => StepInv'
<1> SUFFICES ASSUME StepInv, AllWellFormed, OpenFile PROVE StepInv'
  OBVIOUS
<1>1. TypeInv'
  BY TypeStep DEF StepInv, Next
<1>2. pos' = TextBase /\ last' = TextBase /\ pc' = "section"
  BY BootIsTextBase DEF OpenFile
<1>3. SectionInv'
  <2>1. \A k \in DOMAIN File' : Dumped(File'[k]) => TextBase <= File'[k].addr
    BY BaseAssumption, <1>1 DEF Dumped, TypeInv, TypeOK, OpenFile, Section
  <2> QED BY <1>2, <2>1, BaseAssumption DEF SectionInv
<1>4. \A s \in symbols : Passed(s) => Passed(s)'
  <2>1. fi \in Nat /\ fi' = fi + 1 /\ \A s \in symbols : s[1] \in Nat
    BY DEF OpenFile, StepInv, TypeInv, TypeOK
  <2> QED BY <1>2, <2>1 DEF Passed
<1>5. SymbolsInv'
  BY <1>4, SymbolsKept DEF StepInv, OpenFile
<1> QED BY <1>1, <1>2, <1>3, <1>5 DEF StepInv, TextInv, SymbolInv, InsnInv

LEMMA StepLeave == StepInv /\ (CloseFile \/ Exit \/ SliceAssert \/ SortCrash \/ NameCrash) => StepInv'
<1> SUFFICES ASSUME StepInv, CloseFile \/ Exit \/ SliceAssert \/ SortCrash \/ NameCrash
             PROVE  StepInv'
  OBVIOUS
<1>1. TypeInv'
  BY TypeStep DEF StepInv, Next
<1>2. pc' \in {"open", "exit", "abort", "crash"} /\ symbols' = symbols /\ files' = files /\ fi' = fi
  BY DEF CloseFile, Exit, SliceAssert, SortCrash, NameCrash
<1>3. SymbolsInv'
  BY <1>2, SymbolsKept DEF StepInv, Passed
<1> QED BY <1>1, <1>2, <1>3 DEF StepInv, SectionInv, TextInv, SymbolInv, InsnInv

\* A data section, and a section that is passed over.
LEMMA StepSection == StepInv /\ AllWellFormed /\ (SkipSection \/ DataSection) => StepInv'
<1> SUFFICES ASSUME StepInv, AllWellFormed, SkipSection \/ DataSection PROVE StepInv'
  OBVIOUS
<1>1. TypeInv'
  BY TypeStep DEF StepInv, Next
<1>2. /\ pc = "section" /\ pc' = "section" /\ sec' = sec + 1 /\ fi' = fi /\ files' = files
      /\ symbols' = symbols /\ File' = File
  BY DEF SkipSection, DataSection, File
<1>3. fi > 0 /\ sec \in DOMAIN File /\ fi \in DOMAIN files /\ sec \in Nat
  BY <1>2, CurrentSection DEF StepInv, TypeInv, TypeOK, SkipSection, DataSection
<1>4. \A s \in symbols : Passed(s) => Passed(s)'
  <2>1. \A s \in symbols : s[2] \in Nat
    BY DEF StepInv, TypeInv, TypeOK
  <2> QED BY <1>2, <1>3, <2>1 DEF Passed
<1>5. SymbolsInv'
  BY <1>2, <1>4, SymbolsKept DEF StepInv
<1>6. CASE SkipSection
  <2>1. SectionInv'
    BY <1>2, <1>3, <1>6 DEF StepInv, SectionInv, SkipSection, Sec
  <2> QED BY <1>1, <1>2, <1>5, <2>1 DEF StepInv, TextInv, SymbolInv, InsnInv
<1>7. CASE DataSection
  <2> DEFINE gap  == Gap(Sec)
             size == ContentSize(Sec)
  <2>1. /\ Sec \in Section /\ Sec.addr \in Nat /\ Sec.addr % 4 = 0 /\ Sec.size \in Nat
        /\ \A k \in DOMAIN File : k > sec /\ Dumped(File[k]) => Sec.addr + Up4(Sec.size) <= File[k].addr
        /\ \A k \in DOMAIN File : File[k].addr \in Nat
    BY <1>3, <1>7, Layout DEF StepInv, Sec, DataSection
  <2>2. pos = last /\ last % 4 = 0 /\ last \in Nat /\ last >= TextBase /\ last <= Sec.addr
    BY <1>2, <1>3, <1>7 DEF StepInv, SectionInv, DataSection, Sec, TypeInv, TypeOK
  <2>3. last + gap = Sec.addr /\ gap \in Nat /\ AfterGap(Sec) = Sec.addr
    <3>1. last + gap = AfterGap(Sec) /\ AfterGap(Sec) = Sec.addr
      BY <2>1, <2>2, GapFact DEF AfterGap
    <3>2. gap \in Nat
      BY <1>2, <1>3, <1>7, CurrentSection DEF StepInv, DataSection
    <3> QED BY <3>1, <3>2
  <2>4. size \in Nat /\ Up4(size) \in Nat /\ Up4(size) % 4 = 0 /\ Up4(size) <= Up4(Sec.size)
    <3>1. size \in Nat /\ (size = 0 \/ size = Sec.size)
      BY <2>1 DEF ContentSize
    <3>2. Up4(0) = 0 /\ Up4(Sec.size) \in Nat
      BY <2>1, Up4Fact DEF Up4
    <3> QED BY <3>1, <3>2, Up4Fact
  <2>5. pos' = pos + (gap + Up4(size))
    BY <1>7 DEF DataSection, Emit
  <2>6. last' = Sec.addr + Up4(size)
    <3>1. Up4(0) = 0
      BY DEF Up4
    <3> QED BY <1>7, <2>1, <2>3, <2>4, <3>1 DEF DataSection
  <2> HIDE DEF gap, size
  <2>7. pos' = last' /\ last' \in Nat /\ last' % 4 = 0 /\ last' >= TextBase
    <3> DEFINE a == Sec.addr
               u == Up4(size)
    <3>0. a \in Nat /\ u \in Nat /\ TextBase \in Nat
      BY <2>1, <2>4, BaseAssumption
    <3>1. pos' = last' /\ last' >= TextBase /\ last' \in Nat
      <4>1. last + gap = a /\ pos' = last + (gap + u) /\ last' = a + u
        BY <2>2, <2>3, <2>5, <2>6
      <4> HIDE DEF a, u
      <4> QED BY <2>2, <2>3, <3>0, <4>1
    <3>2. last' % 4 = 0
      <4>1. \A v \in Nat : v % 4 = 0 => (Sec.addr + v) % 4 = 0
        BY <2>1, ModFact
      <4> QED BY <2>4, <2>6, <4>1
    <3> QED BY <3>1, <3>2
  <2>8. \A k \in DOMAIN File' : k >= sec' /\ Dumped(File'[k]) => last' <= File'[k].addr
    <3>1. SUFFICES ASSUME NEW k \in DOMAIN File, k >= sec + 1, Dumped(File[k])
                   PROVE  Sec.addr + Up4(size) <= File[k].addr
      BY <1>2, <2>6
    <3>2. k > sec
      BY <1>3, <3>1 DEF StepInv, TypeInv, TypeOK, File
    <3>3. Sec.addr + Up4(Sec.size) <= File[k].addr /\ File[k].addr \in Nat /\ Up4(Sec.size) \in Nat
      BY <2>1, <3>1, <3>2, Up4Fact
    <3> QED BY <2>1, <2>4, <3>3
  <2>9. SectionInv'
    BY <2>7, <2>8 DEF SectionInv
  <2> QED BY <1>1, <1>2, <1>5, <2>9 DEF StepInv, TextInv, SymbolInv, InsnInv
<1> QED BY <1>6, <1>7

\* The symbols that a text section finds in the vector lie in the section.
LEMMA StepText == StepInv /\ AllWellFormed /\ TextSection => StepInv'
<1> SUFFICES ASSUME StepInv, AllWellFormed, TextSection PROVE StepInv'
  OBVIOUS
<1> DEFINE found == {<<fi, sec, s[1], s[2]>> : s \in {t \in Sec.syms : t[1] < Sec.size}}
           all   == symbols \union found
<1>1. TypeInv'
  BY TypeStep DEF StepInv, Next
<1>2. /\ pc = "section" /\ pc' = "symbol" /\ sec' = sec /\ fi' = fi /\ files' = files
      /\ File' = File /\ Sec' = Sec /\ start' = -1 /\ pos' = pos /\ last' = last
      /\ symbols' = IF all = {} THEN {<<fi, sec, 0, 0>>} ELSE all
  BY DEF TextSection, Collected, File, Sec
<1>3. /\ fi > 0 /\ sec \in DOMAIN File /\ fi \in DOMAIN files /\ sec \in Nat /\ fi \in Nat
      /\ IsText(Sec) /\ Sec = files[fi][sec]
  BY <1>2, CurrentSection DEF StepInv, TypeInv, TypeOK, TextSection, IsText, File, Sec
<1>4. /\ Sec \in Section /\ Sec.addr \in Nat /\ Sec.size \in Nat /\ Sec.size > 0
      /\ Aligned(Sec) /\ StartsAtSymbol(Sec)
      /\ \A k \in DOMAIN File : k > sec /\ Dumped(File[k]) => Sec.addr + Up4(Sec.size) <= File[k].addr
      /\ \A k \in DOMAIN File : File[k].addr \in Nat
  BY <1>3, Layout DEF StepInv, Sec, IsText, Dumped
<1>5. WellFormed(files)
  BY DEF StepInv, TypeInv, AllWellFormed
<1>6. \A s \in symbols : Origin(s) /\ Passed(s) /\ s[3] % 4 = 0 /\ s[1] \in Nat /\ s[2] \in Nat /\ s[3] \in Nat
  BY DEF StepInv, SymbolsInv, TypeInv, TypeOK
<1>7. ASSUME NEW s \in symbols PROVE s[3] <= Sec.size
  <2>1. Visited(s[1], s[2], fi, sec)
    BY <1>2, <1>3, <1>6, <1>7 DEF Passed, Visited
  <2>2. CASE s[3] = 0
    BY <1>4, <2>2
  <2>3. CASE \E y \in files[s[1]][s[2]].syms : y[1] = s[3]
    <3>1. PICK y \in files[s[1]][s[2]].syms : y[1] = s[3]
      BY <2>3
    <3>2. /\ s[1] \in DOMAIN files /\ s[2] \in DOMAIN files[s[1]] /\ IsText(files[s[1]][s[2]])
          /\ s[3] < files[s[1]][s[2]].size
      BY <1>6, <1>7 DEF Origin
    <3>3. fi \in DOMAIN files /\ sec \in DOMAIN files[fi] /\ IsText(files[fi][sec])
      BY <1>3 DEF File
    <3>4. y[1] <= files[fi][sec].size
      BY <1>5, <2>1, <3>1, <3>2, <3>3 DEF WellFormed, SymbolsFit
    <3> QED BY <1>3, <3>1, <3>4
  <2> QED BY <1>6, <2>2, <2>3 DEF Origin
<1>8. ASSUME NEW s \in found
      PROVE  s[1] = fi /\ s[2] = sec /\ s[3] < Sec.size /\ s[3] % 4 = 0 /\ Origin(s) /\ s[3] <= Sec.size
  <2>1. PICK t \in Sec.syms : t[1] < Sec.size /\ s = <<fi, sec, t[1], t[2]>>
    BY <1>8
  <2>2. t[1] % 4 = 0 /\ t[1] \in Nat
    BY <1>3, <1>4 DEF Aligned, IsText, Section
  <2> HIDE DEF found
  <2>3. s[1] = fi /\ s[2] = sec /\ s[3] = t[1] /\ s[3] < Sec.size
    BY <2>1
  <2>4. sec \in DOMAIN files[fi]
    BY <1>3 DEF File
  <2>5. Origin(s)
    BY <1>3, <2>1, <2>3, <2>4 DEF Origin
  <2> QED BY <1>4, <2>2, <2>3, <2>5
<1>9. <<fi, sec, 0, 0>>[3] % 4 = 0 /\ Origin(<<fi, sec, 0, 0>>)
  <2> DEFINE d == <<fi, sec, 0, 0>>
  <2>1. d[1] = fi /\ d[2] = sec /\ d[3] = 0
    OBVIOUS
  <2>2. sec \in DOMAIN files[fi]
    BY <1>3 DEF File
  <2> HIDE DEF d
  <2>3. Origin(d) /\ d[3] % 4 = 0
    BY <1>3, <1>4, <2>1, <2>2 DEF Origin
  <2> QED BY <2>3 DEF d
<1>10. found # {} => \E s \in found : s[3] = 0
  <2>1. SUFFICES ASSUME Sec.syms # {} PROVE \E s \in found : s[3] = 0
    OBVIOUS
  <2>2. PICK y \in Sec.syms : y[1] = 0
    BY <1>3, <1>4, <2>1 DEF StartsAtSymbol
  <2>3. <<fi, sec, y[1], y[2]>> \in found
    BY <1>4, <2>2
  <2> QED BY <2>2, <2>3
<1> HIDE DEF found
<1>11. \A s \in symbols' : Origin(s) /\ s[3] % 4 = 0 /\ s[3] <= Sec.size
                        /\ s[1] <= fi /\ (s[1] = fi => s[2] <= sec)
  <2>1. CASE all = {}
    BY <1>2, <1>3, <1>4, <1>9, <2>1
  <2>2. CASE all # {}
    <3>1. ASSUME NEW s \in symbols
          PROVE  Origin(s) /\ s[3] % 4 = 0 /\ s[3] <= Sec.size /\ s[1] <= fi /\ (s[1] = fi => s[2] <= sec)
      BY <1>2, <1>3, <1>6, <1>7, <3>1 DEF Passed
    <3>2. ASSUME NEW s \in found
          PROVE  Origin(s) /\ s[3] % 4 = 0 /\ s[3] <= Sec.size /\ s[1] <= fi /\ (s[1] = fi => s[2] <= sec)
      BY <1>3, <1>8, <3>2
    <3> QED BY <1>2, <2>2, <3>1, <3>2
  <2> QED BY <2>1, <2>2
<1>12. \E s \in symbols' : s[3] = 0
  <2>1. CASE all = {}
    BY <1>2, <2>1
  <2>2. CASE symbols # {}
    BY <1>2, <2>2 DEF StepInv, SymbolsInv, Offsets
  <2>3. CASE found # {}
    BY <1>2, <1>10, <2>3
  <2> QED BY <2>1, <2>2, <2>3
<1> HIDE DEF all
<1>13. 0 \in Offsets' /\ \A o \in Offsets' : o <= Sec'.size
  BY <1>2, <1>11, <1>12 DEF Offsets
<1>14. SymbolsInv'
  BY <1>2, <1>11, <1>13 DEF SymbolsInv, Passed, Origin
<1>15. last <= Sec.addr /\ pos = last /\ last % 4 = 0 /\ last >= TextBase
  BY <1>2, <1>3 DEF StepInv, SectionInv, IsText, Sec, TypeInv, TypeOK
<1>16. \A k \in DOMAIN File : k > sec /\ Dumped(File[k]) => Sec.addr + Sec.size <= File[k].addr
  BY <1>4, Up4Fact
<1>17. TextInv'
  BY <1>2, <1>13, <1>15, <1>16 DEF TextInv
<1> QED BY <1>1, <1>2, <1>14, <1>15, <1>17 DEF StepInv, SectionInv, SymbolInv, InsnInv

\* Facts about the text section that is being dumped.
LEMMA InText ==
  ASSUME StepInv, AllWellFormed, pc \in {"symbol", "insn"}
  PROVE  /\ Sec \in Section /\ Sec.addr \in Nat /\ Sec.size \in Nat /\ Sec.size > 0
         /\ Sec.addr % 4 = 0 /\ Sec.size % 4 = 0
         /\ Offsets \subseteq Nat /\ \A o \in Offsets : o % 4 = 0 /\ o <= Sec.size
         /\ fi \in Nat /\ sec \in Nat /\ last \in Nat /\ index \in Nat /\ sec <= Len(File) /\ fi > 0
         /\ sec \in DOMAIN File
<1>1. fi > 0 /\ sec \in DOMAIN File /\ Sec.kind = "text" /\ Dumped(Sec) /\ Sec = File[sec]
  BY CurrentSection DEF StepInv, TypeInv, TypeOK, Sec
<1>2. /\ Sec \in Section /\ Sec.addr \in Nat /\ Sec.size \in Nat /\ Sec.size > 0
      /\ Sec.addr % 4 = 0 /\ Sec.size % 4 = 0
  BY <1>1, Layout DEF StepInv, Dumped
<1>3. Offsets \subseteq Nat /\ \A o \in Offsets : o % 4 = 0 /\ o <= Sec.size
  BY DEF StepInv, SymbolsInv, TextInv, Offsets, TypeInv, TypeOK
<1> QED BY <1>1, <1>2, <1>3 DEF StepInv, TypeInv, TypeOK

LEMMA StepNextSymbol == StepInv /\ AllWellFormed /\ NextSymbol => StepInv'
<1> SUFFICES ASSUME StepInv, AllWellFormed, NextSymbol PROVE StepInv'
  OBVIOUS
<1>1. TypeInv'
  BY TypeStep DEF StepInv, Next
<1>2. /\ pc = "symbol" /\ pc' = "insn" /\ sec' = sec /\ fi' = fi /\ files' = files /\ symbols' = symbols
      /\ last' = last /\ pos' = pos /\ File' = File /\ Sec' = Sec /\ Offsets' = Offsets
  BY DEF NextSymbol, File, Sec, Offsets
<1>3. PICK o \in Offsets : IsNext(o) /\ start' = o /\ index' = o
  BY DEF NextSymbol
<1>4. SymbolsInv'
  BY <1>2, SymbolsKept DEF StepInv, Passed
<1>5. TextInv'
  BY <1>2 DEF StepInv, TextInv
<1>6. o \in Later(start) /\ \A p \in Later(start) : o <= p
  BY <1>3 DEF IsNext
<1>7. /\ o % 4 = 0 /\ o <= Sec.size /\ o \in Nat
      /\ \A p \in Later(o) : o <= p
  BY <1>2, InText DEF Later
<1>8. (o = 0 /\ last <= Sec.addr) \/ last = Sec.addr + o
  <2>1. CASE start = -1 /\ last <= Sec.addr
    <3>1. 0 \in Later(start)
      BY <1>2, <2>1 DEF StepInv, TextInv, Later
    <3> QED BY <1>6, <1>7, <2>1, <3>1
  <2>2. CASE \A p \in Later(start) : IsNext(p) => last = Sec.addr + p
    BY <1>3, <1>6, <2>2
  <2> QED BY <1>2, <2>1, <2>2 DEF StepInv, SymbolInv
<1>9. Later(start)' = Later(o)
  BY <1>2, <1>3 DEF Later
<1>10. InsnInv'
  BY <1>2, <1>3, <1>7, <1>8, <1>9 DEF InsnInv
<1> QED BY <1>1, <1>2, <1>4, <1>5, <1>10 DEF StepInv, SectionInv, SymbolInv

LEMMA StepEndText == StepInv /\ AllWellFormed /\ EndText => StepInv'
<1> SUFFICES ASSUME StepInv, AllWellFormed, EndText PROVE StepInv'
  OBVIOUS
<1>1. TypeInv'
  BY TypeStep DEF StepInv, Next
<1>2. /\ pc = "symbol" /\ pc' = "section" /\ sec' = sec + 1 /\ fi' = fi /\ files' = files
      /\ symbols' = symbols /\ last' = last /\ pos' = pos /\ File' = File /\ Later(start) = {}
  BY DEF EndText, File
<1>3. last = Sec.addr + Sec.size
  <2>1. CASE start = -1
    <3>1. 0 \in Later(start)
      BY <1>2, <2>1 DEF StepInv, TextInv, Later
    <3> QED BY <1>2, <3>1
  <2> QED BY <1>2, <2>1 DEF StepInv, SymbolInv
<1>4. SectionInv'
  <2>1. \A k \in DOMAIN File : k > sec /\ Dumped(File[k]) => last <= File[k].addr
    BY <1>2, <1>3 DEF StepInv, TextInv
  <2>2. \A k \in DOMAIN File : k >= sec + 1 => k > sec
    BY <1>2, InText DEF StepInv, TypeInv, TypeOK, File
  <2> QED BY <1>2, <2>1, <2>2 DEF StepInv, TextInv, SectionInv
<1>5. SymbolsInv'
  <2>1. \A s \in symbols : s[2] \in Nat
    BY DEF StepInv, TypeInv, TypeOK
  <2>2. sec \in Nat
    BY <1>2, InText
  <2> QED BY <1>2, <2>1, <2>2, SymbolsKept DEF StepInv, Passed
<1> QED BY <1>1, <1>2, <1>4, <1>5 DEF StepInv, TextInv, SymbolInv, InsnInv

LEMMA StepInstruction == StepInv /\ AllWellFormed /\ Instruction => StepInv'
<1> SUFFICES ASSUME StepInv, AllWellFormed, Instruction PROVE StepInv'
  OBVIOUS
<1>1. TypeInv'
  BY TypeStep DEF StepInv, Next
<1>2. /\ pc = "insn" /\ pc' \in {"insn", "abort"} /\ sec' = sec /\ fi' = fi /\ files' = files /\ symbols' = symbols
      /\ start' = start /\ index' = index + 4 /\ File' = File /\ Sec' = Sec /\ Offsets' = Offsets
      /\ last' = Sec.addr + index + 4 /\ pos' = pos + (Gap(Sec) + 4) /\ InSymbol
  BY DEF Instruction, Decoding, File, Sec, Offsets, Emit
<1>3. /\ Sec \in Section /\ Sec.addr \in Nat /\ Sec.size \in Nat /\ index \in Nat /\ last \in Nat
      /\ Sec.addr % 4 = 0 /\ Sec.size % 4 = 0 /\ index % 4 = 0
      /\ Later(start) \subseteq Nat /\ \A p \in Later(start) : p % 4 = 0 /\ p <= Sec.size
  BY <1>2, InText DEF StepInv, InsnInv, Later
<1>4. \A p \in Later(start) : index + 4 <= p
  <2>1. \A p \in Later(start) : index < p
    BY <1>2, <1>3 DEF InSymbol
  <2> QED BY <1>3, <2>1, ModFact
<1>5. index + 4 <= Sec.size
  <2>1. CASE Later(start) = {}
    BY <1>2, <1>3, <2>1, ModFact DEF InSymbol
  <2>2. CASE Later(start) # {}
    BY <1>3, <1>4, <2>2
  <2> QED BY <2>1, <2>2
<1>6. pos = last /\ last % 4 = 0 /\ last >= TextBase
  BY <1>2 DEF StepInv, TextInv
<1>7. last + Gap(Sec) = AfterGap(Sec) /\ Gap(Sec) \in Nat
  <2>1. Gap(Sec) \in Nat
    BY <1>2, InText, CurrentSection DEF StepInv
  <2> QED BY <1>3, <1>6, <2>1, GapFact
<1>8. AfterGap(Sec) = Sec.addr + index
  <2>1. CASE index = 0 /\ last <= Sec.addr
    <3>1. Sec.addr \in Nat /\ last \in Nat
      BY <1>3
    <3>2. AfterGap(Sec) = Sec.addr
      BY <2>1, <3>1 DEF AfterGap
    <3> QED BY <2>1, <3>1, <3>2
  <2>2. CASE last = Sec.addr + index
    BY <1>3, <2>2 DEF AfterGap
  <2> QED BY <1>2, <2>1, <2>2 DEF StepInv, InsnInv
<1>9. pos' = last'
  BY <1>2, <1>3, <1>6, <1>7, <1>8
<1>10. last' % 4 = 0
  <2>1. (Sec.addr + index) % 4 = 0
    BY <1>3, ModFact
  <2> QED BY <1>2, <1>3, <2>1
<1>11. last' >= TextBase
  <2>1. last <= Sec.addr + index
    BY <1>2, <1>3 DEF StepInv, InsnInv
  <2> QED BY <1>2, <1>3, <1>6, <2>1, BaseAssumption
<1>12. TextInv'
  BY <1>2, <1>9, <1>10, <1>11 DEF StepInv, TextInv
<1>13. InsnInv'
  <2>1. Later(start)' = Later(start)
    BY <1>2 DEF Later
  <2>2. start' \in Offsets'
    BY <1>2 DEF StepInv, InsnInv
  <2>3. index' % 4 = 0 /\ last' = Sec.addr + index'
    BY <1>2, <1>3
  <2> QED BY <1>2, <1>4, <1>5, <2>1, <2>2, <2>3 DEF InsnInv
<1>14. SymbolsInv'
  BY <1>2, SymbolsKept DEF StepInv, Passed
<1> QED BY <1>1, <1>2, <1>12, <1>13, <1>14 DEF StepInv, SectionInv, SymbolInv

LEMMA StepEndSymbol == StepInv /\ AllWellFormed /\ EndSymbol => StepInv'
<1> SUFFICES ASSUME StepInv, AllWellFormed, EndSymbol PROVE StepInv'
  OBVIOUS
<1>1. TypeInv'
  BY TypeStep DEF StepInv, Next
<1>2. /\ pc = "insn" /\ pc' = "symbol" /\ sec' = sec /\ fi' = fi /\ files' = files /\ symbols' = symbols
      /\ start' = start /\ index' = index /\ File' = File /\ Sec' = Sec /\ Offsets' = Offsets
      /\ last' = last /\ pos' = pos /\ ~ InSymbol
  BY DEF EndSymbol, File, Sec, Offsets
<1>3. /\ Sec.addr \in Nat /\ Sec.size \in Nat /\ Sec.size > 0 /\ index \in Nat /\ index % 4 = 0
      /\ Later(start) \subseteq Nat /\ \A p \in Later(start) : p % 4 = 0 /\ p > start
      /\ start \in Nat
  BY <1>2, InText DEF StepInv, InsnInv, Later
<1>4. index <= Sec.size /\ \A p \in Later(start) : index <= p
  BY <1>2 DEF StepInv, InsnInv
<1>5. \/ start = 0 /\ index = 0 /\ last <= Sec.addr
      \/ last = Sec.addr + index
  BY <1>2 DEF StepInv, InsnInv
<1>6. ASSUME Later(start) = {} PROVE last = Sec.addr + Sec.size
  BY <1>2, <1>3, <1>4, <1>5, <1>6 DEF InSymbol
<1>7. ASSUME NEW o \in Later(start), IsNext(o) PROVE last = Sec.addr + o
  <2>1. PICK p \in Later(start) : ~ (index < p - 1)
    BY <1>2, <1>7 DEF InSymbol
  <2>2. p \in Nat /\ p % 4 = 0 /\ index <= p /\ p > start
    BY <1>3, <1>4, <2>1
  <2>3. index = p
    BY <1>3, <2>1, <2>2
  <2>4. o = index
    BY <1>3, <1>4, <1>7, <2>1, <2>3 DEF IsNext
  <2> QED BY <1>3, <1>5, <2>2, <2>3, <2>4
<1>8. SymbolInv'
  <2>1. Later(start)' = Later(start) /\ \A o : IsNext(o)' <=> IsNext(o)
    BY <1>2 DEF Later, IsNext
  <2> QED BY <1>2, <1>3, <1>6, <1>7, <2>1 DEF SymbolInv
<1>9. SymbolsInv'
  BY <1>2, SymbolsKept DEF StepInv, Passed
<1>10. TextInv'
  BY <1>2 DEF StepInv, TextInv
<1> QED BY <1>1, <1>2, <1>8, <1>9, <1>10 DEF StepInv, SectionInv, InsnInv

LEMMA StepStep == StepInv /\ AllWellFormed /\ [Next]_vars => StepInv'
<1> SUFFICES ASSUME StepInv, AllWellFormed, [Next]_vars PROVE StepInv'
  OBVIOUS
<1>1. CASE UNCHANGED vars
  <2>1. TypeInv'
    BY TypeStep DEF StepInv
  <2>2. Sec' = Sec /\ File' = File /\ Offsets' = Offsets /\ Later(start)' = Later(start)
    BY <1>1 DEF vars, Sec, File, Offsets, Later
  <2>3. SymbolsInv'
    BY <1>1, SymbolsKept DEF StepInv, vars, Passed
  <2>4. (SectionInv /\ TextInv /\ InsnInv)'
    BY <1>1, <2>2 DEF StepInv, vars, SectionInv, TextInv, InsnInv
  <2>5. SymbolInv'
    <3>1. \A o : IsNext(o)' <=> IsNext(o)
      BY <2>2 DEF IsNext
    <3> QED BY <1>1, <2>2, <3>1 DEF StepInv, vars, SymbolInv
  <2> QED BY <2>1, <2>3, <2>4, <2>5 DEF StepInv
<1> QED BY <1>1, StepOpen, StepLeave, StepSection, StepText, StepNextSymbol, StepEndText,
           StepInstruction, StepEndSymbol DEF Next

\* For well-formed files the text keeps step with lastDumpAddr: nowhere does
\* the tool write more or fewer bytes than the addresses it has passed.
THEOREM KeepsStep ==
  ASSUME AllWellFormed
  PROVE  Spec => []InStep
<1>1. StepInv => InStep
  BY DEF StepInv, SectionInv, TextInv, InStep
<1>2. StepInv /\ [Next]_vars => StepInv'
  BY StepStep
<1> QED BY StepInit, <1>1, <1>2, PTL DEF Spec
-----------------------------------------------------------------------------
(***************************************************************************)
(* Well-formed files are dumped to their end: an instruction lies inside   *)
(* its section, so elf2hex stops only over one that does not decode, or    *)
(* over a name that went with an earlier file.                             *)
(***************************************************************************)

\* An instruction that is dumped ends in its section.
LEMMA InsnInside ==
  ASSUME StepInv, AllWellFormed, pc = "insn", InSymbol
  PROVE  index + 4 <= Sec.size
<1>1. /\ Sec.size \in Nat /\ index \in Nat /\ index % 4 = 0 /\ Sec.size % 4 = 0
      /\ Later(start) \subseteq Nat /\ \A p \in Later(start) : p % 4 = 0 /\ p <= Sec.size
  BY InText DEF StepInv, InsnInv, Later
<1>2. CASE Later(start) = {}
  BY <1>1, <1>2, ModFact DEF InSymbol
<1>3. CASE Later(start) # {}
  <2>1. PICK p \in Later(start) : TRUE
    BY <1>3
  <2>2. p \in Nat /\ p % 4 = 0 /\ p <= Sec.size /\ index < p - 1
    BY <1>1, <2>1 DEF InSymbol
  <2>3. index + 4 <= p
    BY <1>1, <2>2, ModFact
  <2> QED BY <1>1, <2>2, <2>3
<1> QED BY <1>2, <1>3

\* For well-formed files elf2hex never reads behind a section.  It stops early over
\* bytes that are no instruction and, with more files than one, over the freed name
\* of a symbol of a file before; with one file over nothing else than such bytes
\* (Bytes.slice, getInstruction; array_pod_sort, DumpInput).
THEOREM AbortsOnBadOnly ==
  ASSUME AllWellFormed
  PROVE  Spec => []NoAbort
<1> DEFINE AInv == StepInv /\ NoAbort
<1>1. Init => AInv
  BY StepInit DEF Init, NoAbort
<1>2. AInv /\ [Next]_vars => AInv'
  <2> SUFFICES ASSUME AInv, [Next]_vars PROVE NoAbort'
    BY StepStep
  <2>1. CASE Instruction
    <3>1. /\ pc = "insn" /\ InSymbol /\ pc' \in Decoding
          /\ index' = index + 4 /\ Sec' = Sec /\ File' = File /\ sec' = sec
      BY <2>1 DEF Instruction, Sec, File
    <3>2. index + 4 <= Sec.size /\ index \in Nat /\ sec <= Len(File)
      BY <3>1, InsnInside, InText
    <3>3. pc' = "abort" => index \in Sec.bad
      BY <3>1, <3>2 DEF Decoding
    <3>4. index' > 0 /\ index' - 4 = index
      BY <3>1, <3>2
    <3>5. pc' # "crash"
      BY <3>1 DEF Decoding
    <3> QED BY <3>1, <3>2, <3>3, <3>4, <3>5 DEF NoAbort
  <2>2. CASE SliceAssert
    <3>1. index + 4 <= Sec.size /\ index + 4 > Sec.size /\ index \in Nat /\ Sec.size \in Nat
      BY <2>2, InsnInside, InText DEF SliceAssert
    <3> QED BY <3>1
  <2>3. CASE UNCHANGED vars
    BY <2>3 DEF vars, NoAbort, Sec, File
  <2>5. CASE SortCrash \/ NameCrash
    <3>1. pc' = "crash" /\ fi' = fi /\ symbols' = symbols
      BY <2>5 DEF SortCrash, NameCrash
    <3>2. PICK s \in symbols : Dangling(s)
      BY <2>5 DEF SortCrash, NameCrash, SortReadsFreed, PrintReadsFreed, Collected, Dangling
    <3>3. s[1] \in Nat /\ fi \in Nat /\ s[1] <= fi
      BY DEF StepInv, SymbolsInv, Passed, TypeInv, TypeOK
    <3>4. s[1] < fi /\ s[4] # 0
      BY <3>2, <3>3 DEF Dangling
    <3> QED BY <3>1, <3>4 DEF NoAbort
  <2>4. CASE ~ Instruction /\ ~ SliceAssert /\ ~ SortCrash /\ ~ NameCrash /\ Next
    <3>1. pc' # "abort" /\ pc' # "crash"
      BY <2>4 DEF Next, OpenFile, CloseFile, Exit, SkipSection, DataSection, TextSection,
                  NextSymbol, EndText, EndSymbol
    <3> QED BY <3>1 DEF NoAbort
  <2> QED BY <2>1, <2>2, <2>3, <2>4, <2>5
<1>3. AInv => NoAbort
  OBVIOUS
<1> QED BY <1>1, <1>2, <1>3, PTL DEF Spec

-----------------------------------------------------------------------------
(***************************************************************************)
(* What holds of every input, however its sections and symbols lie.        *)
(***************************************************************************)

\* Words go with words.
LEMMA FillWhole == \A a, b \in Nat : Fill0s(a, b) % 4 = 0
  BY Up4Fact DEF Fill0s

LEMMA GapWhole ==
  ASSUME TypeInv, pc \in {"section", "symbol", "insn"}, sec <= Len(File)
  PROVE  Gap(Sec) % 4 = 0
<1>1. last \in Nat /\ Sec.addr \in Nat
  BY CurrentSection DEF Section, TypeInv, TypeOK
<1>2. last < Sec.addr => Sec.addr - 1 \in Nat
  BY <1>1
<1> QED BY <1>1, <1>2, FillWhole DEF Gap

\* Whatever the input, the text consists of whole words: the gap, the padding
\* of a data section and every instruction are (Fill0s, PrintDataSection).
THEOREM WordsStayWhole == Spec => []WholeWords
<1> DEFINE WInv == TypeInv /\ WholeWords
<1>1. Init => WInv
  BY TypeInit DEF Init, WholeWords
<1>2. WInv /\ [Next]_vars => WInv'
  <2> SUFFICES ASSUME WInv, [Next]_vars PROVE WholeWords'
    BY TypeStep
  <2>1. CASE OpenFile
    <3>1. pos' = BootSize + Fill0s(BootSize, TextBase)
      BY <2>1 DEF OpenFile
    <3>2. Fill0s(BootSize, TextBase) \in Nat /\ Fill0s(BootSize, TextBase) % 4 = 0
      BY FillFact, FillWhole, BaseAssumption DEF BootSize
    <3> QED BY <3>1, <3>2, ModFact DEF BootSize, WholeWords
  <2>2. CASE DataSection
    <3>1. pos' = pos + (Gap(Sec) + Up4(ContentSize(Sec)))
      BY <2>2 DEF DataSection, Emit
    <3>2. Gap(Sec) \in Nat /\ Gap(Sec) % 4 = 0 /\ ContentSize(Sec) \in Nat
      BY <2>2, CurrentSection, GapWhole DEF DataSection
    <3>3. Up4(ContentSize(Sec)) \in Nat /\ Up4(ContentSize(Sec)) % 4 = 0
      BY <3>2, Up4Fact
    <3>4. pos \in Nat /\ pos % 4 = 0
      BY DEF TypeInv, TypeOK, WholeWords
    <3>5. Gap(Sec) + Up4(ContentSize(Sec)) \in Nat /\ (Gap(Sec) + Up4(ContentSize(Sec))) % 4 = 0
      BY <3>2, <3>3, ModFact
    <3> QED BY <3>1, <3>4, <3>5, ModFact DEF WholeWords
  <2>3. CASE Instruction
    <3>1. pos' = pos + (Gap(Sec) + 4)
      BY <2>3 DEF Instruction, Emit
    <3>2. Gap(Sec) \in Nat /\ Gap(Sec) % 4 = 0
      BY <2>3, CurrentSection, GapWhole DEF Instruction, TypeInv, TypeOK
    <3>3. pos \in Nat /\ pos % 4 = 0
      BY DEF TypeInv, TypeOK, WholeWords
    <3> QED BY <3>1, <3>2, <3>3 DEF WholeWords
  <2>4. CASE NameCrash
    <3>1. pos' = pos + Gap(Sec)
      BY <2>4 DEF NameCrash, Emit
    <3>2. Gap(Sec) \in Nat /\ Gap(Sec) % 4 = 0
      BY <2>4, CurrentSection, GapWhole DEF NameCrash, TypeInv, TypeOK
    <3>3. pos \in Nat /\ pos % 4 = 0
      BY DEF TypeInv, TypeOK, WholeWords
    <3> QED BY <3>1, <3>2, <3>3 DEF WholeWords
  <2>5. CASE UNCHANGED pos
    BY <2>5 DEF WholeWords
  <2> QED BY <2>1, <2>2, <2>3, <2>4, <2>5 DEF Next, CloseFile, Exit, SkipSection, TextSection,
             NextSymbol, EndText, EndSymbol, SliceAssert, SortCrash, vars
<1>3. WInv => WholeWords
  OBVIOUS
<1> QED BY <1>1, <1>2, <1>3, PTL DEF Spec

\* Whatever the input, a name is printed only in front of the first instruction
\* of a symbol: si changes nowhere else (ProcessDisAsmInstruction).
THEOREM NamesAtSymbols == Spec => []LabelsAtSymbols
<1> DEFINE NameInv == pc = "insn" => start \in Offsets /\ (index = start \/ hexSi = CurrentSi)
           LInv == LabelsAtSymbols /\ NameInv
<1>1. Init => LInv
  BY DEF Init, LabelsAtSymbols
<1>2. LInv /\ [Next]_vars => LInv'
  <2> SUFFICES ASSUME LInv, [Next]_vars PROVE LInv'
    OBVIOUS
  <2>1. CASE OpenFile
    BY <2>1 DEF OpenFile, LabelsAtSymbols
  <2>2. CASE TextSection
    <3>1. symbols \subseteq symbols' /\ labels' = labels /\ pc' = "symbol"
      BY <2>2 DEF TextSection, Collected
    <3>2. Offsets \subseteq Offsets'
      BY <3>1 DEF Offsets
    <3> QED BY <3>1, <3>2 DEF LabelsAtSymbols
  <2>3. CASE NextSymbol
    BY <2>3 DEF NextSymbol, LabelsAtSymbols, Offsets
  <2>4. CASE Instruction
    <3>1. /\ pc = "insn" /\ symbols' = symbols /\ start' = start /\ hexSi' = CurrentSi
          /\ labels' = IF hexSi # CurrentSi THEN labels \union {<<sec, index>>} ELSE labels
      BY <2>4 DEF Instruction
    <3>2. CurrentSi' = CurrentSi /\ Offsets' = Offsets
      BY <3>1 DEF CurrentSi, Offsets
    <3>3. hexSi # CurrentSi => index \in Offsets
      BY <3>1
    <3>4. LabelsAtSymbols'
      BY <3>1, <3>2, <3>3 DEF LabelsAtSymbols
    <3> QED BY <3>1, <3>2, <3>4
  <2>5. CASE UNCHANGED <<symbols, labels>> /\ pc' # "insn"
    BY <2>5 DEF LabelsAtSymbols, Offsets
  <2>6. CASE UNCHANGED vars
    BY <2>6 DEF vars, LabelsAtSymbols, Offsets, CurrentSi
  <2> QED BY <2>1, <2>2, <2>3, <2>4, <2>5, <2>6 DEF Next, CloseFile, Exit, SkipSection,
             DataSection, EndText, EndSymbol, SliceAssert, SortCrash, NameCrash
<1>3. LInv => LabelsAtSymbols
  OBVIOUS
<1> QED BY <1>1, <1>2, <1>3, PTL DEF Spec

-----------------------------------------------------------------------------
(***************************************************************************)
(* The text is the image.  StepInv says at which addresses the tool        *)
(* writes; that the sections behind it end before that address says what   *)
(* the image has there, so each byte written is the byte of the image.     *)
(***************************************************************************)

\* The memory after the first m bytes of the image of file f.
Image(f, m) == [a \in Addr |-> IF a < m THEN ByteAt(files, f, a) ELSE Unwritten]

Behind == pc \in {"section", "symbol", "insn"} =>
    \A k \in DOMAIN File : k < sec /\ Dumped(File[k]) => ContentEnd(File[k]) <= pos

ImageInv == /\ StepInv
            /\ Behind
            /\ NothingLost
            /\ IF fi = 0 THEN pos = 0 /\ mem = [a \in Addr |-> Unwritten] ELSE mem = Image(fi, pos)

LEMMA AddrFact == \A a \in Addr : a \in Nat
  BY BaseAssumption DEF Addr

\* Contents are not longer than their section.
LEMMA ContentFact ==
  ASSUME NEW s \in Section
  PROVE  /\ ContentSize(s) \in Nat /\ ContentSize(s) <= s.size
         /\ s.addr \in Nat /\ ContentEnd(s) = s.addr + ContentSize(s)
         /\ s.kind = "text" => ContentSize(s) = s.size
  BY DEF Section, ContentSize, ContentEnd

\* What the image has at an address that only the current section can cover.
LEMMA ImageAhead ==
  ASSUME StepInv, Behind, AllWellFormed, pc \in {"section", "symbol", "insn"},
         sec \in DOMAIN File, Dumped(Sec), pos >= TextBase,
         NEW a \in Addr, a >= pos, a < Sec.addr + Up4(Sec.size)
  PROVE  ByteAt(files, fi, a) = IF Sec.addr <= a /\ a < ContentEnd(Sec)
                                THEN Byte(fi, sec, a - Sec.addr) ELSE Zero
<1> DEFINE covering == {k \in DOMAIN files[fi] : Covers(files[fi][k], a)}
<1>1. fi > 0 /\ Sec = File[sec] /\ pos \in Nat /\ a \in Nat /\ sec \in Nat
  BY AddrFact DEF StepInv, TypeInv, TypeOK, Sec
<1>2. /\ \A k \in DOMAIN File : File[k] \in Section /\ File[k].addr \in Nat /\ File[k].size \in Nat
      /\ \A k \in DOMAIN File : sec < k /\ Dumped(File[k])
             => Sec.addr + Up4(Sec.size) <= File[k].addr
  BY <1>1, Layout DEF StepInv
<1>3. Sec \in Section /\ Sec.addr \in Nat /\ ContentEnd(Sec) \in Nat /\ Up4(Sec.size) \in Nat
  BY <1>1, <1>2, ContentFact, Up4Fact
<1>4. ASSUME NEW k \in DOMAIN File, Covers(File[k], a) PROVE k = sec
  <2>1. Dumped(File[k]) /\ File[k].addr <= a /\ a < ContentEnd(File[k])
    BY <1>4 DEF Covers
  <2>2. ContentEnd(File[k]) \in Nat /\ File[k].addr \in Nat
    BY <1>2, ContentFact
  <2>3. ~ (k < sec)
    BY <1>1, <2>1, <2>2 DEF Behind
  <2>4. ~ (sec < k)
    BY <1>1, <1>2, <1>3, <2>1, <2>2
  <2>5. k \in Nat
    BY <1>1 DEF StepInv, TypeInv, TypeOK, File
  <2> QED BY <1>1, <2>3, <2>4, <2>5
<1>5. covering \subseteq {sec}
  BY <1>4 DEF File
<1>6. ~ (a < BootSize)
  BY <1>1, BaseAssumption DEF BootSize
<1>7. Covers(Sec, a) <=> Sec.addr <= a /\ a < ContentEnd(Sec)
  BY DEF Covers
<1>8. sec \in DOMAIN files[fi] /\ files[fi][sec] = Sec
  BY DEF File, Sec
<1>9. CASE Covers(Sec, a)
  <2>1. covering = {sec}
    BY <1>5, <1>8, <1>9
  <2>2. (CHOOSE k \in covering : TRUE) = sec
    BY <2>1
  <2> HIDE DEF covering
  <2>3. ByteAt(files, fi, a) = Byte(fi, sec, a - Sec.addr)
    BY <1>6, <1>8, <2>1, <2>2 DEF ByteAt, covering
  <2> QED BY <1>7, <1>9, <2>3
<1>10. CASE ~ Covers(Sec, a)
  <2>1. covering = {}
    BY <1>5, <1>8, <1>10
  <2>2. ByteAt(files, fi, a) = Zero
    BY <1>6, <2>1 DEF ByteAt
  <2> QED BY <1>7, <1>10, <2>2
<1> QED BY <1>9, <1>10

\* m bytes of the image behind the first pos make the first pos + m.
LEMMA EmitImage ==
  ASSUME pos \in Nat, mem = Image(fi, pos), fi' = fi, files' = files, NEW m \in Nat, NEW src,
         Emit(m, src),
         \A a \in Addr : a >= pos /\ a < pos + m => src[a - pos] = ByteAt(files, fi, a)
  PROVE  mem' = Image(fi, pos)'
<1>1. pos' = pos + m
  BY DEF Emit
<1>2. mem' = [a \in Addr |-> IF a < pos + m THEN ByteAt(files, fi, a) ELSE Unwritten]
  <2>1. SUFFICES ASSUME NEW a \in Addr
                 PROVE  (IF a >= pos /\ a < pos + m THEN src[a - pos] ELSE mem[a])
                            = IF a < pos + m THEN ByteAt(files, fi, a) ELSE Unwritten
    BY DEF Emit
  <2>2. a \in Nat /\ mem[a] = IF a < pos THEN ByteAt(files, fi, a) ELSE Unwritten
    BY AddrFact DEF Image
  <2> QED BY <2>2
<1> QED BY <1>1, <1>2 DEF Image

\* Where the next instruction is written.
LEMMA InsnPlace ==
  ASSUME StepInv, AllWellFormed, pc = "insn"
  PROVE  /\ Gap(Sec) \in Nat /\ pos + Gap(Sec) = Sec.addr + index
         /\ Gap(Sec) = 0 \/ index = 0
         /\ pos >= TextBase /\ pos \in Nat
<1>1. /\ Sec \in Section /\ Sec.addr \in Nat /\ Sec.addr % 4 = 0 /\ index \in Nat /\ last \in Nat
  BY InText
<1>2. pos = last /\ last % 4 = 0 /\ last >= TextBase
  BY DEF StepInv, TextInv
<1>3. Gap(Sec) \in Nat
  BY InText, CurrentSection DEF StepInv
<1>4. last + Gap(Sec) = AfterGap(Sec)
  BY <1>1, <1>2, GapFact
<1>5. CASE index = 0 /\ last <= Sec.addr
  <2>1. AfterGap(Sec) = Sec.addr
    BY <1>1, <1>5 DEF AfterGap
  <2> QED BY <1>1, <1>2, <1>3, <1>4, <1>5, <2>1
<1>6. CASE last = Sec.addr + index
  <2>1. Gap(Sec) = 0
    BY <1>1, <1>6 DEF Gap
  <2> QED BY <1>1, <1>2, <1>6, <2>1
<1> QED BY <1>5, <1>6 DEF StepInv, InsnInv

\* The boot section and the zeros behind it begin the image of every file.
LEMMA ImageOpen == ImageInv /\ AllWellFormed /\ OpenFile => ImageInv'
<1> SUFFICES ASSUME ImageInv, AllWellFormed, OpenFile PROVE ImageInv'
  OBVIOUS
<1>1. StepInv'
  BY StepOpen DEF ImageInv
<1>2. /\ pos' = TextBase /\ fi' = fi + 1 /\ files' = files /\ pc' = "section" /\ sec' = 1
      /\ mem' = [a \in Addr |-> IF a < BootSize THEN Boot(fi + 1, a)
                                ELSE IF a < TextBase THEN Zero ELSE Unwritten]
  BY BootIsTextBase DEF OpenFile
<1>3. fi + 1 \in DOMAIN files /\ fi \in Nat
  BY DEF OpenFile, FilesLeft, ImageInv, StepInv, TypeInv, TypeOK
<1>4. \A k \in DOMAIN files[fi + 1] : files[fi + 1][k].addr \in Nat /\ k \in Nat /\ k >= 1
  <2>1. files[fi + 1] \in Seq(Section)
    BY <1>3 DEF ImageInv, StepInv, TypeInv, TypeOK
  <2>2. \A k \in DOMAIN files[fi + 1] : files[fi + 1][k] \in Section /\ k \in Nat /\ k >= 1
    BY <2>1
  <2> QED BY <2>2 DEF Section
<1>5. ASSUME NEW a \in Addr, a < TextBase, ~ (a < BootSize)
      PROVE  ByteAt(files, fi + 1, a) = Zero
  <2>1. \A k \in DOMAIN files[fi + 1] : ~ Covers(files[fi + 1][k], a)
    BY <1>4, <1>5, AddrFact, BaseAssumption DEF Covers, Dumped
  <2> QED BY <1>5, <2>1 DEF ByteAt
<1>6. \A a \in Addr : a < BootSize => ByteAt(files, fi + 1, a) = Boot(fi + 1, a) /\ a < TextBase
  BY AddrFact, BaseAssumption DEF ByteAt, BootSize
<1>7. mem' = [a \in Addr |-> IF a < TextBase THEN ByteAt(files, fi + 1, a) ELSE Unwritten]
  BY <1>2, <1>5, <1>6
<1>8. mem' = Image(fi, pos)'
  BY <1>2, <1>7 DEF Image
<1>9. Behind'
  <2>1. File' = files[fi + 1]
    BY <1>2 DEF File
  <2> QED BY <1>2, <1>4, <2>1 DEF Behind
<1> QED BY <1>1, <1>2, <1>3, <1>8, <1>9 DEF ImageInv, NothingLost

LEMMA ImageData == ImageInv /\ AllWellFormed /\ DataSection => ImageInv'
<1> SUFFICES ASSUME ImageInv, AllWellFormed, DataSection PROVE ImageInv'
  OBVIOUS
<1> DEFINE gap  == Gap(Sec)
           size == ContentSize(Sec)
           m    == gap + Up4(size)
           src  == [i \in 0 .. m-1 |-> IF i >= gap /\ i < gap + size
                                       THEN Byte(fi, sec, i - gap) ELSE Zero]
<1>1. StepInv'
  BY StepSection DEF ImageInv
<1>2. /\ pc = "section" /\ pc' = "section" /\ sec' = sec + 1 /\ fi' = fi /\ files' = files
      /\ File' = File /\ Dumped(Sec) /\ Sec = File[sec]
      /\ Emit(m, src)
  BY DEF DataSection, File, Sec
<1>3. fi > 0 /\ sec \in DOMAIN File /\ sec \in Nat /\ Sec \in Section /\ gap \in Nat /\ fi \in Nat
  BY CurrentSection DEF DataSection, ImageInv, StepInv, TypeInv, TypeOK
<1>4. /\ Sec.addr \in Nat /\ Sec.addr % 4 = 0 /\ Sec.size \in Nat
  BY <1>2, <1>3, Layout DEF ImageInv, StepInv
<1>5. pos = last /\ last % 4 = 0 /\ last \in Nat /\ last >= TextBase /\ last <= Sec.addr
  BY <1>2, <1>3 DEF ImageInv, StepInv, SectionInv, TypeInv, TypeOK
<1>6. pos + gap = Sec.addr
  <2>1. AfterGap(Sec) = Sec.addr
    BY <1>4, <1>5 DEF AfterGap
  <2> QED BY <1>3, <1>4, <1>5, <2>1, GapFact
<1>7. /\ size \in Nat /\ ContentEnd(Sec) = Sec.addr + size
      /\ Up4(size) \in Nat /\ size <= Up4(size) /\ Up4(size) <= Up4(Sec.size)
  <2>1. size \in Nat /\ (size = 0 \/ size = Sec.size)
    BY <1>4 DEF ContentSize
  <2>2. Up4(0) = 0 /\ Up4(Sec.size) \in Nat
    BY <1>4, Up4Fact DEF Up4
  <2> QED BY <2>1, <2>2, Up4Fact DEF ContentEnd
<1>8. ASSUME NEW a \in Addr, a >= pos, a < pos + m
      PROVE  src[a - pos] = ByteAt(files, fi, a)
  <2>1. a \in Nat
    BY <1>8, AddrFact
  <2>2. a < Sec.addr + Up4(size)
    <3> HIDE DEF gap, size
    <3> QED BY <1>3, <1>4, <1>5, <1>6, <1>7, <1>8, <2>1
  <2>3. a < Sec.addr + Up4(Sec.size)
    <3>1. Up4(Sec.size) \in Nat
      BY <1>4, Up4Fact
    <3> HIDE DEF gap, size
    <3> QED BY <1>4, <1>7, <2>1, <2>2, <3>1
  <2>4. ByteAt(files, fi, a) = IF Sec.addr <= a /\ a < ContentEnd(Sec)
                               THEN Byte(fi, sec, a - Sec.addr) ELSE Zero
    BY <1>2, <1>3, <1>5, <1>8, <2>3, ImageAhead DEF ImageInv
  <2> HIDE DEF gap, size
  <2>5. a - pos \in 0 .. m-1
    BY <1>3, <1>5, <1>7, <1>8, <2>1
  <2>6. src[a - pos] = IF a - pos >= gap /\ a - pos < gap + size
                       THEN Byte(fi, sec, (a - pos) - gap) ELSE Zero
    BY <2>5
  <2>7. /\ a - pos >= gap <=> Sec.addr <= a
        /\ a - pos < gap + size <=> a < Sec.addr + size
        /\ (a - pos) - gap = a - Sec.addr
    BY <1>3, <1>4, <1>5, <1>6, <1>7, <2>1
  <2> HIDE DEF src
  <2> QED BY <1>7, <2>4, <2>6, <2>7
<1>9. mem' = Image(fi, pos)'
  <2>1. m \in Nat
    <3> HIDE DEF gap, size
    <3> QED BY <1>3, <1>7
  <2>2. mem = Image(fi, pos)
    BY <1>3 DEF ImageInv
  <2>3. pos \in Nat
    BY <1>5
  <2> HIDE DEF src, m
  <2> QED BY <1>2, <1>8, <2>1, <2>2, <2>3, EmitImage
<1>10. Behind'
  <2>1. pos' = pos + m /\ pos' >= pos /\ ContentEnd(Sec) <= pos' /\ pos' \in Nat
    <3>1. pos' = pos + m
      BY <1>2 DEF Emit
    <3> HIDE DEF gap, size, src
    <3>2. pos' = Sec.addr + Up4(size)
      <4> DEFINE u == Up4(size)
      <4>1. pos \in Nat /\ u \in Nat /\ pos' = pos + (gap + u)
        BY <1>5, <1>7, <3>1
      <4> HIDE DEF u
      <4>2. pos' = Sec.addr + u
        BY <1>3, <1>4, <1>6, <4>1
      <4> QED BY <4>2 DEF u
    <3>3. m \in Nat
      BY <1>3, <1>7
    <3> HIDE DEF m
    <3> QED BY <1>4, <1>5, <1>7, <3>1, <3>2, <3>3
  <2>2. ASSUME NEW k \in DOMAIN File, k < sec + 1, Dumped(File[k])
        PROVE  ContentEnd(File[k]) <= pos'
    <3>1. k \in Nat /\ File[k] \in Section
      BY <1>3, Layout DEF ImageInv, StepInv, TypeInv, TypeOK, File
    <3>2. ContentEnd(File[k]) \in Nat
      BY <3>1, ContentFact
    <3>3. CASE k = sec
      BY <1>2, <2>1, <3>3
    <3>4. CASE k < sec
      BY <1>2, <1>5, <2>1, <2>2, <3>2, <3>4 DEF ImageInv, Behind
    <3> QED BY <1>3, <2>2, <3>1, <3>3, <3>4
  <2> QED BY <1>2, <2>2 DEF Behind
<1> QED BY <1>1, <1>2, <1>3, <1>9, <1>10 DEF ImageInv, NothingLost

LEMMA ImageInsn == ImageInv /\ AllWellFormed /\ Instruction => ImageInv'
<1> SUFFICES ASSUME ImageInv, AllWellFormed, Instruction PROVE ImageInv'
  OBVIOUS
<1> DEFINE gap == Gap(Sec)
           src == [i \in 0 .. gap+3 |-> IF i < gap THEN Zero
                     ELSE IF index + i - gap < Sec.size
                     THEN Byte(fi, sec, index + i - gap) ELSE Junk]
<1>1. StepInv'
  BY StepInstruction DEF ImageInv
<1>2. /\ pc = "insn" /\ pc' \in {"insn", "abort"} /\ sec' = sec /\ fi' = fi /\ files' = files
      /\ File' = File /\ InSymbol /\ Emit(gap + 4, src)
  BY DEF Instruction, Decoding, File
<1>3. /\ Sec \in Section /\ Sec.addr \in Nat /\ Sec.size \in Nat /\ index \in Nat
      /\ fi > 0 /\ sec \in DOMAIN File /\ Sec.kind = "text" /\ Dumped(Sec) /\ fi \in Nat
  BY <1>2, InText DEF ImageInv, StepInv, TypeInv, TypeOK
<1>4. /\ gap \in Nat /\ pos + gap = Sec.addr + index /\ (gap = 0 \/ index = 0)
      /\ pos >= TextBase /\ pos \in Nat
  BY <1>2, InsnPlace DEF ImageInv
<1>5. index + 4 <= Sec.size
  BY <1>2, InsnInside DEF ImageInv
<1>6. ContentEnd(Sec) = Sec.addr + Sec.size /\ Up4(Sec.size) >= Sec.size /\ Up4(Sec.size) \in Nat
  BY <1>3, ContentFact, Up4Fact
<1> HIDE DEF gap
<1>7. ASSUME NEW a \in Addr, a >= pos, a < pos + (gap + 4)
      PROVE  src[a - pos] = ByteAt(files, fi, a)
  <2>1. a \in Nat /\ a - pos \in 0 .. gap+3
    BY <1>4, <1>7, AddrFact
  <2>2. a < Sec.addr + Sec.size
    BY <1>3, <1>4, <1>5, <1>7, <2>1
  <2>3. a < Sec.addr + Up4(Sec.size)
    BY <1>3, <1>6, <2>1, <2>2
  <2>4. ByteAt(files, fi, a) = IF Sec.addr <= a THEN Byte(fi, sec, a - Sec.addr) ELSE Zero
    <3>1. ByteAt(files, fi, a) = IF Sec.addr <= a /\ a < ContentEnd(Sec)
                                 THEN Byte(fi, sec, a - Sec.addr) ELSE Zero
      BY <1>2, <1>3, <1>4, <1>7, <2>3, ImageAhead DEF ImageInv
    <3> QED BY <1>6, <2>2, <3>1
  <2>5. src[a - pos] = IF a - pos < gap THEN Zero
                       ELSE IF index + (a - pos) - gap < Sec.size
                       THEN Byte(fi, sec, index + (a - pos) - gap) ELSE Junk
    BY <2>1
  <2>6. /\ a - pos < gap <=> a < Sec.addr
        /\ ~ (a - pos < gap) => index + (a - pos) - gap = a - Sec.addr /\ a - Sec.addr < Sec.size
    BY <1>3, <1>4, <2>1, <2>2
  <2> HIDE DEF src
  <2> QED BY <1>3, <2>1, <2>4, <2>5, <2>6
<1> HIDE DEF src
<1>8. mem' = Image(fi, pos)'
  <2>1. mem = Image(fi, pos) /\ gap + 4 \in Nat
    BY <1>3, <1>4 DEF ImageInv
  <2> QED BY <1>2, <1>4, <1>7, <2>1, EmitImage
<1>9. Behind'
  <2>1. pos' \in Nat /\ pos' >= pos
    BY <1>2, <1>4 DEF Emit
  <2>2. \A k \in DOMAIN File : ContentEnd(File[k]) \in Nat
    BY <1>3, Layout, ContentFact DEF ImageInv, StepInv
  <2> QED BY <1>2, <1>4, <2>1, <2>2 DEF ImageInv, Behind
<1> QED BY <1>1, <1>2, <1>3, <1>8, <1>9 DEF ImageInv, NothingLost

\* The zeros before a text section whose first name is gone.
LEMMA ImageCrash == ImageInv /\ AllWellFormed /\ NameCrash => ImageInv'
<1> SUFFICES ASSUME ImageInv, AllWellFormed, NameCrash PROVE ImageInv'
  OBVIOUS
<1> DEFINE gap == Gap(Sec)
           src == [i \in 0 .. gap-1 |-> Zero]
<1>1. StepInv'
  BY StepLeave DEF ImageInv
<1>2. /\ pc = "insn" /\ pc' = "crash" /\ fi' = fi /\ files' = files /\ InSymbol /\ Emit(gap, src)
  BY DEF NameCrash
<1>3. /\ Sec \in Section /\ Sec.addr \in Nat /\ Sec.size \in Nat /\ index \in Nat
      /\ fi > 0 /\ sec \in DOMAIN File /\ Dumped(Sec)
  BY <1>2, InText DEF ImageInv, StepInv, TypeInv, TypeOK
<1>4. /\ gap \in Nat /\ pos + gap = Sec.addr + index /\ (gap = 0 \/ index = 0)
      /\ pos >= TextBase /\ pos \in Nat
  BY <1>2, InsnPlace DEF ImageInv
<1>5. Up4(Sec.size) \in Nat
  BY <1>3, Up4Fact
<1> HIDE DEF gap
<1>6. ASSUME NEW a \in Addr, a >= pos, a < pos + gap
      PROVE  src[a - pos] = ByteAt(files, fi, a)
  <2>1. a \in Nat /\ a - pos \in 0 .. gap-1
    BY <1>4, <1>6, AddrFact
  <2>2. a < Sec.addr /\ a < Sec.addr + Up4(Sec.size)
    BY <1>3, <1>4, <1>5, <1>6, <2>1
  <2>3. ByteAt(files, fi, a) = IF Sec.addr <= a /\ a < ContentEnd(Sec)
                               THEN Byte(fi, sec, a - Sec.addr) ELSE Zero
    BY <1>2, <1>3, <1>4, <1>6, <2>2, ImageAhead DEF ImageInv
  <2>4. ByteAt(files, fi, a) = Zero
    BY <1>3, <2>1, <2>2, <2>3
  <2> QED BY <2>1, <2>4
<1> HIDE DEF src
<1>7. mem' = Image(fi, pos)'
  <2>1. mem = Image(fi, pos)
    BY <1>3 DEF ImageInv, StepInv, TypeInv, TypeOK
  <2> QED BY <1>2, <1>4, <1>6, <2>1, EmitImage
<1> QED BY <1>1, <1>2, <1>3, <1>7 DEF ImageInv, NothingLost, Behind

\* The steps that write nothing.
LEMMA ImageOther ==
  ImageInv /\ AllWellFormed /\ (CloseFile \/ Exit \/ SliceAssert \/ SortCrash \/ SkipSection \/ TextSection
                                \/ NextSymbol \/ EndText \/ EndSymbol)
    => ImageInv' /\ UNCHANGED <<files, fi, pos, mem>>
<1> SUFFICES ASSUME ImageInv, AllWellFormed,
                    CloseFile \/ Exit \/ SliceAssert \/ SortCrash \/ SkipSection \/ TextSection
                       \/ NextSymbol \/ EndText \/ EndSymbol
             PROVE  ImageInv' /\ UNCHANGED <<files, fi, pos, mem>>
  OBVIOUS
<1>1. UNCHANGED <<files, fi, pos, mem>>
  BY DEF CloseFile, Exit, SliceAssert, SortCrash, SkipSection, TextSection, NextSymbol, EndText,
         EndSymbol
<1>2. StepInv'
  <2>1. [Next]_vars
    BY DEF Next
  <2> QED BY <2>1, StepStep DEF ImageInv
<1>3. IF fi' = 0 THEN pos' = 0 /\ mem' = [a \in Addr |-> Unwritten] ELSE mem' = Image(fi, pos)'
  BY <1>1 DEF ImageInv, Image
<1>4. File' = File
  BY <1>1 DEF File
<1>5. CASE CloseFile
  <2>1. /\ pc = "section" /\ pc' = "open" /\ sec > Len(File)
    BY <1>5 DEF CloseFile
  <2>2. fi > 0 /\ fi \in DOMAIN files /\ File \in Seq(Section) /\ sec \in Nat /\ pos >= TextBase
    BY <2>1 DEF ImageInv, StepInv, SectionInv, TypeInv, TypeOK, File
  <2>3. \A k \in DOMAIN File : k < sec
    BY <2>1, <2>2
  <2>4. \A k \in DOMAIN File : Dumped(File[k]) => ContentEnd(File[k]) <= pos
    BY <2>1, <2>3 DEF ImageInv, Behind
  <2>5. \A k \in DOMAIN File : ContentEnd(File[k]) \in Nat
    BY <2>2, ContentFact
  <2>6. pos \in Nat
    BY DEF ImageInv, StepInv, TypeInv, TypeOK
  <2>7. ImageDone(files, fi, pos)
    BY <2>2, <2>4, <2>5, <2>6 DEF ImageDone, File
  <2>8. ImageDone(files, fi, pos)'
    BY <1>1, <2>7 DEF ImageDone
  <2>9. NothingLost' /\ Behind'
    BY <2>1, <2>8 DEF NothingLost, Behind
  <2> QED BY <1>1, <1>2, <1>3, <2>9 DEF ImageInv
<1>6. ASSUME pc' # "open", Behind' PROVE ImageInv'
  BY <1>2, <1>3, <1>6 DEF ImageInv, NothingLost
<1>7. CASE Exit \/ SliceAssert \/ SortCrash
  BY <1>1, <1>6, <1>7 DEF Exit, SliceAssert, SortCrash, Behind
<1>8. CASE SkipSection
  <2>1. /\ pc = "section" /\ pc' = "section" /\ sec' = sec + 1 /\ sec \in Nat
        /\ ~ Dumped(File[sec]) /\ File \in Seq(Section)
    BY <1>8 DEF SkipSection, Sec, File, ImageInv, StepInv, TypeInv, TypeOK
  <2>2. \A k \in DOMAIN File : k < sec + 1 => k < sec \/ k = sec
    BY <2>1
  <2>3. Behind'
    BY <1>1, <1>4, <2>1, <2>2 DEF ImageInv, Behind
  <2> QED BY <1>1, <1>6, <2>1, <2>3
<1>9. CASE TextSection \/ NextSymbol \/ EndSymbol
  <2>1. pc \in {"section", "symbol", "insn"} /\ pc' # "open" /\ sec' = sec
    BY <1>9 DEF TextSection, NextSymbol, EndSymbol
  <2>2. Behind'
    BY <1>1, <1>4, <2>1 DEF ImageInv, Behind
  <2> QED BY <1>1, <1>6, <2>1, <2>2
<1>10. CASE EndText
  <2>1. /\ pc = "symbol" /\ pc' = "section" /\ sec' = sec + 1 /\ Later(start) = {}
    BY <1>10 DEF EndText
  <2>2. /\ Sec = File[sec] /\ Sec \in Section /\ Sec.kind = "text" /\ sec \in Nat
        /\ File \in Seq(Section)
    BY <2>1, InText DEF ImageInv, StepInv, TypeInv, TypeOK, Sec, File
  <2>3. start # -1
    BY <2>1 DEF ImageInv, StepInv, TextInv, Later
  <2>4. pos = ContentEnd(Sec) /\ ContentEnd(Sec) \in Nat
    <3>1. pos = Sec.addr + Sec.size
      BY <2>1, <2>3 DEF ImageInv, StepInv, SymbolInv, TextInv
    <3>2. ContentEnd(Sec) = Sec.addr + Sec.size /\ ContentEnd(Sec) \in Nat
      BY <2>2, ContentFact
    <3> QED BY <3>1, <3>2
  <2>5. \A k \in DOMAIN File : k < sec + 1 => k < sec \/ k = sec
    BY <2>2
  <2>6. Behind'
    BY <1>1, <1>4, <2>1, <2>2, <2>4, <2>5 DEF ImageInv, Behind
  <2> QED BY <1>1, <1>6, <2>1, <2>6
<1> QED BY <1>1, <1>5, <1>7, <1>8, <1>9, <1>10

LEMMA ImageInit == Init => ImageInv
  BY StepInit DEF Init, ImageInv, Behind, NothingLost

LEMMA ImageStep == ImageInv /\ AllWellFormed /\ [Next]_vars => ImageInv'
<1> SUFFICES ASSUME ImageInv, AllWellFormed, [Next]_vars PROVE ImageInv'
  OBVIOUS
<1>1. CASE UNCHANGED vars
  <2>1. StepInv'
    BY StepStep DEF ImageInv
  <2> QED BY <1>1, <2>1 DEF vars, ImageInv, Behind, File, NothingLost, ImageDone, Image
<1> QED BY <1>1, ImageOpen, ImageData, ImageInsn, ImageCrash, ImageOther DEF Next

\* For well-formed files every byte of the text is the byte of the image that
\* belongs at its position (DisassembleObject and all that it calls).
THEOREM TextIsImage ==
  ASSUME AllWellFormed
  PROVE  Spec => []ImageRight
<1>1. ImageInv => ImageRight
  <2> SUFFICES ASSUME ImageInv, fi > 0, NEW a \in Addr, a < pos
               PROVE  mem[a] = ByteAt(files, fi, a)
    BY DEF ImageRight
  <2>1. mem = Image(fi, pos)
    BY DEF ImageInv, StepInv, TypeInv, TypeOK
  <2> QED BY <2>1 DEF Image
<1>2. ImageInv /\ [Next]_vars => ImageInv'
  BY ImageStep
<1> QED BY ImageInit, <1>1, <1>2, PTL DEF Spec

\* For well-formed files a file is left only when all of its contents are in
\* the text (the loop over the sections and the early returns in it).
THEOREM AllIsWritten ==
  ASSUME AllWellFormed
  PROVE  Spec => []NothingLost
<1>1. ImageInv => NothingLost
  BY DEF ImageInv
<1>2. ImageInv /\ [Next]_vars => ImageInv'
  BY ImageStep
<1> QED BY ImageInit, <1>1, <1>2, PTL DEF Spec

\* For well-formed files elf2hex does what LoadImage promises the machine: its
\* text grows into the image of one file after the other, and into nothing else.
THEOREM LoadsImage ==
  ASSUME AllWellFormed
  PROVE  Spec => LoadSpec
<1>1. Init => Load!AInit
  BY DEF Init, Load!AInit
<1>2. ImageInv /\ [Next]_vars => [Load!ANext]_(Load!avars)
  <2> SUFFICES ASSUME ImageInv, [Next]_vars, ~ UNCHANGED <<files, fi, pos, mem>>
               PROVE  Load!ANext
    BY DEF Load!avars
  <2>1. ImageInv'
    BY ImageStep
  <2>2. OpenFile \/ DataSection \/ Instruction \/ NameCrash
    BY ImageOther DEF Next, vars
  <2>3. pos' \in Nat /\ files' = files
    BY <2>1, <2>2 DEF OpenFile, DataSection, Instruction, NameCrash, ImageInv, StepInv, TypeInv, TypeOK
  <2>4. CASE OpenFile
    <3>1. pc = "open" /\ fi < Len(files) /\ fi' = fi + 1 /\ fi \in Nat
      BY <2>4 DEF OpenFile, FilesLeft, ImageInv, StepInv, TypeInv, TypeOK
    <3>2. fi > 0 => ImageDone(files, fi, pos)
      BY <3>1 DEF ImageInv, NothingLost
    <3>3. mem' = [a \in Addr |-> IF a < pos' THEN ByteAt(files, fi', a) ELSE Unwritten]
      BY <2>1, <2>3, <3>1 DEF ImageInv, Image
    <3> QED BY <2>3, <3>1, <3>2, <3>3 DEF Load!ANext, Load!BeginFile, Load!Written
  <2>5. CASE DataSection \/ Instruction \/ NameCrash
    <3>1. pc \in {"section", "insn"} /\ fi' = fi /\ fi > 0
      BY <2>5 DEF DataSection, Instruction, NameCrash, ImageInv, StepInv, TypeInv, TypeOK
    <3>2. mem' = [a \in Addr |-> IF a < pos' THEN ByteAt(files, fi, a) ELSE Unwritten]
      BY <2>1, <2>3, <3>1 DEF ImageInv, Image
    <3>3. pos' # pos
      BY <2>3, <3>1, <3>2 DEF ImageInv, Image
    <3>4. pos \in Nat /\ pos' >= pos
      <4>1. pos \in Nat /\ Gap(Sec) \in Nat /\ ContentSize(Sec) \in Nat
        BY <2>5, CurrentSection DEF DataSection, Instruction, NameCrash, ImageInv, StepInv, TypeInv, TypeOK
      <4>2. Up4(ContentSize(Sec)) \in Nat
        BY <4>1, Up4Fact
      <4>3. \/ pos' = pos + (Gap(Sec) + Up4(ContentSize(Sec)))
            \/ pos' = pos + (Gap(Sec) + 4)
            \/ pos' = pos + Gap(Sec)
        BY <2>5 DEF DataSection, Instruction, NameCrash, Emit
      <4> QED BY <4>1, <4>2, <4>3
    <3> QED BY <2>3, <3>1, <3>2, <3>3, <3>4 DEF Load!ANext, Load!Extend, Load!Written
  <2> QED BY <2>2, <2>4, <2>5
<1>3. ImageInv /\ [Next]_vars => ImageInv'
  BY ImageStep
<1> QED BY ImageInit, <1>1, <1>2, <1>3, PTL DEF Spec, LoadSpec, Load!ASpec

-----------------------------------------------------------------------------
(***************************************************************************)
(* A data section is one piece of the text, whatever the input: only the   *)
(* step that dumps it writes bytes of it, and nothing written is ever      *)
(* written over.                                                           *)
(***************************************************************************)
Of(b, f, k) == b[1] = f /\ b[2] = k

IsData(k) == Dumped(File[k]) /\ File[k].kind = "data"

\* Section k is in the text from p on, and nowhere else.
Piece(k, p) ==
    /\ p \in Nat /\ p + File[k].size <= pos
    /\ \A i \in 0 .. File[k].size-1 : p + i \in Addr => mem[p + i] = Byte(fi, k, i)
    /\ \A a \in Addr : Of(mem[a], fi, k) => a \in p .. p + File[k].size-1

Fresh(k) == \A a \in Addr : ~ Of(mem[a], fi, k)

PieceInv ==
    /\ TypeInv
    /\ pc \in {"section", "symbol", "insn"} =>
           \A k \in DOMAIN File : IsData(k) =>
               IF k < sec THEN \E p \in Nat : Piece(k, p) ELSE Fresh(k)
    /\ pc = "open" /\ fi > 0 =>
           \A k \in DOMAIN File : IsData(k) => \E p \in Nat : Piece(k, p)

\* The sections of the current file.
LEMMA FileFact ==
  ASSUME TypeInv, fi > 0
  PROVE  /\ File \in Seq(Section) /\ fi \in Nat
         /\ \A k \in DOMAIN File : File[k] \in Section /\ File[k].size \in Nat /\ k \in Nat /\ k >= 1
<1>1. fi \in DOMAIN files /\ fi \in Nat
  BY DEF TypeInv, TypeOK
<1>2. File \in Seq(Section)
  BY <1>1 DEF TypeInv, TypeOK, File
<1>3. \A k \in DOMAIN File : File[k] \in Section /\ k \in Nat /\ k >= 1
  BY <1>2
<1> QED BY <1>1, <1>2, <1>3 DEF Section

\* What is written of other sections leaves section k where it is.
LEMMA PieceKept ==
  ASSUME TypeInv, fi > 0, fi' = fi, files' = files, NEW m \in Nat, NEW src, Emit(m, src),
         NEW k \in DOMAIN File, \A i \in 0 .. m-1 : ~ Of(src[i], fi, k)
  PROVE  /\ \A p \in Nat : Piece(k, p) => Piece(k, p)'
         /\ Fresh(k) => Fresh(k)'
<1>1. File' = File /\ pos \in Nat /\ pos' = pos + m
  BY DEF File, TypeInv, TypeOK, Emit
<1>2. \A a \in Addr : mem'[a] = IF a >= pos /\ a < pos + m THEN src[a - pos] ELSE mem[a]
  BY DEF Emit
<1>3. \A a \in Addr : a \in Nat
  BY AddrFact
<1>4. \A a \in Addr : Of(mem'[a], fi, k) => mem'[a] = mem[a]
  <2>1. SUFFICES ASSUME NEW a \in Addr, a >= pos, a < pos + m, Of(src[a - pos], fi, k)
                 PROVE  FALSE
    BY <1>2
  <2>2. a - pos \in 0 .. m-1
    BY <1>1, <1>3, <2>1
  <2> QED BY <2>1, <2>2
<1>5. ASSUME NEW p \in Nat, Piece(k, p) PROVE Piece(k, p)'
  <2> DEFINE size == File[k].size
  <2>1. size \in Nat
    BY FileFact
  <2>2. /\ p + size <= pos
        /\ \A i \in 0 .. size-1 : p + i \in Addr => mem[p + i] = Byte(fi, k, i)
        /\ \A a \in Addr : Of(mem[a], fi, k) => a \in p .. p + size-1
    BY <1>5 DEF Piece
  <2> HIDE DEF size
  <2>3. p + size <= pos'
    BY <1>1, <2>1, <2>2
  <2>4. ASSUME NEW i \in 0 .. size-1, p + i \in Addr PROVE mem'[p + i] = Byte(fi, k, i)
    <3>1. ~ (p + i >= pos)
      BY <1>1, <2>1, <2>2
    <3>2. mem'[p + i] = mem[p + i]
      BY <1>2, <2>4, <3>1
    <3> QED BY <2>2, <2>4, <3>2
  <2>5. \A a \in Addr : Of(mem'[a], fi, k) => a \in p .. p + size-1
    BY <1>4, <2>2
  <2> QED BY <1>1, <2>3, <2>4, <2>5 DEF Piece, size
<1>6. Fresh(k) => Fresh(k)'
  BY <1>1, <1>4 DEF Fresh
<1> QED BY <1>5, <1>6

\* The step that dumps section k leaves it in one piece.
LEMMA PieceMade ==
  ASSUME TypeInv, DataSection, Sec.kind = "data", NEW k, k = sec, Fresh(k)
  PROVE  \E p \in Nat : Piece(k, p)'
<1> DEFINE gap  == Gap(Sec)
           size == ContentSize(Sec)
           m    == gap + Up4(size)
           src  == [i \in 0 .. m-1 |-> IF i >= gap /\ i < gap + size
                                       THEN Byte(fi, sec, i - gap) ELSE Zero]
<1>1. /\ fi > 0 /\ sec \in Nat /\ sec >= 1 /\ Sec \in Section /\ Sec = File[sec] /\ gap \in Nat
      /\ pos \in Nat /\ fi \in Nat
  BY CurrentSection, FileFact DEF DataSection, TypeInv, TypeOK, Sec
<1>2. size = Sec.size /\ size \in Nat
  BY <1>1 DEF ContentSize, Section
<1>3. Up4(size) \in Nat /\ Up4(size) >= size
  BY <1>2, Up4Fact
<1>4. /\ fi' = fi /\ files' = files /\ File' = File /\ Emit(m, src)
  BY DEF DataSection, File
<1> HIDE DEF gap, size
<1>5. m \in Nat
  BY <1>1, <1>3
<1>6. pos' = pos + m
  BY <1>4 DEF Emit
<1>7. \A a \in Addr : mem'[a] = IF a >= pos /\ a < pos + m THEN src[a - pos] ELSE mem[a]
  BY <1>4 DEF Emit
<1>8. \A i \in 0 .. m-1 : src[i] = IF i >= gap /\ i < gap + size
                                   THEN Byte(fi, sec, i - gap) ELSE Zero
  OBVIOUS
<1> HIDE DEF src
<1> PICK p \in Nat : p = pos + gap
  BY <1>1
<1>9. p + size <= pos'
  BY <1>1, <1>2, <1>3, <1>6
<1>10. ASSUME NEW i \in 0 .. size-1, p + i \in Addr PROVE mem'[p + i] = Byte(fi, sec, i)
  <2>1. p + i >= pos /\ p + i < pos + m /\ (p + i) - pos = gap + i
    BY <1>1, <1>2, <1>3
  <2>2. gap + i \in 0 .. m-1 /\ gap + i >= gap /\ gap + i < gap + size /\ (gap + i) - gap = i
    BY <1>1, <1>2, <1>3
  <2>3. mem'[p + i] = src[gap + i]
    BY <1>7, <1>10, <2>1
  <2> QED BY <1>8, <2>2, <2>3
<1>11. ASSUME NEW a \in Addr, Of(mem'[a], fi, sec) PROVE a \in p .. p + size-1
  <2>1. a \in Nat
    BY AddrFact
  <2>2. a >= pos /\ a < pos + m
    BY <1>7, <1>11 DEF Fresh
  <2>3. a - pos \in 0 .. m-1 /\ mem'[a] = src[a - pos]
    BY <1>1, <1>5, <1>7, <2>1, <2>2
  <2>4. a - pos >= gap /\ a - pos < gap + size
    <3>1. ~ Of(Zero, fi, sec)
      BY <1>1 DEF Of, Zero
    <3> QED BY <1>8, <1>11, <2>3, <3>1
  <2> QED BY <1>1, <1>2, <2>1, <2>4
<1> HIDE DEF m
<1>12. Piece(k, p)'
  <2>1. File'[k].size = size
    BY <1>1, <1>2, <1>4
  <2> QED BY <1>4, <1>9, <1>10, <1>11, <2>1 DEF Piece
<1> QED BY <1>12

LEMMA PieceOpen == PieceInv /\ OpenFile => PieceInv'
<1> SUFFICES ASSUME PieceInv, OpenFile PROVE PieceInv'
  OBVIOUS
<1>1. TypeInv'
  BY TypeStep DEF PieceInv, Next
<1>2. /\ pc' = "section" /\ sec' = 1 /\ fi' = fi + 1 /\ fi \in Nat
      /\ mem' = [a \in Addr |-> IF a < BootSize THEN Boot(fi + 1, a)
                                ELSE IF a < BootSize + Fill0s(BootSize, TextBase)
                                THEN Zero ELSE Unwritten]
  BY DEF OpenFile, PieceInv, TypeInv, TypeOK
<1>3. \A k \in DOMAIN File' : k \in Nat /\ k >= 1
  <2>1. fi' \in DOMAIN files' /\ files' \in Seq(Seq(Section))
    BY <1>1, <1>2 DEF TypeInv, TypeOK
  <2>2. File' \in Seq(Section)
    BY <2>1 DEF File
  <2> QED BY <2>2
<1>4. ASSUME NEW k \in DOMAIN File', NEW a \in Addr PROVE ~ Of(mem'[a], fi', k)
  <2>1. mem'[a] \in {Boot(fi + 1, a), Zero, Unwritten}
    BY <1>2
  <2>2. ~ Of(Boot(fi + 1, a), fi', k) /\ ~ Of(Zero, fi', k) /\ ~ Of(Unwritten, fi', k)
    BY <1>2, <1>3 DEF Of, Boot, Zero, Unwritten
  <2> QED BY <2>1, <2>2
<1>5. \A k \in DOMAIN File' : Fresh(k)' /\ ~ (k < sec')
  BY <1>2, <1>3, <1>4 DEF Fresh
<1> QED BY <1>1, <1>2, <1>5 DEF PieceInv

LEMMA PieceData == PieceInv /\ DataSection => PieceInv'
<1> SUFFICES ASSUME PieceInv, DataSection PROVE PieceInv'
  OBVIOUS
<1> DEFINE gap  == Gap(Sec)
           size == ContentSize(Sec)
           m    == gap + Up4(size)
           src  == [i \in 0 .. m-1 |-> IF i >= gap /\ i < gap + size
                                       THEN Byte(fi, sec, i - gap) ELSE Zero]
<1>1. TypeInv'
  BY TypeStep DEF PieceInv, Next
<1>2. /\ pc = "section" /\ pc' = "section" /\ sec' = sec + 1 /\ fi' = fi /\ files' = files
      /\ File' = File /\ Emit(m, src) /\ fi > 0 /\ sec \in Nat /\ Sec = File[sec] /\ TypeInv
  BY DEF DataSection, File, Sec, PieceInv, TypeInv, TypeOK
<1>3. m \in Nat
  <2>1. gap \in Nat /\ size \in Nat
    BY <1>2, CurrentSection DEF DataSection
  <2>2. Up4(size) \in Nat
    BY <2>1, Up4Fact
  <2> QED BY <2>1, <2>2
<1>4. ASSUME NEW k \in DOMAIN File, k # sec, NEW i \in 0 .. m-1 PROVE ~ Of(src[i], fi, k)
  <2>1. k >= 1 /\ k \in Nat
    BY <1>2, FileFact
  <2>2. src[i] = IF i >= gap /\ i < gap + size THEN Byte(fi, sec, i - gap) ELSE Zero
    OBVIOUS
  <2>3. ~ Of(Byte(fi, sec, i - gap), fi, k) /\ ~ Of(Zero, fi, k)
    BY <1>4, <2>1 DEF Of, Byte, Zero
  <2> HIDE DEF src
  <2> QED BY <2>2, <2>3
<1> HIDE DEF m, src
<1>5. ASSUME NEW k \in DOMAIN File, IsData(k)
      PROVE  IF k < sec + 1 THEN \E p \in Nat : Piece(k, p)' ELSE Fresh(k)'
  <2>1. k \in Nat
    BY <1>2, FileFact
  <2>2. CASE k = sec
    <3>1. Fresh(k) /\ Sec.kind = "data"
      BY <1>2, <1>5, <2>2 DEF PieceInv, IsData
    <3>2. \E p \in Nat : Piece(k, p)'
      BY <1>2, <2>2, <3>1, PieceMade
    <3> QED BY <1>2, <2>2, <3>2
  <2>3. CASE k # sec
    <3>1. /\ \A p \in Nat : Piece(k, p) => Piece(k, p)'
          /\ Fresh(k) => Fresh(k)'
      BY <1>2, <1>3, <1>4, <2>3, PieceKept
    <3>2. IF k < sec THEN \E p \in Nat : Piece(k, p) ELSE Fresh(k)
      BY <1>2, <1>5 DEF PieceInv
    <3>3. k < sec + 1 <=> k < sec
      BY <1>2, <2>1, <2>3
    <3> QED BY <3>1, <3>2, <3>3
  <2> QED BY <2>2, <2>3
<1>6. \A k : IsData(k)' <=> IsData(k)
  BY <1>2 DEF IsData
<1> QED BY <1>1, <1>2, <1>5, <1>6 DEF PieceInv

LEMMA PieceInsn == PieceInv /\ Instruction => PieceInv'
<1> SUFFICES ASSUME PieceInv, Instruction PROVE PieceInv'
  OBVIOUS
<1> DEFINE gap == Gap(Sec)
           src == [i \in 0 .. gap+3 |-> IF i < gap THEN Zero
                     ELSE IF index + i - gap < Sec.size
                     THEN Byte(fi, sec, index + i - gap) ELSE Junk]
<1>1. TypeInv'
  BY TypeStep DEF PieceInv, Next
<1>2. /\ pc = "insn" /\ pc' \in {"insn", "abort"} /\ sec' = sec /\ fi' = fi /\ files' = files
      /\ File' = File /\ Emit(gap + 4, src) /\ TypeInv
      /\ fi > 0 /\ Sec = File[sec] /\ Sec.kind = "text"
  BY DEF Instruction, Decoding, File, Sec, PieceInv, TypeInv, TypeOK
<1>3. gap \in Nat /\ gap + 4 \in Nat /\ (gap + 4) - 1 = gap + 3
  <2>1. gap \in Nat
    BY <1>2, CurrentSection DEF TypeInv, TypeOK
  <2> HIDE DEF gap
  <2> QED BY <2>1
<1>4. ASSUME NEW k \in DOMAIN File, IsData(k), NEW i \in 0 .. (gap + 4)-1
      PROVE  ~ Of(src[i], fi, k)
  <2>1. k >= 1 /\ k \in Nat /\ k # sec
    BY <1>2, <1>4, FileFact DEF IsData
  <2>2. src[i] \in {Zero, Byte(fi, sec, index + i - gap), Junk}
    BY <1>3
  <2>3. /\ ~ Of(Byte(fi, sec, index + i - gap), fi, k)
        /\ ~ Of(Zero, fi, k) /\ ~ Of(Junk, fi, k)
    BY <2>1 DEF Of, Byte, Zero, Junk
  <2> HIDE DEF src
  <2> QED BY <2>2, <2>3
<1> HIDE DEF gap, src
<1>5. ASSUME NEW k \in DOMAIN File, IsData(k)
      PROVE  IF k < sec THEN \E p \in Nat : Piece(k, p)' ELSE Fresh(k)'
  <2>1. /\ \A p \in Nat : Piece(k, p) => Piece(k, p)'
        /\ Fresh(k) => Fresh(k)'
    BY <1>2, <1>3, <1>4, <1>5, PieceKept
  <2>2. IF k < sec THEN \E p \in Nat : Piece(k, p) ELSE Fresh(k)
    BY <1>2, <1>5 DEF PieceInv
  <2> QED BY <2>1, <2>2
<1>6. \A k : IsData(k)' <=> IsData(k)
  BY <1>2 DEF IsData
<1> QED BY <1>1, <1>2, <1>5, <1>6 DEF PieceInv

\* The steps that write nothing, and the end over a name that is gone.
LEMMA PieceOther ==
  PieceInv /\ (CloseFile \/ Exit \/ SliceAssert \/ SortCrash \/ NameCrash \/ SkipSection \/ TextSection
               \/ NextSymbol \/ EndText \/ EndSymbol \/ UNCHANGED vars) => PieceInv'
<1> SUFFICES ASSUME PieceInv,
                    CloseFile \/ Exit \/ SliceAssert \/ SortCrash \/ NameCrash \/ SkipSection
                       \/ TextSection \/ NextSymbol \/ EndText \/ EndSymbol \/ UNCHANGED vars
             PROVE  PieceInv'
  OBVIOUS
<1>0. CASE SortCrash \/ NameCrash
  <2>1. pc' = "crash" /\ TypeInv'
    BY <1>0, TypeStep DEF SortCrash, NameCrash, PieceInv, Next
  <2> QED BY <2>1 DEF PieceInv
<1> SUFFICES ASSUME ~ (SortCrash \/ NameCrash) PROVE PieceInv'
  BY <1>0
<1>1. fi' = fi /\ files' = files /\ pos' = pos /\ mem' = mem /\ File' = File
  BY DEF CloseFile, Exit, SliceAssert, SkipSection, TextSection, NextSymbol, EndText, EndSymbol,
         vars, File
<1>2. TypeInv'
  BY TypeStep DEF PieceInv, Next
<1>3. \A k : /\ IsData(k)' <=> IsData(k)
             /\ \A p : Piece(k, p)' <=> Piece(k, p)
             /\ Fresh(k)' <=> Fresh(k)
  BY <1>1 DEF IsData, Piece, Fresh
<1>4. CASE CloseFile
  <2>1. pc = "section" /\ pc' = "open" /\ sec > Len(File) /\ fi > 0 /\ File \in Seq(Section)
        /\ sec \in Nat
    BY <1>4, FileFact DEF CloseFile, PieceInv, TypeInv, TypeOK
  <2>2. \A k \in DOMAIN File : k < sec
    BY <2>1
  <2> QED BY <1>1, <1>2, <1>3, <2>1, <2>2 DEF PieceInv
<1>5. CASE Exit \/ SliceAssert
  BY <1>2, <1>5 DEF Exit, SliceAssert, PieceInv
<1>6. CASE SkipSection \/ EndText
  <2>1. /\ pc \in {"section", "symbol"} /\ pc' = "section" /\ sec' = sec + 1 /\ fi > 0
        /\ sec \in Nat /\ ~ IsData(sec)
    BY <1>6 DEF SkipSection, EndText, IsData, Sec, PieceInv, TypeInv, TypeOK
  <2>2. \A k \in DOMAIN File : IsData(k) => (k < sec + 1 <=> k < sec)
    <3>1. \A k \in DOMAIN File : k \in Nat
      BY <2>1, FileFact DEF PieceInv
    <3> QED BY <2>1, <3>1
  <2> QED BY <1>1, <1>2, <1>3, <2>1, <2>2 DEF PieceInv
<1>7. CASE TextSection \/ NextSymbol \/ EndSymbol
  <2>1. pc \in {"section", "symbol", "insn"} /\ pc' # "open" /\ sec' = sec
    BY <1>7 DEF TextSection, NextSymbol, EndSymbol
  <2> QED BY <1>1, <1>2, <1>3, <2>1 DEF PieceInv
<1>8. CASE UNCHANGED vars
  <2>1. pc' = pc /\ sec' = sec
    BY <1>8 DEF vars
  <2> QED BY <1>1, <1>2, <1>3, <2>1 DEF PieceInv
<1> QED BY <1>4, <1>5, <1>6, <1>7, <1>8

\* Whatever the input, each data section is in the text once, in one piece and
\* with nothing between its bytes (ProcessDataSection, PrintDataSection).
THEOREM DataStaysTogether == Spec => []DataInOnePiece
<1>1. Init => PieceInv
  BY TypeInit DEF Init, PieceInv
<1>2. PieceInv /\ [Next]_vars => PieceInv'
  BY PieceOpen, PieceData, PieceInsn, PieceOther DEF Next
<1>3. PieceInv => DataInOnePiece
  <2> SUFFICES ASSUME PieceInv, pc = "open", fi > 0, pos <= Top,
                      NEW k \in DOMAIN File, IsData(k)
               PROVE  \E p \in Addr :
                        /\ \A i \in 0 .. File[k].size-1 : mem[p + i] = Byte(fi, k, i)
                        /\ \A a \in Addr : mem[a][1] = fi /\ mem[a][2] = k
                                              => a \in p .. p + File[k].size-1
    BY DEF DataInOnePiece, IsData
  <2>1. PICK p \in Nat : Piece(k, p)
    BY DEF PieceInv
  <2>2. /\ File[k].size \in Nat /\ File[k].size > 0 /\ pos \in Nat /\ Top \in Nat
    BY FileFact, BaseAssumption DEF PieceInv, IsData, Dumped, TypeInv, TypeOK
  <2>3. \A i \in 0 .. File[k].size-1 : p + i \in Addr
    BY <2>1, <2>2 DEF Piece, Addr
  <2>4. p \in Addr
    BY <2>1, <2>2 DEF Piece, Addr
  <2> QED BY <2>1, <2>3, <2>4 DEF Piece, Of
<1> QED BY <1>1, <1>2, <1>3, PTL DEF Spec

-----------------------------------------------------------------------------
(***************************************************************************)
(* What lies behind Terminates without fairness: each step takes something *)
(* off what is left, in an order that has no endless descent.              *)
(***************************************************************************)

\* Files to open, and whether one is open; sections from the present one on;
\* symbols behind the present one; bytes to the end of the present symbol.
FilesLeftOver == 2 * (Len(files) - fi) +
                 (IF pc \in {"exit", "abort", "crash"} THEN 0 ELSE IF pc = "open" THEN 1 ELSE 2)
SectionsLeftOver == IF pc \in {"section", "symbol", "insn"}
                    THEN 2 * (Len(File) + 1 - sec) + (IF pc = "section" THEN 1 ELSE 0) ELSE 0
SymbolsLeftOver == IF pc \in {"symbol", "insn"} THEN Cardinality(Later(start)) ELSE 0
LoopEnd == IF Later(start) = {} THEN Sec.size ELSE CHOOSE p \in Later(start) : TRUE
BytesLeftOver == IF pc = "insn" THEN 1 + (IF index < LoopEnd THEN LoopEnd - index ELSE 0) ELSE 0

Measured == /\ FilesLeftOver \in Nat /\ SectionsLeftOver \in Nat
            /\ SymbolsLeftOver \in Nat /\ BytesLeftOver \in Nat

\* One of the four is less and those before it are the same.
Advances ==
    \/ FilesLeftOver' < FilesLeftOver
    \/ /\ FilesLeftOver' = FilesLeftOver
       /\ \/ SectionsLeftOver' < SectionsLeftOver
          \/ /\ SectionsLeftOver' = SectionsLeftOver
             /\ \/ SymbolsLeftOver' < SymbolsLeftOver
                \/ SymbolsLeftOver' = SymbolsLeftOver /\ BytesLeftOver' < BytesLeftOver

LEMMA LaterFact ==
  ASSUME TypeInv
  PROVE  /\ IsFiniteSet(Later(start)) /\ Later(start) \subseteq Nat
         /\ Cardinality(Later(start)) \in Nat
         /\ \A o \in Later(start) : IsFiniteSet(Later(o)) /\ Cardinality(Later(o)) < Cardinality(Later(start))
<1>1. symbols \subseteq Nat \X Nat \X Nat \X Nat /\ IsFiniteSet(symbols) /\ start \in Nat \union {-1}
  BY DEF TypeInv, TypeOK
<1>2. Offsets \subseteq Nat
  BY <1>1 DEF Offsets
<1>3. IsFiniteSet(Offsets)
  <2> DEFINE f == [s \in symbols |-> s[3]]
  <2>1. f \in Surjection(symbols, Offsets)
    BY DEF Offsets, Surjection
  <2> HIDE DEF f
  <2> QED BY <1>1, <2>1, FS_Surjection
<1>4. \A o : Later(o) \subseteq Offsets
  BY DEF Later
<1>5. \A o : IsFiniteSet(Later(o)) /\ Cardinality(Later(o)) \in Nat
  BY <1>3, <1>4, FS_Subset, FS_CardinalityType
<1>6. ASSUME NEW o \in Later(start) PROVE Cardinality(Later(o)) < Cardinality(Later(start))
  <2>1. o \in Nat /\ o > start /\ o \in Offsets
    BY <1>2 DEF Later
  <2>2. o \notin Later(o)
    BY <2>1 DEF Later
  <2>3. Later(o) \subseteq Later(start)
    <3>1. ASSUME NEW p \in Later(o) PROVE p \in Later(start)
      <4>1. p \in Nat /\ p \in Offsets /\ p > o
        BY <1>2 DEF Later
      <4>2. start \in Int /\ o \in Int /\ p \in Int
        BY <1>1, <2>1, <4>1
      <4>3. p > start
        BY <2>1, <4>1, <4>2
      <4> QED BY <4>1, <4>3 DEF Later
    <3> QED BY <3>1
  <2>4. Later(o) # Later(start)
    BY <2>2
  <2> QED BY <1>5, <2>3, <2>4, FS_Subset
<1> QED BY <1>2, <1>4, <1>5, <1>6

LEMMA EndFact ==
  ASSUME TypeInv, pc \in {"symbol", "insn"}
  PROVE  /\ LoopEnd \in Nat /\ index \in Nat
         /\ InSymbol => index < LoopEnd
<1>1. Sec.size \in Nat /\ index \in Nat
  <2>1. sec <= Len(File)
    BY DEF TypeInv, TypeOK
  <2> QED BY <2>1, CurrentSection DEF Section, TypeInv, TypeOK
<1>2. Later(start) \subseteq Nat
  BY LaterFact
<1>3. CASE Later(start) = {}
  BY <1>1, <1>3 DEF LoopEnd, InSymbol
<1>4. CASE Later(start) # {}
  <2>1. LoopEnd \in Later(start)
    BY <1>4 DEF LoopEnd
  <2>2. InSymbol => index < LoopEnd - 1
    BY <1>4, <2>1 DEF InSymbol
  <2> QED BY <1>1, <1>2, <2>1, <2>2
<1> QED BY <1>3, <1>4

LEMMA MeasureFact ==
  ASSUME TypeInv
  PROVE  Measured
<1>1. fi \in Nat /\ Len(files) \in Nat /\ fi <= Len(files)
  BY DEF TypeInv, TypeOK
<1>2. FilesLeftOver \in Nat
  BY <1>1 DEF FilesLeftOver
<1>3. SectionsLeftOver \in Nat
  <2>1. CASE pc \in {"section", "symbol", "insn"}
    <3>1. fi \in 1 .. Len(files) /\ sec \in 1 .. Len(File) + 1 /\ File \in Seq(Section)
      BY <1>1, <2>1 DEF TypeInv, TypeOK, File
    <3>2. Len(File) \in Nat
      BY <3>1
    <3> QED BY <3>1, <3>2 DEF SectionsLeftOver
  <2>2. CASE pc \notin {"section", "symbol", "insn"}
    BY <2>2 DEF SectionsLeftOver
  <2> QED BY <2>1, <2>2
<1>4. SymbolsLeftOver \in Nat
  BY LaterFact DEF SymbolsLeftOver
<1>5. BytesLeftOver \in Nat
  BY EndFact DEF BytesLeftOver
<1> QED BY <1>2, <1>3, <1>4, <1>5 DEF Measured

\* A file is opened or left, or the program ends.
LEMMA FileAdvances ==
  ASSUME TypeInv, OpenFile \/ CloseFile \/ Exit \/ SliceAssert \/ SortCrash \/ NameCrash
  PROVE  Advances
<1>1. fi \in Nat /\ Len(files) \in Nat
  BY DEF TypeInv, TypeOK
<1>2. \/ pc = "open" /\ pc' = "section" /\ fi' = fi + 1 /\ files' = files
      \/ pc = "section" /\ pc' = "open" /\ fi' = fi /\ files' = files
      \/ pc = "open" /\ pc' = "exit" /\ fi' = fi /\ files' = files
      \/ pc = "insn" /\ pc' = "abort" /\ fi' = fi /\ files' = files
      \/ pc \in {"section", "insn"} /\ pc' = "crash" /\ fi' = fi /\ files' = files
  BY DEF OpenFile, CloseFile, Exit, SliceAssert, SortCrash, NameCrash
<1>3. FilesLeftOver' < FilesLeftOver
  BY <1>1, <1>2 DEF FilesLeftOver
<1> QED BY <1>3 DEF Advances

\* A section is begun or left.
LEMMA SectionAdvances ==
  ASSUME TypeInv, SkipSection \/ DataSection \/ TextSection \/ EndText
  PROVE  Advances
<1>1. fi \in Nat /\ Len(files) \in Nat
  BY DEF TypeInv, TypeOK
<1>2. /\ fi' = fi /\ files' = files /\ pc \in {"section", "symbol"} /\ pc' \in {"section", "symbol"}
      /\ \/ sec' = sec + 1 /\ pc' = "section"
         \/ sec' = sec /\ pc = "section" /\ pc' = "symbol"
  BY DEF SkipSection, DataSection, TextSection, EndText
<1>3. FilesLeftOver' = FilesLeftOver
  BY <1>2 DEF FilesLeftOver
<1>4. File' = File
  BY <1>2 DEF File
<1>5. sec \in Nat /\ Len(File) \in Nat
  <2>1. fi \in 1 .. Len(files) /\ sec \in 1 .. Len(File) + 1 /\ File \in Seq(Section)
    BY <1>1, <1>2 DEF TypeInv, TypeOK, File
  <2> QED BY <2>1
<1>6. SectionsLeftOver' < SectionsLeftOver
  BY <1>2, <1>4, <1>5 DEF SectionsLeftOver
<1> QED BY <1>3, <1>6 DEF Advances

\* The next symbol.
LEMMA SymbolAdvances ==
  ASSUME TypeInv, NextSymbol
  PROVE  Advances
<1>1. /\ pc = "symbol" /\ pc' = "insn" /\ fi' = fi /\ files' = files /\ sec' = sec /\ symbols' = symbols
      /\ start' \in Later(start)
  BY DEF NextSymbol, IsNext
<1>2. FilesLeftOver' = FilesLeftOver
  BY <1>1 DEF FilesLeftOver
<1>3. SectionsLeftOver' = SectionsLeftOver
  BY <1>1 DEF SectionsLeftOver, File
<1>4. Later(start)' = Later(start')
  BY <1>1 DEF Later, Offsets
<1>5. Cardinality(Later(start')) < Cardinality(Later(start))
  BY <1>1, LaterFact
<1>6. SymbolsLeftOver' < SymbolsLeftOver
  BY <1>1, <1>4, <1>5 DEF SymbolsLeftOver
<1> QED BY <1>2, <1>3, <1>6 DEF Advances

\* The next instruction, or the end of the symbol.
LEMMA InsnAdvances ==
  ASSUME TypeInv, Instruction \/ EndSymbol
  PROVE  Advances
<1>1. /\ pc = "insn" /\ fi' = fi /\ files' = files /\ sec' = sec /\ symbols' = symbols /\ start' = start
      /\ \/ InSymbol /\ index' = index + 4 /\ pc' \in {"abort", "insn"}
         \/ index' = index /\ pc' = "symbol"
  BY DEF Instruction, EndSymbol, Decoding
<1>2. CASE pc' = "abort"
  <2>1. fi \in Nat /\ Len(files) \in Nat
    BY DEF TypeInv, TypeOK
  <2>2. FilesLeftOver' < FilesLeftOver
    BY <1>1, <1>2, <2>1 DEF FilesLeftOver
  <2> QED BY <2>2 DEF Advances
<1>3. CASE pc' \in {"insn", "symbol"}
  <2>1. FilesLeftOver' = FilesLeftOver
    BY <1>1, <1>3 DEF FilesLeftOver
  <2>2. SectionsLeftOver' = SectionsLeftOver
    BY <1>1, <1>3 DEF SectionsLeftOver, File
  <2>3. Later(start)' = Later(start) /\ Sec' = Sec
    BY <1>1 DEF Later, Offsets, Sec, File
  <2>4. SymbolsLeftOver' = SymbolsLeftOver
    BY <1>1, <1>3, <2>3 DEF SymbolsLeftOver
  <2>5. LoopEnd' = LoopEnd
    BY <2>3 DEF LoopEnd
  <2>6. LoopEnd \in Nat /\ index \in Nat /\ (InSymbol => index < LoopEnd)
    BY <1>1, EndFact
  <2>7. BytesLeftOver' < BytesLeftOver
    BY <1>1, <1>3, <2>5, <2>6 DEF BytesLeftOver
  <2> QED BY <2>1, <2>2, <2>4, <2>7 DEF Advances
<1> QED BY <1>1, <1>2, <1>3

\* For every input, well formed or not, each step of elf2hex leaves less to do: the
\* loops over files, sections, symbols and instructions all advance, also where
\* symbols of other sections are in the vector and where an instruction lies
\* behind the end of its section (main, DisassembleObject).
THEOREM LoopsAdvance == Spec => []Measured /\ [][Advances]_vars
<1>1. TypeInv => Measured
  BY MeasureFact
<1>2. TypeInv /\ [Next]_vars => [Advances]_vars
  BY FileAdvances, SectionAdvances, SymbolAdvances, InsnAdvances DEF Next
<1> QED BY <1>1, <1>2, TypeInit, TypeStep, PTL DEF Spec
=============================================================================
