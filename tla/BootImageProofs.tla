--------------------------- MODULE BootImageProofs ---------------------------
(***************************************************************************)
(* What the linker patches is right for every program: the invariant       *)
(* Patched says of each word what was done to it, and the rest is          *)
(* arithmetic on one word.                                                 *)
(***************************************************************************)
EXTENDS BootImage, WellFoundedInduction, TLAPS

\* A relocation that was applied left its result and no other touched the word.
Patched ==
    /\ obj \in Objects
    /\ done \in 0 .. Len(obj.relocs)
    /\ DOMAIN word = DOMAIN obj.word
    /\ \A i \in 1 .. done : word[obj.relocs[i].site]
           = Relocated(obj.relocs[i], obj.word[obj.relocs[i].site])
    /\ \A a \in DOMAIN word :
           (\A i \in 1 .. done : obj.relocs[i].site # a) => word[a] = obj.word[a]

\* The widths of the operands.
LEMMA Radix == /\ M16 \in Nat /\ M16 > 0
               /\ M24 \in Nat /\ M24 > 0 /\ M24 = 256 * M16
               /\ WordMax \in Nat /\ WordMax = 32767 * M16 + (M16 - 1)
               /\ M16 > 32767
<1>1. M16 \in Nat /\ M16 > 32767
  BY SMT DEF M16
<1> QED
  BY <1>1 DEF M24, WordMax

\* The numbers themselves.
LEMMA Bits == M16 = 65536 /\ M24 = 16777216 /\ WordMax = 2147483647
  BY SMT DEF M16, M24, WordMax

\* A program is what the assumption on Objects says of it.
LEMMA ProgramFacts ==
    ASSUME NEW o \in Objects, NEW i \in 1 .. Len(o.relocs)
    PROVE  /\ o.relocs[i].site \in DOMAIN o.word
           /\ o.relocs[i].site \in Nat
           /\ o.relocs[i].type \in Types
           /\ o.relocs[i].target \in Words /\ o.relocs[i].target \in Int
           /\ o.word[o.relocs[i].site] \in Words /\ o.word[o.relocs[i].site] \in Int
           /\ \A j \in 1 .. Len(o.relocs) : o.relocs[j].site = o.relocs[i].site => i = j
<1>1. IsProgram(o)
  BY ProgramAssumption
<1>2. o.relocs[i] \in [type : Types, site : DOMAIN o.word, target : Words]
  <2> DEFINE S == [type : Types, site : DOMAIN o.word, target : Words]
  <2>1. o.relocs \in Seq(S)
    BY <1>1 DEF IsProgram
  <2> HIDE DEF S
  <2>2. o.relocs[i] \in S
    BY <2>1
  <2> QED
    BY <2>2 DEF S
<1>3. o.relocs[i].site \in 16 .. WordMax
  BY <1>1, <1>2 DEF IsProgram
<1>4. o.word[o.relocs[i].site] \in Words
  BY <1>1, <1>2 DEF IsProgram
<1>5. \A j \in 1 .. Len(o.relocs) : o.relocs[j].site = o.relocs[i].site => i = j
  BY <1>1 DEF IsProgram
<1> QED
  BY <1>2, <1>3, <1>4, <1>5, Radix DEF Words

\* Replacing the digits below M changes neither the digits above nor d itself.
LEMMA Replace ==
    ASSUME NEW w \in Int, NEW M \in Nat, M > 0, NEW d \in 0 .. M-1
    PROVE  /\ ((w - (w % M)) + d) \div M = w \div M
           /\ ((w - (w % M)) + d) % M = d
  OBVIOUS

LEMMA Digit == ASSUME NEW v \in Int, NEW M \in Nat, M > 0 PROVE v % M \in 0 .. M-1
  OBVIOUS

LEMMA Residue ==
    ASSUME NEW M \in Nat, M > 0, NEW v \in -M .. M-1
    PROVE  v % M = IF v >= 0 THEN v ELSE v + M
<1>1. CASE v \in 0 .. M-1
  BY <1>1
<1>2. CASE v \in -M .. -1
  BY <1>2
<1> QED
  BY <1>1, <1>2

LEMMA DivDiv == ASSUME NEW w \in Int, NEW M \in Nat, M > 0
                PROVE  w \div (256 * M) = (w \div M) \div 256
  OBVIOUS

\* A 24-bit distance that is in reach comes back from the patched word.
LEMMA JumpLands ==
    ASSUME NEW w \in Int, NEW a \in Nat, NEW t \in Int, InReach(a, t)
    PROVE  JumpTarget(a, ApplyPc24(w, t - a)) = t
<1> DEFINE v == t - a - 4
           x == ApplyPc24(w, t - a)
<1> USE Radix
<1>0. v \in Int /\ v = (t - a) - 4
  OBVIOUS
<1>1. v \in -(M24 \div 2) .. (M24 \div 2) - 1
  BY DEF InReach
<1>2. v % M24 \in 0 .. M24 - 1
  BY <1>0, Digit
<1>3. x = (w - (w % M24)) + (v % M24)
  BY <1>0 DEF ApplyPc24
<1> HIDE DEF x, v
<1>4. x % M24 = v % M24
  BY <1>2, <1>3, Replace
<1>5. v % M24 = IF v >= 0 THEN v ELSE v + M24
  <2>1. v \in -M24 .. M24 - 1
    BY <1>0, <1>1
  <2> QED
    BY <2>1, Residue
<1>6. Signed24(x) = v
  BY <1>0, <1>1, <1>4, <1>5 DEF Signed24
<1>7. JumpTarget(a, x) = a + 4 + v
  BY <1>6 DEF JumpTarget
<1> QED
  BY <1>7 DEF x, v

LEMMA Above16 ==
    ASSUME NEW w \in Int, NEW d \in 0 .. M16 - 1
    PROVE  ((w - (w % M16)) + d) \div M24 = w \div M24
<1> USE Radix
<1> DEFINE x == (w - (w % M16)) + d
<1>1. x \div M16 = w \div M16
  BY Replace
<1>2. x \in Int
  BY Digit
<1> HIDE DEF x
<1>3. x \div (256 * M16) = (x \div M16) \div 256
  BY <1>2, DivDiv
<1>4. w \div (256 * M16) = (w \div M16) \div 256
  BY DivDiv
<1>5. x \div M24 = w \div M24
  BY <1>1, <1>3, <1>4
<1> QED
  BY <1>5 DEF x

\* Patching an operand of 24 or 16 bits keeps the operation above it, or-ing in
\* the high half of a negative address covers it.
LEMMA OpcodeStays ==
    ASSUME NEW w \in Int, NEW v \in Int
    PROVE  /\ Opcode(ApplyPc24(w, v)) = Opcode(w)
           /\ Opcode(WriteLo16(w, v)) = Opcode(w)
           /\ v \in 0 .. WordMax => Opcode(WriteHi16(w, v)) = Opcode(w)
           /\ v \in -WordMax - 1 .. -1 => Opcode(WriteHi16(w, v)) = 255
<1>1. Opcode(ApplyPc24(w, v)) = Opcode(w)
  <2>1. (v - 4) % M24 \in 0 .. M24 - 1
    BY Digit, Radix
  <2>2. ApplyPc24(w, v) \div M24 = w \div M24
    BY <2>1, Replace, Radix DEF ApplyPc24
  <2> QED
    BY <2>2 DEF Opcode
<1>3. Opcode(WriteLo16(w, v)) = Opcode(w)
  <2> DEFINE d == v % M16
  <2>1. d \in 0 .. M16 - 1
    BY Digit, Radix
  <2> HIDE DEF d
  <2>2. ((w - (w % M16)) + d) \div M24 = w \div M24
    BY <2>1, Above16, Zenon
  <2> QED
    BY <2>2 DEF Opcode, WriteLo16, d
<1>4. ASSUME v \in 0 .. WordMax PROVE Opcode(WriteHi16(w, v)) = Opcode(w)
  <2> DEFINE d == v \div M16
  <2>1. d <= 32767 /\ d \in Nat
    BY <1>4, Radix
  <2>0. WriteHi16(w, v) = (w - (w % M16)) + d
    BY <1>4, Radix DEF WriteHi16
  <2> HIDE DEF d
  <2>2. d \in 0 .. M16 - 1
    BY <2>1, Radix
  <2>3. ((w - (w % M16)) + d) \div M24 = w \div M24
    BY <2>2, Above16, Zenon
  <2> QED
    BY <2>0, <2>3 DEF Opcode
<1>5. ASSUME v \in -WordMax - 1 .. -1 PROVE Opcode(WriteHi16(w, v)) = 255
  <2> DEFINE d == v \div M16
  <2>0. v >= -2147483648 /\ v <= -1
    <3>1. v >= -WordMax - 1 /\ v <= -1
      <4>1. WordMax \in Nat
        BY Radix
      <4> QED
        BY <1>5, <4>1
    <3>2. -WordMax - 1 = -2147483648
      BY SMT DEF WordMax, M16
    <3> QED
      BY SMT, <3>1, <3>2
  <2>1. d \in Int /\ d >= -32768 /\ d <= -1
    <3>1. /\ v \div 65536 \in Int
          /\ v \div 65536 >= -32768 /\ v \div 65536 <= -1
      BY SMT, <2>0
    <3> QED
      BY <3>1, Bits
  <2>2. WriteHi16(w, v) = d
    BY <1>5, Radix DEF WriteHi16
  <2> HIDE DEF d
  <2>3. d \div M24 = -1
    <3>1. d \div 16777216 = -1
      BY SMT, <2>1
    <3> QED
      BY <3>1, Bits
  <2>4. (d \div M24) % 256 = 255
    BY <2>3, Residue
  <2> QED
    BY <2>2, <2>4 DEF Opcode
<1> QED
  BY <1>1, <1>3, <1>4, <1>5

\* Patched holds of every state: each relocation has a word of its own.
LEMMA PatchedStep == Patched /\ [Next]_vars => Patched'
<1> SUFFICES ASSUME Patched, [Next]_vars PROVE Patched'
  OBVIOUS
<1>1. Len(obj.relocs) \in Nat
  <2>1. IsProgram(obj)
    BY ProgramAssumption DEF Patched
  <2> QED
    BY <2>1 DEF IsProgram
<1>2. CASE Relocate
  <2> DEFINE r == obj.relocs[done + 1]
  <2>1. /\ done + 1 \in 1 .. Len(obj.relocs)
        /\ done' = done + 1 /\ obj' = obj
        /\ word' = [word EXCEPT ![r.site] = Relocated(r, word[r.site])]
    BY <1>1, <1>2 DEF Relocate, Patched
  <2>2. /\ r.site \in DOMAIN word
        /\ \A j \in 1 .. Len(obj.relocs) : obj.relocs[j].site = r.site => done + 1 = j
    BY <2>1, ProgramFacts DEF Patched
  <2>3. \A i \in 1 .. done : obj.relocs[i].site # r.site
    BY <1>1, <2>1, <2>2 DEF Patched
  <2>4. word[r.site] = obj.word[r.site]
    BY <2>2, <2>3 DEF Patched
  <2> HIDE DEF r
  <2>5. word'[r.site] = Relocated(r, obj.word[r.site])
    BY <2>1, <2>2, <2>4
  <2>6. \A a \in DOMAIN word : a # r.site => word'[a] = word[a]
    BY <2>1
  <2>7. ASSUME NEW i \in 1 .. done'
        PROVE  word'[obj.relocs[i].site]
                   = Relocated(obj.relocs[i], obj.word[obj.relocs[i].site])
    <3>1. CASE i = done + 1
      BY <3>1, <2>5 DEF r
    <3>2. CASE i # done + 1
      <4>1. i \in 1 .. done /\ i \in 1 .. Len(obj.relocs)
        BY <1>1, <2>1, <2>7, <3>2 DEF Patched
      <4>2. obj.relocs[i].site \in DOMAIN word
        BY <4>1, ProgramFacts DEF Patched
      <4> QED
        BY <4>1, <4>2, <2>3, <2>6 DEF Patched
    <3> QED
      BY <3>1, <3>2
  <2>8. ASSUME NEW a \in DOMAIN word, \A i \in 1 .. done' : obj.relocs[i].site # a
        PROVE  word'[a] = obj.word[a]
    <3>1. a # r.site
      BY <1>1, <2>1, <2>8 DEF r, Patched
    <3>2. \A i \in 1 .. done : obj.relocs[i].site # a
      BY <1>1, <2>1, <2>8 DEF Patched
    <3> QED
      BY <3>1, <3>2, <2>6 DEF Patched
  <2>9. DOMAIN word' = DOMAIN word /\ done' \in 0 .. Len(obj.relocs)
    BY <1>1, <2>1
  <2> QED
    BY <2>1, <2>7, <2>8, <2>9 DEF Patched
<1>3. CASE UNCHANGED <<obj, word, done>>
  BY <1>3 DEF Patched
<1> QED
  BY <1>2, <1>3 DEF Next, PrintBootSection, Start, Step, vars

LEMMA AlwaysPatched == Spec => []Patched
<1>1. Init => Patched
  <2> SUFFICES ASSUME Init PROVE Patched
    OBVIOUS
  <2>1. Len(obj.relocs) \in Nat
    <3>1. IsProgram(obj)
      BY ProgramAssumption DEF Init
    <3> QED
      BY <3>1 DEF IsProgram
  <2> QED
    BY <2>1 DEF Init, Patched
<1> QED
  BY <1>1, PatchedStep, PTL DEF Spec

\* Every branch that the linker patched goes to its symbol if it is in reach
\* (applyCpu0PcReloc, relocate), whatever else was patched before and after.
THEOREM BranchesGoHome == Spec => []BranchesLand
<1>1. Patched => BranchesLand
  <2> SUFFICES ASSUME Patched, NEW i \in 1 .. done, obj.relocs[i].type = "PC24",
                      InReach(obj.relocs[i].site, obj.relocs[i].target)
               PROVE  JumpTarget(obj.relocs[i].site, word[obj.relocs[i].site])
                          = obj.relocs[i].target
    BY DEF BranchesLand, Applied
  <2> DEFINE r == obj.relocs[i]
  <2>1. i \in 1 .. Len(obj.relocs)
    <3>1. IsProgram(obj)
      BY ProgramAssumption DEF Patched
    <3>2. Len(obj.relocs) \in Nat
      BY <3>1 DEF IsProgram
    <3> QED
      BY <3>2 DEF Patched
  <2>2. r.site \in Nat /\ r.target \in Int /\ obj.word[r.site] \in Int
    BY <2>1, ProgramFacts DEF Patched
  <2>3. word[r.site] = ApplyPc24(obj.word[r.site], r.target - r.site)
    BY DEF Patched, Relocated, Value
  <2> QED
    BY <2>2, <2>3, JumpLands
<1> QED
  BY <1>1, AlwaysPatched, PTL

\* A relocation leaves the operation of its word as it is (relocate), except that
\* of an address of 2^31 and up writeCpu0Hi16 makes an operation of all ones.
THEOREM OperationsStay == Spec => []OpcodesKept
<1>1. Patched => OpcodesKept
  <2> SUFFICES ASSUME Patched, NEW i \in 1 .. done, obj.relocs[i].type # "32"
               PROVE  Opcode(word[obj.relocs[i].site])
                          = IF obj.relocs[i].type = "HI16" /\ obj.relocs[i].target < 0
                            THEN 255 ELSE Opcode(obj.word[obj.relocs[i].site])
    BY DEF OpcodesKept, Applied
  <2> DEFINE r == obj.relocs[i]
             w == obj.word[r.site]
  <2>1. i \in 1 .. Len(obj.relocs)
    <3>1. IsProgram(obj)
      BY ProgramAssumption DEF Patched
    <3>2. Len(obj.relocs) \in Nat
      BY <3>1 DEF IsProgram
    <3> QED
      BY <3>2 DEF Patched
  <2>2. /\ r.site \in Nat /\ r.target \in Int /\ w \in Int
        /\ r.target \in Words /\ r.type \in Types
    BY <2>1, ProgramFacts DEF Patched
  <2>3. word[r.site] = Relocated(r, w)
    BY DEF Patched
  <2> HIDE DEF r, w
  <2>4. r.type \in {"HI16", "LO16", "PC24"}
    BY <2>2 DEF Types, r
  <2>5. CASE r.type = "PC24"
    BY <2>2, <2>3, <2>5, OpcodeStays DEF Relocated, Value, r, w
  <2>6. CASE r.type = "LO16"
    BY <2>2, <2>3, <2>6, OpcodeStays DEF Relocated, Value, r, w
  <2>7. CASE r.type = "HI16"
    <3>1. r.target \in 0 .. WordMax \/ r.target \in -WordMax - 1 .. -1
      BY <2>2, Radix DEF Words
    <3>2. Opcode(WriteHi16(w, r.target)) = IF r.target < 0 THEN 255 ELSE Opcode(w)
      BY <2>2, <3>1, OpcodeStays
    <3>3. Relocated(r, w) = WriteHi16(w, r.target)
      BY <2>7 DEF Relocated, Value
    <3> QED
      BY <2>3, <2>7, <3>2, <3>3 DEF r, w
  <2> QED
    BY <2>4, <2>5, <2>6, <2>7
<1> QED
  BY <1>1, AlwaysPatched, PTL
-----------------------------------------------------------------------------
\* Patching keeps a word within its 32 bits.
LEMMA WordBounds == ASSUME NEW w
                    PROVE  w \in Words <=> w \in Int /\ w >= -2147483648 /\ w <= 2147483647
<1>1. w \in Words <=> w \in Int /\ w >= -WordMax - 1 /\ w <= WordMax
  <2>1. WordMax \in Nat
    BY Radix
  <2> QED
    BY <2>1 DEF Words
<1>2. -WordMax - 1 = -2147483648 /\ WordMax = 2147483647
  BY SMT DEF WordMax, M16
<1> QED
  BY SMT, <1>1, <1>2

LEMMA Patch24 ==
    ASSUME NEW w \in Words, NEW d \in Nat, d < M24
    PROVE  (w - (w % M24)) + d \in Words
<1>1. w \in Int /\ w >= -2147483648 /\ w <= 2147483647 /\ d < 16777216
  BY WordBounds, Bits
<1>2. /\ (w - (w % 16777216)) + d \in Int
      /\ (w - (w % 16777216)) + d >= -2147483648
      /\ (w - (w % 16777216)) + d <= 2147483647
  BY SMT, <1>1
<1> QED
  BY <1>2, WordBounds, Bits

LEMMA Patch16 ==
    ASSUME NEW w \in Words, NEW d \in Nat, d < M16
    PROVE  (w - (w % M16)) + d \in Words
<1>1. w \in Int /\ w >= -2147483648 /\ w <= 2147483647 /\ d < 65536
  BY WordBounds, Bits
<1>2. /\ (w - (w % 65536)) + d \in Int
      /\ (w - (w % 65536)) + d >= -2147483648
      /\ (w - (w % 65536)) + d <= 2147483647
  BY SMT, <1>1
<1> QED
  BY <1>2, WordBounds, Bits

LEMMA HighHalf == ASSUME NEW v \in Words
                  PROVE  /\ v >= 0 => v \div M16 \in Nat /\ v \div M16 < M16 \div 2
                         /\ v < 0 => v \div M16 \in Words
<1>1. v \in Int /\ v >= -2147483648 /\ v <= 2147483647
  BY WordBounds
<1>2. /\ v >= 0 => v \div 65536 \in Nat /\ v \div 65536 < 32768
      /\ v < 0 => /\ v \div 65536 \in Int
                  /\ v \div 65536 >= -2147483648 /\ v \div 65536 <= 2147483647
  BY SMT, <1>1
<1>3. 65536 \div 2 = 32768
  BY SMT
<1> QED
  BY <1>2, <1>3, WordBounds, Bits

LEMMA StaysWord ==
    ASSUME NEW w \in Words, NEW v \in Int
    PROVE  /\ ApplyPc24(w, v) \in Words
           /\ WriteLo16(w, v) \in Words
           /\ v \in Words => WriteHi16(w, v) \in Words
<1>1. ApplyPc24(w, v) \in Words
  <2> DEFINE d == (v - 4) % M24
  <2>1. d \in Nat /\ d < M24
    BY Digit, Radix
  <2>2. ApplyPc24(w, v) = (w - (w % M24)) + d
    BY DEF ApplyPc24
  <2> HIDE DEF d
  <2> QED
    BY <2>1, <2>2, Patch24
<1>2. WriteLo16(w, v) \in Words
  <2> DEFINE d == v % M16
  <2>1. d \in Nat /\ d < M16
    BY Digit, Radix
  <2>2. WriteLo16(w, v) = (w - (w % M16)) + d
    BY DEF WriteLo16
  <2> HIDE DEF d
  <2> QED
    BY <2>1, <2>2, Patch16
<1>3. ASSUME v \in Words PROVE WriteHi16(w, v) \in Words
  <2> DEFINE d == v \div M16
  <2>1. CASE v >= 0
    <3>1. d \in Nat /\ d < M16 \div 2
      BY <1>3, <2>1, HighHalf
    <3>2. d < M16
      BY <3>1, Bits
    <3>3. WriteHi16(w, v) = (w - (w % M16)) + d
      BY <2>1 DEF WriteHi16
    <3> HIDE DEF d
    <3> QED
      BY <3>1, <3>2, <3>3, Patch16
  <2>2. CASE ~ (v >= 0)
    <3>1. v < 0
      BY <2>2
    <3>2. d \in Words
      BY <1>3, <3>1, HighHalf
    <3> QED
      BY <2>2, <3>2 DEF WriteHi16
  <2> QED
    BY <2>1, <2>2
<1> QED
  BY <1>1, <1>2, <1>3

LEMMA RelocatedIsWord ==
    ASSUME NEW r, r.type \in Types, r.site \in Nat, r.target \in Words,
           NEW w \in Words
    PROVE  Relocated(r, w) \in Words
<1> DEFINE v == Value(r)
<1>1. v \in Int
  BY Radix DEF Value, Words
<1>2. r.type # "PC24" => v \in Words
  BY DEF Value
<1> HIDE DEF v
<1>3. CASE r.type = "32"
  BY <1>2, <1>3 DEF Relocated, v
<1>4. CASE r.type = "HI16"
  BY <1>1, <1>2, <1>4, StaysWord DEF Relocated, v
<1>5. CASE r.type = "LO16"
  BY <1>1, <1>5, StaysWord DEF Relocated, v
<1>6. CASE r.type = "PC24"
  BY <1>1, <1>6, StaysWord DEF Relocated, v
<1> QED
  BY <1>3, <1>4, <1>5, <1>6 DEF Types

\* A set of numbers that is not empty has a least one.
LEMMA Least == ASSUME NEW S \in SUBSET Nat, S # {}
               PROVE  \E i \in S : \A j \in S : i <= j
<1>1. PICK i \in S : \A j \in S : <<j, i>> \notin OpToRel(<, Nat)
  BY WFMin, NatLessThanWellFounded, Zenon
<1>2. \A j \in S : ~ (j < i)
  BY <1>1, Zenon DEF OpToRel
<1>3. \A j \in S : j \in Nat /\ i \in Nat
  OBVIOUS
<1> QED
  BY <1>2, <1>3

\* The address of ISR is an address.
LEMMA IsrIsAddress == ASSUME NEW o \in Objects PROVE IsrAddr(o) \in 0 .. WordMax
<1> DEFINE found == {i \in DOMAIN o.syms : o.syms[i][1] = "ISR"}
<1>1. IsProgram(o)
  BY ProgramAssumption
<1>2. o.syms \in Seq({"ISR", "other"} \X (0 .. WordMax))
  BY <1>1 DEF IsProgram
<1>3. \A i \in found : o.syms[i][2] \in 0 .. WordMax
  BY <1>2
<1>4. CASE found = {}
  BY <1>4, Radix DEF IsrAddr
<1>5. CASE found # {}
  <2>1. found \in SUBSET Nat
    BY <1>2
  <2>2. \E i \in found : \A j \in found : i <= j
    <3> HIDE DEF found
    <3> QED
      BY <1>5, <2>1, Least
  <2> QED
    BY <1>3, <1>5, <2>2 DEF IsrAddr
<1> QED
  BY <1>4, <1>5

LEMMA OffsetIsInt == ASSUME obj \in Objects, NEW a \in {0, 4, 8, 12} PROVE Offset(a) \in Int
<1>1. IsrAddr(obj) \in Int
  BY IsrIsAddress, Radix
<1>2. IsProgram(obj)
  BY ProgramAssumption
<1>3. obj.text \in Int
  BY <1>2, Radix DEF IsProgram
<1> QED
  BY <1>1, <1>3 DEF Offset, VectorOffset, IsrOffset

\* The bytes of a jmp are bytes, and read in the byte order of the program
\* they are the operation and 24 bits of the offset.
LEMMA LowDigits ==
    ASSUME NEW f \in Int
    PROVE  /\ f % 65536 = (((f \div 256) % 256) * 256) + (f % 256)
           /\ f % 16777216 = (((f \div 65536) % 256) * 65536) + (f % 65536)
<1>1. f % 65536 = (((f \div 256) % 256) * 256) + (f % 256)
  BY SMT
<1>2. f % 16777216 = (((f \div 65536) % 256) * 65536) + (f % 65536)
  BY SMT
<1> QED
  BY SMT, <1>1, <1>2

LEMMA FieldBytes ==
    ASSUME NEW f \in Int
    PROVE  /\ f % 256 \in 0 .. 255 /\ (f \div 256) % 256 \in 0 .. 255
           /\ (f \div M16) % 256 \in 0 .. 255
<1>1. f \div 256 \in Int /\ f \div M16 \in Int
  BY SMT, Bits
<1> QED
  BY SMT, <1>1, Digit

LEMMA FieldSum ==
    ASSUME NEW f \in Int
    PROVE  f % M24 = (((f \div M16) % 256) * M16) + ((((f \div 256) % 256) * 256) + (f % 256))
  BY SMT, LowDigits, Bits

LEMMA JmpByteFacts ==
    ASSUME NEW f \in Int, NEW little \in BOOLEAN
    PROVE  /\ \A i \in 1 .. 4 : JmpBytes(little, f)[i] \in 0 .. 255
           /\ little => ((JmpBytes(little, f)[4] * 256 + JmpBytes(little, f)[3]) * 256
                 + JmpBytes(little, f)[2]) * 256 + JmpBytes(little, f)[1] = Jmp * M24 + (f % M24)
           /\ ~ little => ((JmpBytes(little, f)[1] * 256 + JmpBytes(little, f)[2]) * 256
                 + JmpBytes(little, f)[3]) * 256 + JmpBytes(little, f)[4] = Jmp * M24 + (f % M24)
<1> DEFINE x == f % 256
           y == (f \div 256) % 256
           z == (f \div M16) % 256
<1>1. x \in 0 .. 255 /\ y \in 0 .. 255 /\ z \in 0 .. 255
  BY FieldBytes
<1>2. f % M24 = (z * M16) + ((y * 256) + x)
  BY FieldSum
<1>3. JmpBytes(little, f) = IF little THEN <<x, y, z, Jmp>> ELSE <<Jmp, z, y, x>>
  BY DEF JmpBytes
<1> HIDE DEF x, y, z
<1>4. Jmp = 54
  BY DEF Jmp
<1>5. ((54 * 256 + z) * 256 + y) * 256 + x = 54 * M24 + (f % M24)
  BY SMT, <1>1, <1>2, Bits
<1>6. CASE little
  BY <1>1, <1>3, <1>4, <1>5, <1>6
<1>7. CASE ~ little
  BY <1>1, <1>3, <1>4, <1>5, <1>7
<1> QED
  BY <1>6, <1>7

\* What the processor fetches is a number.
LEMMA FetchIsInt ==
    ASSUME TypeOK, InBoot(pc) \/ pc \in DOMAIN word
    PROVE  Fetch(pc) \in Int
<1>1. \A a \in 0 .. 15 : boot[a] \in Int
  <2>1. boot \in [0 .. 15 -> 0 .. 255]
    BY DEF TypeOK
  <2>2. \A a \in 0 .. 15 : boot[a] \in 0 .. 255
    BY <2>1, Zenon
  <2> QED
    BY <2>2
<1>2. CASE InBoot(pc)
  <2>1. boot[pc] \in Int /\ boot[pc+1] \in Int /\ boot[pc+2] \in Int /\ boot[pc+3] \in Int
    BY <1>1, <1>2 DEF InBoot
  <2> QED
    BY <1>2, <2>1 DEF Fetch
<1>3. CASE ~ InBoot(pc)
  BY <1>3, Radix DEF Fetch, TypeOK, Words
<1> QED
  BY <1>2, <1>3

\* Once the boot section is printed it holds the four jumps.
Printed == phase # "link" =>
    boot = [a \in 0 .. 15 |-> JmpBytes(obj.little, Offset((a \div 4) * 4))[(a % 4) + 1]]

BInv == Patched /\ TypeOK /\ Printed

LEMMA BInvInit == Init => BInv
<1> SUFFICES ASSUME Init PROVE BInv
  OBVIOUS
<1>1. IsProgram(obj)
  BY ProgramAssumption DEF Init
<1>2. Len(obj.relocs) \in Nat /\ obj.word \in [DOMAIN obj.word -> Words]
  BY <1>1 DEF IsProgram
<1>3. Patched
  BY <1>2 DEF Init, Patched
<1> QED
  BY <1>2, <1>3 DEF Init, BInv, TypeOK, Printed

LEMMA BInvStep == BInv /\ [Next]_vars => BInv'
<1> SUFFICES ASSUME BInv, [Next]_vars PROVE BInv'
  OBVIOUS
<1>1. Patched' /\ obj \in Objects /\ obj' = obj
  BY PatchedStep DEF BInv, Patched, Next, Relocate, PrintBootSection, Start, Step, vars
<1>2. CASE Relocate
  <2> DEFINE r == obj.relocs[done + 1]
  <2>1. done + 1 \in 1 .. Len(obj.relocs)
    BY <1>2 DEF Relocate, BInv, TypeOK
  <2>2. r.site \in DOMAIN word /\ r.site \in Nat /\ r.type \in Types /\ r.target \in Words
    BY <1>1, <2>1, ProgramFacts, Radix DEF BInv, Patched
  <2>3. word[r.site] \in Words
    BY <2>2 DEF BInv, TypeOK
  <2>4. word' = [word EXCEPT ![r.site] = Relocated(r, word[r.site])]
    BY <1>2 DEF Relocate
  <2> HIDE DEF r
  <2>5. Relocated(r, word[r.site]) \in Words
    BY <2>2, <2>3, RelocatedIsWord
  <2>6. word' \in [DOMAIN obj.word -> Words]
    BY <2>2, <2>4, <2>5 DEF BInv, TypeOK
  <2>7. /\ phase' = "link" /\ done' = done + 1
        /\ UNCHANGED <<boot, pc, reg>>
    BY <1>2 DEF Relocate
  <2>8. done' \in 0 .. Len(obj.relocs)
    BY <2>1, <2>7 DEF BInv, TypeOK
  <2>9. TypeOK'
    BY <1>1, <2>6, <2>7, <2>8 DEF BInv, TypeOK
  <2> QED
    BY <1>1, <2>7, <2>9 DEF BInv, Printed
<1>3. CASE PrintBootSection
  <2>1. obj.little \in BOOLEAN
    BY <1>1, ProgramAssumption DEF IsProgram
  <2>2. \A a \in 0 .. 15 : (a \div 4) * 4 \in {0, 4, 8, 12} /\ (a % 4) + 1 \in 1 .. 4
    OBVIOUS
  <2>3. \A a \in 0 .. 15 : JmpBytes(obj.little, Offset((a \div 4) * 4))[(a % 4) + 1] \in 0 .. 255
    BY <1>1, <2>1, <2>2, OffsetIsInt, JmpByteFacts
  <2>4. boot' \in [0 .. 15 -> 0 .. 255]
    BY <1>3, <2>3 DEF PrintBootSection
  <2>5. Printed'
    BY <1>3 DEF PrintBootSection, Printed, Offset
  <2> QED
    BY <1>1, <1>3, <2>4, <2>5 DEF PrintBootSection, BInv, TypeOK
<1>4. ASSUME NEW v \in {0, 4, 8, 12}, Start(v) PROVE BInv'
  BY <1>1, <1>4 DEF Start, BInv, TypeOK, Printed, Offset
<1>5. CASE Step
  <2> DEFINE w == Fetch(pc)
  <2>1. w \in Int
    BY <1>5, FetchIsInt DEF Step, BInv
  <2>2. /\ pc' = IF Opcode(w) \in {Jmp, Jsub} THEN JumpTarget(pc, w) ELSE pc + 4
        /\ reg' = CASE Opcode(w) = 15 -> Upper(w % M16)
                    [] Opcode(w) = 13 -> reg + (w % M16)
                    [] OTHER -> reg
    BY <1>5 DEF Step
  <2> HIDE DEF w
  <2>3. w % M16 \in Int /\ w % M24 \in Int /\ Upper(w % M16) \in Int
    BY <2>1, Digit, Radix DEF Upper
  <2>4. pc \in Int /\ reg \in Int
    BY DEF BInv, TypeOK
  <2>5. JumpTarget(pc, w) \in Int
    BY <2>3, <2>4, Radix DEF JumpTarget, Signed24
  <2>6. pc' \in Int /\ reg' \in Int
    BY <2>2, <2>3, <2>4, <2>5
  <2> QED
    BY <1>1, <1>5, <2>6 DEF Step, BInv, TypeOK, Printed, Offset
<1>6. CASE UNCHANGED vars
  BY <1>1, <1>6 DEF vars, BInv, TypeOK, Printed, Offset
<1> QED
  BY <1>2, <1>3, <1>4, <1>5, <1>6 DEF Next

\* Every variable of the linked program and of the processor stays in its
\* range: no relocation makes a word longer than its 32 bits (relocate), and
\* every byte that PrintBootSection prints is one.
THEOREM AlwaysInRange == Spec => []TypeOK
<1>1. BInv => TypeOK
  BY DEF BInv
<1> QED
  BY BInvInit, BInvStep, <1>1, PTL DEF Spec

\* A vector is fetched as the jmp that was printed there.
LEMMA FetchVector ==
    ASSUME BInv, phase = "run", NEW v \in {0, 4, 8, 12}
    PROVE  Fetch(v) = Jmp * M24 + (Offset(v) % M24)
<1> DEFINE b(i) == JmpBytes(obj.little, Offset(v))[i]
<1>1. obj.little \in BOOLEAN /\ Offset(v) \in Int
  BY ProgramAssumption, OffsetIsInt DEF BInv, TypeOK, IsProgram
<1>2. boot = [a \in 0 .. 15 |-> JmpBytes(obj.little, Offset((a \div 4) * 4))[(a % 4) + 1]]
  BY DEF BInv, Printed
<1>3. \A i \in 0 .. 3 : v + i \in 0 .. 15 /\ ((v + i) \div 4) * 4 = v /\ (v + i) % 4 = i
  OBVIOUS
<1>4. \A i \in 0 .. 3 : boot[v + i] = b(i + 1)
  BY <1>2, <1>3
<1>5. boot[v] = b(1) /\ boot[v+1] = b(2) /\ boot[v+2] = b(3) /\ boot[v+3] = b(4)
  <2> HIDE DEF b
  <2>1. v + 0 = v
    OBVIOUS
  <2> QED
    BY <1>4, <2>1
<1>6. InBoot(v)
  BY DEF InBoot
<1>7. Fetch(v) = IF obj.little
                 THEN ((b(4) * 256 + b(3)) * 256 + b(2)) * 256 + b(1)
                 ELSE ((b(1) * 256 + b(2)) * 256 + b(3)) * 256 + b(4)
  <2> HIDE DEF b
  <2> QED
    BY <1>5, <1>6 DEF Fetch
<1>8. CASE obj.little
  BY <1>1, <1>7, <1>8, JmpByteFacts
<1>9. CASE ~ obj.little
  BY <1>1, <1>7, <1>9, JmpByteFacts
<1> QED
  BY <1>8, <1>9

LEMMA JmpParts ==
    ASSUME NEW d \in Nat, d < M24
    PROVE  (Jmp * M24 + d) \div M24 = Jmp /\ (Jmp * M24 + d) % M24 = d /\ Jmp % 256 = Jmp
  BY SMT, Bits DEF Jmp

\* A jmp with the 24 bits of f in it goes f beyond the next instruction.
LEMMA JmpGoes ==
    ASSUME NEW a \in Int, NEW f \in Int, f \in -(M24 \div 2) .. (M24 \div 2) - 1
    PROVE  /\ Opcode(Jmp * M24 + (f % M24)) = Jmp
           /\ JumpTarget(a, Jmp * M24 + (f % M24)) = a + 4 + f
<1> DEFINE d == f % M24
           x == Jmp * M24 + d
<1>1. d \in 0 .. M24 - 1
  BY Digit, Radix
<1>2. d = IF f >= 0 THEN f ELSE f + M24
  <2>1. f \in -M24 .. M24 - 1
    BY Radix
  <2> QED
    BY <2>1, Residue, Radix
<1> HIDE DEF d
<1>3. x \div M24 = Jmp /\ x % M24 = d /\ Jmp % 256 = Jmp
  <2>1. d \in Nat /\ d < M24
    BY <1>1, Radix
  <2> QED
    BY <2>1, JmpParts
<1> HIDE DEF x
<1>4. Opcode(x) = Jmp
  BY <1>3 DEF Opcode
<1>5. Signed24(x) = f
  BY <1>1, <1>2, <1>3, Radix DEF Signed24
<1>6. JumpTarget(a, x) = a + 4 + f
  BY <1>5 DEF JumpTarget
<1> QED
  BY <1>4, <1>6 DEF x, d

\* Each of the four boot vectors leads where it should, for every program and
\* in either byte order, as long as its goal is in reach (PrintBootSection).
THEOREM VectorsGoHome == Spec => VectorsLead
<1>1. ASSUME BInv, [Next]_vars,
             phase = "run" /\ InBoot(pc) /\ InReach(pc, VectorGoal), vars' # vars
      PROVE  pc' = VectorGoal
  <2> DEFINE f == Offset(pc)
  <2>1. pc \in {0, 4, 8, 12}
    BY <1>1 DEF InBoot
  <2>2. f \in Int /\ IsrAddr(obj) \in Int /\ obj.text \in Int
    <3>1. obj \in Objects
      BY <1>1 DEF BInv, TypeOK
    <3>2. f \in Int
      BY <2>1, <3>1, OffsetIsInt
    <3>3. IsrAddr(obj) \in Int
      BY <3>1, IsrIsAddress, Radix
    <3>4. IsProgram(obj)
      BY <3>1, ProgramAssumption
    <3>5. obj.text \in Int
      BY <3>4, Radix DEF IsProgram
    <3> QED
      BY <3>2, <3>3, <3>5
  <2>3. VectorGoal \in Int /\ f = VectorGoal - pc - 4
    BY <2>1, <2>2 DEF VectorGoal, Offset, VectorOffset, IsrOffset
  <2>4. Fetch(pc) = Jmp * M24 + (f % M24)
    BY <1>1, <2>1, FetchVector
  <2> HIDE DEF f
  <2>5. f \in -(M24 \div 2) .. (M24 \div 2) - 1
    BY <1>1, <2>3 DEF InReach
  <2>6. Step
    BY <1>1 DEF Next, Relocate, PrintBootSection, Start
  <2>7. pc' = JumpTarget(pc, Fetch(pc))
    BY <2>1, <2>2, <2>4, <2>5, <2>6, JmpGoes DEF Step
  <2>8. pc' = pc + 4 + f
    BY <2>1, <2>2, <2>4, <2>5, <2>7, JmpGoes
  <2> QED
    BY <2>1, <2>2, <2>3, <2>8
<1>2. BInv /\ [Next]_vars
        => [phase = "run" /\ InBoot(pc) /\ InReach(pc, VectorGoal) => pc' = VectorGoal]_vars
  BY <1>1
<1> QED
  BY BInvInit, BInvStep, <1>2, PTL DEF Spec, VectorsLead

-----------------------------------------------------------------------------
(***************************************************************************)
(* Addresses.  Whatever the processor executes, it is an instruction as    *)
(* the linker left it, so it gets to an ori only from the lui before it.   *)
(***************************************************************************)

\* The high half of r's target is in the register before its ori, the whole
\* address behind it.
Halfway(r) == /\ pc = r.site => reg = (r.target \div M16) * M16
              /\ pc = r.site + 4 => reg = r.target
Loaded(r) == r.type = "LO16" /\ r.target >= 0
LoadInv == /\ BInv
           /\ phase # "link" => done = Len(obj.relocs)
           /\ phase = "run" => \A i \in DOMAIN obj.relocs :
                                  Loaded(obj.relocs[i]) => Halfway(obj.relocs[i])

\* After linking every word is as LoadsInPairs takes it to be.
LEMMA WordsLinked ==
    ASSUME BInv, done = Len(obj.relocs), NEW a \in DOMAIN word
    PROVE  word[a] = Linked(obj, a)
<1>1. IsProgram(obj)
  BY ProgramAssumption DEF BInv, TypeOK
<1>2. DOMAIN obj.relocs = 1 .. done
  BY <1>1 DEF IsProgram
<1>3. CASE \E i \in DOMAIN obj.relocs : obj.relocs[i].site = a
  <2>1. PICK i \in DOMAIN obj.relocs :
            i = CHOOSE j \in DOMAIN obj.relocs : obj.relocs[j].site = a
    BY <1>3
  <2>2. obj.relocs[i].site = a
    BY <1>3, <2>1
  <2>3. word[a] = Relocated(obj.relocs[i], obj.word[a])
    BY <1>2, <2>2 DEF BInv, Patched
  <2> QED
    BY <1>3, <2>1, <2>3 DEF Linked
<1>4. CASE ~ \E i \in DOMAIN obj.relocs : obj.relocs[i].site = a
  BY <1>2, <1>4 DEF BInv, Patched, Linked
<1> QED
  BY <1>3, <1>4

\* Jumps of the running program go where LoadsInPairs says.
LEMMA JumpsListed ==
    ASSUME BInv, phase = "run", done = Len(obj.relocs),
           InBoot(pc) \/ pc \in DOMAIN word, Opcode(Fetch(pc)) \in {Jmp, Jsub}
    PROVE  JumpTarget(pc, Fetch(pc)) \in JumpsTo(obj)
<1>1. CASE InBoot(pc)
  <2>1. pc \in {0, 4, 8, 12}
    BY <1>1 DEF InBoot
  <2>2. Fetch(pc) = Jmp * M24 + (VectorOffset(obj, pc) % M24)
    BY <2>1, FetchVector DEF Offset
  <2> QED
    BY <2>1, <2>2, Zenon DEF JumpsTo
<1>2. CASE ~ InBoot(pc)
  <2>1. pc \in DOMAIN word /\ DOMAIN word = DOMAIN obj.word
    BY <1>2 DEF BInv, Patched
  <2>2. Fetch(pc) = Linked(obj, pc)
    BY <1>2, <2>1, WordsLinked DEF Fetch
  <2> QED
    BY <2>1, <2>2, Zenon DEF JumpsTo
<1> QED
  BY <1>1, <1>2

\* The lui and the ori of a load, as the linker leaves them.
LEMMA Halves ==
    ASSUME LoadsInPairs, BInv, done = Len(obj.relocs),
           NEW i \in DOMAIN obj.relocs, Loaded(obj.relocs[i])
    PROVE  LET r == obj.relocs[i] IN
           /\ r.site \in DOMAIN word /\ r.site \in Nat /\ r.site >= 20
           /\ r.site - 4 \in DOMAIN word /\ r.target \in Nat
           /\ Opcode(word[r.site]) = 13 /\ word[r.site] % M16 = r.target % M16
           /\ Opcode(word[r.site - 4]) = 15 /\ word[r.site - 4] % M16 = r.target \div M16
           /\ Upper(r.target \div M16) = (r.target \div M16) * M16
           /\ r.site \notin JumpsTo(obj) /\ r.site + 4 \notin JumpsTo(obj)
<1> DEFINE r == obj.relocs[i]
<1>1. IsProgram(obj) /\ obj \in Objects
  BY ProgramAssumption DEF BInv, TypeOK
<1>2. DOMAIN obj.relocs = 1 .. done /\ DOMAIN obj.relocs = 1 .. Len(obj.relocs)
  BY <1>1 DEF IsProgram
<1>3. /\ r.site \in DOMAIN obj.word /\ r.site \in Nat /\ r.target \in Nat
      /\ r.target \in Words /\ obj.word[r.site] \in Int
  BY <1>1, <1>2, ProgramFacts DEF Loaded, Words
<1>4. PICK j \in DOMAIN obj.relocs :
          /\ obj.relocs[j].type = "HI16" /\ obj.relocs[j].target = r.target
          /\ obj.relocs[j].site = r.site - 4 /\ Opcode(obj.word[r.site - 4]) = 15
  BY <1>1 DEF LoadsInPairs, Loaded
<1>5. /\ Opcode(obj.word[r.site]) = 13
      /\ r.site \notin JumpsTo(obj) /\ r.site + 4 \notin JumpsTo(obj)
  BY <1>1 DEF LoadsInPairs, Loaded
<1>6. r.site - 4 \in DOMAIN obj.word /\ obj.word[r.site - 4] \in Int
  BY <1>1, <1>2, <1>4, ProgramFacts
<1>7. word[r.site] = WriteLo16(obj.word[r.site], r.target)
  BY <1>2 DEF BInv, Patched, Relocated, Value, Loaded
<1>8. word[r.site - 4] = WriteHi16(obj.word[r.site - 4], r.target)
  BY <1>2, <1>4 DEF BInv, Patched, Relocated, Value
<1>9. r.site - 4 \in 16 .. WordMax
  BY <1>1, <1>6 DEF IsProgram
<1>10. DOMAIN word = DOMAIN obj.word
  BY DEF BInv, Patched
<1> HIDE DEF r
<1>11. Opcode(word[r.site]) = 13 /\ Opcode(word[r.site - 4]) = 15
  <2>1. r.target \in 0 .. WordMax /\ r.target \in Int
    BY <1>3, Radix DEF Words
  <2> QED
    BY <1>3, <1>4, <1>5, <1>6, <1>7, <1>8, <2>1, OpcodeStays
<1>12. word[r.site] % M16 = r.target % M16
  <2> DEFINE d == r.target % M16
             w == obj.word[r.site]
  <2>1. d \in 0 .. M16 - 1 /\ w \in Int
    BY <1>3, Digit, Radix
  <2>2. word[r.site] = (w - (w % M16)) + d
    BY <1>7 DEF WriteLo16
  <2> HIDE DEF d, w
  <2>3. M16 \in Nat /\ M16 > 0
    BY Radix
  <2>4. ((w - (w % M16)) + d) % M16 = d
    BY <2>1, <2>3, Replace, Zenon
  <2>5. word[r.site] % M16 = d
    BY <2>2, <2>4, Zenon
  <2> QED
    BY <2>5 DEF d
<1>13. word[r.site - 4] % M16 = r.target \div M16
  <2> DEFINE d == r.target \div M16
             w == obj.word[r.site - 4]
  <2>1. d \in 0 .. M16 - 1 /\ w \in Int
    <3>1. d \in Nat /\ d < M16 \div 2
      BY <1>3, HighHalf
    <3>2. d < M16
      BY <3>1, Bits
    <3> HIDE DEF d
    <3> QED
      BY <1>6, <3>1, <3>2, Radix DEF w
  <2>2. word[r.site - 4] = (w - (w % M16)) + d
    BY <1>3, <1>8 DEF WriteHi16
  <2> HIDE DEF d, w
  <2>3. M16 \in Nat /\ M16 > 0
    BY Radix
  <2>4. ((w - (w % M16)) + d) % M16 = d
    BY <2>1, <2>3, Replace, Zenon
  <2>5. word[r.site - 4] % M16 = d
    BY <2>2, <2>4, Zenon
  <2> QED
    BY <2>5 DEF d
<1>14. r.site >= 20
  BY <1>3, <1>9, Radix
<1>15. Upper(r.target \div M16) = (r.target \div M16) * M16
  BY <1>3, HighHalf DEF Upper
<1> QED
  BY <1>3, <1>5, <1>6, <1>10, <1>11, <1>12, <1>13, <1>14, <1>15 DEF r

LEMMA HalvesJoin == ASSUME NEW t \in Nat PROVE (t \div M16) * M16 + (t % M16) = t
  BY SMT, Bits

LEMMA LoadInit == Init => LoadInv
  BY BInvInit DEF Init, LoadInv

LEMMA LoadStep == LoadsInPairs /\ LoadInv /\ [Next]_vars => LoadInv'
<1> SUFFICES ASSUME LoadsInPairs, LoadInv, [Next]_vars PROVE LoadInv'
  OBVIOUS
<1>1. BInv' /\ obj' = obj
  BY BInvStep DEF LoadInv, Next, Relocate, PrintBootSection, Start, Step, vars
<1>2. CASE Relocate
  BY <1>1, <1>2 DEF Relocate, LoadInv
<1>3. CASE PrintBootSection
  BY <1>1, <1>3 DEF PrintBootSection, LoadInv
<1>4. ASSUME NEW v \in {0, 4, 8, 12}, Start(v) PROVE LoadInv'
  <2>1. done = Len(obj.relocs) /\ done' = done /\ BInv /\ pc' = v
    BY <1>4 DEF Start, LoadInv
  <2>2. ASSUME NEW i \in DOMAIN obj.relocs, Loaded(obj.relocs[i])
        PROVE  pc' # obj.relocs[i].site /\ pc' # obj.relocs[i].site + 4
    BY <2>1, <2>2, Halves
  <2> QED
    BY <1>1, <2>1, <2>2 DEF LoadInv, Halfway
<1>5. CASE Step
  <2> DEFINE w == Fetch(pc)
  <2>1. /\ BInv /\ phase = "run" /\ phase' = "run" /\ done = Len(obj.relocs) /\ done' = done
        /\ InBoot(pc) \/ pc \in DOMAIN word
        /\ \A i \in DOMAIN obj.relocs : Loaded(obj.relocs[i]) => Halfway(obj.relocs[i])
    BY <1>5 DEF Step, LoadInv
  <2>2. /\ pc' = IF Opcode(w) \in {Jmp, Jsub} THEN JumpTarget(pc, w) ELSE pc + 4
        /\ reg' = CASE Opcode(w) = 15 -> Upper(w % M16)
                    [] Opcode(w) = 13 -> reg + (w % M16)
                    [] OTHER -> reg
    BY <1>5 DEF Step
  <2>3. pc \in Int
    BY <2>1 DEF BInv, TypeOK
  <2>4. pc' \in JumpsTo(obj) \/ pc' = pc + 4
    BY <2>1, <2>2, JumpsListed
  <2>5. ~ InBoot(pc) => w = word[pc]
    BY DEF Fetch
  <2> HIDE DEF w
  <2>6. ASSUME NEW i \in DOMAIN obj.relocs, Loaded(obj.relocs[i])
        PROVE  Halfway(obj.relocs[i])'
    <3> DEFINE r == obj.relocs[i]
    <3>1. /\ r.site \in Nat /\ r.site >= 20 /\ r.target \in Nat
          /\ Opcode(word[r.site]) = 13 /\ word[r.site] % M16 = r.target % M16
          /\ Opcode(word[r.site - 4]) = 15 /\ word[r.site - 4] % M16 = r.target \div M16
          /\ Upper(r.target \div M16) = (r.target \div M16) * M16
          /\ r.site \notin JumpsTo(obj) /\ r.site + 4 \notin JumpsTo(obj)
      BY <2>1, <2>6, Halves
    <3>2. Halfway(r)
      BY <2>1, <2>6
    <3>3. r' = r
      BY <1>1
    <3> HIDE DEF r
    <3>4. ASSUME pc' = r.site PROVE reg' = (r.target \div M16) * M16
      <4>1. pc = r.site - 4 /\ ~ InBoot(pc)
        BY <2>3, <2>4, <3>1, <3>4 DEF InBoot
      <4> QED
        BY <2>2, <2>5, <3>1, <4>1
    <3>5. ASSUME pc' = r.site + 4 PROVE reg' = r.target
      <4>1. pc = r.site /\ ~ InBoot(pc)
        BY <2>3, <2>4, <3>1, <3>5 DEF InBoot
      <4>2. reg = (r.target \div M16) * M16
        BY <3>2, <4>1 DEF Halfway
      <4>3. reg' = reg + (w % M16) /\ w % M16 = r.target % M16
        BY <2>2, <2>5, <3>1, <4>1
      <4> QED
        BY <3>1, <4>2, <4>3, HalvesJoin
    <3>6. Halfway(r)'
      BY <3>3, <3>4, <3>5 DEF Halfway
    <3> QED
      BY <3>6 DEF r
  <2> QED
    BY <1>1, <2>1, <2>6 DEF LoadInv
<1>6. CASE UNCHANGED vars
  BY <1>1, <1>6 DEF vars, LoadInv, Halfway
<1> QED
  BY <1>2, <1>3, <1>4, <1>5, <1>6 DEF Next

\* The halves that HI16 and LO16 patch (writeCpu0Hi16, writeCpu0Lo16) make up
\* an address below 2^31 when lui and ori are executed, in every program that
\* loads its addresses in such pairs and jumps into none of them.
THEOREM AddressesForm ==
  ASSUME LoadsInPairs
  PROVE  Spec => []AddressFormed
<1>1. LoadInv => AddressFormed
  <2> SUFFICES ASSUME LoadInv, NEW i \in 1 .. done, phase = "run",
                      obj.relocs[i].type = "LO16", obj.relocs[i].target >= 0,
                      pc = obj.relocs[i].site + 4
               PROVE  reg = obj.relocs[i].target
    BY DEF AddressFormed, Applied
  <2>1. IsProgram(obj)
    BY ProgramAssumption DEF LoadInv, BInv, TypeOK
  <2>2. i \in DOMAIN obj.relocs
    BY <2>1 DEF LoadInv, IsProgram
  <2> QED
    BY <2>2 DEF LoadInv, Halfway, Loaded
<1>2. LoadInv /\ [Next]_vars => LoadInv'
  BY LoadStep
<1> QED
  BY LoadInit, <1>1, <1>2, PTL DEF Spec

=============================================================================
