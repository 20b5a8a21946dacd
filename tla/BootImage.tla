------------------------------ MODULE BootImage ------------------------------
(***************************************************************************)
(* From a linked Cpu0 program to its first instructions.  The linker       *)
(* (exlbt/lld/ELF/Arch/Cpu0.cpp) patches the words of the program one      *)
(* relocation at a time; elf2hex (VerilogHex::PrintBootSection) writes the *)
(* four boot vectors; the processor, which is not part of the repository,  *)
(* starts at a vector and follows the jumps.                               *)
(*                                                                         *)
(* Words and addresses are 32-bit numbers in two's complement: an address  *)
(* of 2^31 and up is negative.  Code is in the lower half, what it points  *)
(* at may be anywhere.                                                     *)
(***************************************************************************)
EXTENDS Integers, Sequences

CONSTANT Objects    \* the programs to link

M16 == 65536
M24 == 256 * M16
WordMax == 32767 * M16 + (M16 - 1)
Words == -WordMax - 1 .. WordMax
Types == {"32", "HI16", "LO16", "PC24"}

\* A program: the words to patch by their addresses, the relocations in the
\* order the linker applies them, the address of .text, its symbols as pairs
\* <<name, address>> and its byte order.
IsProgram(o) ==
    /\ o.text \in 0 .. WordMax
    /\ o.little \in BOOLEAN
    /\ o.syms \in Seq({"ISR", "other"} \X (0 .. WordMax))
    /\ o.word \in [DOMAIN o.word -> Words]
    /\ DOMAIN o.word \subseteq 16 .. WordMax
    /\ o.relocs \in Seq([type : Types, site : DOMAIN o.word, target : Words])
    /\ \A i, j \in DOMAIN o.relocs : o.relocs[i].site = o.relocs[j].site => i = j

ASSUME ProgramAssumption == \A o \in Objects : IsProgram(o)

VARIABLES obj,     \* the program
          word,    \* its words
          done,    \* how many relocations were applied
          boot,    \* the 16 bytes of the boot section
          phase,   \* "link", "off", "run"
          pc,      \* the program counter
          reg      \* the register that lui and ori build an address in

vars == <<obj, word, done, boot, phase, pc, reg>>

-----------------------------------------------------------------------------
\* The linker.

\* (deviation) the program counter taken to be two instructions ahead
PcTwoAhead(w, val) == (w - (w % M24)) + ((val - 8) % M24)
\* (deviation) not masked to 24 bits
Pc24Unmasked(w, val) == (w - (w % M24)) + (val - 4)
\* R_CPU0_PC24: 24 bits of the distance to the next instruction, unchecked.
ApplyPc24(w, val) == (w - (w % M24)) + ((val - 4) % M24)

\* (deviation) rounded, as for a low half that is sign extended
Hi16Rounded(w, val) == (w - (w % M16)) + (val \div M16) + ((val % M16) \div 32768)
\* R_CPU0_HI16: val has 64 bits, its sign extended (relocateAlloc of lld), and
\* val >> 16 is or-ed in whole: that of a negative val is ones above 16 bits.
WriteHi16(w, val) == IF val >= 0 THEN (w - (w % M16)) + (val \div M16) ELSE val \div M16

WriteLo16(w, val) == (w - (w % M16)) + (val % M16)

\* getRelExpr: R_PC for PC24, R_ABS for the others.
Value(r) == IF r.type = "PC24" THEN r.target - r.site ELSE r.target

Relocated(r, w) == CASE r.type = "32"   -> Value(r)
                     [] r.type = "HI16" -> WriteHi16(w, Value(r))
                     [] r.type = "LO16" -> WriteLo16(w, Value(r))
                     [] r.type = "PC24" -> ApplyPc24(w, Value(r))

Init == /\ obj \in Objects
        /\ word = obj.word
        /\ done = 0
        /\ boot = [a \in 0 .. 15 |-> 0]
        /\ phase = "link"
        /\ pc = 0
        /\ reg = 0

Relocate ==
    /\ phase = "link" /\ done < Len(obj.relocs)
    /\ LET r == obj.relocs[done + 1]
       IN word' = [word EXCEPT ![r.site] = Relocated(r, @)]
    /\ done' = done + 1
    /\ UNCHANGED <<obj, boot, phase, pc, reg>>

-----------------------------------------------------------------------------
\* elf2hex.

Jmp == 54      \* the opcodes 0x36 and 0x3b
Jsub == 59

\* (deviation) the topmost digits are not masked
TopUnmasked(little, field) ==
    IF little THEN <<field % 256, (field \div 256) % 256, field \div M16, Jmp>>
    ELSE <<Jmp, field \div M16, (field \div 256) % 256, field % 256>>
\* The bytes of a jmp as they are printed: three bytes of the offset.
JmpBytes(little, field) ==
    IF little THEN <<field % 256, (field \div 256) % 256, (field \div M16) % 256, Jmp>>
    ELSE <<Jmp, (field \div M16) % 256, (field \div 256) % 256, field % 256>>

\* GetSymbolAddress(Obj, "ISR"): the first of that name, or 0.
IsrAddr(o) == LET found == {i \in DOMAIN o.syms : o.syms[i][1] = "ISR"}
              IN IF found = {} THEN 0
                 ELSE o.syms[CHOOSE i \in found : \A j \in found : i <= j][2]

\* (deviation) the interrupt vector's own address is not taken off
IsrOffsetFrom0(o) == IsrAddr(o) - 4
IsrOffset(o) == IsrAddr(o) - 8 - 4

\* The offset of the jmp in each vector.
VectorOffset(o, a) == CASE a = 0  -> o.text - 4
                        [] a = 4  -> 4
                        [] a = 8  -> IsrOffset(o)
                        [] a = 12 -> -4
Offset(a) == VectorOffset(obj, a)

PrintBootSection ==
    /\ phase = "link" /\ done = Len(obj.relocs)
    /\ boot' = [a \in 0 .. 15 |-> JmpBytes(obj.little, Offset((a \div 4) * 4))[(a % 4) + 1]]
    /\ phase' = "off"
    /\ UNCHANGED <<obj, word, done, pc, reg>>

-----------------------------------------------------------------------------
\* The processor.

Opcode(w) == (w \div M24) % 256
Signed24(w) == IF w % M24 < M24 \div 2 THEN w % M24 ELSE (w % M24) - M24

\* Where a jump at address a goes: the program counter is already past it.
JumpTarget(a, w) == a + 4 + Signed24(w)

InBoot(a) == a \in {0, 4, 8, 12}

Fetch(a) ==
    IF ~ InBoot(a) THEN word[a]
    ELSE IF obj.little
         THEN ((boot[a+3] * 256 + boot[a+2]) * 256 + boot[a+1]) * 256 + boot[a]
         ELSE ((boot[a] * 256 + boot[a+1]) * 256 + boot[a+2]) * 256 + boot[a+3]

\* Reset, an error or an interrupt starts the processor at its vector.
Start(v) == /\ phase = "off"
            /\ phase' = "run"
            /\ pc' = v
            /\ UNCHANGED <<obj, word, done, boot, reg>>

\* What lui leaves in a register.
Upper(half) == (IF half < M16 \div 2 THEN half ELSE half - M16) * M16

\* One instruction: jmp and jsub, lui, ori; others only take time.
Step ==
    /\ phase = "run" /\ (InBoot(pc) \/ pc \in DOMAIN word)
    /\ LET w == Fetch(pc) IN
       /\ pc' = IF Opcode(w) \in {Jmp, Jsub} THEN JumpTarget(pc, w) ELSE pc + 4
       /\ reg' = CASE Opcode(w) = 15 -> Upper(w % M16)
                   [] Opcode(w) = 13 -> reg + (w % M16)
                   [] OTHER -> reg
    /\ UNCHANGED <<obj, word, done, boot, phase>>

Next == Relocate \/ PrintBootSection \/ (\E v \in {0, 4, 8, 12} : Start(v)) \/ Step

\* Linker, elf2hex and processor keep going.
Spec == Init /\ [][Next]_vars /\ WF_vars(Next)

-----------------------------------------------------------------------------
\* Every variable stays in its range.
TypeOK == /\ obj \in Objects
          /\ word \in [DOMAIN obj.word -> Words]
          /\ done \in 0 .. Len(obj.relocs)
          /\ boot \in [0 .. 15 -> 0 .. 255]
          /\ phase \in {"link", "off", "run"}
          /\ pc \in Int /\ reg \in Int

\* The distance a 24-bit offset spans from the instruction after address a.
InReach(a, target) == target - a - 4 \in -(M24 \div 2) .. (M24 \div 2) - 1

Applied == {obj.relocs[i] : i \in 1 .. done}

\* A patched branch goes to its symbol as the processor computes it, unless the
\* symbol is out of reach, which nobody checks (Cpu0.cpp:74-79, 105-107); the
\* relocations applied later do not undo it.
BranchesLand == \A r \in Applied :
    r.type = "PC24" /\ InReach(r.site, r.target)
        => JumpTarget(r.site, word[r.site]) = r.target

\* A relocation patches the operand and leaves the operation as it is, whatever
\* the distance and the address, with one exception: V >> 16 is or-ed in without a
\* mask (Cpu0.cpp:81-84), so the lui of an address of 2^31 and up becomes an
\* operation of all ones, and only such a lui does.
OpcodesKept == \A r \in Applied : r.type # "32" =>
    Opcode(word[r.site]) = IF r.type = "HI16" /\ r.target < 0 THEN 255
                           ELSE Opcode(obj.word[r.site])

\* The two halves that HI16 and LO16 patch make up an address below 2^31 again
\* when the processor executes lui and ori.
AddressFormed == \A r \in Applied :
    phase = "run" /\ r.type = "LO16" /\ r.target >= 0 /\ pc = r.site + 4 => reg = r.target

\* Each boot vector leads where it should: reset to .text, interrupts to ISR (to
\* the reset vector in a program that has none), errors to the endless loop at
\* 12; for either byte order (PrintBootSection).
VectorGoal == CASE pc = 0  -> obj.text
                [] pc = 8  -> IsrAddr(obj)
                [] OTHER   -> 12
VectorsLead == [][phase = "run" /\ InBoot(pc) /\ InReach(pc, VectorGoal) => pc' = VectorGoal]_vars

\* After reset the processor gets through the patched words of the program to
\* the function they call.
Branches == {i \in DOMAIN obj.relocs : obj.relocs[i].type = "PC24"}
NoneTooFar == /\ InReach(0, obj.text)
              /\ \A i \in Branches : InReach(obj.relocs[i].site, obj.relocs[i].target)
Called == {obj.relocs[i].target : i \in {j \in Branches :
               Opcode(obj.word[obj.relocs[j].site]) = Jsub}}
ResetCalls == (phase = "run" /\ pc = 0 /\ NoneTooFar) ~> pc \in Called

-----------------------------------------------------------------------------
\* What the theorem about AddressFormed assumes of Objects.

\* Addresses are loaded in two instructions: the lui of its high half comes directly
\* before the ori of its low half, and no jump of the linked program leads
\* between the two or behind them.
Linked(o, a) == IF \E i \in DOMAIN o.relocs : o.relocs[i].site = a
                THEN LET i == CHOOSE i \in DOMAIN o.relocs : o.relocs[i].site = a
                     IN Relocated(o.relocs[i], o.word[a])
                ELSE o.word[a]
JumpsTo(o) == {JumpTarget(a, Linked(o, a)) :
                   a \in {b \in DOMAIN o.word : Opcode(Linked(o, b)) \in {Jmp, Jsub}}}
              \union {JumpTarget(a, Jmp * M24 + (VectorOffset(o, a) % M24)) : a \in {0, 4, 8, 12}}
LoadsInPairs == \A o \in Objects : \A i \in DOMAIN o.relocs :
    LET site == o.relocs[i].site IN
    o.relocs[i].type = "LO16" =>
        /\ Opcode(o.word[site]) = 13
        /\ \E j \in DOMAIN o.relocs :
               /\ o.relocs[j].type = "HI16" /\ o.relocs[j].target = o.relocs[i].target
               /\ o.relocs[j].site = site - 4 /\ Opcode(o.word[site - 4]) = 15
        /\ site \notin JumpsTo(o) /\ site + 4 \notin JumpsTo(o)
=============================================================================
