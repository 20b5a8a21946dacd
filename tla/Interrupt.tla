------------------------------ MODULE Interrupt ------------------------------
(***************************************************************************)
(* The interrupt runtime of the Cpu0 programs: ISR and ISR_Handler of      *)
(* exlbt/input/debug.cpp, interrupting a program such as int_sim.  The     *)
(* processor and the macros of debug.h are not part of the repository;     *)
(* they are modelled from how debug.cpp and the expected output of         *)
(* source/lld.rst use them.                                                *)
(*                                                                         *)
(* A register holds "main" while its value is the program's own.  The      *)
(* instruction to execute next is loc = <<"main", i>> in the program and   *)
(* <<step, 0>> in the handler.                                             *)
(***************************************************************************)
EXTENDS Integers, Sequences, FiniteSets

CONSTANTS Programs,    \* the programs to interrupt, sequences of instructions,
                       \* each with the machines it runs on
          Regs,        \* the registers SAVE_REGISTERS saves
          MaxRaise     \* how often devices raise their lines, all together

Sources == {"soft", "int1", "int2"}
Instructions == {"ie", "i", "soft", "int1", "at16", "orAt", "overflow", "work"}
Steps == {"entry", "call", "save", "clearIE", "read", "print", "clearOverflow",
          "clearSource", "clearI", "setIE", "restore", "reload", "return"}
Values == {"main", "bit16", "area", "isr", "junk"}

\* The hardware lines that devices may raise, and whether the processor takes
\* no interrupt until c0mov $pc, $epc.
Machines == [devices : SUBSET {"int1", "int2"}, masks : BOOLEAN]

ASSUME InterruptAssumption == /\ Programs \subseteq Seq(Instructions) \X Machines
                              /\ MaxRaise \in Nat
                              /\ Regs \intersect {"at", "lr"} = {}
                              /\ "r7" \in Regs

VARIABLES prog,     \* the program
          machine,  \* the machine it runs on
          loc,      \* the instruction to execute next
          epc,      \* $epc
          sw,       \* the bits of $sw that matter
          inExe,    \* an exception is being handled
          regs,     \* the registers
          area,     \* the save area at 0x7ff00: the registers, and $lr at +48
          seen,     \* the copy of $sw in ISR_Handler's local variables
          printed,  \* the messages
          raised,   \* what was set in $sw: a count for each source
          nested,   \* history: the handler was interrupted
          late      \* history: the sources set since the handler last read $sw,
                    \* while it ran or by the program with I cleared

vars == <<prog, machine, loc, epc, sw, inExe, regs, area, seen, printed, raised, nested, late>>

Main(i) == <<"main", i>>
At(s)   == <<s, 0>>
InMain  == loc[1] = "main"

-----------------------------------------------------------------------------
Init == /\ \E p \in Programs : prog = p[1] /\ machine = p[2]
        /\ loc = Main(1)
        /\ epc = Main(1)
        /\ sw = [ie |-> FALSE, i |-> FALSE, ovf |-> FALSE, src |-> {}]
        /\ inExe = FALSE
        /\ regs = [r \in Regs \union {"at", "lr"} |-> "main"]
        /\ area = [r \in Regs \union {"lr"} |-> "junk"]
        /\ seen = sw
        /\ printed = << >>
        /\ raised = [s \in Sources |-> 0]
        /\ nested = FALSE
        /\ late = {}

\* int_sim: one interrupt of each source (debug.cpp:76-88); $at is loaded with a
\* bit by one instruction and or-ed into $sw by the next.
IntSim == <<"ie", "i", "soft", "ie", "i", "int1", "ie", "i", "at16", "orAt">>

\* (deviations) IE does not matter; a handler that runs does not matter
PendingAnyIE == sw.i /\ sw.src # {} /\ ~ (machine.masks /\ inExe)
PendingNested == sw.ie /\ sw.i /\ sw.src # {}
\* The processor interrupts before the next instruction.
Pending == sw.ie /\ sw.i /\ sw.src # {} /\ ~ (machine.masks /\ inExe)

Take == /\ Pending
        /\ epc' = loc
        /\ loc' = At("entry")
        /\ sw' = [sw EXCEPT !.ie = FALSE]
        /\ inExe' = TRUE
        /\ nested' = (nested \/ ~ InMain)
        /\ UNCHANGED <<prog, machine, regs, area, seen, printed, raised, late>>

\* A device raises its line.
Raise(d) == /\ raised["int1"] + raised["int2"] < MaxRaise
            /\ sw' = [sw EXCEPT !.i = TRUE, !.src = @ \union {d}]
            /\ raised' = [raised EXCEPT ![d] = @ + 1]
            /\ late' = IF InMain THEN late ELSE late \union {d}
            /\ UNCHANGED <<prog, machine, loc, epc, inExe, regs, area, seen, printed, nested>>

Set(S) == /\ sw' = [sw EXCEPT !.src = @ \union S]
          /\ raised' = [s \in Sources |-> raised[s] + (IF s \in S THEN 1 ELSE 0)]
          /\ late' = IF sw.i THEN late ELSE late \union S

\* One instruction of the program.  $at is loaded with the bit of hardware
\* interrupt 1 by one instruction and or-ed into $sw by the next; the address
\* of the save area, if it is there instead, has the bits of all sources.
\* An addition that overflows is reported as a software interrupt.
Execute ==
    /\ InMain /\ ~ Pending
    /\ loc[2] <= Len(prog)
    /\ loc' = Main(loc[2] + 1)
    /\ LET op == prog[loc[2]] IN
       \/ op = "work" /\ UNCHANGED <<sw, raised, regs, late>>
       \/ op = "ie"   /\ sw' = [sw EXCEPT !.ie = TRUE] /\ UNCHANGED <<raised, regs, late>>
       \/ op = "i"    /\ sw' = [sw EXCEPT !.i = TRUE] /\ UNCHANGED <<raised, regs, late>>
       \/ op \in {"soft", "int1"} /\ Set({op}) /\ UNCHANGED regs
       \/ op = "at16" /\ regs' = [regs EXCEPT !["at"] = "bit16"] /\ UNCHANGED <<sw, raised, late>>
       \/ op = "orAt" /\ regs["at"] = "bit16" /\ Set({"int2"}) /\ UNCHANGED regs
       \/ /\ op = "orAt" /\ regs["at"] # "bit16"
          /\ sw' = [sw EXCEPT !.ie = TRUE, !.i = TRUE, !.src = Sources]
          /\ raised' = [s \in Sources |-> raised[s] + 1]
          /\ UNCHANGED <<regs, late>>
       \/ /\ op = "overflow"
          /\ sw' = [sw EXCEPT !.i = TRUE, !.ovf = TRUE, !.src = @ \union {"soft"}]
          /\ raised' = [raised EXCEPT !["soft"] = @ + 1]
          /\ UNCHANGED <<regs, late>>
    /\ UNCHANGED <<prog, machine, epc, inExe, area, seen, printed, nested>>

-----------------------------------------------------------------------------
Goto(s, t) == loc = At(s) /\ ~ Pending /\ loc' = At(t)

\* ISR: the address of the save area is loaded into $at, $lr stored in it.
Entry == /\ Goto("entry", "call")
         /\ regs' = [regs EXCEPT !["at"] = "area"]
         /\ area' = [area EXCEPT !["lr"] = regs["lr"]]
         /\ UNCHANGED <<prog, machine, epc, sw, inExe, seen, printed, raised, nested, late>>

\* ISR_Handler() is called; its return address replaces $lr.
Call == /\ Goto("call", "save")
        /\ regs' = [regs EXCEPT !["lr"] = "isr"]
        /\ UNCHANGED <<prog, machine, epc, sw, inExe, area, seen, printed, raised, nested, late>>

\* (deviation) $at is stored as well
SavedWithAt == regs
\* SAVE_REGISTERS: $at holds the address, $lr was stored before.
Saved == [r \in DOMAIN area |-> IF r \in Regs THEN regs[r] ELSE area[r]]

Save == /\ Goto("save", "clearIE")
        /\ area' = Saved
        /\ regs' = [regs EXCEPT !["at"] = "area"]
        /\ UNCHANGED <<prog, machine, epc, sw, inExe, seen, printed, raised, nested, late>>

ClearIE == /\ Goto("clearIE", "read")
           /\ sw' = [sw EXCEPT !.ie = FALSE]
           /\ regs' = [regs EXCEPT !["r7"] = "junk"]
           /\ UNCHANGED <<prog, machine, epc, inExe, area, seen, printed, raised, nested, late>>

Read == /\ Goto("read", "print")
        /\ seen' = sw
        /\ late' = {}
        /\ UNCHANGED <<prog, machine, epc, sw, inExe, regs, area, printed, raised, nested>>

\* The source that is served, of those that were seen: software first.
Served == IF "soft" \in seen.src THEN "soft"
          ELSE IF "int1" \in seen.src THEN "int1" ELSE "int2"
\* (deviation) overflow is not told from other software interrupts
MessagePlain == Served
Message == IF Served = "soft" /\ seen.ovf THEN "overflow" ELSE Served

\* What follows the report.
Clearing == IF Message = "overflow" THEN "clearOverflow" ELSE "clearSource"

\* The message is printed; printf uses every register but $lr, which ISR_Handler
\* keeps on its stack.
Report ==
    /\ Goto("print", IF seen.i /\ seen.src # {} THEN Clearing ELSE IF seen.i THEN "clearI" ELSE "setIE")
    /\ IF seen.i /\ seen.src # {}
       THEN /\ printed' = Append(printed, Message)
            /\ regs' = [r \in DOMAIN regs |-> IF r = "lr" THEN regs[r] ELSE "junk"]
       ELSE UNCHANGED <<printed, regs>>
    /\ UNCHANGED <<prog, machine, epc, sw, inExe, area, seen, raised, nested, late>>

\* CLEAR_OVERFLOW
ClearOverflow == /\ Goto("clearOverflow", "clearSource")
                 /\ sw' = [sw EXCEPT !.ovf = FALSE]
                 /\ UNCHANGED <<prog, machine, epc, inExe, regs, area, seen, printed, raised, nested, late>>

\* (deviation) nothing is cleared
ClearedNone == {}
Cleared == {Served}

\* CLEAR_SOFTWARE_INT, or the mask of the hardware interrupt, by way of $7.
ClearSource == /\ Goto("clearSource", "clearI")
               /\ sw' = [sw EXCEPT !.src = @ \ Cleared]
               /\ regs' = [regs EXCEPT !["r7"] = "junk"]
               /\ UNCHANGED <<prog, machine, epc, inExe, area, seen, printed, raised, nested, late>>

\* I is cleared whatever other source is pending.
ClearI == /\ Goto("clearI", "setIE")
          /\ sw' = [sw EXCEPT !.i = FALSE]
          /\ regs' = [regs EXCEPT !["r7"] = "junk"]
          /\ UNCHANGED <<prog, machine, epc, inExe, area, seen, printed, raised, nested, late>>

\* Interrupts are enabled before the registers are restored.
SetIE == /\ Goto("setIE", "restore")
         /\ sw' = [sw EXCEPT !.ie = TRUE]
         /\ UNCHANGED <<prog, machine, epc, inExe, regs, area, seen, printed, raised, nested, late>>

\* RESTORE_REGISTERS, and the return of ISR_Handler to ISR.
Restore == /\ Goto("restore", "reload")
           /\ regs' = [r \in DOMAIN regs |-> IF r \in Regs THEN area[r]
                                             ELSE IF r = "at" THEN "area" ELSE regs[r]]
           /\ UNCHANGED <<prog, machine, epc, sw, inExe, area, seen, printed, raised, nested, late>>

\* (deviation) ISR returns with the $lr of its own call
LrOfIsr == regs["lr"]
ReloadedLr == area["lr"]

Reload == /\ Goto("reload", "return")
          /\ regs' = [regs EXCEPT !["at"] = "area", !["lr"] = ReloadedLr]
          /\ UNCHANGED <<prog, machine, epc, sw, inExe, area, seen, printed, raised, nested, late>>

\* c0mov $pc, $epc
Return == /\ loc = At("return") /\ ~ Pending
          /\ loc' = epc
          /\ inExe' = FALSE
          /\ UNCHANGED <<prog, machine, epc, sw, regs, area, seen, printed, raised, nested, late>>

Handler == Entry \/ Call \/ Save \/ ClearIE \/ Read \/ Report \/ ClearOverflow
           \/ ClearSource \/ ClearI \/ SetIE \/ Restore \/ Reload \/ Return

Processor == Take \/ Execute \/ Handler

Next == Processor \/ \E d \in machine.devices : Raise(d)

Spec == Init /\ [][Next]_vars

\* The processor keeps running; the devices need not raise anything.
FairSpec == Spec /\ WF_vars(Processor)

-----------------------------------------------------------------------------
\* Every part of the state stays in its range.
TypeOK ==
    /\ <<prog, machine>> \in Programs
    /\ loc \in {Main(i) : i \in 1 .. Len(prog)+1} \union {At(s) : s \in Steps}
    /\ epc \in {Main(i) : i \in 1 .. Len(prog)+1} \union {At(s) : s \in Steps}
    /\ sw \in [ie : BOOLEAN, i : BOOLEAN, ovf : BOOLEAN, src : SUBSET Sources]
    /\ seen \in [ie : BOOLEAN, i : BOOLEAN, ovf : BOOLEAN, src : SUBSET Sources]
    /\ inExe \in BOOLEAN
    /\ regs \in [Regs \union {"at", "lr"} -> Values]
    /\ area \in [Regs \union {"lr"} -> Values]
    /\ printed \in Seq(Sources \union {"overflow"})
    /\ raised \in [Sources -> Nat]
    /\ nested \in BOOLEAN
    /\ late \subseteq Sources

\* The program causes all interrupts itself, as those of the repository do.
Alone == machine.devices = {}

\* Nothing keeps a device from interrupting the handler where IE is set in it.
Nestable == ~ machine.masks /\ ~ Alone

\* What the program itself has put into $at.
OwnAt == IF \E i \in 1 .. loc[2]-1 : prog[i] = "at16" THEN "bit16" ELSE "main"

\* If no handler was interrupted, the program finds its own values in the saved
\* registers and in $lr, although one fixed save area serves all interrupts.  In
\* $at, which nobody saves, it finds its own value or the address of the save
\* area (SAVE_REGISTERS, ISR's use of 0x7ff00+48).
Transparent == InMain /\ ~ nested =>
    /\ \A r \in Regs \union {"lr"} : regs[r] = "main"
    /\ regs["at"] \in {OwnAt, "area"}

\* The handler returns to the interrupted program, unless it was interrupted
\* itself: that takes a device and a processor that does not mask interrupts, and
\* an interrupt behind the line that enables them (debug.cpp:59).
EpcInMain == /\ epc[1] # "main" => nested /\ epc[1] \in {"restore", "reload", "return"}
             /\ nested => Nestable

\* I is cleared whatever other source is pending (debug.cpp:55-57), and then no
\* interrupt comes for a source that is.  That never happens to the source that
\* was served, nor to one that came up between two handlers with I set: only to
\* one that was pending together with the one served, or was set late.
OnlyOthersStranded == ~ sw.i => sw.src \subseteq late \union (seen.src \ {Served})

\* A source is reported at most as often as it was set (the masks of lines
\* 41-53 clear what was reported).
Reports(s) == {k \in DOMAIN printed : printed[k] = s}
NoSpurious == \A s \in {"int1", "int2"} : Cardinality(Reports(s)) <= raised[s]

\* What the program must print: lld.rst:274-279 for int_sim.
CauseOps == {"soft", "int1", "orAt", "overflow"}
Causes == {j \in DOMAIN prog : prog[j] \in CauseOps}
Nth(j) == Cardinality({h \in Causes : h <= j})
Prints(op) == IF op = "orAt" THEN "int2" ELSE op
Done == InMain /\ loc[2] > Len(prog) /\ ~ Pending

\* Every interrupt the program causes is reported once and in order; $at, which
\* no one saves, keeps the bit that int_sim passes through it (debug.cpp:85-86).
ExpectedOutput == Alone =>
    /\ \A k \in DOMAIN printed :
           \E j \in Causes : Nth(j) = k /\ printed[k] = Prints(prog[j])
    /\ Done => Len(printed) = Cardinality(Causes)

-----------------------------------------------------------------------------
\* What the theorems assume of Programs.

\* An instruction op before the n-th of p, and no cause of an interrupt since.
Since(p, op, n) == \E i \in 1 .. n-1 : p[i] = op /\ \A h \in i+1 .. n-1 : p[h] \notin CauseOps

\* A program like int_sim: when it causes an interrupt, IE was set once and I
\* since the last interrupt, and so was the bit in $at for a cause that needs it.
Disciplined(p) ==
    \A n \in DOMAIN p : p[n] \in CauseOps =>
        /\ \E i \in 1 .. n-1 : p[i] = "ie"
        /\ p[n] # "overflow" => Since(p, "i", n)
        /\ p[n] = "orAt" => Since(p, "at16", n)

AllDisciplined == \A p \in Programs : p[2].devices = {} => Disciplined(p[1])

-----------------------------------------------------------------------------
\* The interrupted program gets to its end, but for a handler that interrupts
\* itself: it goes round between line 60 and the end of ISR for ever.
ProgramEnds == <>[](Done \/ (nested /\ Nestable))

\* An interrupt that was taken ends, with the same exception: the program goes on.
HandlerEnds == ~ InMain ~> InMain \/ (nested /\ Nestable)
=============================================================================
