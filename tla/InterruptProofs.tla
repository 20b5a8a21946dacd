--------------------------- MODULE InterruptProofs ---------------------------
(***************************************************************************)
(* The interrupt runtime for every program, every set of saved registers   *)
(* and any devices, on processors that mask interrupts in the handler and  *)
(* on such that do not.                                                    *)
(***************************************************************************)
EXTENDS Interrupt, FiniteSetTheorems, TLAPS

\* The steps of the handler until it enables interrupts, and those after.
Masked   == {"entry", "call", "save", "clearIE", "read", "print", "clearOverflow",
             "clearSource", "clearI", "setIE"}
Unmasked == {"restore", "reload", "return"}

-----------------------------------------------------------------------------
\* Types.

LEMMA ProgramFact ==
  ASSUME <<prog, machine>> \in Programs
  PROVE  /\ prog \in Seq(Instructions)
         /\ Len(prog) \in Nat
         /\ machine.devices \subseteq {"int1", "int2"}
         /\ machine.masks \in BOOLEAN
<1>1. <<prog, machine>> \in Seq(Instructions) \X Machines
  BY InterruptAssumption
<1>2. prog \in Seq(Instructions) /\ machine \in Machines
  BY <1>1
<1> QED BY <1>2 DEF Machines

Status == [ie : BOOLEAN, i : BOOLEAN, ovf : BOOLEAN, src : SUBSET Sources]

\* The ways $sw changes.
LEMMA StatusFact ==
  ASSUME NEW s \in Status, NEW b \in BOOLEAN, NEW S \in SUBSET Sources
  PROVE  /\ [s EXCEPT !.ie = b] \in Status
         /\ [s EXCEPT !.i = b] \in Status
         /\ [s EXCEPT !.src = S] \in Status
         /\ [s EXCEPT !.i = TRUE, !.src = S] \in Status
         /\ [s EXCEPT !.i = TRUE, !.ovf = TRUE, !.src = S] \in Status
         /\ [s EXCEPT !.ie = TRUE, !.i = TRUE, !.src = S] \in Status
         /\ [s EXCEPT !.ovf = b] \in Status
  BY DEF Status

\* The ways the counts of what was set change.
LEMMA CountFact ==
  ASSUME NEW r \in [Sources -> Nat], NEW S, NEW d
  PROVE  /\ [s \in Sources |-> r[s] + (IF s \in S THEN 1 ELSE 0)] \in [Sources -> Nat]
         /\ [s \in Sources |-> r[s] + 1] \in [Sources -> Nat]
         /\ [r EXCEPT ![d] = @ + 1] \in [Sources -> Nat]
<1>1. \A s \in Sources : r[s] \in Nat
  OBVIOUS
<1>2. \A s \in Sources : [r EXCEPT ![d] = @ + 1][s] = IF s = d THEN r[s] + 1 ELSE r[s]
  OBVIOUS
<1>3. \A s \in Sources : [r EXCEPT ![d] = @ + 1][s] \in Nat
  BY <1>1, <1>2
<1>4. [r EXCEPT ![d] = @ + 1] = [s \in Sources |-> [r EXCEPT ![d] = @ + 1][s]]
  OBVIOUS
<1>5. [r EXCEPT ![d] = @ + 1] \in [Sources -> Nat]
  BY <1>3, <1>4, Zenon
<1>6. [s \in Sources |-> r[s] + 1] \in [Sources -> Nat]
  BY <1>1
<1>7. [s \in Sources |-> r[s] + (IF s \in S THEN 1 ELSE 0)] \in [Sources -> Nat]
  BY <1>1
<1> QED BY <1>5, <1>6, <1>7

LEMMA TypeInit == Init => TypeOK
<1> SUFFICES ASSUME Init PROVE TypeOK
  OBVIOUS
<1>1. <<prog, machine>> \in Programs
  <2>1. PICK p \in Programs : prog = p[1] /\ machine = p[2]
    BY DEF Init
  <2>2. p \in Seq(Instructions) \X Machines
    BY InterruptAssumption
  <2>3. p = <<p[1], p[2]>>
    BY <2>2
  <2> QED BY <2>1, <2>3
<1>2. Main(1) \in {Main(i) : i \in 1 .. Len(prog)+1}
  BY <1>1, ProgramFact
<1>3. loc = Main(1) /\ epc = Main(1)
  BY DEF Init
<1>4. /\ sw \in [ie : BOOLEAN, i : BOOLEAN, ovf : BOOLEAN, src : SUBSET Sources]
      /\ seen = sw /\ inExe \in BOOLEAN
  BY DEF Init
<1>6. printed = << >>
  BY DEF Init
<1>5. /\ regs \in [Regs \union {"at", "lr"} -> Values]
      /\ area \in [Regs \union {"lr"} -> Values]
      /\ raised \in [Sources -> Nat]
  BY DEF Init, Values
<1>7. printed \in Seq(Sources \union {"overflow"})
  BY <1>6
<1>8. nested \in BOOLEAN /\ late \subseteq Sources
  BY DEF Init
<1> QED BY <1>1, <1>2, <1>3, <1>4, <1>5, <1>7, <1>8 DEF TypeOK

LEMMA TypeStep == TypeOK /\ [Next]_vars => TypeOK'
<1> SUFFICES ASSUME TypeOK, [Next]_vars PROVE TypeOK'
  OBVIOUS
<1>0. /\ Len(prog) \in Nat
      /\ machine.devices \subseteq {"int1", "int2"}
      /\ "r7" \in Regs
  BY ProgramFact, InterruptAssumption DEF TypeOK
<1> USE DEF TypeOK, Main, At, Goto, InMain
<1>1. CASE Take
  BY <1>1 DEF Take, Steps
<1>2. CASE Execute
  <2>1. /\ loc' = Main(loc[2] + 1)
        /\ UNCHANGED <<prog, machine, epc, inExe, area, seen, printed, nested>>
    BY <1>2 DEF Execute
  <2>2. loc' \in {Main(i) : i \in 1 .. Len(prog)+1}
    <3>1. InMain /\ loc[2] <= Len(prog)
      BY <1>2 DEF Execute
    <3>2. PICK i \in 1 .. Len(prog)+1 : loc = Main(i)
      BY <3>1 DEF Steps
    <3>3. loc[2] = i /\ i+1 \in 1 .. Len(prog)+1
      BY <1>0, <3>1, <3>2
    <3> QED BY <2>1, <3>3
  <2>3. sw' \in Status
    <3>1. /\ sw \in Status
          /\ \A S \in SUBSET Sources : sw.src \union S \in SUBSET Sources
      BY DEF Status
    <3>2. /\ Sources \in SUBSET Sources
          /\ {"soft"} \in SUBSET Sources /\ {"int1"} \in SUBSET Sources /\ {"int2"} \in SUBSET Sources
      BY DEF Sources
    <3>3. \/ sw' = sw \/ sw' = [sw EXCEPT !.ie = TRUE] \/ sw' = [sw EXCEPT !.i = TRUE]
          \/ \E S \in SUBSET Sources : sw' = [sw EXCEPT !.src = sw.src \union S]
          \/ sw' = [sw EXCEPT !.ie = TRUE, !.i = TRUE, !.src = Sources]
          \/ sw' = [sw EXCEPT !.i = TRUE, !.ovf = TRUE, !.src = sw.src \union {"soft"}]
      BY <1>2, <3>2 DEF Execute, Set
    <3> HIDE DEF TypeOK
    <3> QED BY <3>1, <3>2, <3>3, StatusFact
  <2>4. regs' \in [Regs \union {"at", "lr"} -> Values]
    BY <1>2 DEF Execute, Set, Values
  <2>5. raised' \in [Sources -> Nat]
    <3>1. \/ raised' = raised
          \/ \E S : raised' = [s \in Sources |-> raised[s] + (IF s \in S THEN 1 ELSE 0)]
          \/ raised' = [s \in Sources |-> raised[s] + 1]
          \/ raised' = [raised EXCEPT !["soft"] = @ + 1]
      BY <1>2 DEF Execute, Set
    <3>2. raised \in [Sources -> Nat]
      OBVIOUS
    <3> QED BY <3>1, <3>2, CountFact
  <2>6. late' \subseteq Sources
    <3>1. late \subseteq Sources
      OBVIOUS
    <3>2. \/ late' = late
          \/ \E S \in SUBSET Sources : Set(S)
      BY <1>2 DEF Execute, Sources
    <3> QED BY <3>1, <3>2 DEF Set
  <2> QED BY <2>1, <2>2, <2>3, <2>4, <2>5, <2>6 DEF Status
<1>3. CASE Entry
  BY <1>3 DEF Entry, Steps, Values
<1>4. CASE Call
  BY <1>4 DEF Call, Steps, Values
<1>5. CASE Save
  BY <1>5 DEF Save, Saved, Steps, Values
<1>6. CASE ClearIE
  BY <1>6 DEF ClearIE, Steps, Values
<1>7. CASE Read
  BY <1>7 DEF Read, Steps
<1>8. CASE Report
  <2>1. /\ loc' \in {At("clearOverflow"), At("clearSource"), At("clearI"), At("setIE")}
        /\ UNCHANGED <<prog, machine, epc, sw, inExe, area, seen, raised, nested, late>>
    BY <1>8 DEF Report, Clearing
  <2>2. regs' \in [Regs \union {"at", "lr"} -> Values]
    BY <1>8 DEF Report, Values
  <2>3. Message \in Sources \union {"overflow"}
    BY DEF Message, Served, Sources
  <2>4. printed' \in Seq(Sources \union {"overflow"})
    <3>1. printed' = printed \/ printed' = Append(printed, Message)
      BY <1>8 DEF Report
    <3>2. printed \in Seq(Sources \union {"overflow"})
      OBVIOUS
    <3> HIDE DEF TypeOK
    <3> QED BY <2>3, <3>1, <3>2
  <2> QED BY <2>1, <2>2, <2>4 DEF Steps
<1>16. CASE ClearOverflow
  BY <1>16 DEF ClearOverflow, Steps
<1>17. CASE ClearSource
  <2>1. sw \in Status /\ sw.src \ Cleared \in SUBSET Sources
    BY DEF Status
  <2>2. sw' \in Status
    BY <1>17, <2>1, StatusFact DEF ClearSource
  <2>3. regs' \in [Regs \union {"at", "lr"} -> Values]
    BY <1>17 DEF ClearSource, Values
  <2> QED BY <1>17, <2>2, <2>3 DEF ClearSource, Steps, Status
<1>9. CASE ClearI
  BY <1>9 DEF ClearI, Steps, Values
<1>10. CASE SetIE
  BY <1>10 DEF SetIE, Steps
<1>11. CASE Restore
  BY <1>11 DEF Restore, Steps, Values
<1>12. CASE Reload
  BY <1>12 DEF Reload, ReloadedLr, Steps, Values
<1>13. CASE Return
  BY <1>13 DEF Return
<1>14. CASE \E d \in machine.devices : Raise(d)
  <2>1. PICK d \in {"int1", "int2"} : Raise(d)
    BY <1>0, <1>14
  <2>2. sw.src \union {d} \in SUBSET Sources /\ sw \in Status
    BY DEF Sources, Status
  <2>3. sw' \in Status
    BY <2>1, <2>2, StatusFact DEF Raise
  <2>4. raised' \in [Sources -> Nat]
    BY <2>1, CountFact DEF Raise
  <2>5. late' \subseteq Sources
    BY <2>1 DEF Raise, Sources
  <2> QED BY <2>1, <2>3, <2>4, <2>5 DEF Raise, Status
<1>15. CASE UNCHANGED vars
  BY <1>15 DEF vars
<1> QED BY <1>1, <1>2, <1>3, <1>4, <1>5, <1>6, <1>7, <1>8, <1>9, <1>10, <1>11, <1>12, <1>13,
           <1>14, <1>15, <1>16, <1>17 DEF Next, Processor, Handler

\* debug.cpp:15-88: every part of the state stays in its range, for all
\* programs, machines and numbers of interrupts; what is printed is a source.
THEOREM TypeCorrect == Spec => []TypeOK
  BY TypeInit, TypeStep, PTL DEF Spec

-----------------------------------------------------------------------------
\* What was reported was set.

Places(q, m) == {k \in DOMAIN q : q[k] = m}

LEMMA PlacesType ==
  ASSUME NEW T, NEW q \in Seq(T), NEW m
  PROVE  IsFiniteSet(Places(q, m)) /\ Cardinality(Places(q, m)) \in Nat
<1>1. Places(q, m) \subseteq 1 .. Len(q) /\ Len(q) \in Nat
  BY DEF Places
<1>2. IsFiniteSet(1 .. Len(q))
  BY <1>1, FS_Interval
<1> QED BY <1>1, <1>2, FS_Subset, FS_CardinalityType

LEMMA ReportsType ==
  ASSUME TypeOK, NEW m
  PROVE  Cardinality(Reports(m)) \in Nat
<1>1. printed \in Seq(Sources \union {"overflow"}) /\ Reports(m) = Places(printed, m)
  BY DEF TypeOK, Reports, Places
<1> QED BY <1>1, PlacesType

LEMMA PlacesFact ==
  ASSUME NEW T, NEW q \in Seq(T), NEW x \in T, NEW m
  PROVE  Cardinality(Places(Append(q, x), m)) = Cardinality(Places(q, m)) + (IF x = m THEN 1 ELSE 0)
<1> DEFINE n == Len(q)
<1>1. n \in Nat /\ DOMAIN q = 1 .. n
  OBVIOUS
<1>2. /\ Len(Append(q, x)) = n+1 /\ DOMAIN Append(q, x) = 1 .. n+1
      /\ \A k \in 1 .. n : Append(q, x)[k] = q[k]
      /\ Append(q, x)[n+1] = x
  OBVIOUS
<1>3. IsFiniteSet(Places(q, m)) /\ Cardinality(Places(q, m)) \in Nat
  BY PlacesType
<1> HIDE DEF n
<1>4. CASE x = m
  <2>1. Places(Append(q, x), m) = Places(q, m) \union {n+1}
    BY <1>1, <1>2, <1>4 DEF Places
  <2>2. n+1 \notin Places(q, m)
    BY <1>1 DEF Places
  <2>3. Cardinality(Places(q, m) \union {n+1}) = Cardinality(Places(q, m)) + 1
    BY <1>3, <2>2, FS_AddElement
  <2> QED BY <1>3, <1>4, <2>1, <2>3
<1>5. CASE x # m
  <2>1. Places(Append(q, x), m) = Places(q, m)
    BY <1>1, <1>2, <1>5 DEF Places
  <2> QED BY <1>3, <1>5, <2>1
<1> QED BY <1>4, <1>5

\* Source m was reported and is not yet cleared.
Reported(m) == loc[1] \in {"clearOverflow", "clearSource"} /\ Served = m

\* A source is pending or reported no oftener than it was set; between a look at
\* $sw and the report nothing is cleared, since IE is clear.
Owed(m) == Cardinality(Reports(m)) + (IF m \in sw.src /\ ~ Reported(m) THEN 1 ELSE 0)

SpurInv ==
    /\ TypeOK
    /\ loc[1] \in Masked => ~ sw.ie
    /\ epc[1] \in {"main"} \union Unmasked
    /\ loc[1] = "print" => seen.src \subseteq sw.src
    /\ \A m \in {"int1", "int2"} : Owed(m) <= raised[m]

LEMMA SpurInit == Init => SpurInv
<1> SUFFICES ASSUME Init PROVE SpurInv
  OBVIOUS
<1>1. \A m : Reports(m) = {}
  BY DEF Init, Reports
<1>2. \A m : Cardinality(Reports(m)) = 0
  BY <1>1, FS_EmptySet
<1>3. TypeOK
  BY TypeInit
<1> QED BY <1>2, <1>3 DEF Init, SpurInv, Owed, Main, Masked, Sources

LEMMA SpurStep == SpurInv /\ [Next]_vars => SpurInv'
<1> SUFFICES ASSUME SpurInv, [Next]_vars PROVE SpurInv'
  OBVIOUS
<1>0. TypeOK /\ TypeOK'
  BY TypeStep DEF SpurInv
<1>1. /\ sw \in Status /\ raised \in [Sources -> Nat]
      /\ loc[1] \in {"main"} \union Masked \union Unmasked
      /\ machine.devices \subseteq {"int1", "int2"}
  BY <1>0, ProgramFact DEF TypeOK, Status, Main, At, Steps, Masked, Unmasked
<1>2. \A m : Cardinality(Reports(m)) \in Nat
  BY <1>0, ReportsType
<1>3. ASSUME printed' = printed,
             \A m \in {"int1", "int2"} :
                 /\ raised'[m] \in Nat /\ raised'[m] >= raised[m]
                 /\ m \in sw'.src => m \in sw.src \/ raised'[m] > raised[m]
                 /\ Reported(m) /\ m \in sw'.src => Reported(m)' \/ raised'[m] > raised[m]
      PROVE  \A m \in {"int1", "int2"} : Owed(m)' <= raised'[m]
  <2> TAKE m \in {"int1", "int2"}
  <2>1. Reports(m)' = Reports(m)
    BY <1>3 DEF Reports
  <2>2. Owed(m) <= raised[m] /\ raised[m] \in Nat
    BY <1>1 DEF SpurInv, Sources
  <2>3. /\ raised'[m] \in Nat /\ raised'[m] >= raised[m]
        /\ m \in sw'.src => m \in sw.src \/ raised'[m] > raised[m]
        /\ Reported(m) /\ m \in sw'.src => Reported(m)' \/ raised'[m] > raised[m]
    BY <1>3
  <2>4. CASE m \in sw.src /\ ~ Reported(m)
    BY <1>2, <2>1, <2>2, <2>3, <2>4 DEF Owed
  <2>5. CASE m \notin sw.src \/ Reported(m)
    BY <1>2, <2>1, <2>2, <2>3, <2>5 DEF Owed
  <2> QED BY <2>4, <2>5
<1>4. \A m \in {"int1", "int2"} : raised[m] \in Nat
  BY <1>1 DEF Sources
<1> USE DEF Main, At, Goto, InMain, Masked, Unmasked
\* The actions that leave $sw's sources, the counts and the messages alone.
<1>5. ASSUME UNCHANGED <<printed, raised>>, sw'.src = sw.src,
             \A m \in {"int1", "int2"} : Reported(m) => Reported(m)'
      PROVE  \A m \in {"int1", "int2"} : Owed(m)' <= raised'[m]
  BY <1>3, <1>4, <1>5
<1> USE DEF Reported
<1>6. CASE Take
  <2>1. sw'.src = sw.src /\ ~ sw'.ie
    BY <1>1, <1>6 DEF Take, Status
  <2>2. loc[1] \in {"main"} \union Unmasked
    BY <1>1, <1>6 DEF Take, Pending, SpurInv
  <2> QED BY <1>0, <1>5, <1>6, <2>1, <2>2 DEF Take, SpurInv
<1>7. CASE Execute
  <2>1. /\ loc[1] = "main" /\ loc'[1] = "main"
        /\ UNCHANGED <<epc, seen, printed>>
    BY <1>7 DEF Execute
  <2>2. \A m \in {"int1", "int2"} :
            /\ raised'[m] \in Nat /\ raised'[m] >= raised[m]
            /\ m \in sw'.src => m \in sw.src \/ raised'[m] > raised[m]
    <3>1. CASE sw'.src = sw.src /\ UNCHANGED raised
      BY <1>4, <3>1
    <3>2. CASE \E S \in SUBSET Sources : Set(S)
      BY <1>1, <1>4, <3>2 DEF Set, Status, Sources
    <3>3. CASE sw'.src = Sources /\ raised' = [m \in Sources |-> raised[m] + 1]
      BY <1>4, <3>3 DEF Sources
    <3>4. CASE sw'.src = sw.src \union {"soft"} /\ raised' = [raised EXCEPT !["soft"] = @ + 1]
      BY <1>1, <1>4, <3>4 DEF Sources
    <3>5. {"soft"} \in SUBSET Sources /\ {"int1"} \in SUBSET Sources /\ {"int2"} \in SUBSET Sources
      BY DEF Sources
    <3> QED BY <1>1, <1>7, <3>1, <3>2, <3>3, <3>4, <3>5 DEF Execute, Status
  <2> QED BY <1>0, <1>3, <2>1, <2>2 DEF SpurInv
<1>8. CASE Entry \/ Call \/ Save
  BY <1>0, <1>5, <1>8 DEF Entry, Call, Save, SpurInv
<1>9. CASE ClearIE
  <2>1. sw'.src = sw.src /\ ~ sw'.ie
    BY <1>1, <1>9 DEF ClearIE, Status
  <2> QED BY <1>0, <1>5, <1>9, <2>1 DEF ClearIE, SpurInv
<1>10. CASE Read
  BY <1>0, <1>5, <1>10 DEF Read, SpurInv
<1>11. CASE Report
  <2>1. /\ loc'[1] \in {"clearOverflow", "clearSource", "clearI", "setIE"} /\ loc[1] = "print"
        /\ UNCHANGED <<epc, sw, seen, raised>>
    BY <1>11 DEF Report, Clearing
  <2>2. \A m \in {"int1", "int2"} : Owed(m)' <= raised'[m]
    <3>1. CASE seen.i /\ seen.src # {}
      <4> TAKE m \in {"int1", "int2"}
      <4>1. printed' = Append(printed, Message) /\ loc'[1] \in {"clearOverflow", "clearSource"}
        BY <1>11, <3>1 DEF Report, Clearing
      <4>2. Served \in seen.src
        BY <1>0, <3>1 DEF Served, TypeOK, Sources
      <4>3. Served \in sw.src /\ Served' = Served
        BY <2>1, <4>2 DEF SpurInv, Served
      <4>4. Message \in Sources \union {"overflow"} /\ (Message = m => Served = m)
        BY DEF Message, Served, Sources
      <4>5. Cardinality(Reports(m)') = Cardinality(Reports(m)) + (IF Message = m THEN 1 ELSE 0)
        <5>1. printed \in Seq(Sources \union {"overflow"})
          BY <1>0 DEF TypeOK
        <5>2. Reports(m)' = Places(Append(printed, Message), m) /\ Reports(m) = Places(printed, m)
          BY <4>1 DEF Reports, Places
        <5> QED BY <4>4, <5>1, <5>2, PlacesFact
      <4>6. Owed(m) <= raised[m]
        BY DEF SpurInv
      <4>7. CASE Served = m
        BY <1>2, <1>4, <2>1, <4>1, <4>3, <4>4, <4>5, <4>6, <4>7 DEF Owed
      <4>8. CASE Served # m
        BY <1>2, <1>4, <2>1, <4>1, <4>3, <4>4, <4>5, <4>6, <4>8 DEF Owed
      <4> QED BY <4>7, <4>8
    <3>2. CASE ~ (seen.i /\ seen.src # {})
      BY <1>5, <1>11, <2>1, <3>2 DEF Report
    <3> QED BY <3>1, <3>2
  <2> QED BY <1>0, <2>1, <2>2 DEF SpurInv
<1>18. CASE ClearOverflow
  <2>1. sw'.src = sw.src /\ sw'.ie = sw.ie
    BY <1>1, <1>18 DEF ClearOverflow, Status
  <2>2. Served' = Served
    BY <1>18 DEF ClearOverflow, Served
  <2> QED BY <1>0, <1>5, <1>18, <2>1, <2>2 DEF ClearOverflow, SpurInv
<1>19. CASE ClearSource
  <2>1. sw'.src = sw.src \ {Served} /\ sw'.ie = sw.ie
    BY <1>1, <1>19 DEF ClearSource, Cleared, Status
  <2>2. \A m \in {"int1", "int2"} : Owed(m)' <= raised'[m]
    BY <1>3, <1>4, <1>19, <2>1 DEF ClearSource
  <2> QED BY <1>0, <1>19, <2>1, <2>2 DEF ClearSource, SpurInv
<1>12. CASE ClearI
  <2>1. sw'.src = sw.src /\ sw'.ie = sw.ie
    BY <1>1, <1>12 DEF ClearI, Status
  <2> QED BY <1>0, <1>5, <1>12, <2>1 DEF ClearI, SpurInv
<1>13. CASE SetIE
  <2>1. sw'.src = sw.src
    BY <1>1, <1>13 DEF SetIE, Status
  <2> QED BY <1>0, <1>5, <1>13, <2>1 DEF SetIE, SpurInv
<1>14. CASE Restore \/ Reload
  BY <1>0, <1>5, <1>14 DEF Restore, Reload, SpurInv
<1>15. CASE Return
  BY <1>0, <1>5, <1>15 DEF Return, SpurInv
<1>16. CASE \E d \in machine.devices : Raise(d)
  <2>1. PICK d \in {"int1", "int2"} : Raise(d)
    BY <1>1, <1>16
  <2>2. /\ UNCHANGED <<loc, epc, seen, printed>>
        /\ sw'.ie = sw.ie /\ sw'.src = sw.src \union {d}
        /\ \A m : Reported(m)' <=> Reported(m)
    BY <1>1, <2>1 DEF Raise, Status, Served
  <2>3. \A m \in {"int1", "int2"} :
            /\ raised'[m] \in Nat /\ raised'[m] >= raised[m]
            /\ m \in sw'.src => m \in sw.src \/ raised'[m] > raised[m]
    BY <1>1, <1>4, <2>1, <2>2 DEF Raise, Sources
  <2> QED BY <1>0, <1>3, <2>2, <2>3 DEF SpurInv
<1>17. CASE UNCHANGED vars
  BY <1>0, <1>5, <1>17 DEF vars, SpurInv, Served
<1> QED BY <1>6, <1>7, <1>8, <1>9, <1>10, <1>11, <1>12, <1>13, <1>14, <1>15, <1>16, <1>17,
           <1>18, <1>19 DEF Next, Processor, Handler

\* debug.cpp:41-53: no hardware interrupt is reported that was not set, for all
\* programs and machines, nested interrupts included: the source that was seen is
\* still pending when it is reported, and is cleared with the report.
THEOREM NoneSpurious == Spec => []NoSpurious
<1>1. SpurInv => NoSpurious
  <2> SUFFICES ASSUME SpurInv, NEW m \in {"int1", "int2"}
               PROVE  Cardinality(Reports(m)) <= raised[m]
    BY DEF NoSpurious
  <2>1. Cardinality(Reports(m)) \in Nat
    BY ReportsType DEF SpurInv
  <2>2. raised[m] \in Nat
    BY DEF SpurInv, TypeOK, Sources
  <2> QED BY <2>1, <2>2 DEF SpurInv, Owed
<1> QED BY SpurInit, SpurStep, <1>1, PTL DEF Spec

-----------------------------------------------------------------------------
\* What the program finds when a handler that was not interrupted has returned.

MainValues(f, S) == \A r \in S : f[r] = "main"

\* Where the program's values are while the handler is at step s.
InRegs   == {"entry", "call", "save"}
InArea   == {"clearIE", "read", "print", "clearOverflow", "clearSource", "clearI", "setIE", "restore"}
LrInArea == Steps \ {"entry", "return"}

\* If the program alone sets sources, I is set until the handler clears it and
\* stays clear until it has returned: no interrupt is taken in the handler.
Before == {"entry", "call", "save", "clearIE", "read", "print", "clearOverflow", "clearSource", "clearI"}
After  == {"setIE", "restore", "reload", "return"}
AloneInv == Alone => /\ loc[1] \in Before => sw.i
                     /\ loc[1] = "print" => seen.i
                     /\ loc[1] \in After => ~ sw.i

Undisturbed ==
    /\ epc[1] = "main"
    /\ inExe <=> ~ InMain
    /\ loc[1] \in {"main", "reload", "return"} \union InRegs => MainValues(regs, Regs)
    /\ loc[1] \in InArea => MainValues(area, Regs)
    /\ loc[1] \in {"main", "entry", "return"} => regs["lr"] = "main"
    /\ loc[1] \in LrInArea => area["lr"] = "main"
    /\ InMain => regs["at"] \in {OwnAt, "area"}
    /\ loc[1] = "return" => regs["at"] = "area"

SavedInv == /\ SpurInv
            /\ AloneInv
            /\ nested => Nestable
            /\ ~ nested => Undisturbed

LEMMA SavedInit == Init => SavedInv
<1> SUFFICES ASSUME Init PROVE SavedInv
  OBVIOUS
<1>1. SpurInv
  BY SpurInit
<1>2. OwnAt = "main"
  <2>1. loc[2] = 1
    BY DEF Init, Main
  <2> QED BY <2>1 DEF OwnAt
<1> QED BY <1>1, <1>2 DEF Init, SavedInv, Undisturbed, AloneInv, InMain, Main, MainValues, InRegs,
                          InArea, LrInArea, Steps, Before, After

\* While no handler was interrupted, an interrupt is taken only from the program
\* or where the handler may be interrupted.
LEMMA TakeFromMain ==
  ASSUME SavedInv, Take, ~ nested
  PROVE  InMain \/ Nestable
<1>1. Pending
  BY DEF Take
<1>2. CASE machine.masks
  BY <1>1, <1>2 DEF SavedInv, Undisturbed, Pending
<1>3. CASE Alone
  <2>1. loc[1] \notin Masked /\ loc[1] \notin After
    BY <1>1, <1>3 DEF SavedInv, SpurInv, AloneInv, Pending
  <2> QED BY <1>1, <2>1 DEF SavedInv, SpurInv, TypeOK, Pending, InMain, Main, At, Steps, Masked, After
<1> QED BY <1>2, <1>3 DEF Nestable

LEMMA AloneStep == SavedInv /\ [Next]_vars => AloneInv'
<1> SUFFICES ASSUME SavedInv, [Next]_vars, Alone' PROVE AloneInv'
  BY DEF AloneInv
<1> USE DEF Main, At, Goto, InMain, Before, After, Alone
<1>1. sw \in Status /\ AloneInv /\ ~ nested /\ Undisturbed /\ Alone
  <2>1. Alone
    BY DEF Next, Processor, Handler, Take, Execute, Entry, Call, Save, ClearIE, Read, Report,
           ClearOverflow, ClearSource, ClearI, SetIE, Restore, Reload, Return, Raise, vars
  <2> QED BY <2>1 DEF SavedInv, SpurInv, Nestable, TypeOK, Status
<1>2. CASE Take
  <2>1. sw'.i = sw.i /\ loc'[1] = "entry" /\ sw.i
    BY <1>1, <1>2 DEF Take, Pending, Status
  <2> QED BY <2>1, <1>2 DEF AloneInv
<1>3. CASE Execute
  BY <1>3 DEF Execute, AloneInv
<1>4. CASE Entry \/ Call \/ Save
  BY <1>1, <1>4 DEF Entry, Call, Save, AloneInv
<1>5. CASE ClearIE
  <2>1. sw'.i = sw.i
    BY <1>1, <1>5 DEF ClearIE, Status
  <2> QED BY <1>1, <1>5, <2>1 DEF ClearIE, AloneInv
<1>6. CASE Read
  BY <1>1, <1>6 DEF Read, AloneInv
<1>7. CASE Report
  <2>1. loc'[1] \in {"clearOverflow", "clearSource", "clearI"} /\ loc[1] = "print" /\ sw' = sw
    BY <1>1, <1>7 DEF Report, Clearing, AloneInv
  <2> QED BY <1>1, <2>1 DEF AloneInv
<1>14. CASE ClearOverflow \/ ClearSource
  <2>1. sw'.i = sw.i
    BY <1>1, <1>14 DEF ClearOverflow, ClearSource, Status
  <2> QED BY <1>1, <1>14, <2>1 DEF ClearOverflow, ClearSource, AloneInv
<1>8. CASE ClearI
  <2>1. ~ sw'.i
    BY <1>1, <1>8 DEF ClearI, Status
  <2> QED BY <1>1, <1>8, <2>1 DEF ClearI, AloneInv
<1>9. CASE SetIE
  <2>1. sw'.i = sw.i
    BY <1>1, <1>9 DEF SetIE, Status
  <2> QED BY <1>1, <1>9, <2>1 DEF SetIE, AloneInv
<1>10. CASE Restore \/ Reload
  BY <1>1, <1>10 DEF Restore, Reload, AloneInv
<1>11. CASE Return
  <2>1. loc'[1] = "main"
    BY <1>1, <1>11 DEF Return, Undisturbed
  <2> QED BY <2>1 DEF AloneInv
<1>12. ~ \E d \in machine.devices : Raise(d)
  BY <1>1
<1>13. CASE UNCHANGED vars
  BY <1>1, <1>13 DEF vars, AloneInv
<1> QED BY <1>2, <1>3, <1>4, <1>5, <1>6, <1>7, <1>8, <1>9, <1>10, <1>11, <1>12, <1>13, <1>14
           DEF Next, Processor, Handler

\* $at is changed by the program, or is what it was.
LEMMA OwnAtStep ==
  ASSUME TypeOK, Execute, regs["at"] \in {OwnAt, "area"}
  PROVE  regs'["at"] \in {OwnAt', "area"}
<1> DEFINE n == loc[2]
<1>1. /\ n \in Nat \ {0} /\ loc'[2] = n+1 /\ prog' = prog
      /\ regs \in [Regs \union {"at", "lr"} -> Values]
  <2>1. PICK i \in 1 .. Len(prog)+1 : loc = Main(i)
    BY DEF Execute, InMain, TypeOK, Main, At, Steps
  <2>2. i \in Nat \ {0} /\ n = i
    BY <2>1 DEF Main
  <2> QED BY <2>2 DEF Execute, Main, TypeOK
<1>2. OwnAt' = IF \E i \in 1 .. n : prog[i] = "at16" THEN "bit16" ELSE "main"
  <2>1. loc'[2] - 1 = n
    BY <1>1
  <2> QED BY <1>1, <2>1 DEF OwnAt
<1>3. CASE prog[n] = "at16"
  <2>1. OwnAt' = "bit16"
    BY <1>1, <1>2, <1>3
  <2>2. regs'["at"] = "bit16"
    BY <1>1, <1>3 DEF Execute
  <2> QED BY <2>1, <2>2
<1>4. CASE prog[n] # "at16"
  <2>1. OwnAt' = OwnAt
    BY <1>1, <1>2, <1>4 DEF OwnAt
  <2>2. regs' = regs
    BY <1>4 DEF Execute
  <2> QED BY <2>1, <2>2
<1> QED BY <1>3, <1>4

LEMMA SavedStep == SavedInv /\ [Next]_vars => SavedInv'
<1> SUFFICES ASSUME SavedInv, [Next]_vars PROVE SavedInv'
  OBVIOUS
<1>0. SpurInv' /\ AloneInv' /\ TypeOK
  BY SpurStep, AloneStep DEF SavedInv, SpurInv
<1>a. /\ regs \in [Regs \union {"at", "lr"} -> Values]
      /\ area \in [Regs \union {"lr"} -> Values]
      /\ loc[1] \in {"main"} \union Steps
      /\ "r7" \in Regs /\ Regs \intersect {"at", "lr"} = {}
  BY <1>0, InterruptAssumption DEF TypeOK, Main, At
<1>b. UNCHANGED <<prog, machine>> /\ (nested' <=> nested \/ (Take /\ ~ InMain))
  <2>1. UNCHANGED <<prog, machine>>
    BY DEF Next, Processor, Handler, Take, Execute, Entry, Call, Save, ClearIE, Read, Report,
           ClearOverflow, ClearSource, ClearI, SetIE, Restore, Reload, Return, Raise, vars
  <2>2. nested' <=> nested \/ (Take /\ ~ InMain)
    <3>1. CASE Take
      <4>1. nested' = (nested \/ ~ InMain)
        BY <3>1, Zenon DEF Take
      <4> QED BY <3>1, <4>1, Zenon
    <3>2. CASE ~ Take
      <4>1. nested' = nested
        BY <3>2 DEF Next, Processor, Handler, Execute, Entry, Call, Save, ClearIE, Read, Report,
                    ClearOverflow, ClearSource, ClearI, SetIE, Restore, Reload, Return, Raise, vars
      <4> QED BY <3>2, <4>1, Zenon
    <3> QED BY <3>1, <3>2, Zenon
  <2> QED BY <2>1, <2>2, Zenon
<1>c. nested' => Nestable'
  <2>1. nested' => Nestable
    BY <1>b, TakeFromMain DEF SavedInv
  <2> QED BY <1>b, <2>1 DEF Nestable, Alone
<1>d. SUFFICES ASSUME ~ nested' PROVE Undisturbed'
  BY <1>0, <1>c DEF SavedInv
<1>e. Undisturbed /\ (Take => InMain)
  BY <1>b, <1>d DEF SavedInv
<1>f. UNCHANGED loc => OwnAt' = OwnAt
  BY <1>b DEF OwnAt
<1> HIDE DEF SavedInv
<1> USE <1>a, <1>b, <1>e
        DEF Undisturbed, InMain, Main, At, Goto, MainValues, InRegs, InArea, LrInArea, Steps
<1>1. CASE Take
  BY <1>1 DEF Take
<1>2. CASE Execute
  <2>1. regs'["at"] \in {OwnAt', "area"}
    BY <1>0, <1>2, OwnAtStep DEF Execute
  <2> HIDE DEF OwnAt
  <2> QED BY <1>2, <2>1 DEF Execute, Set
<1>3. CASE Entry
  BY <1>3 DEF Entry
<1>4. CASE Call
  BY <1>4 DEF Call
<1>5. CASE Save
  BY <1>5 DEF Save, Saved
<1>6. CASE ClearIE
  BY <1>6 DEF ClearIE
<1>7. CASE Read
  BY <1>7 DEF Read
<1>8. CASE Report
  BY <1>8 DEF Report, Clearing
<1>16. CASE ClearOverflow
  BY <1>16 DEF ClearOverflow
<1>17. CASE ClearSource
  BY <1>17 DEF ClearSource
<1>9. CASE ClearI
  BY <1>9 DEF ClearI
<1>10. CASE SetIE
  BY <1>10 DEF SetIE
<1>11. CASE Restore
  BY <1>11 DEF Restore
<1>12. CASE Reload
  BY <1>12 DEF Reload, ReloadedLr
<1>13. CASE Return
  BY <1>13 DEF Return
<1>14. CASE \E d \in machine.devices : Raise(d)
  BY <1>f, <1>14 DEF Raise
<1>15. CASE UNCHANGED vars
  BY <1>f, <1>15 DEF vars
<1> QED BY <1>1, <1>2, <1>3, <1>4, <1>5, <1>6, <1>7, <1>8, <1>9, <1>10, <1>11, <1>12, <1>13,
           <1>14, <1>15, <1>16, <1>17 DEF Next, Processor, Handler

\* debug.cpp:17-74: on every machine, for any program, any devices and any number of
\* interrupts, the program finds its own values in the saved registers and $lr as
\* long as no handler was interrupted; in $at, which nobody saves, it finds its own
\* value or the address of the save area, and nothing else.
THEOREM InterruptsTransparent == Spec => []Transparent
<1>1. SavedInv => Transparent
  BY DEF SavedInv, Undisturbed, Transparent, InMain, MainValues
<1> QED BY SavedInit, SavedStep, <1>1, PTL DEF Spec

\* debug.cpp:59: a handler returns to the program it interrupted, unless it was
\* itself interrupted, and that happens only behind the line that sets IE again, by
\* a device, on a processor that does not mask interrupts.
THEOREM ReturnsToProgram == Spec => []EpcInMain
<1>1. SavedInv => EpcInMain
  BY DEF SavedInv, SpurInv, Undisturbed, EpcInMain, Unmasked
<1> QED BY SavedInit, SavedStep, <1>1, PTL DEF Spec

-----------------------------------------------------------------------------
\* Which sources clearing I can leave behind.

LateInv ==
    /\ SpurInv
    /\ loc[1] \in Before => sw.i
    /\ loc[1] = "print" => seen.i
    /\ loc[1] \in {"print", "clearOverflow", "clearSource"} => sw.src \subseteq late \union seen.src
    /\ loc[1] = "clearI" => sw.src \subseteq late \union (seen.src \ {Served})
    /\ OnlyOthersStranded

LEMMA LateInit == Init => LateInv
  BY SpurInit DEF Init, LateInv, OnlyOthersStranded, Before, Main

LEMMA LateStep == LateInv /\ [Next]_vars => LateInv'
<1> SUFFICES ASSUME LateInv, [Next]_vars PROVE LateInv'
  OBVIOUS
<1>1. SpurInv' /\ sw \in Status
  BY SpurStep DEF LateInv, SpurInv, TypeOK, Status
<1> USE <1>1 DEF LateInv, OnlyOthersStranded, Before, At, Main, Goto, InMain
<1>2. UNCHANGED seen => Served' = Served
  BY DEF Served
<1>3. CASE Take
  <2>1. sw'.i = sw.i /\ sw'.src = sw.src /\ sw.i
    BY <1>3 DEF Take, Pending, Status
  <2> QED BY <1>2, <1>3, <2>1 DEF Take
<1>4. CASE Execute
  <2>1. loc'[1] = "main" /\ UNCHANGED seen
    BY <1>4 DEF Execute
  <2>2. ~ sw'.i => ~ sw.i
    BY <1>4 DEF Execute, Set, Status
  <2>3. ~ sw'.i => sw'.src \ sw.src \subseteq late' /\ late \subseteq late'
    BY <1>4, <2>2 DEF Execute, Set, Status
  <2> QED BY <1>2, <2>1, <2>2, <2>3
<1>5. CASE Entry \/ Call \/ Save
  BY <1>2, <1>5 DEF Entry, Call, Save
<1>6. CASE ClearIE
  <2>1. sw'.i = sw.i /\ sw'.src = sw.src
    BY <1>6 DEF ClearIE, Status
  <2> QED BY <1>2, <1>6, <2>1 DEF ClearIE
<1>7. CASE Read
  BY <1>7 DEF Read
<1>8. CASE Report
  <2>1. /\ loc'[1] = IF seen.src # {} THEN Clearing ELSE "clearI"
        /\ loc[1] = "print" /\ UNCHANGED <<sw, seen, late>>
    BY <1>8 DEF Report
  <2>2. loc'[1] \in {"clearOverflow", "clearSource"} \/ (loc'[1] = "clearI" /\ seen.src = {})
    BY <2>1 DEF Clearing
  <2> QED BY <1>2, <2>1, <2>2
<1>9. CASE ClearOverflow
  <2>1. sw'.i = sw.i /\ sw'.src = sw.src
    BY <1>9 DEF ClearOverflow, Status
  <2> QED BY <1>2, <1>9, <2>1 DEF ClearOverflow
<1>10. CASE ClearSource
  <2>1. sw'.i = sw.i /\ sw'.src = sw.src \ {Served}
    BY <1>10 DEF ClearSource, Cleared, Status
  <2> QED BY <1>2, <1>10, <2>1 DEF ClearSource
<1>11. CASE ClearI
  <2>1. ~ sw'.i /\ sw'.src = sw.src
    BY <1>11 DEF ClearI, Status
  <2> QED BY <1>2, <1>11, <2>1 DEF ClearI
<1>12. CASE SetIE
  <2>1. sw'.i = sw.i /\ sw'.src = sw.src
    BY <1>12 DEF SetIE, Status
  <2> QED BY <1>2, <1>12, <2>1 DEF SetIE
<1>13. CASE Restore \/ Reload
  BY <1>2, <1>13 DEF Restore, Reload
<1>14. CASE Return
  <2>1. loc'[1] \in {"main"} \union Unmasked /\ UNCHANGED <<sw, seen, late>>
    BY <1>14 DEF Return, SpurInv
  <2> QED BY <1>2, <2>1 DEF Unmasked
<1>15. CASE \E d \in machine.devices : Raise(d)
  <2>1. PICK d : Raise(d)
    BY <1>15
  <2>2. sw'.i /\ sw'.src = sw.src \union {d} /\ UNCHANGED <<loc, seen>>
    BY <2>1 DEF Raise, Status
  <2>3. loc[1] # "main" => late' = late \union {d}
    BY <2>1 DEF Raise
  <2> QED BY <1>2, <2>2, <2>3
<1>16. CASE UNCHANGED vars
  BY <1>2, <1>16 DEF vars
<1> QED BY <1>3, <1>4, <1>5, <1>6, <1>7, <1>8, <1>9, <1>10, <1>11, <1>12, <1>13, <1>14, <1>15,
           <1>16 DEF Next, Processor, Handler

\* debug.cpp:55-57: clearing I leaves behind only a source that was pending together
\* with the one served, or was set since the handler read $sw: for every program
\* and machine, several sources at once, devices and nested handlers included.
THEOREM NoneStranded == Spec => []OnlyOthersStranded
<1>1. LateInv => OnlyOthersStranded
  BY DEF LateInv
<1> QED BY LateInit, LateStep, <1>1, PTL DEF Spec

-----------------------------------------------------------------------------
\* What a program that causes its own interrupts prints.

Behind(n) == {j \in Causes : j < n}

LEMMA BehindFact ==
  ASSUME prog \in Seq(Instructions), NEW n \in Nat
  PROVE  /\ IsFiniteSet(Behind(n)) /\ Cardinality(Behind(n)) \in Nat
         /\ Cardinality(Behind(n+1)) = Cardinality(Behind(n)) + (IF n \in Causes THEN 1 ELSE 0)
<1>1. Causes \subseteq 1 .. Len(prog) /\ Len(prog) \in Nat
  BY DEF Causes
<1>2. IsFiniteSet(1 .. Len(prog))
  BY <1>1, FS_Interval
<1>3. IsFiniteSet(Behind(n)) /\ Cardinality(Behind(n)) \in Nat
  <2>1. Behind(n) \subseteq 1 .. Len(prog)
    BY <1>1 DEF Behind
  <2> QED BY <2>1, <1>2, FS_Subset, FS_CardinalityType
<1>4. CASE n \in Causes
  <2>a. \A j \in Causes : (j < n+1 <=> j < n \/ j = n) /\ ~ n < n
    BY <1>1
  <2>1. Behind(n+1) = Behind(n) \union {n} /\ n \notin Behind(n)
    BY <1>4, <2>a, Zenon DEF Behind
  <2>2. Cardinality(Behind(n) \union {n}) = Cardinality(Behind(n)) + 1
    BY <1>3, <2>1, FS_AddElement
  <2> QED BY <1>3, <1>4, <2>1, <2>2
<1>5. CASE n \notin Causes
  <2>a. \A j \in Causes : j < n+1 <=> j < n
    BY <1>1, <1>5
  <2>1. Behind(n+1) = Behind(n)
    BY <2>a DEF Behind
  <2> QED BY <1>3, <1>5, <2>1
<1> QED BY <1>3, <1>4, <1>5

LEMMA SinceFact ==
  ASSUME NEW p, NEW op, NEW n \in Nat \ {0}
  PROVE  /\ p[n] \notin CauseOps /\ Since(p, op, n+1) => p[n] = op \/ Since(p, op, n)
         /\ p[n] \in CauseOps /\ op \notin CauseOps => ~ Since(p, op, n+1)
<1>1. ASSUME p[n] \notin CauseOps, Since(p, op, n+1)
      PROVE  p[n] = op \/ Since(p, op, n)
  <2>1. PICK i \in 1 .. n : p[i] = op /\ \A h \in i+1 .. n : p[h] \notin CauseOps
    BY <1>1 DEF Since
  <2>2. CASE i = n
    BY <2>1, <2>2
  <2>3. CASE i # n
    <3>1. i \in 1 .. n-1 /\ \A h \in i+1 .. n-1 : h \in i+1 .. n
      BY <2>3
    <3> QED BY <2>1, <3>1 DEF Since
  <2> QED BY <2>2, <2>3
<1>2. ASSUME p[n] \in CauseOps, op \notin CauseOps, Since(p, op, n+1)
      PROVE  FALSE
  <2>1. PICK i \in 1 .. n : p[i] = op /\ \A h \in i+1 .. n : p[h] \notin CauseOps
    BY <1>2 DEF Since
  <2>2. i # n
    BY <1>2, <2>1
  <2>3. n \in i+1 .. n
    BY <2>2
  <2> QED BY <1>2, <2>1, <2>3
<1> QED BY <1>1, <1>2

\* Before an interrupt is served its source is the only one pending, and it was
\* set by the instruction before the one $epc points to; after that none is.
SourceOf(op) == IF op = "overflow" THEN "soft" ELSE Prints(op)
Raised(n) == /\ n-1 \in Causes
             /\ sw.src = {SourceOf(prog[n-1])}
             /\ sw.ovf <=> prog[n-1] = "overflow"
             /\ sw.i
Quiet == sw.src = {} /\ ~ sw.ovf

MainInv == InMain =>
    /\ (\E i \in 1 .. loc[2]-1 : prog[i] = "ie") => sw.ie
    /\ \/ /\ Quiet
          /\ Since(prog, "i", loc[2]) => sw.i
          /\ Since(prog, "at16", loc[2]) => regs["at"] = "bit16"
       \/ Raised(loc[2]) /\ sw.ie

\* The source was reported, and is about to be cleared.
Clears == {"clearOverflow", "clearSource"}

HandlerInv == ~ InMain =>
    /\ epc[2]-1 \in Causes
    /\ loc[1] \in Before \ (Clears \union {"clearI"}) => Raised(epc[2])
    /\ loc[1] = "print" => seen.src = sw.src /\ (seen.ovf <=> sw.ovf)
    /\ loc[1] \in Clears => sw.src = {Served} /\ (sw.ovf => loc[1] = "clearOverflow")
    /\ loc[1] \in {"clearI"} \union After => Quiet
    /\ loc[1] \in Unmasked => sw.ie

\* The next instruction of the program.
Place == IF InMain THEN loc[2] ELSE epc[2]

CountInv == Len(printed) + (IF sw.src = {} \/ loc[1] \in Clears THEN 0 ELSE 1) = Cardinality(Behind(Place))
OrderInv == \A k \in DOMAIN printed :
                \E j \in Causes : Nth(j) = k /\ printed[k] = Prints(prog[j])

OutInv == /\ SavedInv
          /\ Alone => /\ Disciplined(prog)
                      /\ MainInv /\ HandlerInv /\ CountInv /\ OrderInv

LEMMA CausesFact ==
  ASSUME TypeOK
  PROVE  /\ prog \in Seq(Instructions) /\ Len(prog) \in Nat
         /\ Causes = {j \in 1 .. Len(prog) : prog[j] \in CauseOps}
         /\ \A j \in Causes : prog[j] \in CauseOps
<1>1. prog \in Seq(Instructions) /\ Len(prog) \in Nat
  BY ProgramFact DEF TypeOK
<1> QED BY <1>1 DEF Causes

LEMMA OutFact ==
  ASSUME OutInv, Alone
  PROVE  TypeOK /\ AloneInv /\ Undisturbed /\ (loc[1] \in Masked => ~ sw.ie)
  BY DEF OutInv, SavedInv, SpurInv, Nestable

LEMMA EpcFact ==
  ASSUME TypeOK, epc[1] = "main"
  PROVE  epc[2] \in 1 .. Len(prog)+1
<1>1. PICK i \in 1 .. Len(prog)+1 : epc = Main(i)
  BY DEF TypeOK, At, Steps
<1> QED BY <1>1 DEF Main

\* What does not change with the program.
LEMMA SameProgram ==
  ASSUME UNCHANGED prog
  PROVE  /\ Causes' = Causes
         /\ \A n : Behind(n)' = Behind(n)
         /\ \A j : Nth(j)' = Nth(j)
<1>1. Causes' = Causes
  BY DEF Causes
<1> QED BY <1>1 DEF Behind, Nth

LEMMA OutInit == ASSUME AllDisciplined PROVE Init => OutInv
<1> SUFFICES ASSUME Init, Alone
             PROVE  Disciplined(prog) /\ MainInv /\ HandlerInv /\ CountInv /\ OrderInv
  BY SavedInit DEF OutInv
<1>1. TypeOK
  BY TypeInit
<1>2. Disciplined(prog)
  BY DEF AllDisciplined, Init, Alone
<1>3. loc[1] = "main" /\ loc[2] = 1 /\ sw.src = {} /\ ~ sw.ovf /\ printed = << >>
  BY DEF Init, Main
<1>4. MainInv /\ HandlerInv
  BY <1>3 DEF MainInv, HandlerInv, InMain, Quiet, Since
<1>5. CountInv
  <2>1. \A j \in Causes : ~ j < 1
    BY <1>1, CausesFact
  <2>2. Behind(1) = {}
    BY <2>1 DEF Behind
  <2>3. Cardinality(Behind(1)) = 0
    BY <2>2, FS_EmptySet
  <2> QED BY <1>3, <2>3 DEF CountInv, Place, InMain
<1>6. OrderInv
  BY <1>3 DEF OrderInv
<1> QED BY <1>2, <1>4, <1>5, <1>6

\* The program runs: no interrupt is pending, so its next instruction is quiet, or
\* is a cause, which finds IE and I set.
LEMMA OutExecute ==
  ASSUME OutInv, Alone, Execute
  PROVE  MainInv' /\ HandlerInv' /\ CountInv' /\ OrderInv'
<1> DEFINE n == loc[2]
           op == prog[n]
<1>0. /\ TypeOK /\ sw \in Status /\ regs \in [Regs \union {"at", "lr"} -> Values]
      /\ ~ inExe /\ loc[1] = "main" /\ ~ Pending
      /\ UNCHANGED <<prog, machine, epc, inExe, area, seen, printed>>
  BY OutFact DEF OutInv, SavedInv, Undisturbed, TypeOK, Status, Execute, InMain
<1>1. n \in 1 .. Len(prog) /\ loc'[1] = "main" /\ loc'[2] = n+1
  <2>1. PICK i \in 1 .. Len(prog)+1 : loc = Main(i)
    BY <1>0 DEF TypeOK, At, Steps
  <2> QED BY <1>0, <2>1, CausesFact DEF Execute, Main
<1>2. n \in Nat /\ n \in Nat \ {0} /\ n+1-1 = n /\ n \in DOMAIN prog /\ op \in Instructions
  BY <1>0, <1>1, CausesFact
<1>3. /\ Quiet
      /\ (\E i \in 1 .. n-1 : prog[i] = "ie") => sw.ie
      /\ Since(prog, "i", n) => sw.i
      /\ Since(prog, "at16", n) => regs["at"] = "bit16"
  BY <1>0 DEF OutInv, MainInv, InMain, Raised, Pending
<1>4. /\ n \in Causes <=> op \in CauseOps
      /\ Cardinality(Behind(n)) \in Nat
      /\ Cardinality(Behind(n+1)) = Cardinality(Behind(n)) + (IF n \in Causes THEN 1 ELSE 0)
  BY <1>0, <1>1, <1>2, CausesFact, BehindFact
<1>5. Len(printed) \in Nat /\ Len(printed) = Cardinality(Behind(n))
  BY <1>0, <1>3, <1>4 DEF OutInv, CountInv, Place, InMain, Quiet, Clears, TypeOK
<1>6. HandlerInv' /\ OrderInv'
  BY <1>0, <1>1, SameProgram DEF OutInv, HandlerInv, OrderInv, InMain
<1>7. ASSUME op \notin CauseOps
      PROVE  MainInv' /\ CountInv'
  <2>1. /\ op \in {"work", "ie", "i", "at16"}
        /\ sw'.src = {} /\ ~ sw'.ovf
        /\ (op = "ie" \/ sw.ie => sw'.ie) /\ (op = "i" \/ sw.i => sw'.i)
        /\ (op = "at16" \/ regs["at"] = "bit16" => regs'["at"] = "bit16")
    <3>1. op \in {"work", "ie", "i", "at16"}
      BY <1>2, <1>7 DEF Instructions, CauseOps
    <3>2. CASE op \in {"work", "ie", "i"}
      BY <1>0, <1>3, <3>2 DEF Execute, Status, Quiet
    <3>3. CASE op = "at16"
      BY <1>0, <1>3, <3>3 DEF Execute, Quiet
    <3> QED BY <3>1, <3>2, <3>3
  <2>2. (\E i \in 1 .. n : prog[i] = "ie") => op = "ie" \/ \E i \in 1 .. n-1 : prog[i] = "ie"
    BY <1>2
  <2>3. /\ Since(prog, "i", n+1) => op = "i" \/ Since(prog, "i", n)
        /\ Since(prog, "at16", n+1) => op = "at16" \/ Since(prog, "at16", n)
    BY <1>2, <1>7, SinceFact
  <2>4. MainInv'
    <3>1. (\E i \in 1 .. n+1-1 : prog[i] = "ie") => sw'.ie
      BY <1>2, <1>3, <2>1, <2>2
    <3>2. Quiet' /\ (Since(prog, "i", n+1) => sw'.i) /\ (Since(prog, "at16", n+1) => regs'["at"] = "bit16")
      BY <1>3, <2>1, <2>3 DEF Quiet
    <3> QED BY <1>0, <1>1, <3>1, <3>2 DEF MainInv
  <2>5. CountInv'
    BY <1>0, <1>1, <1>4, <1>5, <1>7, <2>1, SameProgram DEF CountInv, Place, InMain, Clears
  <2> QED BY <2>4, <2>5
<1>8. ASSUME op \in CauseOps
      PROVE  MainInv' /\ CountInv'
  <2>1. /\ sw.ie
        /\ op # "overflow" => sw.i
        /\ op = "orAt" => regs["at"] = "bit16"
    BY <1>2, <1>3, <1>8 DEF OutInv, Disciplined
  <2>2. sw'.src = {SourceOf(op)} /\ sw'.ie /\ sw'.i /\ (sw'.ovf <=> op = "overflow")
    <3>1. CASE op \in {"soft", "int1"}
      BY <1>0, <1>3, <2>1, <3>1 DEF Execute, Set, Status, Quiet, SourceOf, Prints
    <3>2. CASE op = "orAt"
      BY <1>0, <1>3, <2>1, <3>2 DEF Execute, Set, Status, Quiet, SourceOf, Prints
    <3>3. CASE op = "overflow"
      BY <1>0, <1>3, <2>1, <3>3 DEF Execute, Status, Quiet, SourceOf
    <3> QED BY <1>8, <3>1, <3>2, <3>3 DEF CauseOps
  <2>3. Raised(loc[2])'
    BY <1>0, <1>1, <1>2, <1>4, <1>8, <2>2, SameProgram DEF Raised
  <2>4. MainInv'
    BY <1>1, <2>2, <2>3 DEF MainInv
  <2>5. sw'.src # {}
    BY <2>2
  <2>6. CountInv'
    BY <1>0, <1>1, <1>4, <1>5, <1>8, <2>5, SameProgram DEF CountInv, Place, InMain, Clears
  <2> QED BY <2>4, <2>6
<1> QED BY <1>6, <1>7, <1>8

\* An interrupt is taken: it is the one the last instruction caused.
LEMMA OutTake ==
  ASSUME OutInv, Alone, Take
  PROVE  MainInv' /\ HandlerInv' /\ CountInv' /\ OrderInv'
<1>0. InMain /\ sw.src # {} /\ sw \in Status
  <2>1. ~ nested /\ ~ Nestable /\ TypeOK
    BY OutFact DEF OutInv, SavedInv, Nestable
  <2> QED BY <2>1, TakeFromMain DEF OutInv, Take, Pending, TypeOK, Status
<1>1. Raised(loc[2])
  BY <1>0 DEF OutInv, MainInv, Quiet
<1>2. /\ epc' = loc /\ loc'[1] = "entry"
      /\ sw'.src = sw.src /\ sw'.ovf = sw.ovf /\ sw'.i = sw.i
      /\ UNCHANGED <<prog, seen, printed>>
  BY <1>0 DEF Take, At, Status
<1>3. Raised(epc[2])' /\ (epc[2]-1 \in Causes)'
  BY <1>1, <1>2, SameProgram DEF Raised
<1>4. MainInv' /\ HandlerInv'
  BY <1>2, <1>3 DEF MainInv, HandlerInv, InMain, Before, After, Unmasked, Clears
<1>5. CountInv'
  BY <1>0, <1>2, SameProgram DEF OutInv, CountInv, Place, InMain, Clears
<1>6. OrderInv'
  BY <1>2, SameProgram DEF OutInv, OrderInv
<1> QED BY <1>4, <1>5, <1>6

\* The handler reports the cause, and no other source comes up meanwhile.
LEMMA OutReport ==
  ASSUME OutInv, Alone, Report, TypeOK'
  PROVE  MainInv' /\ HandlerInv' /\ CountInv' /\ OrderInv'
<1> DEFINE n == epc[2]
           op == prog[n-1]
<1>0. /\ TypeOK /\ sw \in Status /\ seen \in Status
      /\ ~ InMain /\ loc[1] = "print" /\ seen.i /\ epc[1] = "main"
      /\ UNCHANGED <<prog, machine, epc, sw, inExe, area, seen, raised>>
  BY OutFact DEF AloneInv, Undisturbed, TypeOK, Status, Report, Goto, At, InMain
<1>1. /\ n-1 \in Causes /\ sw.src = {SourceOf(op)} /\ (sw.ovf <=> op = "overflow")
      /\ seen.src = sw.src /\ (seen.ovf <=> sw.ovf)
  BY <1>0 DEF OutInv, HandlerInv, Raised, Before, Clears
<1>2. n-1 \in Nat /\ n = (n-1)+1 /\ op \in CauseOps
  <2>1. epc[2] \in 1 .. Len(prog)+1
    BY <1>0, EpcFact
  <2> QED BY <1>0, <1>1, <2>1, CausesFact
<1>3. Served = SourceOf(op) /\ Message = Prints(op) /\ Served' = Served
  BY <1>0, <1>1, <1>2 DEF Served, Message, SourceOf, Prints, CauseOps
<1>4. /\ printed' = Append(printed, Prints(op))
      /\ loc'[1] = IF sw.ovf THEN "clearOverflow" ELSE "clearSource"
  <2>1. printed' = Append(printed, Message) /\ loc' = At(Clearing)
    BY <1>0, <1>1 DEF Report, Goto
  <2>2. sw.ovf <=> Message = "overflow"
    BY <1>1, <1>2, <1>3 DEF Prints, CauseOps
  <2> QED BY <1>3, <2>1, <2>2 DEF Clearing, At
<1>5. MainInv' /\ HandlerInv'
  BY <1>0, <1>1, <1>3, <1>4, SameProgram DEF MainInv, HandlerInv, InMain, Quiet, Before, After, Unmasked,
       Clears
<1>6. /\ Len(printed) \in Nat /\ Len(printed') = Len(printed) + 1
      /\ DOMAIN printed = 1 .. Len(printed) /\ DOMAIN printed' = 1 .. Len(printed) + 1
      /\ \A k \in DOMAIN printed : printed'[k] = printed[k]
      /\ printed'[Len(printed) + 1] = Prints(op)
  <2>1. printed \in Seq(Sources \union {"overflow"})
    BY <1>0 DEF TypeOK
  <2>2. Prints(op) \in Sources \union {"overflow"}
    BY <1>2 DEF Prints, CauseOps, Sources
  <2> HIDE DEF op
  <2> QED BY <1>4, <2>1, <2>2
<1>7. Len(printed) + 1 = Cardinality(Behind(n))
  BY <1>0, <1>1 DEF OutInv, CountInv, Place, Clears
<1>8. CountInv'
  BY <1>0, <1>4, <1>6, <1>7, SameProgram DEF CountInv, Place, InMain, Clears
<1>9. Nth(n-1) = Len(printed) + 1
  <2>1. \A h \in Causes : h <= n-1 <=> h < n
    BY <1>0, <1>2, CausesFact
  <2>2. {h \in Causes : h <= n-1} = Behind(n)
    BY <2>1 DEF Behind
  <2> QED BY <1>7, <2>2 DEF Nth
<1>10. OrderInv'
  <2> SUFFICES ASSUME NEW k \in DOMAIN printed'
               PROVE  \E j \in Causes : Nth(j) = k /\ printed'[k] = Prints(prog[j])
    BY <1>0, SameProgram DEF OrderInv
  <2>1. CASE k \in DOMAIN printed
    BY <1>6, <2>1 DEF OutInv, OrderInv
  <2>2. CASE k = Len(printed) + 1
    BY <1>1, <1>6, <1>9, <2>2
  <2> QED BY <1>6, <2>1, <2>2
<1> QED BY <1>5, <1>8, <1>10

\* The report's source and the overflow flag are cleared.
LEMMA OutClear ==
  ASSUME OutInv, Alone, ClearOverflow \/ ClearSource
  PROVE  MainInv' /\ HandlerInv' /\ CountInv' /\ OrderInv'
<1>1. /\ ~ InMain /\ loc[1] \in Clears /\ loc'[1] \in {"clearSource", "clearI"} /\ sw \in Status
      /\ UNCHANGED <<prog, epc, seen, printed>>
  BY OutFact DEF ClearOverflow, ClearSource, Goto, At, InMain, Clears, TypeOK, Status
<1>2. /\ epc[2]-1 \in Causes /\ (epc[2]-1 \in Causes)' /\ sw.src = {Served}
      /\ sw.ovf => loc[1] = "clearOverflow"
  BY <1>1, SameProgram DEF OutInv, HandlerInv
<1>3. Served' = Served
  BY <1>1 DEF Served
<1>4. \/ /\ loc[1] = "clearOverflow" /\ loc'[1] = "clearSource" /\ sw'.src = sw.src /\ ~ sw'.ovf
      \/ /\ loc[1] = "clearSource" /\ loc'[1] = "clearI" /\ sw'.src = {} /\ ~ sw'.ovf
  BY <1>1, <1>2 DEF ClearOverflow, ClearSource, Goto, At, Cleared, Status, Clears
<1>5. MainInv' /\ HandlerInv'
  BY <1>1, <1>2, <1>3, <1>4 DEF MainInv, HandlerInv, InMain, Quiet, Before, After, Unmasked, Clears
<1>6. Place' = Place
  BY <1>1, <1>4 DEF Place, InMain
<1>7. CountInv' /\ OrderInv'
  BY <1>1, <1>4, <1>6, SameProgram DEF OutInv, CountInv, OrderInv, Clears
<1> QED BY <1>5, <1>7

\* The rest of the handler reports nothing and sets no source.
LEMMA OutHandler ==
  ASSUME OutInv, Alone, Handler, ~ Report, ~ ClearOverflow, ~ ClearSource
  PROVE  MainInv' /\ HandlerInv' /\ CountInv' /\ OrderInv'
<1>0. /\ TypeOK /\ sw \in Status /\ Len(prog) \in Nat /\ ~ InMain
      /\ epc[1] = "main" /\ (loc[1] \in Masked => ~ sw.ie)
      /\ UNCHANGED <<prog, machine, epc, printed>>
  <2>1. TypeOK /\ epc[1] = "main" /\ (loc[1] \in Masked => ~ sw.ie)
    BY OutFact DEF Undisturbed
  <2>2. ~ InMain /\ UNCHANGED <<prog, machine, epc, printed>>
    BY DEF Handler, InMain, At, Goto, Entry, Call, Save, ClearIE, Read, ClearI, SetIE, Restore,
           Reload, Return
  <2> QED BY <2>1, <2>2, CausesFact DEF TypeOK, Status
<1>1. sw'.src = sw.src /\ sw'.ovf = sw.ovf
  BY <1>0 DEF Handler, Entry, Call, Save, ClearIE, Read, ClearI, SetIE, Restore, Reload, Return, Status
<1>2. Place' = Place
  <2>1. CASE Return
    BY <1>0, <2>1 DEF Place, InMain, Return
  <2>2. CASE ~ Return
    BY <1>0, <2>2 DEF Place, InMain, Handler, At, Goto, Entry, Call, Save, ClearIE, Read, ClearI,
                      SetIE, Restore, Reload
  <2> QED BY <2>1, <2>2
<1>3. CountInv' /\ OrderInv'
  <2>1. loc[1] \notin Clears /\ loc'[1] \notin Clears
    BY <1>0 DEF Handler, At, Goto, Entry, Call, Save, ClearIE, Read, ClearI, SetIE, Restore, Reload,
                Return, Clears
  <2> QED BY <1>0, <1>1, <1>2, <2>1, SameProgram DEF OutInv, CountInv, OrderInv
<1>4. /\ epc[2]-1 \in Causes /\ (epc[2]-1 \in Causes)'
      /\ Quiet => Quiet'
      /\ Raised(epc[2]) /\ sw'.i = sw.i => Raised(epc[2])'
  BY <1>0, <1>1, SameProgram DEF OutInv, HandlerInv, Quiet, Raised
<1> USE DEF HandlerInv, MainInv, InMain, At, Goto, Before, After, Unmasked, Clears
<1>5. CASE Entry \/ Call \/ Save
  BY <1>0, <1>3, <1>4, <1>5 DEF OutInv, Entry, Call, Save
<1>6. CASE ClearIE
  <2>1. sw'.i = sw.i
    BY <1>0, <1>6 DEF ClearIE, Status
  <2> QED BY <1>0, <1>3, <1>4, <1>6, <2>1 DEF OutInv, ClearIE
<1>7. CASE Read
  BY <1>0, <1>3, <1>4, <1>7 DEF OutInv, Read
<1>8. CASE ClearI
  BY <1>0, <1>3, <1>4, <1>8 DEF OutInv, ClearI
<1>9. CASE SetIE
  <2>1. sw'.ie
    BY <1>0, <1>9 DEF SetIE, Status
  <2> QED BY <1>0, <1>3, <1>4, <1>9, <2>1 DEF OutInv, SetIE
<1>10. CASE Restore \/ Reload
  BY <1>0, <1>3, <1>4, <1>10 DEF OutInv, Restore, Reload
<1>11. CASE Return
  <2>1. loc' = epc /\ loc'[1] = "main" /\ sw'.ie /\ Quiet'
    BY <1>0, <1>4, <1>11 DEF OutInv, Return
  <2>2. PICK m \in Nat \ {0} : epc[2] = m+1 /\ prog[m] \in CauseOps
    <3>1. epc[2] \in 1 .. Len(prog)+1
      BY <1>0, EpcFact
    <3>2. epc[2]-1 \in Nat \ {0} /\ epc[2] = (epc[2]-1) + 1 /\ prog[epc[2]-1] \in CauseOps
      BY <1>0, <1>4, <3>1, CausesFact
    <3> QED BY <3>2
  <2>3. ~ Since(prog, "i", m+1) /\ ~ Since(prog, "at16", m+1)
    <3>1. "i" \notin CauseOps /\ "at16" \notin CauseOps
      BY DEF CauseOps
    <3> QED BY <2>2, <3>1, SinceFact
  <2> QED BY <1>0, <1>3, <2>1, <2>2, <2>3
<1> QED BY <1>5, <1>6, <1>7, <1>8, <1>9, <1>10, <1>11 DEF Handler

LEMMA OutStep == OutInv /\ [Next]_vars => OutInv'
<1> SUFFICES ASSUME OutInv, [Next]_vars PROVE OutInv'
  OBVIOUS
<1>1. SavedInv' /\ TypeOK'
  BY SavedStep DEF OutInv, SavedInv, SpurInv
<1>2. UNCHANGED <<prog, machine>>
  BY DEF Next, Processor, Handler, Take, Execute, Entry, Call, Save, ClearIE, Read, Report,
         ClearOverflow, ClearSource, ClearI, SetIE, Restore, Reload, Return, Raise, vars
<1>3. ASSUME Alone
      PROVE  MainInv' /\ HandlerInv' /\ CountInv' /\ OrderInv'
  <2>1. CASE UNCHANGED vars
    <3>1. UNCHANGED <<prog, loc, epc, sw, regs, seen, printed>>
      BY <2>1 DEF vars
    <3> QED BY <1>3, <3>1, SameProgram DEF OutInv, MainInv, HandlerInv, CountInv, OrderInv, Raised, Quiet,
                Place, InMain, Served
  <2>2. ~ \E d \in machine.devices : Raise(d)
    BY <1>3 DEF Alone
  <2> QED BY <1>1, <1>3, <2>1, <2>2, OutTake, OutExecute, OutReport, OutClear, OutHandler
     DEF Next, Processor
<1>4. Disciplined(prog)' <=> Disciplined(prog)
  BY <1>2 DEF Disciplined, Since
<1> QED BY <1>1, <1>2, <1>3, <1>4 DEF OutInv, Alone

\* lld.rst:274-279, debug.cpp:76-88: if the programs that run without devices set
\* IE, I and the bit in $at before they cause an interrupt, as int_sim does, they
\* print each interrupt they cause once and in order, whatever their length; $at
\* keeps the bit that is passed through it, although no one saves it.
THEOREM ReportsInOrder ==
  ASSUME AllDisciplined
  PROVE  Spec => []ExpectedOutput
<1>1. ASSUME OutInv, Alone, Done
      PROVE  Len(printed) = Cardinality(Causes)
  <2>1. TypeOK /\ InMain
    BY <1>1, OutFact DEF Done
  <2>2. Quiet
    BY <1>1, <2>1, OutFact DEF OutInv, Undisturbed, MainInv, Raised, Done, Pending
  <2>3. loc[2] = Len(prog)+1
    <3>1. PICK i \in 1 .. Len(prog)+1 : loc = Main(i)
      BY <2>1 DEF TypeOK, InMain, At, Steps
    <3> QED BY <1>1, <2>1, <3>1, CausesFact DEF Done, Main
  <2>4. \A j \in Causes : j < loc[2]
    BY <2>1, <2>3, CausesFact
  <2>5. Behind(loc[2]) = Causes
    BY <2>4 DEF Behind
  <2>6. Len(printed) \in Nat
    BY <2>1 DEF TypeOK
  <2> QED BY <1>1, <2>1, <2>2, <2>5, <2>6 DEF OutInv, CountInv, Place, Quiet, Clears, InMain
<1>2. OutInv => ExpectedOutput
  BY <1>1 DEF OutInv, OrderInv, ExpectedOutput
<1> QED BY OutInit, OutStep, <1>2, PTL DEF Spec
=============================================================================
