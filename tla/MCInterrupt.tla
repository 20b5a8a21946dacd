----------------------------- MODULE MCInterrupt -----------------------------
(***************************************************************************)
(* The program int_sim and the overflow test, with other work between      *)
(* their instructions.                                                     *)
(***************************************************************************)
EXTENDS Interrupt

TwoOverflows == <<"ie", "overflow", "work", "overflow", "work">>

WithWork(p, k) == SubSeq(p, 1, k) \o <<"work">> \o SubSeq(p, k+1, Len(p))

\* The programs of the repository: they cause all interrupts themselves.
Alones == {IntSim, TwoOverflows, IntSim \o IntSim}
             \union {WithWork(IntSim, k) : k \in 0 .. Len(IntSim)}

\* Programs that devices interrupt at any point; one sets a source without I.
Workers == {<<"ie", "work", "work", "work">>, <<"ie", "overflow", "work", "work">>,
            <<"ie", "at16", "orAt", "work">>, <<"ie", "soft", "work", "i", "work">>}

MCPrograms == Alones \X {[devices |-> {}, masks |-> m] : m \in BOOLEAN}
                \union Workers \X {[devices |-> {"int1", "int2"}, masks |-> m] : m \in BOOLEAN}

\* The programs are such as the theorems of InterruptProofs are about.
ASSUME ProgramsAssumption == AllDisciplined

MCRegs == {"r2", "r7"}
=============================================================================
