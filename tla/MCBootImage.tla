----------------------------- MODULE MCBootImage -----------------------------
(***************************************************************************)
(* Programs of five words: an address is loaded and a function called, an  *)
(* interrupt routine jumps back, a data word points at the variable.       *)
(***************************************************************************)
EXTENDS BootImage

Lui(f)  == 15 * M24 + 2 * 1048576 + f
Ori(f)  == 13 * M24 + 2 * 1048576 + f
JsubW(f) == Jsub * M24 + f
JmpW(f) == Jmp * M24 + f

R(type, site, target) == [type |-> type, site |-> site, target |-> target]

\* t: .text, i: the interrupt routine, f: the function, x: the variable,
\* junk: what the operands hold before they are patched.
Program(t, i, f, x, junk, syms, little) ==
    [text   |-> t,
     little |-> little,
     syms   |-> syms,
     word   |-> [a \in {t, t+4, t+8, i, i+4} |->
                   CASE a = t   -> Lui(junk) [] a = t+4 -> Ori(junk)
                     [] a = t+8 -> JsubW(junk) [] a = i -> JmpW(junk)
                     [] a = i+4 -> junk],
     relocs |-> <<R("LO16", t+4, x), R("PC24", t+8, f), R("PC24", i, t),
                  R("HI16", t, x), R("32", i+4, x)>>]

Texts == {256, 74564, 8388608}
\* Addresses on both sides of 2^15, and three of the upper half.
Variables == {32767, 32768, 32766 * M16 + 40000, -4, -30000 * M16 + 40000, -WordMax - 1}

Isrs(i) == {<< >>, <<<<"ISR", i>>>>, <<<<"ISR", i>>, <<"ISR", 512>>>>}

MCObjects == UNION {
    {Program(t, t + d, f, x, junk, <<<<"other", 4>>>> \o s, little) : s \in Isrs(t + d)} :
        t \in Texts, d \in {12, 8388600}, f \in {64, 8388868}, x \in Variables,
        junk \in {65535}, little \in BOOLEAN}

\* The hypothesis of the proof about loaded addresses holds of these programs.
ASSUME LoadsAssumption == LoadsInPairs
=============================================================================
