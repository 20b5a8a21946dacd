------------------------------ MODULE MCElf2Hex ------------------------------
(***************************************************************************)
(* Small linked files for Elf2Hex.  TextBase is 20 (0x100 in the source),  *)
(* so that one word of zeros follows the boot section.                     *)
(***************************************************************************)
EXTENDS Elf2Hex

S(a, n, k, y) == [addr |-> a, size |-> n, kind |-> k, syms |-> y, bad |-> {}]

\* Symbol tables of a text section of 8 bytes: none, one, two, and two names
\* for one address.
Tables == {{}, {<<0, 1>>}, {<<0, 1>>, <<4, 2>>}, {<<0, 1>>, <<0, 2>>, <<4, 3>>},
           {<<0, 1>>, <<8, 2>>}}

Texts == {S(a, n, "text", y) : a \in {20, 24}, n \in {8, 12}, y \in Tables}
Datas == {S(a, n, "data", {}) : a \in {36, 40}, n \in {0, 1, 4, 6}}
Last == {S(a, n, k, {}) : a \in {48, 52}, n \in {3, 4}, k \in {"data", "bss"}}
        \union {S(0, 5, "data", {})}
        \union {S(48, 12, "text", y) : y \in {{}, {<<0, 4>>, <<8, 5>>}}}

\* One text in which the second word does not decode.
Undecodable == [S(24, 12, "text", {<<0, 1>>}) EXCEPT !.bad = {4}]

MCOneFile  == {cmd \in {<< <<t, d, e>> >> : t \in Texts \union {Undecodable}, d \in Datas, e \in Last} : WellFormed(cmd)}

\* Two files: the vector of symbols survives from the first to the second.
MCTwoFiles == {cmd \in {<< <<t>>, <<u, d>> >> : t \in Texts, u \in Texts, d \in Datas} : WellFormed(cmd)}

MCFiles == MCOneFile \union MCTwoFiles

\* Layouts nobody checked: addresses off a word boundary, overlaps, descending
\* addresses, odd symbols, symbols beyond a later section.
OddTables == {{}, {<<1, 1>>}, {<<0, 1>>, <<5, 2>>}, {<<0, 1>>, <<1, 2>>}, {<<2, 1>>, <<4, 3>>}}
MCAny == {<< <<t, d, u>> >> :
            t \in {S(20, n, "text", y) : n \in {8, 9}, y \in OddTables},
            d \in {S(a, n, k, {}) : a \in {22, 29, 31, 33}, n \in {1, 4, 5}, k \in {"data", "bss"}},
            u \in {S(a, n, "text", y) : a \in {24, 40}, n \in {5, 8}, y \in OddTables}}

\* A text section with a late symbol, then one without any.
MCStale == {<< <<S(20, 12, "text", {<<0, 1>>, <<8, 2>>}), S(32, 4, "text", {})>> >>}

MCJunk == {0, 7}
=============================================================================
