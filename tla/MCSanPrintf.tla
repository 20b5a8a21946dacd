---------------------------- MODULE MCSanPrintf -----------------------------
(***************************************************************************)
(* Integers of 8 bits and long integers of 10; a buffer of 9 places.       *)
(***************************************************************************)
EXTENDS SanPrintf

Dir(conv, left, zero, width, prec, ll, num, str) ==
    [conv |-> conv, left |-> left, zero |-> zero, width |-> width, prec |-> prec,
     ll |-> ll, num |-> num, str |-> str]

\* 0 and 1, a number of two digits and of one hexadecimal digit, the largest,
\* the most negative, and -3.
Ints == {0, 1, 12, 100, 127, 128, 253, 255}
Numbers == {Dir(c, l, z, w, -1, FALSE, n, << >>) :
                c \in {"d", "u", "x", "X"}, l \in BOOLEAN, z \in BOOLEAN,
                w \in {0, 1, 2, 4}, n \in Ints}
Longs == {Dir(c, FALSE, z, w, -1, TRUE, n, << >>) :
              c \in {"d", "u", "x"}, z \in BOOLEAN, w \in {0, 4, 6}, n \in {0, 255, 511, 512, 1023}}
Strings == {Dir("s", l, FALSE, w, p, FALSE, 0, s) :
                l \in BOOLEAN, w \in {0, 2, 4}, p \in {-1, 0, 1, 3},
                s \in {<< >>, <<"s">>, <<"s", "t", "u">>, Null}}
Others == {Dir("p", FALSE, FALSE, 0, -1, FALSE, n, << >>) : n \in {0, 171}}
              \cup {Dir("c", FALSE, FALSE, 0, -1, FALSE, 0, <<c>>) : c \in {"k", Nul}}
              \cup {Dir("%", FALSE, FALSE, 0, -1, FALSE, 0, << >>),
                    Dir("lit", FALSE, FALSE, 0, -1, FALSE, 0, <<"z">>)}

Some == {d \in Numbers : d.width = 4 /\ d.num \in {0, 253} /\ d.conv \in {"d", "x"}}
          \cup {d \in Strings : d.width \in {0, 4} /\ d.prec \in {-1, 1} /\ Len(d.str) = 3}
          \cup Others

MCFormats == {<<d>> : d \in Numbers \cup Longs \cup Strings \cup Others}
               \cup {<<d, e, f>> : d \in Some, e \in Some, f \in Some}
=============================================================================
