------------------------------ MODULE MCDisHex ------------------------------
(***************************************************************************)
(* Two files of up to three lines for DisHexFiles.                         *)
(***************************************************************************)
EXTENDS DisHexFiles

L(k, i) == [kind |-> k, id |-> i]
LineSeqs(base, n) == UNION {[1 .. m -> Kinds] : m \in 0 .. n}
MCFilesFrom(base, n) == {[lines |-> [k \in DOMAIN s |-> L(s[k], base + k)], nl |-> b, found |-> TRUE] :
                           s \in LineSeqs(base, n), b \in BOOLEAN}
Missing == [lines |-> << >>, nl |-> TRUE, found |-> FALSE]

MCCommandLines == {<<f, g>> : f \in MCFilesFrom(0, 3), g \in MCFilesFrom(10, 1) \union {Missing}}
=============================================================================
