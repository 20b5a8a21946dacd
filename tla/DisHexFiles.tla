----------------------------- MODULE DisHexFiles -----------------------------
(***************************************************************************)
(* dishex on files named on the command line (dishex 1.hex 2.hex).         *)
(***************************************************************************)
EXTENDS DisHex

CONSTANT CommandLines   \* sequences of files

\* A file: its lines, whether a newline ends the last, whether it can be opened.
Lines == [kind : Kinds, id : Nat]
Files == [lines : Seq(Lines), nl : BOOLEAN, found : BOOLEAN]

ASSUME FilesAssumption == CommandLines \subseteq Seq(Files)

VARIABLE args           \* the files of the command line

vars == <<args, dvars>>

Init == /\ args \in CommandLines
        /\ queue = args
        /\ stream = << >> /\ closed = TRUE /\ nl = TRUE
        /\ line = EmptyLine /\ eof = FALSE
        /\ pc = "next"
        /\ out = << >>
        /\ status = "ok"

Next == DisNext /\ UNCHANGED args

Spec == Init /\ [][Next]_vars /\ WF_vars(Next)

-----------------------------------------------------------------------------
\* What a file makes dishex do, read off its lines: the lines the loop gets to
\* see, up to the first that stops it.  A last line without a newline is read
\* with eof set and not looked at.
Seen(f) == IF ~ f.found THEN <<EmptyLine>>
           ELSE IF f.nl \/ f.lines = << >> THEN f.lines ELSE Front(f.lines)
Stops(l) == l.kind \in {"quit", "bad", "undecodable"}
StopAt(f) == {k \in DOMAIN Seen(f) : /\ Stops(Seen(f)[k])
                                     /\ \A j \in 1 .. k-1 : ~ Stops(Seen(f)[j])}
Fails(f) == \E k \in StopAt(f) : Seen(f)[k].kind # "quit"
IdsOf(s) == FlattenSeq([k \in DOMAIN s |-> IF s[k].kind = "insn" THEN <<s[k].id>> ELSE << >>])
Output(f) == IF StopAt(f) = {} THEN IdsOf(Seen(f))
             ELSE IdsOf(SubSeq(Seen(f), 1, (CHOOSE k \in StopAt(f) : TRUE) - 1))

FirstFailing == {i \in DOMAIN args : Fails(args[i]) /\ \A j \in 1 .. i-1 : ~ Fails(args[j])}
RunFiles == IF FirstFailing = {} THEN args
            ELSE SubSeq(args, 1, CHOOSE i \in FirstFailing : TRUE)

\* The assembly of every file that is reached comes out, whole and in order: a
\* `quit' ends its own file only, an error ends the program (run, main).
OutputRight ==
    pc = "exit" => /\ out = FlattenSeq([i \in DOMAIN RunFiles |-> Output(RunFiles[i])])
                   /\ (status = "ok") = (FirstFailing = {})

\* dishex stops on every input.
Terminates == <>(pc = "exit")

=============================================================================
