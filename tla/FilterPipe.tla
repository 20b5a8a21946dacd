----------------------------- MODULE FilterPipe -----------------------------
(***************************************************************************)
(* llvm-objdump -d x.o | filterhex | dishex: filterhex picks the bytes of  *)
(* the instructions out of the listing of llvm-objdump and dishex reads    *)
(* them through a pipe.                                                    *)
(*                                                                         *)
(* The kinds of a listing line: those that getHex rejects ("semicolon",    *)
(* "label": not indented, "plain": no ": " in it), and those in which it   *)
(* finds a text behind the colon ("bytes"), which is empty or begins with  *)
(* the blank behind the colon; `decodes' says whether the disassembler     *)
(* knows the bytes, if the text is one of eight digits.                    *)
(***************************************************************************)
EXTENDS DisHex

CONSTANTS Listings,   \* the listings to consider
          PipeMax     \* lines the pipe holds

ListingKinds == {"semicolon", "label", "plain", "bytes"}
Texts == {t \in Seq(Chars) : t = << >> \/ Head(t) = " "}
ListingLines == [kind : ListingKinds, text : Texts, decodes : BOOLEAN, id : Nat]

ASSUME PipeAssumption == /\ Listings \subseteq Seq(ListingLines)
                         /\ PipeMax \in Nat \ {0}

VARIABLES listing,   \* the output of llvm-objdump
          rest,      \* its lines that filterhex has not read
          fpc        \* filterhex: "run" or "exit"

vars == <<listing, rest, fpc, dvars>>

Init == /\ listing \in Listings
        /\ rest = listing
        /\ fpc = "run"
        /\ queue = << >> /\ stream = << >> /\ closed = FALSE /\ nl = TRUE
        /\ line = EmptyLine /\ eof = FALSE
        /\ pc = "read"
        /\ out = << >>
        /\ status = "ok"

GetHex(l) == l.kind = "bytes"

\* filterhex's own checkInput.
HexDigits == {"0-9", "A-F", "a-f"}
Blank == " "
CheckInput(l) == LET digits == {k \in DOMAIN l.text : l.text[k] \in HexDigits} IN
                 /\ \A k \in DOMAIN l.text \ digits : l.text[k] = Blank
                 /\ Cardinality(digits) = 8

\* (deviation) checkInput is not asked
PassesUnchecked(l) == GetHex(l)
Passes(l) == GetHex(l) /\ CheckInput(l)

\* What dishex makes of the text that filterhex writes.
AsHex(l) == [kind |-> KindOf(l.text, l.decodes), id |-> l.id]

Room == Len(stream) < PipeMax

\* (deviation) the newest line first
WrittenFirst(l) == <<AsHex(l)>> \o stream
Written(l) == Append(stream, AsHex(l))

\* (deviation) SIGPIPE is ignored
BrokenPipeIgnored == FALSE
BrokenPipe == pc = "exit"

\* filterHex reads a line; if it passes it is written, with a newline.
FilterLine ==
    /\ fpc = "run" /\ rest # << >>
    /\ rest' = Tail(rest)
    /\ IF Passes(Head(rest))
       THEN /\ Room
            /\ ~ BrokenPipe
            /\ stream' = Written(Head(rest))
       ELSE UNCHANGED stream
    /\ UNCHANGED <<listing, fpc, queue, closed, nl, line, eof, pc, out, status>>

\* The end of the listing: filterhex exits and its end of the pipe is closed.
FilterEnds ==
    /\ fpc = "run" /\ rest = << >>
    /\ fpc' = "exit"
    /\ closed' = TRUE
    /\ UNCHANGED <<listing, rest, queue, stream, nl, line, eof, pc, out, status>>

\* A write to the pipe of a dishex that is gone: SIGPIPE.
FilterKilled ==
    /\ fpc = "run" /\ rest # << >> /\ Passes(Head(rest)) /\ BrokenPipe
    /\ fpc' = "exit"
    /\ closed' = TRUE
    /\ UNCHANGED <<listing, rest, queue, stream, nl, line, eof, pc, out, status>>

FilterNext == FilterLine \/ FilterEnds \/ FilterKilled
DisStep    == DisNext /\ UNCHANGED <<listing, rest, fpc>>

Next == FilterNext \/ DisStep

\* Both processes are scheduled.
Spec == Init /\ [][Next]_vars /\ WF_vars(FilterNext) /\ WF_vars(DisStep)

-----------------------------------------------------------------------------
\* The instructions of the listing: the text behind the colon has eight
\* characters that are not blanks, all of them hex digits of bytes that decode.
Dense(l) == {k \in DOMAIN l.text : l.text[k] # " "}
InsnLines == {i \in DOMAIN listing :
                 LET l == listing[i] IN
                 /\ l.kind = "bytes" /\ l.decodes
                 /\ {l.text[k] : k \in Dense(l)} \subseteq {"0-9", "A-F", "a-f"}
                 /\ Cardinality(Dense(l)) = 8}

\* However the two processes interleave, the instructions come out in the order
\* of the listing, none twice, and none is lost: the k-th that dishex prints is
\* the k-th of the listing, and when it has ended without an error it has printed
\* them all (filterhex.cpp:88-112 and dishex's HexToAsm::run).
AllInOrder ==
    /\ \A k \in DOMAIN out : \E i \in InsnLines : /\ Cardinality({j \in InsnLines : j <= i}) = k
                                                  /\ out[k] = listing[i].id
    /\ pc = "exit" /\ status = "ok" => Len(out) = Cardinality(InsnLines)

\* Each program has a checkInput of its own (filterhex.cpp:21-56 and
\* dishex.cpp:79-110) and dishex exits over a line that its own refuses: it never
\* refuses what filterhex lets through, nor takes it for a comment or a quit.
FormatAccepted == status # "format"

\* Both processes end, also when dishex dies over an instruction that does not
\* decode while filterhex waits for room in the pipe.
BothEnd == <>(fpc = "exit" /\ pc = "exit")
=============================================================================
