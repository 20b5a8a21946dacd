------------------------------- MODULE DisHex -------------------------------
(***************************************************************************)
(* exlbt/dishex: reads instructions in hexadecimal, one a line, and prints *)
(* their assembly (HexToAsm::run, called by main for each file or for the  *)
(* standard input).                                                        *)
(*                                                                         *)
(* A line is [kind, id].  Its characters matter only through what run,     *)
(* checkInput, hexToBytes and the disassembler say of them: "insn" (eight  *)
(* hex digits that decode), "undecodable" (eight that do not), "comment"   *)
(* (begins with #), "quit", and "bad" (other characters, or not eight      *)
(* digits; an empty line too).  KindOf is how they say it of a text, in    *)
(* which a character stands for all of its range.                          *)
(***************************************************************************)
EXTENDS Naturals, Sequences, SequencesExt

Kinds == {"insn", "undecodable", "comment", "quit", "bad"}

VARIABLES
    queue,    \* the input streams that were not opened yet
    stream,   \* the lines of the current stream that were not read
    closed,   \* no further line will be added to it
    nl,       \* its last line ends in a newline
    line,     \* Line
    eof,      \* Is.eof()
    pc,       \* "next" file, "read", "test" of the loop, "exit"
    out,      \* the ids of the lines whose assembly was printed
    status    \* "ok", or what reportError ended the program with

dvars == <<queue, stream, closed, nl, line, eof, pc, out, status>>

EmptyLine == [kind |-> "bad", id |-> 0]

Chars == {"0-9", "A-F", "a-f", " ", "#", "q", "u", "i", "t", "other"}

\* (deviation) small letters are forgotten
AcceptsCapitals(text) ==
    /\ \A k \in DOMAIN text : text[k] \in {"0-9", "A-F", " "}
    /\ Cardinality({k \in DOMAIN text : text[k] \in {"0-9", "A-F"}}) = 8
\* HexToAsm::checkInput: hex digits and blanks, and eight digits.
Accepts(text) ==
    /\ \A k \in DOMAIN text : text[k] \in {"0-9", "A-F", "a-f", " "}
    /\ Cardinality({k \in DOMAIN text : text[k] \in {"0-9", "A-F", "a-f"}}) = 8

\* disassemble takes the blanks out, hexToBytes wants digits only.
HexToBytes(text) == \A k \in DOMAIN text : text[k] # " " => text[k] \in {"0-9", "A-F", "a-f"}

\* What the loop of run does with a line of these characters, whose bytes the
\* disassembler can decode or not.
KindOf(text, decodes) ==
    IF text = <<"q", "u", "i", "t">> THEN "quit"
    ELSE IF text # << >> /\ Head(text) = "#" THEN "comment"
    ELSE IF ~ Accepts(text) \/ ~ HexToBytes(text) THEN "bad"
    ELSE IF decodes THEN "insn" ELSE "undecodable"

-----------------------------------------------------------------------------
\* The files after the current one.
LaterFiles == Tail(queue)

\* A file that cannot be opened: getline fails without reaching the end of a
\* stream, so the loop is entered with an empty line.
NextFile ==
    /\ pc = "next" /\ queue # << >>
    /\ queue' = LaterFiles
    /\ LET s == Head(queue) IN
       /\ stream' = s.lines
       /\ nl' = s.nl
       /\ line' = EmptyLine
       /\ pc' = IF s.found THEN "read" ELSE "test"
    /\ eof' = FALSE
    /\ UNCHANGED <<closed, out, status>>

AllFilesDone ==
    /\ pc = "next" /\ queue = << >>
    /\ pc' = "exit"
    /\ UNCHANGED <<queue, stream, closed, nl, line, eof, out, status>>

\* (deviation) the end is noticed with every last line
AtEofOnLast == Len(stream) = 1 /\ closed
\* The line that is read is ended by the end of the stream.
AtEof == Len(stream) = 1 /\ ~ nl

\* std::getline: the end of the stream is noticed when no newline ends the line.
Getline ==
    /\ pc = "read"
    /\ \/ /\ stream # << >>
          /\ AtEof => closed
          /\ line' = Head(stream)
          /\ stream' = Tail(stream)
          /\ eof' = AtEof
       \/ /\ stream = << >> /\ closed
          /\ line' = EmptyLine
          /\ eof' = TRUE
          /\ UNCHANGED stream
    /\ pc' = "test"
    /\ UNCHANGED <<queue, closed, nl, out, status>>

\* (deviation) the end of the stream does not end the loop
InLoopAnyway == pc = "test" /\ line.kind # "quit"
InLoop == pc = "test" /\ line.kind # "quit" /\ ~ eof

\* while (Line != "quit" && !Is.eof()) ends: run returns.
LeaveLoop ==
    /\ pc = "test" /\ ~ InLoop
    /\ pc' = "next"
    /\ UNCHANGED <<queue, stream, closed, nl, line, eof, out, status>>

\* (deviation) a comment is left without reading the next line
StayAtComment == "test"
AfterComment == "read"

Comment ==
    /\ InLoop /\ line.kind = "comment"
    /\ pc' = AfterComment
    /\ UNCHANGED <<queue, stream, closed, nl, line, eof, out, status>>

\* checkInput reports the error, and reportError exits: it never returns false.
RejectLine ==
    /\ InLoop /\ line.kind = "bad"
    /\ status' = "format"
    /\ pc' = "exit"
    /\ UNCHANGED <<queue, stream, closed, nl, line, eof, out>>

Disassemble ==
    /\ InLoop /\ line.kind = "insn"
    /\ out' = Append(out, line.id)
    /\ pc' = "read"
    /\ UNCHANGED <<queue, stream, closed, nl, line, eof, status>>

\* getInstruction fails: DisAs::reportError exits.
CannotDecode ==
    /\ InLoop /\ line.kind = "undecodable"
    /\ status' = "decode"
    /\ pc' = "exit"
    /\ UNCHANGED <<queue, stream, closed, nl, line, eof, out>>

DisNext == \/ NextFile \/ AllFilesDone \/ Getline \/ LeaveLoop
           \/ Comment \/ RejectLine \/ Disassemble \/ CannotDecode
=============================================================================
