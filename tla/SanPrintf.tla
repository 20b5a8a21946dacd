----------------------------- MODULE SanPrintf ------------------------------
(***************************************************************************)
(* The printf of Cpu0 programs, exlbt/input/sanitizer_printf.cpp: a format *)
(* is rendered into a buffer of fixed length, which is then printed.       *)
(*                                                                         *)
(* The checks of the original (RAW_CHECK, CHECK) are empty macros here     *)
(* (sanitizer_internal_defs.h:43-56), so nothing stops a format they would *)
(* reject; the formats modelled are those that VSNPrintf lists as          *)
(* supported, with the justifications added for Cpu0.                      *)
(*                                                                         *)
(* A character is a string of length one.  A numeric argument is its bits. *)
(***************************************************************************)
EXTENDS Integers, SequencesExt

CONSTANTS Formats,     \* sequences of directives
          BufLength,   \* the length of the buffer, 1000 in printf
          IntMod,      \* 2^32: int, long and pointers
          LongMod      \* 2^64: long long

Null == <<"NULL">>     \* the null pointer as a string argument
Nul == "NUL"           \* the character 0

\* A directive %[-][0][width][.*][ll]conv with its arguments.  "lit" is a
\* character that stands for itself, in str.
Directives == [conv : {"lit", "d", "u", "x", "X", "p", "s", "c", "%"},
               left : BOOLEAN, zero : BOOLEAN, ll : BOOLEAN,
               width : 0 .. 29,   \* kMaxLen
               prec : Nat \cup {-1}, num : Nat, str : Seq(STRING)]

\* %p has no flags in the list.
IsDirective(d) == /\ d.num < IF d.ll THEN LongMod ELSE IntMod
                  /\ d.conv = "p" => ~ d.left
                  /\ d.conv \in {"lit", "c"} => Len(d.str) = 1

ASSUME FormatAssumption ==
    /\ BufLength \in Nat \ {0}
    /\ IntMod \in Nat \ {0} /\ LongMod \in Nat /\ LongMod >= IntMod
    /\ Formats \subseteq Seq(Directives)
    /\ \A f \in Formats : \A i \in DOMAIN f : IsDirective(f[i])

VARIABLES format,   \* the format with its arguments
          cur,      \* the directive that is next
          buff,     \* what was written to the buffer
          result,   \* the length that the whole text needs
          printed   \* what putchar was called with, <<>> before the end

vars == <<format, cur, buff, result, printed>>

-----------------------------------------------------------------------------
Blanks(n) == [i \in 1 .. n |-> " "]
Least(a, b) == IF a < b THEN a ELSE b
Most(a, b) == IF a < b THEN b ELSE a

\* (deviation) no place is kept for the 0 at the end
AppendToEnd(b, s) == b \o SubSeq(s, 1, Least(Len(s), BufLength - Len(b)))
\* AppendChar for each character: it stops at buff_end, the last place.
AppendChars(b, s) == b \o SubSeq(s, 1, Least(Len(s), BufLength - 1 - Len(b)))

\* AppendChar returns 1 all the same.
Count(b, s) == Len(s)

\* num_buffer after the do loop, the last digit first.
NumBuffer(value, base) ==
    LET f[v \in 0 .. value] ==
            <<v % base>> \o IF v \div base > 0 THEN f[v \div base] ELSE << >>
    IN f[value]

DigitChar(digit, uppercase) ==
    IF uppercase /\ digit >= 10
    THEN <<"A", "B", "C", "D", "E", "F">>[digit - 9]
    ELSE <<"0", "1", "2", "3", "4", "5", "6", "7",
           "8", "9", "a", "b", "c", "d", "e", "f">>[digit + 1]

\* The number with num_pads zeros in front; then the loops that print it: the
\* zeros in front (the only digit of 0 is one of them), the sign, the others.
Padded(digits, pads, zero, negative, uppercase, left) ==
    LET num  == [i \in 1 .. pads |-> 0] \o Reverse(digits)
        lead == IF \E i \in DOMAIN num : num[i] # 0
                THEN SelectInSeq(num, LAMBDA n : n # 0) - 1 ELSE Len(num)
        sign == IF negative THEN <<"-">> ELSE << >>
    IN (IF zero THEN sign ELSE << >>)
         \o (IF left THEN << >>
             ELSE [i \in 1 .. lead |-> IF zero \/ i = Len(num) THEN "0" ELSE " "])
         \o (IF zero THEN << >> ELSE sign)
         \o [i \in 1 .. Len(num) - lead |-> DigitChar(num[lead + i], uppercase)]
         \o (IF left THEN Blanks(pads) ELSE << >>)

\* (deviation) the sign does not count to the length
NumberWide(value, base, width, zero, negative, uppercase, left) ==
    LET digits == NumBuffer(value, base)
    IN Padded(digits, Most(width - Len(digits), 0), zero, negative, uppercase, left)
AppendNumber(value, base, width, zero, negative, uppercase, left) ==
    LET digits == NumBuffer(value, base)
        min    == IF negative /\ width > 0 THEN width - 1 ELSE width
    IN Padded(digits, Most(min - Len(digits), 0), zero, negative, uppercase, left)

\* AppendSignedDecimal: num = the bits of a signed integer; -num wraps.
Absolute(num, mod) == IF num < mod \div 2 THEN num ELSE mod - num

Signed(d) ==
    LET mod == IF d.ll THEN LongMod ELSE IntMod
    IN AppendNumber(Absolute(d.num, mod), 10, d.width, d.zero, d.num >= mod \div 2, FALSE, d.left)

Unsigned(d) ==
    AppendNumber(d.num, IF d.conv = "u" THEN 10 ELSE 16, d.width, d.zero, FALSE,
                 d.conv = "X", d.left)

Pointer(d) == <<"0", "x">> \o AppendNumber(d.num, 16, 12, TRUE, FALSE, FALSE, d.left)

\* AppendString: the blanks in front count to the precision.
String(d) ==
    LET s      == IF d.str = Null THEN <<"<", "n", "u", "l", "l", ">">> ELSE d.str
        before == IF d.left THEN 0 ELSE Most(d.width - Len(s), 0)
        body   == IF d.prec < 0 THEN s
                  ELSE SubSeq(s, 1, Least(Len(s), Most(d.prec - before, 0)))
        after  == IF d.left THEN Most(d.width - Len(body), 0) ELSE 0
    IN Blanks(before) \o body \o Blanks(after)

\* What the loop body of VSNPrintf appends for a directive.
Appended(d) == CASE d.conv = "d" -> Signed(d)
                 [] d.conv \in {"u", "x", "X"} -> Unsigned(d)
                 [] d.conv = "p" -> Pointer(d)
                 [] d.conv = "s" -> String(d)
                 [] d.conv \in {"c", "lit"} -> d.str
                 [] d.conv = "%" -> <<"%">>

\* prints stops at the first 0.
Prints(s) == IF Contains(s, Nul) THEN SubSeq(s, 1, SelectInSeq(s, LAMBDA c : c = Nul) - 1)
             ELSE s

-----------------------------------------------------------------------------
Init == /\ format \in Formats
        /\ cur = 1
        /\ buff = << >>
        /\ result = 0
        /\ printed = << >>

\* One turn of the loop of VSNPrintf.
Directive ==
    /\ cur <= Len(format)
    /\ LET s == Appended(format[cur])
       IN /\ buff' = AppendChars(buff, s)
          /\ result' = result + Count(buff, s)
    /\ cur' = cur + 1
    /\ UNCHANGED <<format, printed>>

\* The 0 at the end, and printf prints the buffer.
Finish ==
    /\ cur = Len(format) + 1
    /\ cur' = cur + 1
    /\ printed' = Prints(Append(buff, Nul))
    /\ UNCHANGED <<format, buff, result>>

Next == Directive \/ Finish

Spec == Init /\ [][Next]_vars

-----------------------------------------------------------------------------
\* The text always leaves a place for the 0 in the buffer (AppendChar).
TypeOK == /\ format \in Seq(Directives)
          /\ \A i \in DOMAIN format : IsDirective(format[i])
          /\ cur \in 1 .. Len(format) + 2
          /\ Len(buff) < BufLength
          /\ result \in Nat

\* What C says of a conversion (ISO C 7.21.6.1), written without the buffer:
\* digits by their place values, and one rule for padding.
Power(base, k) == LET p[j \in 0 .. k] == IF j = 0 THEN 1 ELSE base * p[j-1] IN p[k]
CSize(n, base) == CHOOSE k \in 1 .. n+1 : /\ n < Power(base, k)
                                          /\ k > 1 => n >= Power(base, k-1)
CDigits(n, base, uppercase) ==
    LET size == CSize(n, base)
    IN [i \in 1 .. size |-> DigitChar((n \div Power(base, size-i)) % base, uppercase)]

CPad(d, width, sign, body) ==
    LET n == Most(width - Len(sign \o body), 0)
    IN CASE d.left -> sign \o body \o Blanks(n)
         [] ~ d.left /\ d.zero -> sign \o [i \in 1 .. n |-> "0"] \o body
         [] OTHER -> Blanks(n) \o sign \o body

CText(d) ==
    LET mod == IF d.ll THEN LongMod ELSE IntMod
        neg == d.num >= mod \div 2
        str == IF d.str = Null THEN <<"<", "n", "u", "l", "l", ">">> ELSE d.str
    IN CASE d.conv = "d" -> CPad(d, d.width, IF neg THEN <<"-">> ELSE << >>,
                                 CDigits(IF neg THEN mod - d.num ELSE d.num, 10, FALSE))
         [] d.conv = "u" -> CPad(d, d.width, << >>, CDigits(d.num, 10, FALSE))
         [] d.conv \in {"x", "X"} -> CPad(d, d.width, << >>, CDigits(d.num, 16, d.conv = "X"))
         [] d.conv = "p" -> CPad([d EXCEPT !.left = FALSE, !.zero = TRUE], 14, <<"0", "x">>,
                                 CDigits(d.num, 16, FALSE))
         [] d.conv = "s" -> CPad([d EXCEPT !.zero = FALSE], d.width, << >>,
                                 IF d.prec < 0 THEN str ELSE SubSeq(str, 1, Least(d.prec, Len(str))))
         [] OTHER -> Appended(d)

\* The text so far, as C has it.
CSoFar == FlattenSeq([i \in 1 .. Least(cur - 1, Len(format)) |-> CText(format[i])])

\* The two combinations that are known to differ: a left-justified 0, and a
\* precision with blanks in front of the string.
LeftZero(d) == d.conv \in {"d", "u", "x", "X"} /\ d.left /\ d.num = 0
RightPrecision(d) == d.conv = "s" /\ ~ d.left /\ d.width > 0 /\ d.prec >= 0
Differs == \E i \in DOMAIN format : LeftZero(format[i]) \/ RightPrecision(format[i])

\* The buffer is the text C asks for, as much of it as fits, at each point: for
\* the most negative integer, a sign among padding, a width that the digits
\* exceed, a precision, and a text that is longer than the buffer; and printf
\* prints it up to the first 0 (sanitizer_printf.cpp:50-255, 278-287).  The length
\* VSNPrintf returns is that of the whole text, also when it did not fit.
Rendered ==
    ~ Differs =>
        /\ buff = SubSeq(CSoFar, 1, Least(Len(CSoFar), BufLength - 1))
        /\ result = Len(CSoFar)
        /\ cur = Len(format) + 2 => printed = Prints(buff)

\* A number is left justified when it is asked for (lib.rst:718-719, "I added
\* code to support left-justify for number printf").
LeftJustified ==
    (\A i \in DOMAIN format : format[i].left) =>
        buff = SubSeq(CSoFar, 1, Least(Len(CSoFar), BufLength - 1))
=============================================================================
