-------------------------- MODULE FilterPipeProofs --------------------------
(***************************************************************************)
(* dishex prints the instructions of the listing in its order, all of them *)
(* and each once, and refuses no line that filterhex lets through: for     *)
(* every listing and every size of the pipe, however the two processes     *)
(* interleave.                                                             *)
(***************************************************************************)
EXTENDS FilterPipe, FiniteSetTheorems, SequenceTheorems, TLAPS

-----------------------------------------------------------------------------
\* The two programs read characters with tests of their own: that of filterhex
\* implies that of dishex, and a text that begins with a blank or is empty is no
\* comment and no quit.
LEMMA TextFacts ==
  ASSUME NEW l \in ListingLines
  PROVE  /\ l.text \in Seq(Chars) /\ l.decodes \in BOOLEAN /\ l.id \in Nat
         /\ l.text = << >> \/ Head(l.text) = " "
<1>1. l.text \in Texts /\ l.decodes \in BOOLEAN /\ l.id \in Nat
  BY DEF ListingLines
<1> QED BY <1>1 DEF Texts

LEMMA SameTest ==
  ASSUME NEW l \in ListingLines, CheckInput(l)
  PROVE  Accepts(l.text) /\ HexToBytes(l.text)
<1> DEFINE digits == {k \in DOMAIN l.text : l.text[k] \in HexDigits}
<1>1. /\ \A k \in DOMAIN l.text \ digits : l.text[k] = " "
      /\ Cardinality(digits) = 8
  BY DEF CheckInput, Blank
<1>2. digits = {k \in DOMAIN l.text : l.text[k] \in {"0-9", "A-F", "a-f"}}
  BY DEF HexDigits
<1>3. \A k \in DOMAIN l.text : l.text[k] \in {"0-9", "A-F", "a-f", " "}
  BY <1>1 DEF HexDigits
<1>4. Accepts(l.text)
  <2> HIDE DEF digits
  <2> QED BY <1>1, <1>2, <1>3 DEF Accepts
<1>5. HexToBytes(l.text)
  BY <1>3 DEF HexToBytes
<1> QED BY <1>4, <1>5

LEMMA SeenAs ==
  ASSUME NEW l \in ListingLines, CheckInput(l)
  PROVE  AsHex(l) = [kind |-> IF l.decodes THEN "insn" ELSE "undecodable", id |-> l.id]
<1>1. Accepts(l.text) /\ HexToBytes(l.text)
  BY SameTest
<1>2. l.text # <<"q", "u", "i", "t">>
  <2>1. Head(<<"q", "u", "i", "t">>) = "q" /\ <<"q", "u", "i", "t">> # << >>
    OBVIOUS
  <2> QED BY <2>1, TextFacts
<1>3. ~ (l.text # << >> /\ Head(l.text) = "#")
  BY TextFacts
<1> QED BY <1>1, <1>2, <1>3 DEF AsHex, KindOf

\* The instructions of the listing are the lines that pass and decode.
LEMMA InsnPasses ==
  ASSUME NEW l \in ListingLines
  PROVE  Passes(l) <=> /\ l.kind = "bytes"
                       /\ {l.text[k] : k \in Dense(l)} \subseteq {"0-9", "A-F", "a-f"}
                       /\ Cardinality(Dense(l)) = 8
<1> DEFINE digits == {k \in DOMAIN l.text : l.text[k] \in HexDigits}
<1>1. ASSUME Passes(l)
      PROVE  /\ l.kind = "bytes"
             /\ {l.text[k] : k \in Dense(l)} \subseteq {"0-9", "A-F", "a-f"}
             /\ Cardinality(Dense(l)) = 8
  <2>1. /\ l.kind = "bytes"
        /\ \A k \in DOMAIN l.text \ digits : l.text[k] = " "
        /\ Cardinality(digits) = 8
    BY <1>1 DEF Passes, GetHex, CheckInput, Blank
  <2>2. Dense(l) = digits
    BY <2>1 DEF Dense, HexDigits
  <2> QED BY <2>1, <2>2 DEF HexDigits
<1>2. ASSUME l.kind = "bytes",
             {l.text[k] : k \in Dense(l)} \subseteq {"0-9", "A-F", "a-f"},
             Cardinality(Dense(l)) = 8
      PROVE  Passes(l)
  <2>1. Dense(l) = digits
    BY <1>2 DEF Dense, HexDigits
  <2>2. \A k \in DOMAIN l.text \ digits : l.text[k] = " "
    BY <2>1 DEF Dense
  <2> QED BY <1>2, <2>1, <2>2 DEF Passes, GetHex, CheckInput, Blank
<1> QED BY <1>1, <1>2

-----------------------------------------------------------------------------
\* The lines that filterhex lets through, among the first m of a listing L; the
\* rank of a line is its place among them.

Sent(L, m) == {j \in 1 .. m : Passes(L[j])}
Rank(L, i) == Cardinality(Sent(L, i))

\* What dishex reads as its line k; what it prints for it.
Reads(L, m, k, l) == \E i \in Sent(L, m) : Rank(L, i) = k /\ l = AsHex(L[i])
Shows(L, m, k, x) == \E i \in Sent(L, m) : /\ Rank(L, i) = k
                                           /\ L[i].decodes /\ x = L[i].id

LEMMA RankFact ==
  ASSUME NEW L, NEW m \in Nat
  PROVE  IsFiniteSet(Sent(L, m)) /\ Rank(L, m) \in Nat
<1>1. IsFiniteSet(1 .. m) /\ Sent(L, m) \subseteq 1 .. m
  BY FS_Interval DEF Sent
<1> QED BY <1>1, FS_Subset, FS_CardinalityType DEF Rank

LEMMA RankZero ==
  ASSUME NEW L
  PROVE  Rank(L, 0) = 0
<1>1. Sent(L, 0) = {}
  BY DEF Sent
<1> QED BY <1>1, FS_EmptySet DEF Rank

LEMMA RankNext ==
  ASSUME NEW L, NEW m \in Nat
  PROVE  Rank(L, m+1) = Rank(L, m) + (IF Passes(L[m+1]) THEN 1 ELSE 0)
<1>1. IsFiniteSet(Sent(L, m)) /\ m+1 \notin Sent(L, m) /\ Rank(L, m) \in Nat
  <2>1. m+1 \notin Sent(L, m)
    BY DEF Sent
  <2> QED BY <2>1, RankFact
<1>2. CASE Passes(L[m+1])
  <2>1. Sent(L, m+1) = Sent(L, m) \union {m+1}
    BY <1>2 DEF Sent
  <2>2. Cardinality(Sent(L, m) \union {m+1}) = Cardinality(Sent(L, m)) + 1
    BY <1>1, FS_AddElement
  <2> QED BY <1>2, <2>1, <2>2 DEF Rank
<1>3. CASE ~ Passes(L[m+1])
  <2>1. Sent(L, m+1) = Sent(L, m)
    BY <1>3 DEF Sent
  <2> QED BY <1>1, <1>3, <2>1 DEF Rank
<1> QED BY <1>2, <1>3

\* A line that passes has a larger rank than those before it.
LEMMA RankLess ==
  ASSUME NEW L, NEW i \in Nat, NEW j \in Nat, i < j, Passes(L[j])
  PROVE  Rank(L, i) < Rank(L, j)
<1>1. IsFiniteSet(Sent(L, i)) /\ IsFiniteSet(Sent(L, j)) /\ j \notin Sent(L, i)
  <2>1. j \notin Sent(L, i)
    BY DEF Sent
  <2> QED BY <2>1, RankFact
<1>2. Sent(L, i) \union {j} \subseteq Sent(L, j)
  BY DEF Sent
<1>3. Cardinality(Sent(L, i) \union {j}) = Cardinality(Sent(L, i)) + 1
  BY <1>1, FS_AddElement
<1>4. Cardinality(Sent(L, i) \union {j}) <= Cardinality(Sent(L, j))
  BY <1>1, <1>2, FS_Subset
<1>5. Cardinality(Sent(L, i)) \in Nat /\ Cardinality(Sent(L, j)) \in Nat
  BY <1>1, FS_CardinalityType
<1> QED BY <1>3, <1>4, <1>5 DEF Rank

\* Two lines that pass and have the same rank are the same line.
LEMMA RankOnce ==
  ASSUME NEW L, NEW m \in Nat, NEW i \in Sent(L, m), NEW j \in Sent(L, m), Rank(L, i) = Rank(L, j)
  PROVE  i = j
<1>1. i \in Nat /\ j \in Nat /\ Passes(L[i]) /\ Passes(L[j])
  BY DEF Sent
<1>2. Rank(L, i) \in Nat /\ Rank(L, j) \in Nat
  BY <1>1, RankFact
<1>3. ~ (i < j) /\ ~ (j < i)
  BY <1>1, <1>2, RankLess
<1> QED BY <1>1, <1>3

\* What was read or printed stays so when filterhex reads a further line.
LEMMA FurtherLine ==
  ASSUME NEW L, NEW m \in Nat
  PROVE  /\ \A k, l : Reads(L, m, k, l) => Reads(L, m+1, k, l)
         /\ \A k, x : Shows(L, m, k, x) => Shows(L, m+1, k, x)
<1>1. Sent(L, m) \subseteq Sent(L, m+1)
  BY DEF Sent
<1> QED BY <1>1 DEF Reads, Shows

LEMMA LastSent ==
  ASSUME NEW L, NEW m \in Nat, Passes(L[m+1])
  PROVE  Reads(L, m+1, Rank(L, m) + 1, AsHex(L[m+1]))
<1>1. m+1 \in Sent(L, m+1)
  BY DEF Sent
<1>2. Rank(L, m+1) = Rank(L, m) + 1
  BY RankNext
<1> QED BY <1>1, <1>2 DEF Reads

LEMMA ReadKinds ==
  ASSUME NEW L \in Seq(ListingLines), NEW m \in Nat, m <= Len(L), NEW k, NEW l, Reads(L, m, k, l)
  PROVE  /\ l.kind \in {"insn", "undecodable"}
         /\ l.kind = "insn" => Shows(L, m, k, l.id)
<1>1. PICK i \in Sent(L, m) : Rank(L, i) = k /\ l = AsHex(L[i])
  BY DEF Reads
<1>2. L[i] \in ListingLines /\ CheckInput(L[i])
  <2>1. i \in 1 .. Len(L)
    BY DEF Sent
  <2> QED BY <2>1 DEF Sent, Passes
<1>3. l = [kind |-> IF L[i].decodes THEN "insn" ELSE "undecodable", id |-> L[i].id]
  BY <1>1, <1>2, SeenAs
<1> QED BY <1>1, <1>3 DEF Shows

-----------------------------------------------------------------------------
\* The invariant: dishex has read line after line what filterhex wrote, what it
\* has not read yet is in the pipe, and it meets the end of the pipe only when
\* nothing is left.

ReadTo == Len(listing) - Len(rest)

\* A line was read and not printed.
Pending  == (pc = "test" /\ ~ eof) \/ status = "decode"
Consumed == Len(out) + (IF Pending THEN 1 ELSE 0)

Types == /\ listing \in Seq(ListingLines)
         /\ rest \in Seq(ListingLines)
         /\ fpc \in {"run", "exit"} /\ closed = (fpc = "exit")
         /\ queue = << >> /\ nl = TRUE /\ eof \in BOOLEAN
         /\ pc \in {"next", "read", "test", "exit"} /\ status \in {"ok", "decode"}
         /\ out \in Seq(Nat)
         /\ stream \in Seq([kind : {"insn", "undecodable", "bad"}, id : Nat])

RestOfListing == Len(rest) <= Len(listing) /\ \A j \in 1 .. Len(rest) : rest[j] = listing[ReadTo + j]

Ends == /\ eof => stream = << >> /\ closed /\ pc # "read"
        /\ pc = "next" => eof
        /\ pc = "exit" /\ status = "ok" => eof
        /\ status = "decode" => pc = "exit"
        /\ closed /\ status = "ok" => rest = << >>

Counted == Consumed + Len(stream) = Rank(listing, ReadTo)

Ordered == /\ \A k \in 1 .. Len(out) : Shows(listing, ReadTo, k, out[k])
           /\ pc = "test" /\ ~ eof => Reads(listing, ReadTo, Len(out) + 1, line)
           /\ \A j \in 1 .. Len(stream) : Reads(listing, ReadTo, Consumed + j, stream[j])

PInv == Types /\ RestOfListing /\ Ends /\ Counted /\ Ordered

LEMMA InitPipe ==
  ASSUME Init
  PROVE  PInv
<1> USE DEF Init
<1>1. listing \in Seq(ListingLines)
  BY PipeAssumption
<1>2. Types
  <2>1. closed = (fpc = "exit")
    BY Zenon
  <2>2. out \in Seq(Nat) /\ stream \in Seq([kind : {"insn", "undecodable", "bad"}, id : Nat])
    OBVIOUS
  <2> QED BY <1>1, <2>1, <2>2 DEF Types
<1>3. ReadTo = 0
  BY <1>1 DEF ReadTo
<1>4. RestOfListing
  BY <1>1, <1>3 DEF RestOfListing
<1>5. Ends
  BY DEF Ends
<1>6. Consumed = 0
  BY DEF Consumed, Pending
<1>7. Counted
  BY <1>3, <1>6, RankZero DEF Counted
<1>8. Ordered
  BY DEF Ordered
<1> QED BY <1>2, <1>4, <1>5, <1>7, <1>8 DEF PInv

LEMMA PipeFacts ==
  ASSUME PInv
  PROVE  /\ Len(listing) \in Nat /\ Len(rest) \in Nat /\ ReadTo \in Nat
         /\ Len(out) \in Nat /\ Len(stream) \in Nat /\ Consumed \in Nat
         /\ Rank(listing, ReadTo) \in Nat
         /\ listing \in Seq(ListingLines) /\ ReadTo <= Len(listing)
<1>1. Len(listing) \in Nat /\ Len(rest) \in Nat /\ Len(out) \in Nat /\ Len(stream) \in Nat
  BY DEF PInv, Types
<1>2. ReadTo \in Nat
  BY <1>1 DEF ReadTo, PInv, RestOfListing
<1>3. listing \in Seq(ListingLines) /\ ReadTo <= Len(listing)
  BY <1>1 DEF ReadTo, PInv, Types
<1> QED BY <1>1, <1>2, <1>3, RankFact DEF Consumed

\* filterhex reads a line, which may pass.
LEMMA FilterLinePipe ==
  ASSUME PInv, FilterLine
  PROVE  PInv'
<1> USE DEF FilterLine, PInv
<1> DEFINE L == listing
           m == ReadTo
           x == Head(rest)
<1>1. /\ Len(rest) \in Nat /\ Len(L) \in Nat /\ m \in Nat
      /\ Len(out) \in Nat /\ Len(stream) \in Nat /\ Consumed \in Nat /\ Rank(L, m) \in Nat
  BY PipeFacts
<1>2. /\ 1 \in 1 .. Len(rest) /\ x = rest[1] /\ x \in ListingLines
      /\ rest' \in Seq(ListingLines) /\ Len(rest') = Len(rest) - 1
      /\ \A j \in 1 .. Len(rest') : rest'[j] = rest[j+1]
  <2> DEFINE T == ListingLines
  <2>1. rest \in Seq(T) /\ rest # << >>
    BY DEF Types
  <2> HIDE DEF T
  <2>2. /\ 1 \in 1 .. Len(rest) /\ x = rest[1] /\ x \in T
        /\ rest' \in Seq(T) /\ Len(rest') = Len(rest) - 1
        /\ \A j \in 1 .. Len(rest') : rest'[j] = rest[j+1]
    BY <1>1, <2>1, HeadTailProperties
  <2> QED BY <2>2 DEF T
<1>3. ReadTo' = m + 1 /\ L' = L
  BY <1>1, <1>2 DEF ReadTo
<1>4. x = L[m+1]
  BY <1>2 DEF RestOfListing
<1>5. RestOfListing'
  <2>1. Len(rest') <= Len(L)
    BY <1>1, <1>2 DEF RestOfListing
  <2>2. ASSUME NEW j \in 1 .. Len(rest')
        PROVE  rest'[j] = L[m + 1 + j]
    <3>1. j + 1 \in 1 .. Len(rest) /\ m + (j + 1) = m + 1 + j
      BY <1>1, <1>2
    <3>2. rest[j+1] = L[m + (j+1)]
      BY <3>1 DEF RestOfListing
    <3> QED BY <1>2, <3>1, <3>2
  <2> QED BY <1>3, <2>1, <2>2 DEF RestOfListing
<1>6. fpc = "run" /\ ~ closed /\ ~ eof /\ Ends'
  <2>1. fpc = "run" /\ ~ closed
    BY DEF Types
  <2> QED BY <2>1 DEF Ends, Types, Written
<1>7. Consumed' = Consumed /\ (pc' = pc /\ eof' = eof /\ line' = line /\ out' = out)
  BY DEF Consumed, Pending
<1> HIDE DEF m, L
<1>8. CASE Passes(x)
  <2> DEFINE y == AsHex(x)
  <2>1. stream' = Append(stream, y)
    BY <1>8 DEF Written
  <2>2. y \in [kind : {"insn", "undecodable", "bad"}, id : Nat]
    <3>1. CheckInput(x) /\ x \in ListingLines
      BY <1>2, <1>8 DEF Passes
    <3>2. y = [kind |-> IF x.decodes THEN "insn" ELSE "undecodable", id |-> x.id]
      BY <3>1, SeenAs
    <3>3. x.id \in Nat
      BY <3>1, TextFacts
    <3> QED BY <3>2, <3>3
  <2>3. stream \in Seq([kind : {"insn", "undecodable", "bad"}, id : Nat])
    BY DEF Types
  <2>4. Reads(L, m+1, Rank(L, m) + 1, y) /\ Rank(L, m+1) = Rank(L, m) + 1
    BY <1>1, <1>4, <1>8, LastSent, RankNext
  <2> HIDE DEF y
  <2>5. /\ stream' \in Seq([kind : {"insn", "undecodable", "bad"}, id : Nat])
        /\ Len(stream') = Len(stream) + 1
        /\ \A j \in 1 .. Len(stream) : stream'[j] = stream[j]
        /\ stream'[Len(stream) + 1] = y
    BY <2>1, <2>2, <2>3, AppendProperties
  <2>6. Types'
    BY <1>2, <2>5 DEF Types
  <2>7. Consumed + Len(stream) = Rank(L, m)
    BY DEF Counted, L, m
  <2>8. Counted'
    BY <1>1, <1>3, <1>7, <2>4, <2>5, <2>7 DEF Counted, L
  <2>9. ASSUME NEW j \in 1 .. Len(stream')
        PROVE  Reads(L, m+1, Consumed + j, stream'[j])
    <3>1. CASE j \in 1 .. Len(stream)
      <4>1. Reads(L, m, Consumed + j, stream[j])
        BY <3>1 DEF Ordered, L, m
      <4>2. Reads(L, m+1, Consumed + j, stream[j])
        BY <1>1, <4>1, FurtherLine
      <4> QED BY <2>5, <3>1, <4>2
    <3>2. CASE j = Len(stream) + 1
      <4>1. Consumed + j = Rank(L, m) + 1
        BY <1>1, <2>7, <3>2
      <4> QED BY <2>4, <2>5, <3>2, <4>1
    <3> QED BY <1>1, <2>5, <3>1, <3>2
  <2>10. \A k \in 1 .. Len(out) : Shows(L, m+1, k, out[k])
    BY <1>1, FurtherLine DEF Ordered, L, m
  <2>11. pc = "test" /\ ~ eof => Reads(L, m+1, Len(out) + 1, line)
    BY <1>1, FurtherLine DEF Ordered, L, m
  <2>12. Ordered'
    BY <1>3, <1>7, <2>9, <2>10, <2>11 DEF Ordered, L
  <2> QED BY <1>5, <1>6, <2>6, <2>8, <2>12
<1>9. CASE ~ Passes(x)
  <2>1. stream' = stream
    BY <1>9
  <2>2. Types'
    BY <1>2, <2>1 DEF Types
  <2>3. Rank(L, m+1) = Rank(L, m)
    BY <1>1, <1>4, <1>9, RankNext
  <2>4. Counted'
    BY <1>3, <1>7, <2>1, <2>3 DEF Counted, L, m
  <2>5. \A j \in 1 .. Len(stream) : Reads(L, m+1, Consumed + j, stream[j])
    BY <1>1, FurtherLine DEF Ordered, L, m
  <2>6. \A k \in 1 .. Len(out) : Shows(L, m+1, k, out[k])
    BY <1>1, FurtherLine DEF Ordered, L, m
  <2>7. pc = "test" /\ ~ eof => Reads(L, m+1, Len(out) + 1, line)
    BY <1>1, FurtherLine DEF Ordered, L, m
  <2>8. Ordered'
    BY <1>3, <1>7, <2>1, <2>5, <2>6, <2>7 DEF Ordered, L
  <2> QED BY <1>5, <1>6, <2>2, <2>4, <2>8
<1> QED BY <1>8, <1>9

\* filterhex ends, with the listing or with the dishex that reads from it.
LEMMA FilterExitPipe ==
  ASSUME PInv, FilterEnds \/ FilterKilled
  PROVE  PInv'
<1>1. /\ UNCHANGED <<listing, rest, queue, stream, nl, line, eof, pc, out, status>>
      /\ fpc = "run" /\ fpc' = "exit" /\ closed' = TRUE
  BY DEF FilterEnds, FilterKilled
<1>2. Types'
  BY <1>1 DEF PInv, Types
<1>3. ReadTo' = ReadTo /\ Consumed' = Consumed
  BY <1>1 DEF ReadTo, Consumed, Pending
<1>4. RestOfListing' /\ Counted' /\ Ordered'
  BY <1>1, <1>3 DEF PInv, RestOfListing, Counted, Ordered
<1>5. status = "ok" => rest = << >>
  BY <1>1 DEF FilterEnds, FilterKilled, BrokenPipe, PInv, Types, Ends
<1>6. Ends'
  BY <1>1, <1>5 DEF PInv, Ends
<1> QED BY <1>2, <1>4, <1>6 DEF PInv

LEMMA GetlinePipe ==
  ASSUME PInv, Getline, UNCHANGED <<listing, rest, fpc>>
  PROVE  PInv'
<1> USE DEF PInv
<1>1. /\ Len(out) \in Nat /\ Len(stream) \in Nat /\ Consumed \in Nat
  BY PipeFacts
<1>2. pc = "read" /\ status = "ok" /\ ~ eof /\ nl /\ Consumed = Len(out)
  BY <1>1 DEF Getline, Types, Ends, Consumed, Pending
<1>3. ReadTo' = ReadTo /\ out' = out /\ pc' = "test" /\ status' = "ok" /\ RestOfListing'
  BY <1>2 DEF Getline, ReadTo, RestOfListing
<1>4. CASE stream # << >>
  <2>1. line' = stream[1] /\ stream' = Tail(stream) /\ eof' = FALSE /\ 1 \in 1 .. Len(stream)
    BY <1>2, <1>4 DEF Getline, AtEof, Types
  <2>2. /\ stream' \in Seq([kind : {"insn", "undecodable", "bad"}, id : Nat])
        /\ Len(stream') = Len(stream) - 1
        /\ \A j \in 1 .. Len(stream') : stream'[j] = stream[j+1]
    BY <1>4, <2>1, HeadTailProperties DEF Types
  <2>3. Types'
    BY <1>3, <2>1, <2>2 DEF Getline, Types
  <2>4. Ends'
    BY <1>2, <1>3, <2>1 DEF Getline, Ends
  <2>5. Consumed' = Consumed + 1
    BY <1>2, <1>3, <2>1 DEF Consumed, Pending
  <2>6. Counted'
    BY <1>1, <1>3, <2>2, <2>5 DEF Counted
  <2>7. Reads(listing, ReadTo, Len(out) + 1, line')
    BY <1>2, <2>1 DEF Ordered
  <2>8. ASSUME NEW j \in 1 .. Len(stream')
        PROVE  Reads(listing, ReadTo, Consumed + 1 + j, stream'[j])
    <3>1. j+1 \in 1 .. Len(stream) /\ Consumed + (j+1) = Consumed + 1 + j
      BY <1>1, <2>2
    <3>2. Reads(listing, ReadTo, Consumed + (j+1), stream[j+1])
      BY <3>1 DEF Ordered
    <3> QED BY <2>2, <3>1, <3>2
  <2>9. Ordered'
    BY <1>3, <2>5, <2>7, <2>8 DEF Ordered
  <2> QED BY <1>3, <2>3, <2>4, <2>6, <2>9
<1>5. CASE stream = << >>
  <2>1. closed /\ eof' = TRUE /\ stream' = stream
    BY <1>5 DEF Getline
  <2>2. Types'
    BY <1>3, <2>1 DEF Getline, Types
  <2>3. Ends'
    BY <1>2, <1>3, <1>5, <2>1 DEF Getline, Ends
  <2>4. Consumed' = Consumed
    BY <1>2, <1>3, <2>1 DEF Consumed, Pending
  <2>5. Counted'
    BY <1>3, <2>1, <2>4 DEF Counted
  <2>6. Ordered'
    BY <1>3, <2>1, <2>4 DEF Ordered
  <2> QED BY <1>3, <2>2, <2>3, <2>5, <2>6
<1> QED BY <1>4, <1>5

\* dishex meets the end of the pipe and exits.
LEMMA LeavePipe ==
  ASSUME PInv, LeaveLoop \/ AllFilesDone, UNCHANGED <<listing, rest, fpc>>
  PROVE  PInv'
<1> USE DEF PInv
<1>1. UNCHANGED <<listing, rest, fpc, queue, stream, closed, nl, line, eof, out, status>>
  BY DEF LeaveLoop, AllFilesDone
<1>2. pc \in {"test", "next"} /\ pc' \in {"next", "exit"} /\ status = "ok"
  BY DEF LeaveLoop, AllFilesDone, Types, Ends
<1>3. eof
  <2>1. CASE pc = "next"
    BY <2>1 DEF Ends
  <2>2. CASE pc = "test"
    <3>1. ~ InLoop
      BY <2>2 DEF LeaveLoop, AllFilesDone
    <3>2. ~ eof => line.kind # "quit"
      BY <2>2, ReadKinds, PipeFacts DEF Ordered
    <3> QED BY <2>2, <3>1, <3>2 DEF InLoop
  <2> QED BY <1>2, <2>1, <2>2
<1>4. ReadTo' = ReadTo /\ Consumed' = Consumed
  BY <1>1, <1>2, <1>3 DEF ReadTo, Consumed, Pending
<1>5. Types' /\ Ends'
  BY <1>1, <1>2, <1>3 DEF Types, Ends
<1>6. RestOfListing' /\ Counted' /\ Ordered'
  BY <1>1, <1>3, <1>4 DEF RestOfListing, Counted, Ordered
<1> QED BY <1>5, <1>6

LEMMA DisassemblePipe ==
  ASSUME PInv, Disassemble, UNCHANGED <<listing, rest, fpc>>
  PROVE  PInv'
<1> USE DEF PInv
<1>1. /\ pc = "test" /\ ~ eof /\ line.kind = "insn" /\ out' = Append(out, line.id) /\ pc' = "read"
      /\ UNCHANGED <<listing, rest, fpc, queue, stream, closed, nl, line, eof, status>>
  BY DEF Disassemble, InLoop
<1>2. Len(out) \in Nat /\ out \in Seq(Nat) /\ status = "ok" /\ Consumed = Len(out) + 1
  BY <1>1, PipeFacts DEF Types, Ends, Consumed, Pending
<1>3. Shows(listing, ReadTo, Len(out) + 1, line.id)
  BY <1>1, ReadKinds, PipeFacts DEF Ordered
<1>4. line.id \in Nat
  <2>1. PICK i \in Sent(listing, ReadTo) : line.id = listing[i].id
    BY <1>3 DEF Shows
  <2>2. i \in 1 .. Len(listing)
    <3>1. ReadTo <= Len(listing) /\ ReadTo \in Nat /\ Len(listing) \in Nat
      BY PipeFacts DEF ReadTo
    <3> QED BY <3>1 DEF Sent
  <2>3. listing[i] \in ListingLines
    BY <2>2, PipeFacts
  <2>4. listing[i].id \in Nat
    BY <2>3, TextFacts
  <2> QED BY <2>1, <2>4
<1>5. /\ out' \in Seq(Nat) /\ Len(out') = Len(out) + 1
      /\ \A k \in 1 .. Len(out) : out'[k] = out[k]
      /\ out'[Len(out) + 1] = line.id
  BY <1>1, <1>2, <1>4, AppendProperties
<1>6. Types' /\ Ends'
  BY <1>1, <1>2, <1>5 DEF Types, Ends
<1>7. ReadTo' = ReadTo /\ Consumed' = Consumed
  BY <1>1, <1>2, <1>5 DEF ReadTo, Consumed, Pending
<1>8. RestOfListing' /\ Counted'
  BY <1>1, <1>7 DEF RestOfListing, Counted
<1>9. ASSUME NEW k \in 1 .. Len(out')
      PROVE  Shows(listing, ReadTo, k, out'[k])
  <2>1. k \in 1 .. Len(out) \/ k = Len(out) + 1
    BY <1>2, <1>5
  <2> QED BY <1>3, <1>5, <2>1 DEF Ordered
<1>10. Ordered'
  BY <1>1, <1>7, <1>9 DEF Ordered
<1> QED BY <1>6, <1>8, <1>10

LEMMA CannotDecodePipe ==
  ASSUME PInv, CannotDecode, UNCHANGED <<listing, rest, fpc>>
  PROVE  PInv'
<1> USE DEF PInv
<1>1. /\ pc = "test" /\ ~ eof /\ pc' = "exit" /\ status' = "decode"
      /\ UNCHANGED <<listing, rest, fpc, queue, stream, closed, nl, line, eof, out>>
  BY DEF CannotDecode, InLoop
<1>2. Types' /\ Ends'
  BY <1>1 DEF Types, Ends
<1>3. ReadTo' = ReadTo /\ Consumed' = Consumed
  BY <1>1 DEF ReadTo, Consumed, Pending
<1>4. RestOfListing' /\ Counted' /\ Ordered'
  BY <1>1, <1>3 DEF RestOfListing, Counted, Ordered
<1> QED BY <1>2, <1>4

LEMMA NextPipe ==
  ASSUME PInv, [Next]_vars
  PROVE  PInv'
<1>1. CASE FilterNext
  BY <1>1, FilterLinePipe, FilterExitPipe DEF FilterNext
<1>2. CASE DisStep
  <2>1. UNCHANGED <<listing, rest, fpc>> /\ DisNext
    BY <1>2 DEF DisStep
  <2>2. ~ NextFile
    BY DEF NextFile, PInv, Types
  <2>3. ~ Comment /\ ~ RejectLine
    <3>1. InLoop => line.kind \in {"insn", "undecodable"}
      BY ReadKinds, PipeFacts DEF InLoop, PInv, Ordered
    <3> QED BY <3>1 DEF Comment, RejectLine
  <2> QED BY <2>1, <2>2, <2>3, GetlinePipe, LeavePipe, DisassemblePipe, CannotDecodePipe DEF DisNext
<1>3. CASE UNCHANGED vars
  <2>1. UNCHANGED <<listing, rest, fpc, queue, stream, closed, nl, line, eof, pc, out, status>>
    BY <1>3 DEF vars, dvars
  <2>2. ReadTo' = ReadTo /\ Consumed' = Consumed
    BY <2>1 DEF ReadTo, Consumed, Pending
  <2> QED BY <2>1, <2>2 DEF PInv, Types, RestOfListing, Ends, Counted, Ordered
<1> QED BY <1>1, <1>2, <1>3 DEF Next

LEMMA PipeInv == Spec => []PInv
<1>1. Init => PInv
  BY InitPipe
<1>2. PInv /\ [Next]_vars => PInv'
  BY NextPipe
<1> QED BY <1>1, <1>2, PTL DEF Spec

-----------------------------------------------------------------------------
\* filterhex.cpp:21-56, dishex.cpp:79-110: dishex's checkInput and hexToBytes refuse
\* no text that filterhex's checkInput lets through, of whatever characters.
THEOREM NeverRefused == Spec => []FormatAccepted
<1>1. PInv => FormatAccepted
  BY DEF PInv, Types, FormatAccepted
<1> QED BY <1>1, PipeInv, PTL

\* An instruction of the listing is a line that passes and decodes.
LEMMA InsnFacts ==
  ASSUME PInv, NEW i
  PROVE  i \in InsnLines <=> i \in 1 .. Len(listing) /\ Passes(listing[i]) /\ listing[i].decodes
<1>1. listing \in Seq(ListingLines) /\ DOMAIN listing = 1 .. Len(listing)
  BY PipeFacts
<1>2. ASSUME i \in 1 .. Len(listing)
      PROVE  Passes(listing[i]) <=>
                /\ listing[i].kind = "bytes"
                /\ {listing[i].text[k] : k \in Dense(listing[i])} \subseteq {"0-9", "A-F", "a-f"}
                /\ Cardinality(Dense(listing[i])) = 8
  <2>1. listing[i] \in ListingLines
    BY <1>1, <1>2
  <2> QED BY <2>1, InsnPasses
<1> QED BY <1>1, <1>2 DEF InsnLines

\* Every line that has a rank up to that of a printed one is an instruction.
LEMMA PrintedAreInsns ==
  ASSUME PInv, NEW i \in Sent(listing, ReadTo), Rank(listing, i) <= Len(out)
  PROVE  listing[i].decodes
<1> DEFINE k == Rank(listing, i)
<1>1. i \in Nat /\ i > 0 /\ Passes(listing[i])
  BY DEF Sent
<1>2. k \in Nat /\ k > 0
  <2>1. Rank(listing, 0) < Rank(listing, i)
    BY <1>1, RankLess
  <2> QED BY <1>1, <2>1, RankZero, RankFact
<1>3. k \in 1 .. Len(out)
  <2> HIDE DEF k
  <2>1. k <= Len(out)
    BY DEF k
  <2> QED BY <1>2, <2>1, PipeFacts
<1>4. PICK j \in Sent(listing, ReadTo) : Rank(listing, j) = k /\ listing[j].decodes
  BY <1>3 DEF PInv, Ordered, Shows
<1>5. i = j
  BY <1>4, PipeFacts, RankOnce
<1> QED BY <1>4, <1>5

\* Up to the last line that was printed, the lines that pass are the instructions.
LEMMA InsnRank ==
  ASSUME PInv, NEW i \in Sent(listing, ReadTo), Rank(listing, i) <= Len(out)
  PROVE  {j \in InsnLines : j <= i} = Sent(listing, i)
<1>1. i \in 1 .. ReadTo /\ ReadTo \in Nat /\ ReadTo <= Len(listing) /\ Len(listing) \in Nat /\ i \in Nat
  <2>1. ReadTo <= Len(listing) /\ i \in 1 .. ReadTo
    BY PipeFacts DEF ReadTo, Sent
  <2> QED BY <2>1, PipeFacts
<1>2. DOMAIN listing = 1 .. Len(listing)
  BY DEF PInv, Types
<1>3. ASSUME NEW j \in InsnLines, j <= i PROVE j \in Sent(listing, i)
  <2>1. j \in 1 .. Len(listing) /\ Passes(listing[j])
    BY <1>3, InsnFacts
  <2> QED BY <1>1, <1>3, <2>1 DEF Sent
<1>4. ASSUME NEW j \in Sent(listing, i) PROVE j \in InsnLines /\ j <= i
  <2>1. j \in Nat /\ j <= i /\ j \in 1 .. Len(listing) /\ Passes(listing[j]) /\ j \in Sent(listing, ReadTo)
    BY <1>1 DEF Sent
  <2>2. Rank(listing, j) <= Rank(listing, i)
    <3>1. j = i \/ j < i
      BY <1>1, <2>1
    <3>2. Rank(listing, j) \in Nat /\ Rank(listing, i) \in Nat
      BY <1>1, <2>1, RankFact
    <3>3. Passes(listing[i])
      BY DEF Sent
    <3>4. j < i => Rank(listing, j) < Rank(listing, i)
      BY <1>1, <2>1, <3>3, RankLess
    <3> QED BY <3>1, <3>2, <3>4
  <2>3. Rank(listing, j) <= Len(out)
    BY <1>1, <2>1, <2>2, PipeFacts, RankFact
  <2>4. listing[j].decodes
    BY <2>1, <2>3, PrintedAreInsns
  <2> QED BY <2>1, <2>4, InsnFacts
<1> QED BY <1>3, <1>4

\* filterhex.cpp:88-112, HexToAsm::run: the k-th instruction that dishex prints is
\* the k-th of the listing, and if it ends without an error it has printed all.
THEOREM PipeKeepsOrder == Spec => []AllInOrder
<1>1. PInv => AllInOrder
  <2> SUFFICES ASSUME PInv PROVE AllInOrder
    OBVIOUS
  <2>1. Len(out) \in Nat /\ DOMAIN out = 1 .. Len(out) /\ DOMAIN listing = 1 .. Len(listing)
    BY PipeFacts DEF PInv, Types
  <2>2. ASSUME NEW k \in 1 .. Len(out)
        PROVE  \E i \in InsnLines : /\ Cardinality({j \in InsnLines : j <= i}) = k
                                    /\ out[k] = listing[i].id
    <3>1. PICK i \in Sent(listing, ReadTo) : /\ Rank(listing, i) = k
                                             /\ listing[i].decodes /\ out[k] = listing[i].id
      BY DEF PInv, Ordered, Shows
    <3>2. Rank(listing, i) <= Len(out)
      BY <2>1, <3>1
    <3>3. {j \in InsnLines : j <= i} = Sent(listing, i)
      BY <3>2, InsnRank
    <3>4. i \in InsnLines
      <4>1. i \in 1 .. Len(listing)
        <5>1. ReadTo <= Len(listing) /\ ReadTo \in Nat /\ Len(listing) \in Nat
          BY PipeFacts DEF ReadTo
        <5> QED BY <5>1 DEF Sent
      <4>2. Passes(listing[i])
        BY DEF Sent
      <4> QED BY <3>1, <4>1, <4>2, InsnFacts
    <3> QED BY <3>1, <3>3, <3>4 DEF Rank
  <2>3. ASSUME pc = "exit", status = "ok"
        PROVE  Len(out) = Cardinality(InsnLines)
    <3>1. rest = << >> /\ stream = << >> /\ Consumed = Len(out)
      BY <2>1, <2>3 DEF PInv, Ends, Consumed, Pending
    <3>2. ReadTo = Len(listing) /\ Rank(listing, ReadTo) = Len(out)
      BY <2>1, <3>1, PipeFacts DEF ReadTo, PInv, Counted
    <3>3. ASSUME NEW i \in Sent(listing, ReadTo) PROVE i \in InsnLines
      <4>1. i \in Nat /\ i <= ReadTo /\ i \in 1 .. Len(listing) /\ ReadTo \in Nat
        BY <3>2, PipeFacts DEF Sent
      <4>2. Sent(listing, i) \subseteq Sent(listing, ReadTo)
        BY <4>1 DEF Sent
      <4>3. Rank(listing, i) <= Len(out)
        BY <3>2, <4>1, <4>2, RankFact, FS_Subset DEF Rank
      <4>4. listing[i].decodes
        BY <4>3, PrintedAreInsns
      <4>5. Passes(listing[i])
        BY DEF Sent
      <4> QED BY <4>1, <4>4, <4>5, InsnFacts
    <3>4. InsnLines \subseteq Sent(listing, ReadTo)
      BY <3>2, InsnFacts DEF Sent
    <3>5. InsnLines = Sent(listing, ReadTo)
      BY <3>3, <3>4
    <3> QED BY <3>2, <3>5 DEF Rank
  <2> QED BY <2>1, <2>2, <2>3 DEF AllInOrder
<1> QED BY <1>1, PipeInv, PTL
-----------------------------------------------------------------------------
\* What lies behind BothEnd without fairness: the two processes never wait for
\* each other, and together they take only so many steps.

\* The guards of FilterNext and of DisStep.
FilterCanStep == /\ fpc = "run"
                 /\ rest = << >> \/ ~ Passes(Head(rest)) \/ Room \/ BrokenPipe
DisCanStep == \/ pc = "next"
              \/ pc = "read" /\ (stream # << >> \/ closed)
              \/ pc = "test" /\ (InLoop => line.kind \in {"comment", "bad", "insn", "undecodable"})

\* filterhex waits only for room in a full pipe, from which dishex can read, and
\* dishex only for a line or the end of filterhex: no interleaving stops both
\* before both have ended, whatever the size of the pipe (filterhex.cpp:88-125,
\* HexToAsm::run).
THEOREM NeverBothWait == Spec => [](~ (fpc = "exit" /\ pc = "exit") => FilterCanStep \/ DisCanStep)
<1>1. PInv => (~ (fpc = "exit" /\ pc = "exit") => FilterCanStep \/ DisCanStep)
  <2> SUFFICES ASSUME PInv, ~ (fpc = "exit" /\ pc = "exit"), ~ FilterCanStep PROVE DisCanStep
    OBVIOUS
  <2>1. /\ pc \in {"next", "read", "test", "exit"} /\ fpc \in {"run", "exit"} /\ eof \in BOOLEAN
        /\ stream \in Seq([kind : {"insn", "undecodable", "bad"}, id : Nat])
    BY DEF PInv, Types
  <2>2. fpc = "exit" => closed
    BY DEF PInv, Types
  <2>3. fpc = "run" => ~ Room /\ pc # "exit"
    BY DEF FilterCanStep, BrokenPipe
  <2>4. fpc = "run" => stream # << >>
    <3>1. Len(<< >>) = 0 /\ PipeMax \in Nat \ {0}
      BY PipeAssumption
    <3> QED BY <2>3, <3>1 DEF Room
  <2>5. CASE pc = "read"
    BY <2>1, <2>2, <2>4, <2>5 DEF DisCanStep
  <2>6. CASE pc = "test"
    <3>1. InLoop => Reads(listing, ReadTo, Len(out) + 1, line)
      BY <2>1, <2>6 DEF PInv, Ordered, InLoop
    <3>2. InLoop => line.kind \in {"insn", "undecodable"}
      <4>1. ReadTo \in Nat
        BY PipeFacts
      <4> QED BY <3>1, <4>1, ReadKinds, PipeFacts
    <3> QED BY <2>6, <3>2 DEF DisCanStep
  <2> QED BY <2>1, <2>3, <2>5, <2>6 DEF DisCanStep
<1> QED BY <1>1, PipeInv, PTL

\* What is left to do: each line of the listing, each line in the pipe, the way of
\* dishex from its place in the loop to its end, and the end of filterhex.
WayOfDis == IF pc = "exit" THEN 0 ELSE IF pc = "next" THEN 1
            ELSE IF pc = "read" THEN 3 ELSE IF eof THEN 2 ELSE 4
Work == 4 * Len(rest) + 3 * Len(stream) + WayOfDis + (IF fpc = "run" THEN 1 ELSE 0)

LEMMA WorkFact ==
  ASSUME PInv
  PROVE  Len(rest) \in Nat /\ Len(stream) \in Nat /\ WayOfDis \in Nat /\ Work \in Nat
<1>1. Len(rest) \in Nat /\ Len(stream) \in Nat
  BY PipeFacts
<1>2. WayOfDis \in Nat
  BY DEF WayOfDis
<1> QED BY <1>1, <1>2 DEF Work

LEMMA FilterWorks ==
  ASSUME PInv, FilterNext
  PROVE  Work' < Work
<1>1. Len(rest) \in Nat /\ Len(stream) \in Nat /\ WayOfDis \in Nat
  BY WorkFact
<1>2. CASE FilterLine
  <2>1. /\ fpc = "run" /\ fpc' = "run" /\ rest # << >> /\ rest' = Tail(rest) /\ pc' = pc /\ eof' = eof
        /\ stream' = Append(stream, AsHex(Head(rest))) \/ stream' = stream
    BY <1>2 DEF FilterLine, Written
  <2>2. Len(rest') = Len(rest) - 1
    <3>1. rest \in Seq(ListingLines)
      BY DEF PInv, Types
    <3> QED BY <2>1, <3>1, HeadTailProperties
  <2>3. Len(stream') <= Len(stream) + 1 /\ Len(stream') \in Nat
    <3>1. Len(Append(stream, AsHex(Head(rest)))) = Len(stream) + 1
      <4>1. stream \in Seq([kind : {"insn", "undecodable", "bad"}, id : Nat])
        BY DEF PInv, Types
      <4> QED BY <4>1
    <3>2. CASE stream' = stream
      BY <1>1, <3>2
    <3>3. CASE stream' = Append(stream, AsHex(Head(rest)))
      BY <1>1, <3>1, <3>3
    <3> QED BY <2>1, <3>2, <3>3
  <2>4. WayOfDis' = WayOfDis
    BY <2>1 DEF WayOfDis
  <2> QED BY <1>1, <2>1, <2>2, <2>3, <2>4 DEF Work
<1>3. CASE FilterEnds \/ FilterKilled
  <2>1. /\ fpc = "run" /\ fpc' = "exit" /\ rest' = rest /\ stream' = stream /\ pc' = pc /\ eof' = eof
    BY <1>3 DEF FilterEnds, FilterKilled
  <2>2. WayOfDis' = WayOfDis
    BY <2>1 DEF WayOfDis
  <2> QED BY <1>1, <2>1, <2>2 DEF Work
<1> QED BY <1>2, <1>3 DEF FilterNext

LEMMA DisWorks ==
  ASSUME PInv, DisStep
  PROVE  Work' < Work
<1>1. Len(rest) \in Nat /\ Len(stream) \in Nat
  BY WorkFact
<1>2. /\ queue = << >> /\ eof \in BOOLEAN /\ nl = TRUE
      /\ stream \in Seq([kind : {"insn", "undecodable", "bad"}, id : Nat])
  BY DEF PInv, Types
<1>3. rest' = rest /\ fpc' = fpc
  BY DEF DisStep
<1>4. CASE Getline
  <2>1. CASE stream # << >> /\ stream' = Tail(stream)
    <3>1. Len(stream') = Len(stream) - 1
      BY <1>2, <2>1, HeadTailProperties
    <3>2. pc = "read" /\ pc' = "test"
      BY <1>4 DEF Getline
    <3>3. WayOfDis = 3 /\ WayOfDis' \in {2, 4}
      BY <3>2 DEF WayOfDis
    <3> QED BY <1>1, <1>3, <3>1, <3>3 DEF Work
  <2>2. CASE stream' = stream /\ eof' = TRUE
    <3>1. pc = "read" /\ pc' = "test"
      BY <1>4 DEF Getline
    <3>2. WayOfDis = 3 /\ WayOfDis' = 2
      BY <2>2, <3>1 DEF WayOfDis
    <3> QED BY <1>1, <1>3, <2>2, <3>2 DEF Work
  <2> QED BY <1>4, <2>1, <2>2 DEF Getline
<1>5. CASE AllFilesDone \/ LeaveLoop \/ Comment \/ RejectLine \/ Disassemble \/ CannotDecode
  <2>1. stream' = stream /\ eof' = eof
    BY <1>5 DEF AllFilesDone, LeaveLoop, Comment, RejectLine, Disassemble, CannotDecode
  <2>2. \/ pc = "next" /\ pc' = "exit"
        \/ pc = "test" /\ pc' \in {"next", "exit"}
        \/ pc = "test" /\ ~ eof /\ pc' = "read"
    BY <1>5 DEF AllFilesDone, LeaveLoop, Comment, AfterComment, RejectLine, Disassemble, CannotDecode, InLoop
  <2>3. WayOfDis' < WayOfDis /\ WayOfDis' \in Nat /\ WayOfDis \in Nat
    BY <2>1, <2>2 DEF WayOfDis
  <2> QED BY <1>1, <1>3, <2>1, <2>3 DEF Work
<1>6. ~ NextFile
  BY <1>2 DEF NextFile
<1> QED BY <1>4, <1>5, <1>6 DEF DisStep, DisNext

\* Each step of either process takes some of a finite amount of work, which is
\* known from the length of the listing: no loop of the two programs goes round
\* without reading (filterHex and HexToAsm::run).
THEOREM EachStepIsWork == Spec => [](Work \in Nat) /\ [][Work' < Work]_vars
<1>1. PInv => Work \in Nat
  BY WorkFact
<1>2. PInv /\ [Next]_vars => [Work' < Work]_vars
  BY FilterWorks, DisWorks DEF Next
<1> QED BY <1>1, <1>2, PipeInv, PTL DEF Spec
=============================================================================
