-------------------------- MODULE DisHexFilesProofs --------------------------
(***************************************************************************)
(* What dishex prints for the files of its command line, and whether it    *)
(* fails, follows from their lines alone, for every list of files.         *)
(***************************************************************************)
EXTENDS DisHexFiles, SequenceTheorems, WellFoundedInduction, TLAPS

-----------------------------------------------------------------------------
\* Sequences one after the other.

\* A set of numbers has a least one: what stands in for induction below.
Below == {p \in Nat \X Nat : p[1] < p[2]}

LEMMA LeastOf ==
  ASSUME NEW S \in SUBSET Nat, S # {}
  PROVE  \E m \in S : \A y \in S : m <= y
<1>1. IsWellFoundedOn(Below, Nat)
  BY NatLessThanWellFounded DEF OpToRel, Below
<1>2. PICK m \in S : \A y \in S : ~ (<<y, m>> \in Below)
  BY <1>1, WFMin
<1>3. ASSUME NEW y \in S PROVE m <= y
  <2>1. y < m => <<y, m>> \in Below
    BY DEF Below
  <2>2. ~ (y < m)
    BY <1>2, <2>1
  <2> QED BY <2>2
<1> QED BY <1>3

\* f holds what the first i of ss are together: the recursive function of FlattenSeq.
IsFlat(ss, m, f) == f = [i \in 1 .. m |-> IF i = 1 THEN ss[i] ELSE f[i-1] \o ss[i]]

LEMMA FlattenIs ==
  ASSUME NEW ss
  PROVE  FlattenSeq(ss) = IF Len(ss) = 0 THEN ss ELSE (CHOOSE f : IsFlat(ss, Len(ss), f))[Len(ss)]
BY DEF FlattenSeq, IsFlat

LEMMA FlatAt ==
  ASSUME NEW ss, NEW m \in Nat, NEW f, IsFlat(ss, m, f), NEW i \in 1 .. m
  PROVE  /\ i = 1 => f[i] = ss[i]
         /\ i # 1 => f[i] = f[i-1] \o ss[i]
BY DEF IsFlat

LEMMA FlatExists ==
  ASSUME NEW ss, NEW k \in Nat
  PROVE  \E f : IsFlat(ss, k, f)
<1> DEFINE Bad == {m \in Nat : ~ \E f : IsFlat(ss, m, f)}
<1>1. SUFFICES ASSUME Bad # {} PROVE FALSE
  OBVIOUS
<1>2. PICK m \in Bad : \A y \in Bad : m <= y
  <2> Bad \in SUBSET Nat
    OBVIOUS
  <2> HIDE DEF Bad
  <2> QED BY <1>1, LeastOf
<1>3. m \in Nat /\ ~ \E f : IsFlat(ss, m, f)
  OBVIOUS
<1>4. m # 0
  <2> IsFlat(ss, 0, [i \in 1 .. 0 |-> 0])
    BY DEF IsFlat
  <2> QED BY <1>3
<1>5. PICK f : IsFlat(ss, m-1, f)
  BY <1>2, <1>3, <1>4
<1> DEFINE g == [i \in 1 .. m |-> IF i < m THEN f[i] ELSE IF i = 1 THEN ss[i] ELSE f[i-1] \o ss[i]]
<1>6. g = [i \in 1 .. m |-> IF i = 1 THEN ss[i] ELSE g[i-1] \o ss[i]]
  <2>1. ASSUME NEW i \in 1 .. m PROVE g[i] = IF i = 1 THEN ss[i] ELSE g[i-1] \o ss[i]
    <3>0. i # 1 => g[i-1] = f[i-1]
      <4>1. i # 1 => i-1 \in 1 .. m /\ i-1 < m
        BY <1>3
      <4> QED BY <4>1
    <3>1. CASE i = m
      <4>1. g[i] = IF i = 1 THEN ss[i] ELSE f[i-1] \o ss[i]
        BY <3>1
      <4> HIDE DEF g
      <4> QED BY <3>0, <4>1
    <3>2. CASE i # m
      <4>1. i \in 1 .. m-1 /\ m-1 \in Nat
        BY <3>2, <1>3, <1>4
      <4>2. (i = 1 => f[i] = ss[i]) /\ (i # 1 => f[i] = f[i-1] \o ss[i])
        BY <1>5, <4>1, FlatAt
      <4>3. g[i] = f[i]
        BY <4>1, <1>3
      <4> HIDE DEF g
      <4> QED BY <3>0, <4>2, <4>3
    <3> QED BY <3>1, <3>2
  <2> DEFINE h == [i \in 1 .. m |-> IF i = 1 THEN ss[i] ELSE g[i-1] \o ss[i]]
  <2>2. g = [i \in 1 .. m |-> g[i]] /\ h = [i \in 1 .. m |-> h[i]]
    OBVIOUS
  <2>3. \A i \in 1 .. m : g[i] = h[i]
    <3> HIDE DEF g
    <3> QED BY <2>1
  <2>4. g = h
    <3> HIDE DEF g, h
    <3> QED BY <2>2, <2>3
  <2> HIDE DEF g
  <2> QED BY <2>4
<1>7. IsFlat(ss, m, g)
  <2> HIDE DEF g
  <2> QED BY <1>6 DEF IsFlat
<1> QED BY <1>3, <1>7

LEMMA FlatAgree ==
  ASSUME NEW ss, NEW tt, NEW k \in Nat, NEW m \in Nat, m <= k, NEW f, NEW g,
         IsFlat(ss, m, f), IsFlat(tt, k, g), \A i \in 1 .. m : tt[i] = ss[i], NEW n \in 1 .. m
  PROVE  f[n] = g[n]
<1> DEFINE Bad == {j \in 1 .. m : f[j] # g[j]}
<1>1. SUFFICES ASSUME Bad # {} PROVE FALSE
  OBVIOUS
<1>2. PICK j \in Bad : \A y \in Bad : j <= y
  <2> Bad \in SUBSET Nat
    OBVIOUS
  <2> HIDE DEF Bad
  <2> QED BY <1>1, LeastOf
<1>3. j \in 1 .. m /\ j \in 1 .. k /\ f[j] # g[j] /\ tt[j] = ss[j]
  OBVIOUS
<1>4. j # 1 => f[j-1] = g[j-1]
  BY <1>2, <1>3
<1>5. /\ j = 1 => f[j] = ss[j] /\ g[j] = tt[j]
      /\ j # 1 => f[j] = f[j-1] \o ss[j] /\ g[j] = g[j-1] \o tt[j]
  <2>1. (j = 1 => f[j] = ss[j]) /\ (j # 1 => f[j] = f[j-1] \o ss[j])
    BY <1>3, FlatAt
  <2>2. (j = 1 => g[j] = tt[j]) /\ (j # 1 => g[j] = g[j-1] \o tt[j])
    BY <1>3, FlatAt
  <2> QED BY <2>1, <2>2
<1> QED BY <1>3, <1>4, <1>5

\* One more text at the end.
LEMMA FlattenMore ==
  ASSUME NEW ss, NEW tt, NEW m \in Nat, Len(ss) = m, Len(tt) = m+1,
         \A i \in 1 .. m : tt[i] = ss[i], m = 0 => ss = << >>, NEW S, tt[m+1] \in Seq(S)
  PROVE  FlattenSeq(tt) = FlattenSeq(ss) \o tt[m+1]
<1> DEFINE k == m + 1
<1>1. k \in Nat /\ k # 0 /\ m <= k /\ k \in 1 .. k /\ k - 1 = m /\ (k = 1 <=> m = 0) /\ (m # 0 => m \in 1 .. m)
  OBVIOUS
<1>2. Len(tt) = k /\ tt[k] \in Seq(S)
  OBVIOUS
<1> HIDE DEF k
<1>3. PICK g : IsFlat(tt, k, g) /\ FlattenSeq(tt) = g[k]
  BY <1>1, <1>2, FlatExists, FlattenIs
<1>4. CASE m = 0
  <2>1. FlattenSeq(ss) = << >>
    BY <1>4, FlattenIs
  <2>2. << >> \o tt[k] = tt[k]
    BY <1>2, ConcatEmptySeq
  <2>3. g[k] = tt[k]
    BY <1>1, <1>3, <1>4 DEF IsFlat
  <2> QED BY <1>3, <2>1, <2>2, <2>3 DEF k
<1>5. CASE m # 0
  <2>1. PICK f : IsFlat(ss, m, f) /\ FlattenSeq(ss) = f[m]
    BY <1>5, FlatExists, FlattenIs
  <2>2. f[m] = g[m]
    BY <1>1, <1>3, <1>5, <2>1, FlatAgree
  <2>3. g[k] = g[k-1] \o tt[k]
    BY <1>1, <1>3, <1>5 DEF IsFlat
  <2> QED BY <1>1, <1>3, <2>1, <2>2, <2>3 DEF k
<1> QED BY <1>4, <1>5


LEMMA FlattenType ==
  ASSUME NEW S, NEW ss, NEW m \in Nat, Len(ss) = m, m = 0 => ss = << >>,
         \A i \in 1 .. m : ss[i] \in Seq(S)
  PROVE  FlattenSeq(ss) \in Seq(S)
<1>1. CASE m = 0
  <2>1. FlattenSeq(ss) = << >>
    BY <1>1, FlattenIs
  <2>2. << >> \in Seq(S)
    OBVIOUS
  <2> QED BY <2>1, <2>2
<1>2. CASE m # 0
  <2>1. PICK f : IsFlat(ss, m, f) /\ FlattenSeq(ss) = f[m]
    BY <1>2, FlatExists, FlattenIs
  <2> DEFINE Bad == {j \in 1 .. m : f[j] \notin Seq(S)}
  <2>2. Bad = {}
    <3>1. SUFFICES ASSUME Bad # {} PROVE FALSE
      OBVIOUS
    <3>2. PICK j \in Bad : \A y \in Bad : j <= y
      <4> Bad \in SUBSET Nat
        OBVIOUS
      <4> HIDE DEF Bad
      <4> QED BY <3>1, LeastOf
    <3>3. j \in 1 .. m /\ f[j] \notin Seq(S) /\ ss[j] \in Seq(S)
      OBVIOUS
    <3>4. j # 1 => f[j-1] \in Seq(S)
      BY <3>2, <3>3
    <3> HIDE DEF Bad
    <3>5. (j = 1 => f[j] = ss[j]) /\ (j # 1 => f[j] = f[j-1] \o ss[j])
      <4>1. j \in 1 .. m /\ IsFlat(ss, m, f)
        BY <2>1, <3>3
      <4> QED BY <4>1 DEF IsFlat
    <3>6. CASE j = 1
      <4>1. f[j] = ss[j]
        BY <3>5, <3>6
      <4> QED BY <3>3, <4>1
    <3>7. CASE j # 1
      <4>1. f[j-1] \in Seq(S) /\ f[j] = f[j-1] \o ss[j] /\ ss[j] \in Seq(S)
        BY <3>3, <3>4, <3>5, <3>7
      <4>2. f[j-1] \o ss[j] \in Seq(S)
        BY <4>1, ConcatProperties
      <4>3. f[j] \in Seq(S)
        BY <4>1, <4>2
      <4> QED BY <3>3, <4>3
    <3> QED BY <3>6, <3>7
  <2>3. m \in 1 .. m
    BY <1>2
  <2> QED BY <2>1, <2>2, <2>3
<1> QED BY <1>1, <1>2

\* The first n texts of g together.
Joined(g, n) == FlattenSeq([i \in 1 .. n |-> g[i]])

LEMMA TextsLen ==
  ASSUME NEW S, NEW g, NEW n \in Nat, \A i \in 1 .. n : g[i] \in Seq(S)
  PROVE  /\ Len([i \in 1 .. n |-> g[i]]) = n
         /\ n = 0 => [i \in 1 .. n |-> g[i]] = << >>
<1> DEFINE t == [i \in 1 .. n |-> g[i]]
<1>1. t \in Seq(Seq(S))
  BY IsASeq
<1>2. Len(t) \in Nat /\ DOMAIN t = 1 .. Len(t) /\ DOMAIN t = 1 .. n
  BY <1>1, LenProperties
<1>3. Len(t) = n
  <2> DEFINE l == Len(t)
  <2>1. l \in Nat /\ 1 .. l = 1 .. n
    BY <1>2
  <2> HIDE DEF l
  <2>2. (l \in 1 .. n <=> l \in 1 .. l) /\ (n \in 1 .. n <=> n \in 1 .. l)
    BY <2>1
  <2>3. l = n
    BY <2>1, <2>2
  <2> QED BY <2>3 DEF l
<1>4. n = 0 => t = << >>
  <2> HIDE DEF t
  <2> QED BY <1>1, <1>3, EmptySeq
<1> QED BY <1>3, <1>4

LEMMA JoinedType ==
  ASSUME NEW S, NEW g, NEW n \in Nat, \A i \in 1 .. n : g[i] \in Seq(S)
  PROVE  /\ Joined(g, n) \in Seq(S)
         /\ n = 0 => Joined(g, n) = << >>
<1> DEFINE t == [i \in 1 .. n |-> g[i]]
<1>1. Len(t) = n /\ (n = 0 => t = << >>)
  BY TextsLen
<1>2. \A i \in 1 .. n : t[i] \in Seq(S)
  OBVIOUS
<1>3. Joined(g, n) = FlattenSeq(t)
  BY DEF Joined
<1> HIDE DEF t
<1>4. FlattenSeq(t) \in Seq(S)
  BY <1>1, <1>2, FlattenType
<1>5. n = 0 => FlattenSeq(t) = << >>
  BY <1>1, FlattenIs
<1> QED BY <1>3, <1>4, <1>5

LEMMA JoinedMore ==
  ASSUME NEW S, NEW g, NEW n \in Nat, \A i \in 1 .. n+1 : g[i] \in Seq(S)
  PROVE  Joined(g, n+1) = Joined(g, n) \o g[n+1]
<1> DEFINE t == [i \in 1 .. n |-> g[i]]
           u == [i \in 1 .. n+1 |-> g[i]]
<1>0. \A i \in 1 .. n : g[i] \in Seq(S)
  OBVIOUS
<1>1. Len(t) = n /\ (n = 0 => t = << >>)
  BY <1>0, TextsLen
<1>2. Len(u) = n+1
  <2> DEFINE m == n+1
  <2>1. m \in Nat /\ \A i \in 1 .. m : g[i] \in Seq(S)
    OBVIOUS
  <2> HIDE DEF m
  <2>2. Len([i \in 1 .. m |-> g[i]]) = m
    BY <2>1, TextsLen
  <2> QED BY <2>2 DEF m
<1>3. \A i \in 1 .. n : u[i] = t[i]
  OBVIOUS
<1>4. u[n+1] = g[n+1] /\ u[n+1] \in Seq(S)
  OBVIOUS
<1>5. Joined(g, n) = FlattenSeq(t) /\ Joined(g, n+1) = FlattenSeq(u)
  BY DEF Joined
<1> HIDE DEF t, u
<1>6. FlattenSeq(u) = FlattenSeq(t) \o u[n+1]
  BY <1>1, <1>2, <1>3, <1>4, FlattenMore
<1> QED BY <1>4, <1>5, <1>6

-----------------------------------------------------------------------------
\* The lines of a file and what is printed for them.

IdAts(s) == [k \in DOMAIN s |-> IF s[k].kind = "insn" THEN <<s[k].id>> ELSE << >>]
IdsTo(f, p) == Joined(IdAts(Seen(f)), p)

LEMMA IdAtsType ==
  ASSUME NEW s \in Seq(Lines)
  PROVE  \A i \in 1 .. Len(s) : /\ IdAts(s)[i] \in Seq(Nat)
                                /\ IdAts(s)[i] = IF s[i].kind = "insn" THEN <<s[i].id>> ELSE << >>
<1>1. SUFFICES ASSUME NEW i \in 1 .. Len(s)
               PROVE  /\ IdAts(s)[i] \in Seq(Nat)
                      /\ IdAts(s)[i] = IF s[i].kind = "insn" THEN <<s[i].id>> ELSE << >>
  OBVIOUS
<1>2. s[i] \in Lines /\ DOMAIN s = 1 .. Len(s)
  BY ElementOfSeq, LenProperties
<1>3. s[i].id \in Nat
  BY <1>2 DEF Lines
<1>4. <<s[i].id>> \in Seq(Nat) /\ << >> \in Seq(Nat)
  BY <1>3
<1>5. IdAts(s)[i] = IF s[i].kind = "insn" THEN <<s[i].id>> ELSE << >>
  BY <1>2 DEF IdAts
<1> QED BY <1>4, <1>5

LEMMA PrefixIs ==
  ASSUME NEW S, NEW s \in Seq(S), NEW p \in 0 .. Len(s)
  PROVE  /\ SubSeq(s, 1, p) \in Seq(S)
         /\ Len(SubSeq(s, 1, p)) = p
         /\ DOMAIN SubSeq(s, 1, p) = 1 .. p
         /\ \A i \in 1 .. p : SubSeq(s, 1, p)[i] = s[i]
<1>1. 1 \in 1 .. Len(s)+1 /\ p \in (1-1) .. Len(s) /\ Len(s) \in Nat
  BY LenProperties
<1>2. /\ SubSeq(s, 1, p) \in Seq(S)
      /\ Len(SubSeq(s, 1, p)) = p
      /\ \A i \in 1 .. p : SubSeq(s, 1, p)[i] = s[i]
  BY <1>1, SMTT(30)
<1>3. DOMAIN SubSeq(s, 1, p) = 1 .. p
  BY <1>2, LenProperties
<1> QED BY <1>2, <1>3

LEMMA IdsOfPrefix ==
  ASSUME NEW s \in Seq(Lines), NEW p \in 0 .. Len(s)
  PROVE  IdsOf(SubSeq(s, 1, p)) = Joined(IdAts(s), p)
<1> DEFINE t == SubSeq(s, 1, p)
           a == [k \in DOMAIN t |-> IF t[k].kind = "insn" THEN <<t[k].id>> ELSE << >>]
           b == [i \in 1 .. p |-> IdAts(s)[i]]
<1>1. p \in Nat /\ Len(s) \in Nat /\ DOMAIN s = 1 .. Len(s)
  BY LenProperties
<1>2. DOMAIN t = 1 .. p /\ \A i \in 1 .. p : t[i] = s[i]
  BY PrefixIs
<1>3. a = [i \in 1 .. p |-> a[i]]
  <2> HIDE DEF t
  <2> QED BY <1>2
<1>4. ASSUME NEW i \in 1 .. p PROVE a[i] = b[i]
  <2>1. i \in 1 .. Len(s)
    BY <1>1
  <2>2. b[i] = IF s[i].kind = "insn" THEN <<s[i].id>> ELSE << >>
    BY <1>1, <2>1 DEF IdAts
  <2>3. a[i] = IF t[i].kind = "insn" THEN <<t[i].id>> ELSE << >>
    <3> HIDE DEF t
    <3> QED BY <1>2
  <2>4. t[i] = s[i]
    BY <1>2
  <2> HIDE DEF a, b, t
  <2> QED BY <2>2, <2>3, <2>4
<1>5. b = [i \in 1 .. p |-> b[i]]
  OBVIOUS
<1>6. a = b
  <2> HIDE DEF a, b
  <2> QED BY <1>3, <1>4, <1>5
<1>7. IdsOf(t) = FlattenSeq(a)
  BY DEF IdsOf
<1>8. Joined(IdAts(s), p) = FlattenSeq(b)
  BY DEF Joined
<1> HIDE DEF a, b
<1> QED BY <1>6, <1>7, <1>8

LEMMA IdsOfAll ==
  ASSUME NEW s \in Seq(Lines)
  PROVE  IdsOf(s) = Joined(IdAts(s), Len(s))
<1>1. Len(s) \in 0 .. Len(s)
  BY LenProperties
<1>2. SubSeq(s, 1, Len(s)) = s
  <2> DEFINE t == SubSeq(s, 1, Len(s))
  <2>1. t \in Seq(Lines) /\ Len(t) = Len(s) /\ \A i \in 1 .. Len(s) : t[i] = s[i]
    BY <1>1, PrefixIs
  <2> HIDE DEF t
  <2>2. t = s
    BY <2>1, SeqEqual
  <2> QED BY <2>2 DEF t
<1> QED BY <1>1, <1>2, IdsOfPrefix

\* An instruction adds its own assembly, every other line nothing.
LEMMA IdsMore ==
  ASSUME NEW s \in Seq(Lines), NEW p \in Nat, p < Len(s)
  PROVE  /\ Joined(IdAts(s), p) \in Seq(Nat)
         /\ s[p+1].id \in Nat
         /\ s[p+1].kind = "insn" => Joined(IdAts(s), p+1) = Append(Joined(IdAts(s), p), s[p+1].id)
         /\ s[p+1].kind # "insn" => Joined(IdAts(s), p+1) = Joined(IdAts(s), p)
<1>1. Len(s) \in Nat /\ p+1 \in 1 .. Len(s)
  BY LenProperties
<1> DEFINE g == IdAts(s)
<1>2. \A i \in 1 .. Len(s) : g[i] \in Seq(Nat) /\ g[i] = IF s[i].kind = "insn" THEN <<s[i].id>> ELSE << >>
  BY IdAtsType
<1> HIDE DEF g
<1>2a. \A i \in 1 .. p+1 : i \in 1 .. Len(s)
  BY <1>1
<1>2b. \A i \in 1 .. p : i \in 1 .. p+1
  OBVIOUS
<1>4. \A i \in 1 .. p+1 : g[i] \in Seq(Nat)
  BY <1>2, <1>2a
<1>3. \A i \in 1 .. p : g[i] \in Seq(Nat)
  BY <1>2b, <1>4
<1> DEFINE j == Joined(g, p)
<1>5. j \in Seq(Nat)
  BY <1>3, JoinedType
<1>6. Joined(g, p+1) = j \o g[p+1]
  BY <1>4, JoinedMore
<1>7. s[p+1].id \in Nat
  <2>1. s[p+1] \in Lines
    BY <1>1, ElementOfSeq
  <2> QED BY <2>1 DEF Lines
<1> HIDE DEF j
<1>8. CASE s[p+1].kind = "insn"
  <2>1. g[p+1] = <<s[p+1].id>>
    BY <1>1, <1>2, <1>8
  <2>2. j \o <<s[p+1].id>> = Append(j, s[p+1].id)
    BY <1>5, <1>7, AppendIsConcat
  <2>3. Joined(g, p+1) = Append(j, s[p+1].id)
    BY <1>6, <2>1, <2>2
  <2> QED BY <1>5, <1>7, <1>8, <2>3 DEF g, j
<1>9. CASE s[p+1].kind # "insn"
  <2>1. g[p+1] = << >>
    BY <1>1, <1>2, <1>9
  <2>2. j \o << >> = j
    BY <1>5, ConcatEmptySeq
  <2>3. Joined(g, p+1) = j
    BY <1>6, <2>1, <2>2
  <2> QED BY <1>5, <1>7, <1>9, <2>3 DEF g, j
<1> QED BY <1>8, <1>9

\* What is left of s when n of its elements are gone.
Rest(s, n) == SubSeq(s, n+1, Len(s))

LEMMA RestIs ==
  ASSUME NEW S, NEW s \in Seq(S), NEW n \in 0 .. Len(s)
  PROVE  /\ Rest(s, n) \in Seq(S)
         /\ Len(Rest(s, n)) = Len(s) - n
         /\ \A i \in 1 .. Len(s) - n : Rest(s, n)[i] = s[n+i]
         /\ Rest(s, n) = << >> <=> n = Len(s)
<1>1. Len(s) \in Nat /\ n \in Nat /\ n <= Len(s)
  BY LenProperties
<1>2. n+1 \in 1 .. Len(s)+1 /\ Len(s) \in (n+1)-1 .. Len(s)
  BY <1>1
<1> DEFINE r == SubSeq(s, n+1, Len(s))
<1>3. r \in Seq(S)
  BY <1>1, SMTT(30)
<1>4. Len(r) = Len(s) - n
  BY <1>1, SMTT(30)
<1>5. \A i \in 1 .. Len(s) - n : r[i] = s[n+i]
  BY <1>1, SMTT(30)
<1>6. r = << >> <=> Len(r) = 0
  <2> HIDE DEF r
  <2>1. Len(<< >>) = 0
    BY EmptySeq
  <2>2. r # << >> => Len(r) \in Nat \ {0}
    BY <1>3, EmptySeq
  <2> QED BY <2>1, <2>2
<1>7. Rest(s, n) = r
  BY DEF Rest
<1> HIDE DEF r
<1>8. Len(r) = 0 <=> n = Len(s)
  BY <1>1, <1>4
<1> QED BY <1>3, <1>4, <1>5, <1>6, <1>7, <1>8

LEMMA RestAll ==
  ASSUME NEW S, NEW s \in Seq(S)
  PROVE  Rest(s, 0) = s
<1>1. 0 \in 0 .. Len(s) /\ Len(s) \in Nat
  BY LenProperties
<1> DEFINE r == Rest(s, 0)
<1>2. r \in Seq(S) /\ Len(r) = Len(s) - 0 /\ \A i \in 1 .. Len(s) - 0 : r[i] = s[0+i]
  BY <1>1, RestIs
<1> HIDE DEF r
<1>3. Len(r) = Len(s) /\ \A i \in 1 .. Len(r) : r[i] = s[i]
  BY <1>1, <1>2
<1>4. r = s
  BY <1>2, <1>3, SeqEqual
<1> QED BY <1>4 DEF r

LEMMA RestTail ==
  ASSUME NEW S, NEW s \in Seq(S), NEW n \in Nat, n < Len(s)
  PROVE  /\ Rest(s, n) # << >>
         /\ Head(Rest(s, n)) = s[n+1]
         /\ Tail(Rest(s, n)) = Rest(s, n+1)
<1>1. Len(s) \in Nat /\ n \in 0 .. Len(s) /\ n+1 \in 0 .. Len(s) /\ n # Len(s) /\ 1 \in 1 .. Len(s)-n
  BY LenProperties
<1> DEFINE r == Rest(s, n)
           t == Rest(s, n+1)
<1>2. /\ r \in Seq(S) /\ Len(r) = Len(s) - n
      /\ \A i \in 1 .. Len(s) - n : r[i] = s[n+i]
      /\ r # << >>
  BY <1>1, RestIs
<1>3. /\ t \in Seq(S) /\ Len(t) = Len(s) - (n+1)
      /\ \A i \in 1 .. Len(s) - (n+1) : t[i] = s[(n+1)+i]
  BY <1>1, RestIs
<1> HIDE DEF r, t
<1>4. Head(r) = r[1] /\ r[1] = s[n+1]
  <2>1. Head(r) = r[1]
    BY <1>2, HeadTailProperties
  <2>2. r[1] = s[n+1]
    BY <1>1, <1>2
  <2> QED BY <2>1, <2>2
<1>5. Tail(r) \in Seq(S) /\ Len(Tail(r)) = Len(r)-1 /\ \A i \in 1 .. Len(Tail(r)) : Tail(r)[i] = r[i+1]
  BY <1>2, HeadTailProperties
<1>6. Tail(r) = t
  <2> DEFINE u == Tail(r)
  <2>0. u \in Seq(S) /\ Len(u) = Len(r)-1 /\ \A i \in 1 .. Len(u) : u[i] = r[i+1]
    BY <1>5
  <2> HIDE DEF u
  <2>1. Len(u) = Len(t)
    BY <1>1, <1>2, <1>3, <2>0
  <2>2. ASSUME NEW i \in 1 .. Len(u) PROVE u[i] = t[i]
    <3>0. Len(u) = Len(s) - (n+1)
      BY <1>3, <2>1
    <3>1. i \in Nat /\ i+1 \in 1 .. Len(s)-n /\ i \in 1 .. Len(s)-(n+1) /\ n+(i+1) = (n+1)+i
      BY <1>1, <3>0
    <3>2. u[i] = r[i+1]
      BY <2>0
    <3>3. r[i+1] = s[n+(i+1)]
      BY <1>2, <3>1
    <3>4. t[i] = s[(n+1)+i]
      BY <1>3, <3>1
    <3> QED BY <3>1, <3>2, <3>3, <3>4
  <2>3. u = t
    BY <1>3, <2>0, <2>1, <2>2, SeqEqual
  <2> QED BY <2>3 DEF u
<1>7. r # << >> /\ Head(r) = s[n+1] /\ Tail(r) = t
  BY <1>2, <1>4, <1>6
<1> QED BY <1>7 DEF r, t

LEMMA FileIs ==
  ASSUME NEW f \in Files
  PROVE  /\ f.lines \in Seq(Lines)
         /\ f.nl \in BOOLEAN
         /\ f.found \in BOOLEAN
BY DEF Files

LEMMA SeenIs ==
  ASSUME NEW f \in Files
  PROVE  /\ Seen(f) \in Seq(Lines)
         /\ ~ f.found => Len(Seen(f)) = 1 /\ Seen(f)[1] = EmptyLine
         /\ f.found => /\ Len(Seen(f)) = IF f.nl \/ Len(f.lines) = 0 THEN Len(f.lines) ELSE Len(f.lines)-1
                       /\ \A k \in 1 .. Len(Seen(f)) : Seen(f)[k] = f.lines[k]
<1>0. f.lines \in Seq(Lines) /\ Len(f.lines) \in Nat
  BY FileIs, LenProperties
<1>1. CASE ~ f.found
  <2>1. Seen(f) = <<EmptyLine>>
    BY <1>1 DEF Seen
  <2>2. EmptyLine \in Lines
    BY DEF EmptyLine, Lines, Kinds
  <2>3. <<EmptyLine>> \in Seq(Lines) /\ Len(<<EmptyLine>>) = 1 /\ <<EmptyLine>>[1] = EmptyLine
    <3> DEFINE e == EmptyLine
    <3>1. e \in Lines
      BY <2>2
    <3> HIDE DEF e
    <3>2. <<e>> \in Seq(Lines) /\ Len(<<e>>) = 1 /\ <<e>>[1] = e
      BY <3>1
    <3> QED BY <3>2 DEF e
  <2> QED BY <1>1, <2>1, <2>3
<1>2. CASE f.found
  <2>0. f.lines = << >> <=> Len(f.lines) = 0
    BY <1>0, EmptySeq
  <2>1. CASE f.nl \/ f.lines = << >>
    <3>1. Seen(f) = f.lines
      BY <1>2, <2>1 DEF Seen
    <3> QED BY <1>0, <1>2, <2>0, <2>1, <3>1
  <2>2. CASE ~ (f.nl \/ f.lines = << >>)
    <3> DEFINE m == Len(f.lines)-1
    <3>0. m \in 0 .. Len(f.lines)
      BY <1>0, <2>0, <2>2
    <3>1. Seen(f) = SubSeq(f.lines, 1, m)
      BY <1>2, <2>2 DEF Seen, Front
    <3> HIDE DEF m
    <3>2. /\ SubSeq(f.lines, 1, m) \in Seq(Lines) /\ Len(SubSeq(f.lines, 1, m)) = m
          /\ \A i \in 1 .. m : SubSeq(f.lines, 1, m)[i] = f.lines[i]
      BY <1>0, <3>0, PrefixIs
    <3>3. Seen(f) \in Seq(Lines) /\ Len(Seen(f)) = m /\ \A i \in 1 .. Len(Seen(f)) : Seen(f)[i] = f.lines[i]
      BY <3>1, <3>2
    <3> QED BY <1>2, <2>0, <2>2, <3>3 DEF m
  <2> QED BY <2>1, <2>2
<1> QED BY <1>1, <1>2, FileIs

-----------------------------------------------------------------------------
\* What a file contributes, by the lines that were read of it.

Clean(f, p) == \A k \in 1 .. p : ~ Stops(Seen(f)[k])

\* No line stops the file: all its instructions come out.
LEMMA WholeFile ==
  ASSUME NEW f \in Files, Clean(f, Len(Seen(f)))
  PROVE  /\ Output(f) = IdsTo(f, Len(Seen(f)))
         /\ ~ Fails(f)
<1>1. Seen(f) \in Seq(Lines)
  BY SeenIs
<1>2. DOMAIN Seen(f) = 1 .. Len(Seen(f))
  BY <1>1, LenProperties
<1>3. StopAt(f) = {}
  BY <1>2 DEF StopAt, Clean
<1>4. Output(f) = IdsOf(Seen(f))
  BY <1>3 DEF Output
<1>5. IdsOf(Seen(f)) = IdsTo(f, Len(Seen(f)))
  BY <1>1, IdsOfAll DEF IdsTo
<1> QED BY <1>3, <1>4, <1>5 DEF Fails

\* The line after the first p stops it: what was printed for those is all.
LEMMA StoppedFile ==
  ASSUME NEW f \in Files, NEW p \in Nat, p < Len(Seen(f)), Clean(f, p), Stops(Seen(f)[p+1])
  PROVE  /\ Output(f) = IdsTo(f, p)
         /\ Fails(f) <=> Seen(f)[p+1].kind # "quit"
<1>1. Seen(f) \in Seq(Lines)
  BY SeenIs
<1>2. DOMAIN Seen(f) = 1 .. Len(Seen(f)) /\ Len(Seen(f)) \in Nat
  BY <1>1, LenProperties
<1>3. p+1 \in 1 .. Len(Seen(f)) /\ p \in 0 .. Len(Seen(f)) /\ (p+1)-1 = p
  BY <1>2
<1>4. p+1 \in StopAt(f)
  <2>1. \A j \in 1 .. (p+1)-1 : ~ Stops(Seen(f)[j])
    BY <1>3 DEF Clean
  <2> QED BY <1>2, <1>3, <2>1 DEF StopAt
<1>5. ASSUME NEW k \in StopAt(f) PROVE k = p+1
  <2>1. k \in 1 .. Len(Seen(f)) /\ Stops(Seen(f)[k]) /\ \A j \in 1 .. k-1 : ~ Stops(Seen(f)[j])
    BY <1>2 DEF StopAt
  <2>2. ~ (k <= p)
    BY <2>1 DEF Clean
  <2>3. ~ (p+1 <= k-1)
    BY <2>1, <1>3
  <2> QED BY <1>2, <2>1, <2>2, <2>3
<1>6. (CHOOSE k \in StopAt(f) : TRUE) = p+1
  <2>1. (CHOOSE k \in StopAt(f) : TRUE) \in StopAt(f)
    BY <1>4
  <2> QED BY <1>5, <2>1
<1>7. Output(f) = IdsOf(SubSeq(Seen(f), 1, p))
  BY <1>3, <1>4, <1>6 DEF Output
<1>8. IdsOf(SubSeq(Seen(f), 1, p)) = IdsTo(f, p)
  BY <1>1, <1>3, IdsOfPrefix DEF IdsTo
<1>9. Fails(f) <=> Seen(f)[p+1].kind # "quit"
  BY <1>4, <1>5 DEF Fails
<1> QED BY <1>7, <1>8, <1>9

LEMMA IdsToType ==
  ASSUME NEW f \in Files, NEW p \in 0 .. Len(Seen(f))
  PROVE  /\ IdsTo(f, p) \in Seq(Nat)
         /\ p = 0 => IdsTo(f, p) = << >>
<1> DEFINE g == IdAts(Seen(f))
<1>1. Seen(f) \in Seq(Lines) /\ Len(Seen(f)) \in Nat
  BY SeenIs, LenProperties
<1>2. \A i \in 1 .. Len(Seen(f)) : g[i] \in Seq(Nat)
  BY <1>1, IdAtsType
<1>3. p \in Nat /\ \A i \in 1 .. p : i \in 1 .. Len(Seen(f))
  BY <1>1
<1> HIDE DEF g
<1>4. \A i \in 1 .. p : g[i] \in Seq(Nat)
  BY <1>2, <1>3
<1>5. Joined(g, p) \in Seq(Nat) /\ (p = 0 => Joined(g, p) = << >>)
  BY <1>3, <1>4, JoinedType
<1> QED BY <1>5 DEF IdsTo, g

LEMMA OutputType ==
  ASSUME NEW f \in Files
  PROVE  Output(f) \in Seq(Nat)
<1>1. Seen(f) \in Seq(Lines) /\ DOMAIN Seen(f) = 1 .. Len(Seen(f)) /\ Len(Seen(f)) \in Nat
  BY SeenIs, LenProperties
<1>2. CASE StopAt(f) = {}
  <2>1. Output(f) = IdsTo(f, Len(Seen(f)))
    BY <1>1, <1>2, IdsOfAll DEF Output, IdsTo
  <2> QED BY <1>1, <2>1, IdsToType
<1>3. CASE StopAt(f) # {}
  <2> DEFINE k == CHOOSE k \in StopAt(f) : TRUE
  <2>1. k \in StopAt(f)
    BY <1>3
  <2>2. Output(f) = IdsOf(SubSeq(Seen(f), 1, k-1))
    BY <1>3 DEF Output
  <2> HIDE DEF k
  <2>3. k-1 \in 0 .. Len(Seen(f))
    BY <1>1, <2>1 DEF StopAt
  <2>4. Output(f) = IdsTo(f, k-1)
    BY <1>1, <2>2, <2>3, IdsOfPrefix DEF IdsTo
  <2> QED BY <2>3, <2>4, IdsToType
<1> QED BY <1>2, <1>3

LEMMA AppendAfter ==
  ASSUME NEW S, NEW u \in Seq(S), NEW v \in Seq(S), NEW e \in S
  PROVE  u \o Append(v, e) = Append(u \o v, e)
<1> DEFINE t == <<e>>
<1>1. t \in Seq(S)
  OBVIOUS
<1>2. u \o v \in Seq(S)
  BY ConcatProperties
<1>3. Append(v, e) = v \o t /\ Append(u \o v, e) = (u \o v) \o t
  BY <1>2, AppendIsConcat
<1> HIDE DEF t
<1>4. (u \o v) \o t = u \o (v \o t)
  BY <1>1, ConcatAssociative
<1> QED BY <1>3, <1>4

\* A line that does not stop the file is one more line of its own.
LEMMA Advance ==
  ASSUME NEW f \in Files, NEW p \in Nat, p < Len(Seen(f)), Clean(f, p), NEW before \in Seq(Nat),
         Seen(f)[p+1].kind \in {"insn", "comment"}
  PROVE  /\ f.found
         /\ p+1 \in 0 .. Len(Seen(f))
         /\ Clean(f, p+1)
         /\ Seen(f)[p+1].kind = "insn" =>
              before \o IdsTo(f, p+1) = Append(before \o IdsTo(f, p), Seen(f)[p+1].id)
         /\ Seen(f)[p+1].kind = "comment" => IdsTo(f, p+1) = IdsTo(f, p)
<1> DEFINE s == Seen(f)
           l == Seen(f)[p+1]
<1>1. s \in Seq(Lines) /\ Len(s) \in Nat
  BY SeenIs, LenProperties
<1>2. f.found
  <2>1. f.found \in BOOLEAN /\ (~ f.found => Len(s) = 1 /\ s[1] = EmptyLine)
    BY FileIs, SeenIs
  <2>2. ~ f.found => l.kind = "bad"
    BY <1>1, <2>1 DEF EmptyLine
  <2> QED BY <2>2
<1>3. p+1 \in 0 .. Len(s)
  BY <1>1
<1>4. Clean(f, p+1)
  <2>1. ~ Stops(l)
    BY DEF Stops
  <2>2. ASSUME NEW k \in 1 .. p+1 PROVE ~ Stops(Seen(f)[k])
    <3>1. k = p+1 \/ k \in 1 .. p
      OBVIOUS
    <3> QED BY <2>1, <3>1 DEF Clean
  <2> QED BY <2>2 DEF Clean
<1>5. /\ IdsTo(f, p) \in Seq(Nat)
      /\ l.id \in Nat
      /\ l.kind = "insn" => IdsTo(f, p+1) = Append(IdsTo(f, p), l.id)
      /\ l.kind # "insn" => IdsTo(f, p+1) = IdsTo(f, p)
  <2>1. /\ Joined(IdAts(s), p) \in Seq(Nat)
        /\ s[p+1].id \in Nat
        /\ s[p+1].kind = "insn" => Joined(IdAts(s), p+1) = Append(Joined(IdAts(s), p), s[p+1].id)
        /\ s[p+1].kind # "insn" => Joined(IdAts(s), p+1) = Joined(IdAts(s), p)
    <3> HIDE DEF s
    <3> QED BY <1>1, IdsMore DEF s
  <2> QED BY <2>1 DEF IdsTo
<1> DEFINE i == IdsTo(f, p)
           e == l.id
<1>6. before \o Append(i, e) = Append(before \o i, e)
  <2>1. i \in Seq(Nat) /\ e \in Nat
    BY <1>5
  <2> HIDE DEF i, e
  <2> QED BY <2>1, AppendAfter
<1> QED BY <1>2, <1>3, <1>4, <1>5, <1>6

-----------------------------------------------------------------------------
\* The files of the command line.

OutsTo(a, n) == Joined([i \in DOMAIN a |-> Output(a[i])], n)
NoneFails(a, n) == \A i \in 1 .. n : ~ Fails(a[i])

LEMMA OutsMore ==
  ASSUME NEW a \in Seq(Files), NEW n \in 0 .. Len(a)
  PROVE  /\ OutsTo(a, n) \in Seq(Nat)
         /\ n = 0 => OutsTo(a, n) = << >>
         /\ n # 0 => OutsTo(a, n) = OutsTo(a, n-1) \o Output(a[n])
<1> DEFINE g == [i \in DOMAIN a |-> Output(a[i])]
<1>1. Len(a) \in Nat /\ DOMAIN a = 1 .. Len(a)
  BY LenProperties
<1>2. ASSUME NEW i \in 1 .. Len(a) PROVE g[i] = Output(a[i]) /\ g[i] \in Seq(Nat)
  <2>1. a[i] \in Files
    BY ElementOfSeq
  <2>2. Output(a[i]) \in Seq(Nat)
    BY <2>1, OutputType
  <2> QED BY <1>1, <2>2
<1>3. n \in Nat /\ \A i \in 1 .. n : i \in 1 .. Len(a)
  BY <1>1
<1>4. OutsTo(a, n) = Joined(g, n) /\ OutsTo(a, n-1) = Joined(g, n-1)
  BY DEF OutsTo
<1> HIDE DEF g
<1>5. \A i \in 1 .. n : g[i] \in Seq(Nat)
  BY <1>2, <1>3
<1>6. Joined(g, n) \in Seq(Nat) /\ (n = 0 => Joined(g, n) = << >>)
  BY <1>3, <1>5, JoinedType
<1>7. ASSUME n # 0 PROVE Joined(g, n) = Joined(g, n-1) \o Output(a[n])
  <2> DEFINE m == n-1
  <2>1. m \in Nat /\ m+1 = n
    BY <1>3, <1>7
  <2> HIDE DEF m
  <2>2. \A i \in 1 .. m+1 : g[i] \in Seq(Nat)
    BY <1>5, <2>1
  <2>3. Joined(g, m+1) = Joined(g, m) \o g[m+1]
    BY <2>1, <2>2, JoinedMore
  <2>4. n \in 1 .. n /\ n \in 1 .. Len(a)
    BY <1>3, <1>7
  <2>5. g[n] = Output(a[n])
    BY <1>2, <2>4
  <2> QED BY <2>1, <2>3, <2>5 DEF m
<1> QED BY <1>4, <1>6, <1>7

LEMMA OutsPrefix ==
  ASSUME NEW a \in Seq(Files), NEW n \in 0 .. Len(a), NEW b, DOMAIN b = 1 .. n, \A i \in 1 .. n : b[i] = a[i]
  PROVE  FlattenSeq([i \in DOMAIN b |-> Output(b[i])]) = OutsTo(a, n)
<1> DEFINE g == [i \in DOMAIN a |-> Output(a[i])]
           h == [i \in 1 .. n |-> g[i]]
           u == [i \in DOMAIN b |-> Output(b[i])]
<1>1. Len(a) \in Nat /\ DOMAIN a = 1 .. Len(a)
  BY LenProperties
<1>2. ASSUME NEW i \in 1 .. n PROVE u[i] = h[i]
  <2>1. i \in DOMAIN a
    BY <1>1
  <2>2. h[i] = Output(a[i])
    BY <2>1
  <2>3. u[i] = Output(b[i]) /\ b[i] = a[i]
    OBVIOUS
  <2> HIDE DEF u, h
  <2> QED BY <2>2, <2>3
<1>3. u = [i \in 1 .. n |-> u[i]] /\ h = [i \in 1 .. n |-> h[i]]
  OBVIOUS
<1>4. u = h
  <2> HIDE DEF u, h
  <2> QED BY <1>2, <1>3
<1>5. OutsTo(a, n) = FlattenSeq(h)
  BY DEF OutsTo, Joined
<1> HIDE DEF u, h
<1> QED BY <1>4, <1>5 DEF u

-----------------------------------------------------------------------------
\* Where dishex is in the files: n of them were opened, p lines of the last were
\* dealt with.

AtNext == /\ pc = "next" /\ status = "ok"
          /\ \E n \in 0 .. Len(args) : /\ queue = Rest(args, n)
                                       /\ NoneFails(args, n)
                                       /\ out = OutsTo(args, n)

Reading(f, p) == pc = "read" /\ f.found /\ stream = Rest(f.lines, p)

Testing(f, p) ==
    /\ pc = "test" /\ eof \in BOOLEAN
    /\ eof => p = Len(Seen(f))
    /\ ~ eof => /\ p < Len(Seen(f)) /\ line = Seen(f)[p+1]
                /\ f.found => stream = Rest(f.lines, p+1)

Within(n, p) ==
    /\ queue = Rest(args, n)
    /\ NoneFails(args, n-1)
    /\ Clean(args[n], p)
    /\ out = OutsTo(args, n-1) \o IdsTo(args[n], p)
    /\ nl = args[n].nl
    /\ Reading(args[n], p) \/ Testing(args[n], p)

AtFile == /\ status = "ok"
          /\ \E n \in 1 .. Len(args) : \E p \in 0 .. Len(Seen(args[n])) : Within(n, p)

AtExit == /\ pc = "exit"
          /\ \/ status = "ok" /\ NoneFails(args, Len(args)) /\ out = OutsTo(args, Len(args))
             \/ /\ status # "ok"
                /\ \E n \in 1 .. Len(args) : NoneFails(args, n-1) /\ Fails(args[n]) /\ out = OutsTo(args, n)

Inv == args \in Seq(Files) /\ closed = TRUE /\ (AtNext \/ AtFile \/ AtExit)

LEMMA InvImplies ==
  ASSUME Inv
  PROVE  OutputRight
<1>1. SUFFICES ASSUME pc = "exit"
               PROVE  /\ out = FlattenSeq([i \in DOMAIN RunFiles |-> Output(RunFiles[i])])
                      /\ (status = "ok") = (FirstFailing = {})
  BY DEF OutputRight
<1>2. args \in Seq(Files) /\ AtExit
  BY <1>1 DEF Inv, AtNext, AtFile, AtExit, Within, Reading, Testing
<1>3. Len(args) \in Nat /\ DOMAIN args = 1 .. Len(args)
  BY <1>2, LenProperties
<1>4. CASE status = "ok"
  <2>1. NoneFails(args, Len(args)) /\ out = OutsTo(args, Len(args))
    BY <1>2, <1>4 DEF AtExit
  <2>2. FirstFailing = {}
    BY <1>3, <2>1 DEF FirstFailing, NoneFails
  <2>3. RunFiles = args
    BY <2>2 DEF RunFiles
  <2>4. FlattenSeq([i \in DOMAIN args |-> Output(args[i])]) = OutsTo(args, Len(args))
    <3>1. Len(args) \in 0 .. Len(args)
      BY <1>3
    <3> QED BY <1>2, <1>3, <3>1, OutsPrefix
  <2> QED BY <1>4, <2>1, <2>2, <2>3, <2>4
<1>5. CASE status # "ok"
  <2>1. PICK n \in 1 .. Len(args) : NoneFails(args, n-1) /\ Fails(args[n]) /\ out = OutsTo(args, n)
    BY <1>2, <1>5 DEF AtExit
  <2>2. n \in FirstFailing
    BY <1>3, <2>1 DEF FirstFailing, NoneFails
  <2>3. ASSUME NEW i \in FirstFailing PROVE i = n
    <3>1. i \in 1 .. Len(args) /\ Fails(args[i]) /\ \A j \in 1 .. i-1 : ~ Fails(args[j])
      BY <1>3 DEF FirstFailing
    <3>2. ~ (i <= n-1) /\ ~ (n <= i-1)
      BY <2>1, <3>1 DEF NoneFails
    <3> QED BY <1>3, <3>1, <3>2
  <2>4. (CHOOSE i \in FirstFailing : TRUE) = n
    <3>1. (CHOOSE i \in FirstFailing : TRUE) \in FirstFailing
      BY <2>2
    <3> QED BY <2>3, <3>1
  <2>5. RunFiles = SubSeq(args, 1, n)
    BY <2>2, <2>4 DEF RunFiles
  <2>6. n \in 0 .. Len(args)
    BY <1>3
  <2>7. DOMAIN SubSeq(args, 1, n) = 1 .. n /\ \A i \in 1 .. n : SubSeq(args, 1, n)[i] = args[i]
    BY <1>2, <2>6, PrefixIs
  <2>8. FlattenSeq([i \in DOMAIN RunFiles |-> Output(RunFiles[i])]) = OutsTo(args, n)
    <3> DEFINE b == RunFiles
    <3>1. DOMAIN b = 1 .. n /\ \A i \in 1 .. n : b[i] = args[i]
      BY <2>5, <2>7
    <3> HIDE DEF b
    <3>2. FlattenSeq([i \in DOMAIN b |-> Output(b[i])]) = OutsTo(args, n)
      BY <1>2, <2>6, <3>1, OutsPrefix
    <3> QED BY <3>2 DEF b
  <2> QED BY <1>5, <2>1, <2>2, <2>8
<1> QED BY <1>4, <1>5

-----------------------------------------------------------------------------
\* Every action keeps the invariant.

LEMMA InitInv ==
  ASSUME Init
  PROVE  Inv
<1>1. args \in Seq(Files) /\ closed = TRUE
  BY FilesAssumption DEF Init
<1>2. Len(args) \in Nat /\ 0 \in 0 .. Len(args)
  BY <1>1, LenProperties
<1>3. queue = Rest(args, 0)
  BY <1>1, RestAll DEF Init
<1>4. OutsTo(args, 0) = << >>
  BY <1>1, <1>2, OutsMore
<1>5. NoneFails(args, 0)
  BY DEF NoneFails
<1>6. AtNext
  BY <1>2, <1>3, <1>4, <1>5 DEF AtNext, Init
<1> QED BY <1>1, <1>6 DEF Inv

LEMMA NextFileInv ==
  ASSUME Inv, NextFile, UNCHANGED args
  PROVE  Inv'
<1>1. args \in Seq(Files) /\ closed = TRUE /\ AtNext
  BY DEF Inv, NextFile, AtNext, AtFile, AtExit, Within, Reading, Testing
<1>2. PICK m \in 0 .. Len(args) : queue = Rest(args, m) /\ NoneFails(args, m) /\ out = OutsTo(args, m)
  BY <1>1 DEF AtNext
<1>3. Len(args) \in Nat /\ m \in Nat /\ m # Len(args)
  <2>1. Len(args) \in Nat
    BY <1>1, LenProperties
  <2>2. m # Len(args)
    BY <1>1, <1>2, RestIs DEF NextFile
  <2> QED BY <1>2, <2>1, <2>2
<1> DEFINE n == m+1
           f == args[n]
<1>4. n \in 1 .. Len(args) /\ n-1 = m /\ m < Len(args)
  BY <1>2, <1>3
<1>5. Head(queue) = f /\ Tail(queue) = Rest(args, n)
  BY <1>1, <1>2, <1>3, <1>4, RestTail
<1> HIDE DEF n
<1>6. f \in Files
  BY <1>1, <1>4, ElementOfSeq
<1> HIDE DEF f
<1>7. /\ queue' = Rest(args, n) /\ stream' = f.lines /\ nl' = f.nl /\ line' = EmptyLine
      /\ pc' = (IF f.found THEN "read" ELSE "test") /\ eof' = FALSE
      /\ closed' = closed /\ out' = out /\ status' = status /\ args' = args
  BY <1>5 DEF NextFile, LaterFiles
<1>8. f.found \in BOOLEAN /\ f.lines \in Seq(Lines)
  BY <1>6, FileIs
<1>9. Seen(f) \in Seq(Lines) /\ Len(Seen(f)) \in Nat /\ 0 \in 0 .. Len(Seen(f))
  BY <1>6, SeenIs, LenProperties
<1>10. out' = OutsTo(args, n-1) \o IdsTo(f, 0)
  <2>1. IdsTo(f, 0) = << >>
    BY <1>6, <1>9, IdsToType
  <2>2. OutsTo(args, m) \in Seq(Nat)
    BY <1>1, <1>2, OutsMore
  <2>3. OutsTo(args, m) \o << >> = OutsTo(args, m)
    BY <2>2, ConcatEmptySeq
  <2> QED BY <1>2, <1>4, <1>7, <2>1, <2>3
<1>11. Clean(f, 0)
  BY DEF Clean
<1>12. (Reading(f, 0) \/ Testing(f, 0))'
  <2>1. CASE f.found
    <3>1. Rest(f.lines, 0) = f.lines
      BY <1>8, RestAll
    <3> QED BY <1>7, <2>1, <3>1 DEF Reading, f
  <2>2. CASE ~ f.found
    <3>1. Len(Seen(f)) = 1 /\ Seen(f)[1] = EmptyLine /\ 0+1 = 1 /\ 0 < 1
      BY <1>6, <2>2, SeenIs
    <3>2. 0 < Len(Seen(f)) /\ EmptyLine = Seen(f)[0+1]
      BY <3>1
    <3> QED BY <1>7, <2>2, <3>2 DEF Testing, f
  <2> QED BY <1>8, <2>1, <2>2
<1>13. Within(n, 0)'
  BY <1>2, <1>4, <1>7, <1>10, <1>11, <1>12 DEF Within, f
<1>14. AtFile'
  <2>1. status' = "ok"
    BY <1>1, <1>7 DEF AtNext
  <2> QED BY <1>4, <1>7, <1>9, <1>13, <2>1 DEF AtFile, f
<1> QED BY <1>1, <1>7, <1>14 DEF Inv

LEMMA AllFilesDoneInv ==
  ASSUME Inv, AllFilesDone, UNCHANGED args
  PROVE  Inv'
<1>1. args \in Seq(Files) /\ closed = TRUE /\ AtNext
  BY DEF Inv, AllFilesDone, AtNext, AtFile, AtExit, Within, Reading, Testing
<1>2. PICK m \in 0 .. Len(args) : queue = Rest(args, m) /\ NoneFails(args, m) /\ out = OutsTo(args, m)
  BY <1>1 DEF AtNext
<1>3. m = Len(args)
  BY <1>1, <1>2, RestIs DEF AllFilesDone
<1>4. AtExit'
  BY <1>1, <1>2, <1>3 DEF AllFilesDone, AtNext, AtExit
<1> QED BY <1>1, <1>4 DEF Inv, AllFilesDone

\* The file that is open.
LEMMA InFile ==
  ASSUME Inv, pc \in {"read", "test"}
  PROVE  /\ args \in Seq(Files) /\ closed = TRUE /\ status = "ok"
         /\ \E n \in 1 .. Len(args) : /\ args[n] \in Files
                                      /\ OutsTo(args, n-1) \in Seq(Nat)
                                      /\ OutsTo(args, n) = OutsTo(args, n-1) \o Output(args[n])
                                      /\ \E p \in 0 .. Len(Seen(args[n])) : Within(n, p)
<1>1. args \in Seq(Files) /\ closed = TRUE /\ AtFile
  BY DEF Inv, AtNext, AtExit
<1>2. PICK n \in 1 .. Len(args) : \E p \in 0 .. Len(Seen(args[n])) : Within(n, p)
  BY <1>1 DEF AtFile
<1>3. Len(args) \in Nat /\ n \in 0 .. Len(args) /\ n-1 \in 0 .. Len(args) /\ n # 0
  BY <1>1, <1>2, LenProperties
<1>4. args[n] \in Files
  BY <1>1, <1>2, ElementOfSeq
<1>5. OutsTo(args, n-1) \in Seq(Nat)
  <2> DEFINE k == n-1
  <2>1. k \in 0 .. Len(args)
    BY <1>3
  <2> HIDE DEF k
  <2>2. OutsTo(args, k) \in Seq(Nat)
    BY <1>1, <2>1, OutsMore
  <2> QED BY <2>2 DEF k
<1>6. OutsTo(args, n) = OutsTo(args, n-1) \o Output(args[n])
  BY <1>1, <1>3, OutsMore
<1> QED BY <1>1, <1>2, <1>4, <1>5, <1>6 DEF AtFile

LEMMA GetlineInv ==
  ASSUME Inv, Getline, UNCHANGED args
  PROVE  Inv'
<1>1. pc = "read" /\ pc \in {"read", "test"}
  BY DEF Getline
<1>2. args \in Seq(Files) /\ closed = TRUE /\ status = "ok"
  BY <1>1, InFile
<1>3. PICK n \in 1 .. Len(args) : /\ args[n] \in Files
                                  /\ \E p \in 0 .. Len(Seen(args[n])) : Within(n, p)
  BY <1>1, InFile
<1> DEFINE f == args[n]
<1>4. PICK p \in 0 .. Len(Seen(f)) : Within(n, p)
  BY <1>3
<1>5. f \in Files /\ f.lines \in Seq(Lines) /\ f.nl \in BOOLEAN /\ Len(f.lines) \in Nat
  BY <1>3, FileIs, LenProperties
<1>6. nl = f.nl /\ f.found /\ stream = Rest(f.lines, p)
  BY <1>1, <1>4 DEF Within, Reading, Testing
<1>7. Seen(f) \in Seq(Lines) /\ Len(Seen(f)) \in Nat /\ p \in Nat /\ p <= Len(Seen(f))
  BY <1>4, <1>5, SeenIs, LenProperties
<1>8. /\ Len(Seen(f)) = IF f.nl \/ Len(f.lines) = 0 THEN Len(f.lines) ELSE Len(f.lines)-1
      /\ \A k \in 1 .. Len(Seen(f)) : Seen(f)[k] = f.lines[k]
  BY <1>5, <1>6, SeenIs
<1>9. /\ pc' = "test" /\ queue' = queue /\ closed' = closed /\ nl' = nl /\ out' = out
      /\ status' = status /\ args' = args
  BY DEF Getline
<1> HIDE DEF f
<1>10. p \in 0 .. Len(f.lines)
  BY <1>5, <1>7, <1>8
<1>11. Len(stream) = Len(f.lines)-p /\ (stream = << >> <=> p = Len(f.lines))
  BY <1>5, <1>6, <1>10, RestIs
<1>12. Testing(f, p)'
  <2>1. CASE /\ stream # << >> /\ line' = Head(stream) /\ stream' = Tail(stream) /\ eof' = AtEof
    <3>1. p < Len(f.lines)
      BY <1>5, <1>10, <1>11, <2>1
    <3>2. Head(stream) = f.lines[p+1] /\ Tail(stream) = Rest(f.lines, p+1)
      BY <1>5, <1>6, <1>7, <3>1, RestTail
    <3>3. eof' \in BOOLEAN /\ (eof' <=> Len(f.lines)-p = 1 /\ ~ f.nl)
      BY <1>6, <1>11, <2>1 DEF AtEof
    <3>4. eof' => p = Len(Seen(f))
      BY <1>5, <1>7, <1>8, <3>1, <3>3
    <3>5. ~ eof' => p < Len(Seen(f))
      BY <1>5, <1>7, <1>8, <3>1, <3>3
    <3>6. ~ eof' => line' = Seen(f)[p+1]
      <4>1. ~ eof' => p+1 \in 1 .. Len(Seen(f))
        BY <1>7, <3>5
      <4> QED BY <1>8, <2>1, <3>2, <4>1
    <3> QED BY <1>9, <2>1, <3>2, <3>3, <3>4, <3>5, <3>6 DEF Testing, f
  <2>2. CASE stream = << >> /\ eof' = TRUE
    <3>1. p = Len(f.lines)
      BY <1>11, <2>2
    <3>2. p = Len(Seen(f))
      BY <1>5, <1>7, <1>8, <3>1
    <3> QED BY <1>9, <2>2, <3>2 DEF Testing, f
  <2> QED BY <2>1, <2>2 DEF Getline
<1>13. Within(n, p)'
  BY <1>4, <1>9, <1>12 DEF Within, f
<1>14. AtFile'
  BY <1>2, <1>4, <1>9, <1>13 DEF AtFile, f
<1> QED BY <1>2, <1>9, <1>14 DEF Inv

\* The loop is left at the end of the file or at a `quit'.
LEMMA LeaveLoopInv ==
  ASSUME Inv, LeaveLoop, UNCHANGED args
  PROVE  Inv'
<1>1. pc = "test" /\ pc \in {"read", "test"} /\ ~ InLoop
  BY DEF LeaveLoop
<1>2. args \in Seq(Files) /\ closed = TRUE /\ status = "ok"
  BY <1>1, InFile
<1>3. PICK n \in 1 .. Len(args) : /\ args[n] \in Files
                                  /\ OutsTo(args, n) = OutsTo(args, n-1) \o Output(args[n])
                                  /\ \E p \in 0 .. Len(Seen(args[n])) : Within(n, p)
  BY <1>1, InFile
<1> DEFINE f == args[n]
<1>4. PICK p \in 0 .. Len(Seen(f)) : Within(n, p)
  BY <1>3
<1>5. /\ queue = Rest(args, n) /\ NoneFails(args, n-1) /\ Clean(f, p)
      /\ out = OutsTo(args, n-1) \o IdsTo(f, p) /\ Testing(f, p)
  BY <1>1, <1>4 DEF Within, Reading
<1>6. Output(f) = IdsTo(f, p) /\ ~ Fails(f)
  <2>1. CASE eof
    <3>1. p = Len(Seen(f))
      BY <1>5, <2>1 DEF Testing
    <3> QED BY <1>3, <1>5, <3>1, WholeFile
  <2>2. CASE ~ eof
    <3>1. line.kind = "quit" /\ p < Len(Seen(f)) /\ line = Seen(f)[p+1]
      BY <1>1, <1>5, <2>2 DEF InLoop, Testing
    <3>2. Stops(Seen(f)[p+1]) /\ Seen(f)[p+1].kind = "quit" /\ p \in Nat
      BY <3>1, <1>4 DEF Stops
    <3> HIDE DEF f
    <3>3. f \in Files
      BY <1>3 DEF f
    <3>4. Output(f) = IdsTo(f, p) /\ (Fails(f) <=> Seen(f)[p+1].kind # "quit")
      BY <1>5, <3>1, <3>2, <3>3, StoppedFile
    <3> QED BY <3>2, <3>4
  <2> QED BY <2>1, <2>2
<1>7. NoneFails(args, n)
  <2>1. ASSUME NEW i \in 1 .. n PROVE ~ Fails(args[i])
    <3>1. i = n \/ i \in 1 .. n-1
      BY <1>3
    <3> QED BY <1>5, <1>6, <3>1 DEF NoneFails
  <2> QED BY <2>1 DEF NoneFails
<1>8. out = OutsTo(args, n)
  BY <1>3, <1>5, <1>6
<1>9. n \in 0 .. Len(args)
  BY <1>3
<1>10. AtNext'
  BY <1>2, <1>5, <1>7, <1>8, <1>9 DEF AtNext, LeaveLoop
<1> QED BY <1>2, <1>10 DEF Inv, LeaveLoop

LEMMA CommentInv ==
  ASSUME Inv, Comment, UNCHANGED args
  PROVE  Inv'
<1>1. pc = "test" /\ pc \in {"read", "test"} /\ ~ eof /\ line.kind = "comment"
  BY DEF Comment, InLoop
<1>2. args \in Seq(Files) /\ closed = TRUE /\ status = "ok"
  BY <1>1, InFile
<1>3. PICK n \in 1 .. Len(args) : /\ args[n] \in Files
                                  /\ OutsTo(args, n-1) \in Seq(Nat)
                                  /\ \E p \in 0 .. Len(Seen(args[n])) : Within(n, p)
  BY <1>1, InFile
<1> DEFINE f == args[n]
<1>4. PICK p \in 0 .. Len(Seen(f)) : Within(n, p)
  BY <1>3
<1>5. /\ queue = Rest(args, n) /\ NoneFails(args, n-1) /\ Clean(f, p) /\ nl = f.nl
      /\ out = OutsTo(args, n-1) \o IdsTo(f, p) /\ Testing(f, p)
  BY <1>1, <1>4 DEF Within, Reading
<1>6. p \in Nat /\ p < Len(Seen(f)) /\ line = Seen(f)[p+1] /\ (f.found => stream = Rest(f.lines, p+1))
  BY <1>1, <1>4, <1>5 DEF Testing
<1>7. f.found /\ p+1 \in 0 .. Len(Seen(f)) /\ Clean(f, p+1) /\ IdsTo(f, p+1) = IdsTo(f, p)
  <2>1. f \in Files /\ Seen(f)[p+1].kind = "comment"
    BY <1>1, <1>3, <1>6
  <2> HIDE DEF f
  <2> QED BY <1>3, <1>5, <1>6, <2>1, Advance
<1>8. /\ pc' = "read" /\ queue' = queue /\ stream' = stream /\ closed' = closed /\ nl' = nl
      /\ out' = out /\ status' = status /\ args' = args
  BY DEF Comment, AfterComment
<1>9. Reading(f, p+1)'
  BY <1>6, <1>7, <1>8 DEF Reading
<1>10. Within(n, p+1)'
  BY <1>5, <1>7, <1>8, <1>9 DEF Within
<1>11. AtFile'
  BY <1>2, <1>3, <1>7, <1>8, <1>10 DEF AtFile
<1> QED BY <1>2, <1>8, <1>11 DEF Inv

LEMMA DisassembleInv ==
  ASSUME Inv, Disassemble, UNCHANGED args
  PROVE  Inv'
<1>1. pc = "test" /\ pc \in {"read", "test"} /\ ~ eof /\ line.kind = "insn"
  BY DEF Disassemble, InLoop
<1>2. args \in Seq(Files) /\ closed = TRUE /\ status = "ok"
  BY <1>1, InFile
<1>3. PICK n \in 1 .. Len(args) : /\ args[n] \in Files
                                  /\ OutsTo(args, n-1) \in Seq(Nat)
                                  /\ \E p \in 0 .. Len(Seen(args[n])) : Within(n, p)
  BY <1>1, InFile
<1> DEFINE f == args[n]
<1>4. PICK p \in 0 .. Len(Seen(f)) : Within(n, p)
  BY <1>3
<1>5. /\ queue = Rest(args, n) /\ NoneFails(args, n-1) /\ Clean(f, p) /\ nl = f.nl
      /\ out = OutsTo(args, n-1) \o IdsTo(f, p) /\ Testing(f, p)
  BY <1>1, <1>4 DEF Within, Reading
<1>6. p \in Nat /\ p < Len(Seen(f)) /\ line = Seen(f)[p+1] /\ (f.found => stream = Rest(f.lines, p+1))
  BY <1>1, <1>4, <1>5 DEF Testing
<1>7. /\ f.found /\ p+1 \in 0 .. Len(Seen(f)) /\ Clean(f, p+1)
      /\ OutsTo(args, n-1) \o IdsTo(f, p+1) = Append(OutsTo(args, n-1) \o IdsTo(f, p), Seen(f)[p+1].id)
  <2> DEFINE before == OutsTo(args, n-1)
  <2>1. f \in Files /\ Seen(f)[p+1].kind = "insn" /\ before \in Seq(Nat)
    BY <1>1, <1>3, <1>6
  <2>2. Seen(f)[p+1].kind \in {"insn", "comment"}
    BY <2>1
  <2> HIDE DEF f, before
  <2>3. /\ f.found /\ p+1 \in 0 .. Len(Seen(f)) /\ Clean(f, p+1)
        /\ before \o IdsTo(f, p+1) = Append(before \o IdsTo(f, p), Seen(f)[p+1].id)
    BY <1>5, <1>6, <2>1, <2>2, Advance
  <2> QED BY <2>3 DEF before
<1>8. /\ pc' = "read" /\ queue' = queue /\ stream' = stream /\ closed' = closed /\ nl' = nl
      /\ out' = Append(out, line.id) /\ status' = status /\ args' = args
  BY DEF Disassemble
<1>9. Reading(f, p+1)'
  BY <1>6, <1>7, <1>8 DEF Reading
<1>10. out' = OutsTo(args, n-1) \o IdsTo(f, p+1)
  BY <1>5, <1>6, <1>7, <1>8
<1>11. Within(n, p+1)'
  BY <1>5, <1>7, <1>8, <1>9, <1>10 DEF Within
<1>12. AtFile'
  BY <1>2, <1>3, <1>7, <1>8, <1>11 DEF AtFile
<1> QED BY <1>2, <1>8, <1>12 DEF Inv

\* The program ends at the line it cannot take.
LEMMA ErrorInv ==
  ASSUME Inv, RejectLine \/ CannotDecode, UNCHANGED args
  PROVE  Inv'
<1>1. pc = "test" /\ pc \in {"read", "test"} /\ ~ eof /\ line.kind \in {"bad", "undecodable"}
  BY DEF RejectLine, CannotDecode, InLoop
<1>2. args \in Seq(Files) /\ closed = TRUE
  BY <1>1, InFile
<1>3. PICK n \in 1 .. Len(args) : /\ args[n] \in Files
                                  /\ OutsTo(args, n) = OutsTo(args, n-1) \o Output(args[n])
                                  /\ \E p \in 0 .. Len(Seen(args[n])) : Within(n, p)
  BY <1>1, InFile
<1> DEFINE f == args[n]
<1>4. PICK p \in 0 .. Len(Seen(f)) : Within(n, p)
  BY <1>3
<1>5. NoneFails(args, n-1) /\ Clean(f, p) /\ out = OutsTo(args, n-1) \o IdsTo(f, p) /\ Testing(f, p)
  BY <1>1, <1>4 DEF Within, Reading
<1>6. p \in Nat /\ p < Len(Seen(f)) /\ line = Seen(f)[p+1]
  BY <1>1, <1>4, <1>5 DEF Testing
<1>7. Output(f) = IdsTo(f, p) /\ Fails(f)
  <2>1. f \in Files /\ Stops(Seen(f)[p+1]) /\ Seen(f)[p+1].kind # "quit"
    BY <1>1, <1>3, <1>6 DEF Stops
  <2> HIDE DEF f
  <2>2. Output(f) = IdsTo(f, p) /\ (Fails(f) <=> Seen(f)[p+1].kind # "quit")
    BY <1>5, <1>6, <2>1, StoppedFile
  <2> QED BY <2>1, <2>2
<1>8. out = OutsTo(args, n)
  BY <1>3, <1>5, <1>7
<1>9. status' # "ok" /\ pc' = "exit" /\ closed' = closed /\ out' = out /\ args' = args
  BY DEF RejectLine, CannotDecode
<1>10. AtExit'
  BY <1>3, <1>5, <1>7, <1>8, <1>9 DEF AtExit
<1> QED BY <1>2, <1>9, <1>10 DEF Inv

LEMMA NextInv ==
  ASSUME Inv, [Next]_vars
  PROVE  Inv'
<1>1. CASE UNCHANGED vars
  BY <1>1 DEF Inv, AtNext, AtFile, AtExit, Within, Reading, Testing, vars, dvars
<1>2. CASE Next
  <2>1. UNCHANGED args
    BY <1>2 DEF Next
  <2>2. CASE NextFile
    BY <2>1, <2>2, NextFileInv
  <2>3. CASE AllFilesDone
    BY <2>1, <2>3, AllFilesDoneInv
  <2>4. CASE Getline
    BY <2>1, <2>4, GetlineInv
  <2>5. CASE LeaveLoop
    BY <2>1, <2>5, LeaveLoopInv
  <2>6. CASE Comment
    BY <2>1, <2>6, CommentInv
  <2>7. CASE Disassemble
    BY <2>1, <2>7, DisassembleInv
  <2>8. CASE RejectLine \/ CannotDecode
    BY <2>1, <2>8, ErrorInv
  <2> QED BY <1>2, <2>2, <2>3, <2>4, <2>5, <2>6, <2>7, <2>8 DEF Next, DisNext
<1> QED BY <1>1, <1>2

\* What dishex printed when it ends is the assembly of the files it reached, whole
\* and in order, up to the line that stopped it, and it failed exactly when some
\* file has a line it cannot take (HexToAsm::run and main), whatever the files are.
THEOREM FilesRight == Spec => []OutputRight
<1>1. Init => Inv
  BY InitInv
<1>2. Inv /\ [Next]_vars => Inv'
  BY NextInv
<1>3. Inv => OutputRight
  BY InvImplies
<1> QED BY <1>1, <1>2, <1>3, PTL DEF Spec
-----------------------------------------------------------------------------
\* What lies behind Terminates without fairness.

\* What is left of the file that is open: a line is read and dealt with.
LeftOfFile == IF pc = "exit" THEN 0 ELSE IF pc = "next" THEN 1
              ELSE IF pc = "read" THEN 3 * Len(stream) + 3
              ELSE IF eof THEN 2 ELSE 3 * Len(stream) + 4

\* A file fewer, or less left of this one.
Advances == \/ Len(queue') < Len(queue)
            \/ Len(queue') = Len(queue) /\ LeftOfFile' < LeftOfFile

Typed == /\ args \in Seq(Files) /\ queue \in Seq(Files) /\ stream \in Seq(Lines)
         /\ eof \in BOOLEAN /\ pc \in {"next", "read", "test", "exit"}

Measured == Len(queue) \in Nat /\ LeftOfFile \in Nat

LEMMA MeasureFact ==
  ASSUME Typed
  PROVE  Measured
<1>1. Len(queue) \in Nat /\ Len(stream) \in Nat
  BY LenProperties DEF Typed
<1>2. LeftOfFile \in Nat
  BY <1>1 DEF LeftOfFile
<1> QED BY <1>1, <1>2 DEF Measured

LEMMA StepAdvances ==
  ASSUME Typed, Next
  PROVE  Typed' /\ Advances
<1>1. /\ args \in Seq(Files) /\ queue \in Seq(Files) /\ stream \in Seq(Lines) /\ args' = args
      /\ Len(queue) \in Nat /\ Len(stream) \in Nat /\ eof \in BOOLEAN
  BY LenProperties DEF Typed, Next
<1>2. CASE NextFile
  <2>1. queue # << >> /\ queue' = Tail(queue) /\ eof' = FALSE /\ stream' = Head(queue).lines
    BY <1>2 DEF NextFile, LaterFiles
  <2>2. Head(queue) \in Files /\ Tail(queue) \in Seq(Files) /\ Len(Tail(queue)) = Len(queue) - 1
    BY <1>1, <2>1, HeadTailProperties
  <2>3. Head(queue).lines \in Seq(Lines)
    <3> DEFINE f == Head(queue)
    <3>1. f \in Files
      BY <2>2
    <3> HIDE DEF f
    <3>2. f.lines \in Seq(Lines)
      BY <3>1, FileIs
    <3> QED BY <3>2 DEF f
  <2>4. pc' \in {"read", "test"}
    BY <1>2 DEF NextFile
  <2>5. Typed'
    BY <1>1, <2>1, <2>2, <2>3, <2>4 DEF Typed
  <2>6. Len(queue') < Len(queue)
    BY <1>1, <2>1, <2>2
  <2> QED BY <2>5, <2>6 DEF Advances
<1>3. CASE Getline
  <2>0. queue' = queue /\ pc = "read" /\ pc' = "test"
    BY <1>3 DEF Getline
  <2>1. CASE stream # << >> /\ stream' = Tail(stream) /\ eof' = AtEof
    <3>1. Tail(stream) \in Seq(Lines) /\ Len(Tail(stream)) = Len(stream) - 1
      BY <1>1, <2>1, HeadTailProperties
    <3>2. eof' \in BOOLEAN
      BY <2>1 DEF AtEof
    <3>3. Typed'
      BY <1>1, <2>0, <2>1, <3>1, <3>2 DEF Typed
    <3>4. LeftOfFile = 3 * Len(stream) + 3 /\ LeftOfFile' = IF eof' THEN 2 ELSE 3 * Len(stream') + 4
      BY <2>0 DEF LeftOfFile
    <3>5. LeftOfFile' < LeftOfFile
      BY <1>1, <2>1, <3>1, <3>2, <3>4
    <3> QED BY <2>0, <3>3, <3>5 DEF Advances
  <2>2. CASE stream' = stream /\ eof' = TRUE
    <3>1. Typed'
      BY <1>1, <2>0, <2>2 DEF Typed
    <3>2. LeftOfFile = 3 * Len(stream) + 3 /\ LeftOfFile' = 2
      BY <2>0, <2>2 DEF LeftOfFile
    <3>3. LeftOfFile' < LeftOfFile
      BY <1>1, <3>2
    <3> QED BY <2>0, <3>1, <3>3 DEF Advances
  <2> QED BY <1>3, <2>1, <2>2 DEF Getline
<1>4. CASE AllFilesDone \/ LeaveLoop \/ Comment \/ RejectLine \/ Disassemble \/ CannotDecode
  <2>1. queue' = queue /\ stream' = stream /\ eof' = eof
    BY <1>4 DEF AllFilesDone, LeaveLoop, Comment, RejectLine, Disassemble, CannotDecode
  <2>2. \/ pc = "next" /\ pc' = "exit"
        \/ pc = "test" /\ pc' \in {"next", "exit"}
        \/ pc = "test" /\ ~ eof /\ pc' = "read"
    BY <1>4 DEF AllFilesDone, LeaveLoop, Comment, AfterComment, RejectLine, Disassemble, CannotDecode, InLoop
  <2>3. Typed'
    BY <1>1, <2>1, <2>2 DEF Typed
  <2>4. LeftOfFile' < LeftOfFile
    BY <1>1, <2>1, <2>2 DEF LeftOfFile
  <2> QED BY <2>1, <2>3, <2>4 DEF Advances
<1> QED BY <1>2, <1>3, <1>4 DEF Next, DisNext

\* Each step of dishex brings it nearer to its end, for every list of files: with
\* each it has a file fewer to open or less to read of the one that is open, and
\* nothing (a comment, a line that is empty, a file that does not exist) makes it
\* go round for nothing (HexToAsm::run, main).
THEOREM EachStepAdvances == Spec => []Measured /\ [][Advances]_vars
<1>1. Init => Typed
  <2> SUFFICES ASSUME Init PROVE Typed
    OBVIOUS
  <2>1. args \in Seq(Files) /\ queue = args /\ stream = << >> /\ eof = FALSE /\ pc = "next"
    BY FilesAssumption DEF Init
  <2>2. << >> \in Seq(Lines)
    OBVIOUS
  <2> QED BY <2>1, <2>2 DEF Typed
<1>2. Typed /\ [Next]_vars => Typed' /\ [Advances]_vars
  <2>1. Typed /\ UNCHANGED vars => Typed'
    BY DEF Typed, vars, dvars
  <2> QED BY <2>1, StepAdvances
<1>3. Typed => Measured
  BY MeasureFact
<1> QED BY <1>1, <1>2, <1>3, PTL DEF Spec
=============================================================================
