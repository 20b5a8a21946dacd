-------------------------- MODULE SanPrintfProofs --------------------------
(***************************************************************************)
(* What printf of sanitizer_printf.cpp prints is what C asks for, for every *)
(* list of supported formats and every length of the buffer.               *)
(***************************************************************************)
EXTENDS SanPrintf, SequenceTheorems, WellFoundedInduction, TLAPS

-----------------------------------------------------------------------------
\* Arithmetic.

\* A set of numbers has a least one: what stands in for induction below.
Below == {p \in Nat \X Nat : p[1] < p[2]}

LEMMA LeastOf ==
  ASSUME NEW S \in SUBSET Nat, S # {}
  PROVE  \E m \in S : \A y \in S : m <= y
<1>1. IsWellFoundedOn(Below, Nat)
  BY NatLessThanWellFounded DEF OpToRel, Below
<1>2. PICK m \in S : \A y \in S : ~ (<<y, m>> \in Below)
  BY <1>1, WFMin
<1>3. ASSUME NEW y \in S PROVE m <= y
  <2>1. y < m => <<y, m>> \in Below
    BY DEF Below
  <2>2. ~ (y < m)
    BY <1>2, <2>1
  <2> QED BY <2>2
<1> QED BY <1>3

LEMMA Division ==
  ASSUME NEW v \in Nat, NEW c \in Nat \ {0}
  PROVE  /\ v \div c \in Nat /\ v % c \in 0 .. c-1
         /\ v = c * (v \div c) + (v % c)
<1>1. v \div c \in Nat /\ v % c \in 0 .. c-1
  BY SMT
<1>2. v = c * (v \div c) + (v % c)
  BY SMT
<1> QED BY <1>1, <1>2

LEMMA DivisionLess ==
  ASSUME NEW v \in Nat, v > 0, NEW b \in {10, 16}
  PROVE  v \div b < v
<1>1. CASE b = 10
  BY <1>1, SMT
<1>2. CASE b = 16
  BY <1>2, SMT
<1> QED BY <1>1, <1>2

LEMMA DivisionUnique ==
  ASSUME NEW v \in Nat, NEW c \in Nat \ {0}, NEW q \in Nat, NEW r \in Nat,
         v = c * q + r, r < c
  PROVE  v \div c = q
BY SMT

LEMMA DivisionTwice ==
  ASSUME NEW v \in Nat, NEW b \in {10, 16}, NEW c \in Nat \ {0}
  PROVE  (v \div b) \div c = v \div (b * c)
<1> DEFINE q == v \div b
           s == q \div c
           r == v % b
           t == q % c
<1>1. q \in Nat /\ r \in 0 .. b-1 /\ v = b * q + r
  BY Division
<1>2. s \in Nat /\ t \in 0 .. c-1 /\ q = c * s + t
  BY <1>1, Division
<1>3. b * c \in Nat \ {0} /\ b * t + r \in Nat
  BY <1>1, <1>2, SMT
<1>4. v = (b * c) * s + (b * t + r) /\ b * t + r < b * c
  <2> HIDE DEF q, s, r, t
  <2>1. CASE b = 10
    BY <1>1, <1>2, <2>1, SMT
  <2>2. CASE b = 16
    BY <1>1, <1>2, <2>2, SMT
  <2> QED BY <2>1, <2>2
<1>5. v \div (b * c) = s
  <2> HIDE DEF q, s, r, t
  <2> DEFINE d == b * c
             e == b * t + r
  <2>1. d \in Nat \ {0} /\ e \in Nat /\ v = d * s + e /\ e < d
    BY <1>3, <1>4
  <2> HIDE DEF d, e
  <2>2. v \div d = s
    BY <2>1, <1>2, DivisionUnique
  <2> QED BY <2>2 DEF d
<1> QED BY <1>5

\* p holds the powers of base up to the k-th: the recursive function of Power.
IsPowers(base, k, p) == p = [j \in 0 .. k |-> IF j = 0 THEN 1 ELSE base * p[j-1]]

LEMMA PowerIs ==
  ASSUME NEW base, NEW k
  PROVE  Power(base, k) = (CHOOSE p : IsPowers(base, k, p))[k]
BY DEF Power, IsPowers

LEMMA PowersAt ==
  ASSUME NEW base, NEW k \in Nat, NEW p, IsPowers(base, k, p), NEW j \in 0 .. k
  PROVE  /\ j = 0 => p[j] = 1
         /\ j # 0 => p[j] = base * p[j-1]
BY DEF IsPowers

LEMMA PowersExist ==
  ASSUME NEW base, NEW k \in Nat
  PROVE  \E p : IsPowers(base, k, p)
<1> DEFINE Bad == {m \in Nat : ~ \E p : IsPowers(base, m, p)}
<1>1. SUFFICES ASSUME Bad # {} PROVE FALSE
  OBVIOUS
<1>2. PICK m \in Bad : \A y \in Bad : m <= y
  <2> Bad \in SUBSET Nat
    OBVIOUS
  <2> HIDE DEF Bad
  <2> QED BY <1>1, LeastOf
<1>3. m \in Nat /\ ~ \E p : IsPowers(base, m, p)
  OBVIOUS
<1>4. m # 0
  <2> IsPowers(base, 0, [j \in 0 .. 0 |-> 1])
    BY DEF IsPowers
  <2> QED BY <1>3
<1>5. PICK p : IsPowers(base, m-1, p)
  BY <1>2, <1>3, <1>4
<1> DEFINE q == [j \in 0 .. m |-> IF j < m THEN p[j] ELSE base * p[m-1]]
<1>6. q = [j \in 0 .. m |-> IF j = 0 THEN 1 ELSE base * q[j-1]]
  <2>1. ASSUME NEW j \in 0 .. m PROVE q[j] = IF j = 0 THEN 1 ELSE base * q[j-1]
    <3>1. CASE j = m
      BY <3>1, <1>3, <1>4
    <3>2. CASE j # m
      <4>1. j \in 0 .. m-1 /\ m-1 \in Nat
        BY <3>2, <1>3, <1>4
      <4>2. (j = 0 => p[j] = 1) /\ (j # 0 => p[j] = base * p[j-1])
        BY <1>5, <4>1, PowersAt
      <4>3. q[j] = p[j] /\ (j # 0 => q[j-1] = p[j-1])
        BY <4>1, <1>3
      <4> HIDE DEF q
      <4> QED BY <4>2, <4>3
    <3> QED BY <3>1, <3>2
  <2> DEFINE h == [j \in 0 .. m |-> IF j = 0 THEN 1 ELSE base * q[j-1]]
  <2>2. q = [j \in 0 .. m |-> q[j]] /\ h = [j \in 0 .. m |-> h[j]]
    OBVIOUS
  <2>3. \A j \in 0 .. m : q[j] = h[j]
    <3> HIDE DEF q
    <3> QED BY <2>1
  <2>4. q = h
    <3> HIDE DEF q, h
    <3> QED BY <2>2, <2>3
  <2> HIDE DEF q
  <2> QED BY <2>4
<1>7. IsPowers(base, m, q)
  <2> HIDE DEF q
  <2> QED BY <1>6 DEF IsPowers
<1> QED BY <1>3, <1>7

LEMMA PowersAgree ==
  ASSUME NEW base, NEW k \in Nat, NEW m \in Nat, m <= k, NEW p, NEW q,
         IsPowers(base, k, p), IsPowers(base, m, q), NEW n \in 0 .. m
  PROVE  p[n] = q[n]
<1> DEFINE Bad == {j \in 0 .. m : p[j] # q[j]}
<1>1. SUFFICES ASSUME Bad # {} PROVE FALSE
  OBVIOUS
<1>2. PICK j \in Bad : \A y \in Bad : j <= y
  <2> Bad \in SUBSET Nat
    OBVIOUS
  <2> HIDE DEF Bad
  <2> QED BY <1>1, LeastOf
<1>3. j \in 0 .. m /\ j \in 0 .. k /\ p[j] # q[j]
  OBVIOUS
<1>4. j # 0 => p[j-1] = q[j-1]
  BY <1>2, <1>3
<1>5. /\ j = 0 => p[j] = 1 /\ q[j] = 1
      /\ j # 0 => p[j] = base * p[j-1] /\ q[j] = base * q[j-1]
  BY <1>3, PowersAt
<1> QED BY <1>3, <1>4, <1>5

LEMMA PowerAt ==
  ASSUME NEW base \in Nat, NEW k \in Nat
  PROVE  /\ Power(base, 0) = 1
         /\ Power(base, k+1) = base * Power(base, k)
<1> DEFINE n == k + 1
<1>1. n \in Nat /\ n # 0 /\ n - 1 = k /\ k \in 0 .. k /\ k \in 0 .. n /\ n \in 0 .. n /\ k <= n
  OBVIOUS
<1>2. Power(base, 0) = 1
  <2>1. PICK p : IsPowers(base, 0, p) /\ Power(base, 0) = p[0]
    BY PowersExist, PowerIs
  <2> QED BY <2>1, PowersAt
<1> HIDE DEF n
<1>3. PICK p : IsPowers(base, n, p) /\ Power(base, n) = p[n]
  BY <1>1, PowersExist, PowerIs
<1>4. PICK q : IsPowers(base, k, q) /\ Power(base, k) = q[k]
  BY PowersExist, PowerIs
<1>5. p[n] = base * p[n-1]
  BY <1>1, <1>3 DEF IsPowers
<1>6. p[k] = q[k]
  BY <1>1, <1>3, <1>4, PowersAgree
<1>7. Power(base, n) = base * Power(base, k)
  BY <1>1, <1>3, <1>4, <1>5, <1>6
<1> QED BY <1>2, <1>7 DEF n

LEMMA PowerAbove ==
  ASSUME NEW b \in {10, 16}, NEW k \in Nat
  PROVE  Power(b, k) \in Nat /\ Power(b, k) > k
<1> DEFINE Bad == {m \in Nat : ~ (Power(b, m) \in Nat /\ Power(b, m) > m)}
<1>1. SUFFICES ASSUME Bad # {} PROVE FALSE
  OBVIOUS
<1>2. PICK m \in Bad : \A y \in Bad : m <= y
  <2> Bad \in SUBSET Nat
    OBVIOUS
  <2> HIDE DEF Bad
  <2> QED BY <1>1, LeastOf
<1>3. m \in Nat /\ ~ (Power(b, m) \in Nat /\ Power(b, m) > m)
  OBVIOUS
<1>4. m # 0
  BY <1>3, PowerAt
<1> DEFINE j == m - 1
<1>5. j \in Nat /\ j + 1 = m
  BY <1>3, <1>4
<1>6. Power(b, j) \in Nat /\ Power(b, j) > j
  BY <1>2, <1>5
<1>7. Power(b, m) = b * Power(b, j)
  <2> HIDE DEF j
  <2>1. Power(b, j+1) = b * Power(b, j)
    BY <1>5, PowerAt
  <2> QED BY <1>5, <2>1
<1> HIDE DEF j
<1>8. CASE b = 10
  BY <1>3, <1>5, <1>6, <1>7, <1>8, SMT
<1>9. CASE b = 16
  BY <1>3, <1>5, <1>6, <1>7, <1>9, SMT
<1> QED BY <1>8, <1>9

LEMMA PowerGrows ==
  ASSUME NEW b \in {10, 16}, NEW k \in Nat, NEW j \in Nat, j <= k
  PROVE  Power(b, j) <= Power(b, k)
<1> DEFINE Bad == {m \in Nat : j <= m /\ ~ (Power(b, j) <= Power(b, m))}
<1>1. SUFFICES ASSUME Bad # {} PROVE FALSE
  OBVIOUS
<1>2. PICK m \in Bad : \A y \in Bad : m <= y
  <2> Bad \in SUBSET Nat
    OBVIOUS
  <2> HIDE DEF Bad
  <2> QED BY <1>1, LeastOf
<1>3. m \in Nat /\ j <= m /\ ~ (Power(b, j) <= Power(b, m))
  OBVIOUS
<1>4. m # j
  BY <1>3, PowerAbove
<1> DEFINE i == m - 1
<1>5. i \in Nat /\ i + 1 = m /\ j <= i
  BY <1>3, <1>4
<1>6. Power(b, j) <= Power(b, i)
  BY <1>2, <1>5
<1> HIDE DEF i
<1>7. Power(b, i+1) = b * Power(b, i) /\ Power(b, i) \in Nat /\ Power(b, j) \in Nat
  <2>1. Power(b, i+1) = b * Power(b, i)
    BY <1>5, PowerAt
  <2>2. Power(b, i) \in Nat /\ Power(b, j) \in Nat
    BY <1>5, PowerAbove
  <2> QED BY <2>1, <2>2
<1>8. Power(b, m) = b * Power(b, i)
  BY <1>5, <1>7
<1> QED BY <1>3, <1>6, <1>7, <1>8, SMT

\* k digits are enough for v, and no fewer.
IsSize(v, b, k) == v < Power(b, k) /\ (k > 1 => v >= Power(b, k-1))

LEMMA SizeIs ==
  ASSUME NEW v \in Nat, NEW b \in {10, 16}
  PROVE  CSize(v, b) \in 1 .. v+1 /\ IsSize(v, b, CSize(v, b))
<1> DEFINE Enough == {m \in Nat : m >= 1 /\ v < Power(b, m)}
<1>1. v+1 \in Enough
  <2> DEFINE n == v + 1
  <2>1. n \in Nat /\ n >= 1 /\ v < n
    OBVIOUS
  <2> HIDE DEF n
  <2>2. Power(b, n) \in Nat /\ Power(b, n) > n
    BY <2>1, PowerAbove
  <2>3. n \in Enough
    BY <2>1, <2>2
  <2> HIDE DEF Enough
  <2> QED BY <2>3 DEF n
<1>2. PICK m \in Enough : \A y \in Enough : m <= y
  <2> Enough \in SUBSET Nat
    OBVIOUS
  <2> HIDE DEF Enough
  <2> QED BY <1>1, LeastOf
<1>3. m \in 1 .. v+1 /\ v < Power(b, m)
  <2>1. m <= v+1
    BY <1>1, <1>2
  <2> QED BY <2>1
<1>4. m > 1 => v >= Power(b, m-1)
  <2> SUFFICES ASSUME m > 1 PROVE v >= Power(b, m-1)
    OBVIOUS
  <2> DEFINE i == m - 1
  <2>1. i \in Nat /\ i >= 1 /\ i < m
    BY <1>3
  <2>2. i \notin Enough
    <3> HIDE DEF i
    <3> QED BY <1>2, <1>3, <2>1
  <2>3. v >= Power(b, i)
    <3> HIDE DEF i
    <3>1. Power(b, i) \in Nat
      BY <2>1, PowerAbove
    <3> QED BY <2>1, <2>2, <3>1
  <2> QED BY <2>3
<1>5. IsSize(v, b, m)
  BY <1>3, <1>4 DEF IsSize
<1>6. CSize(v, b) = CHOOSE k \in 1 .. v+1 : IsSize(v, b, k)
  BY DEF CSize, IsSize
<1> QED BY <1>3, <1>5, <1>6

LEMMA SizeUnique ==
  ASSUME NEW v \in Nat, NEW b \in {10, 16}, NEW k \in Nat \ {0}, IsSize(v, b, k)
  PROVE  CSize(v, b) = k
<1> DEFINE c == CSize(v, b)
<1>1. c \in Nat \ {0} /\ IsSize(v, b, c)
  BY SizeIs
<1> HIDE DEF c
<1>2. ASSUME NEW i \in Nat \ {0}, NEW j \in Nat \ {0}, IsSize(v, b, i), IsSize(v, b, j)
      PROVE  ~ (i < j)
  <2> SUFFICES ASSUME i < j PROVE FALSE
    OBVIOUS
  <2> DEFINE h == j - 1
  <2>1. h \in Nat /\ i <= h /\ j > 1
    OBVIOUS
  <2>2. v < Power(b, i) /\ v >= Power(b, h)
    BY <1>2, <2>1 DEF IsSize
  <2> HIDE DEF h
  <2>3. Power(b, i) <= Power(b, h) /\ Power(b, i) \in Nat /\ Power(b, h) \in Nat
    BY <2>1, PowerGrows, PowerAbove
  <2> QED BY <2>2, <2>3, SMT
<1>3. ~ (c < k) /\ ~ (k < c)
  BY <1>1, <1>2
<1> QED BY <1>1, <1>3 DEF c

LEMMA SizeOfOne ==
  ASSUME NEW v \in Nat, NEW b \in {10, 16}, v \div b = 0
  PROVE  CSize(v, b) = 1
<1>1. Power(b, 1) = b
  <2>1. Power(b, 0) = 1 /\ Power(b, 0+1) = b * Power(b, 0)
    BY PowerAt
  <2> QED BY <2>1
<1>2. v < b
  <2>1. CASE b = 10
    BY <2>1, SMT
  <2>2. CASE b = 16
    BY <2>2, SMT
  <2> QED BY <2>1, <2>2
<1>3. IsSize(v, b, 1)
  BY <1>1, <1>2 DEF IsSize
<1> QED BY <1>3, SizeUnique

LEMMA SizeOfMore ==
  ASSUME NEW v \in Nat, NEW b \in {10, 16}, v \div b > 0
  PROVE  CSize(v, b) = CSize(v \div b, b) + 1
<1> DEFINE q == v \div b
           k == CSize(q, b)
           r == v % b
<1>1. q \in Nat /\ q > 0 /\ r \in 0 .. b-1 /\ v = b * q + r
  BY Division
<1>2. k \in Nat \ {0} /\ IsSize(q, b, k)
  <2> HIDE DEF q
  <2> QED BY <1>1, SizeIs
<1> HIDE DEF q, k, r
<1>3. Power(b, k+1) = b * Power(b, k) /\ Power(b, k) \in Nat
  <2>1. Power(b, k+1) = b * Power(b, k)
    BY <1>2, PowerAt
  <2> QED BY <1>2, <2>1, PowerAbove
<1>4. q < Power(b, k)
  BY <1>2 DEF IsSize
<1>5. v < Power(b, k+1)
  <2>1. CASE b = 10
    BY <1>1, <1>3, <1>4, <2>1, SMT
  <2>2. CASE b = 16
    BY <1>1, <1>3, <1>4, <2>2, SMT
  <2> QED BY <2>1, <2>2
<1>6. v >= Power(b, k)
  <2> DEFINE h == k - 1
  <2>1. h \in Nat /\ k = h + 1
    BY <1>2
  <2>2. k > 1 => q >= Power(b, h)
    BY <1>2 DEF IsSize
  <2>3. k = 1 => h = 0
    BY <2>1
  <2> HIDE DEF h
  <2>4. Power(b, h+1) = b * Power(b, h) /\ Power(b, h) \in Nat /\ Power(b, 0) = 1
    BY <2>1, PowerAt, PowerAbove
  <2>5. q >= Power(b, h)
    <3>1. CASE k = 1
      BY <3>1, <2>3, <2>4, <1>1
    <3>2. CASE k # 1
      BY <3>2, <1>2, <2>2
    <3> QED BY <3>1, <3>2
  <2>6. Power(b, k) = b * Power(b, h)
    BY <2>1, <2>4
  <2>7. CASE b = 10
    BY <1>1, <2>4, <2>5, <2>6, <2>7, SMT
  <2>8. CASE b = 16
    BY <1>1, <2>4, <2>5, <2>6, <2>8, SMT
  <2> QED BY <2>7, <2>8
<1>7. IsSize(v, b, k+1)
  <2>1. (k+1) - 1 = k
    BY <1>2
  <2> QED BY <1>5, <1>6, <2>1 DEF IsSize
<1>8. CSize(v, b) = k+1
  <2> DEFINE n == k + 1
  <2>1. n \in Nat \ {0} /\ IsSize(v, b, n)
    BY <1>2, <1>7
  <2> HIDE DEF n
  <2>2. CSize(v, b) = n
    BY <2>1, SizeUnique
  <2> QED BY <2>2 DEF n
<1> QED BY <1>8 DEF k, q

-----------------------------------------------------------------------------
\* The digits of a number.

\* The digits that the do loop of AppendNumber leaves in num_buffer.
Digits(v, b) == [i \in 1 .. CSize(v, b) |-> (v \div Power(b, i-1)) % b]

\* d are the digits of w, and e those of w \div b.
IsStep(w, b, d, e) == d = <<w % b>> \o IF w \div b > 0 THEN e ELSE << >>
IsNumBuffer(v, b, f) ==
    f = [w \in 0 .. v |-> <<w % b>> \o IF w \div b > 0 THEN f[w \div b] ELSE << >>]

LEMMA NumBufferIs ==
  ASSUME NEW v, NEW b
  PROVE  NumBuffer(v, b) = (CHOOSE f : IsNumBuffer(v, b, f))[v]
BY DEF NumBuffer, IsNumBuffer

LEMMA DigitsType ==
  ASSUME NEW v \in Nat, NEW b \in {10, 16}
  PROVE  /\ Digits(v, b) \in Seq(0 .. b-1)
         /\ Len(Digits(v, b)) = CSize(v, b) /\ CSize(v, b) \in Nat \ {0}
         /\ \A i \in 1 .. CSize(v, b) : Digits(v, b)[i] = (v \div Power(b, i-1)) % b
<1>1. CSize(v, b) \in Nat \ {0}
  BY SizeIs
<1>2. ASSUME NEW i \in 1 .. CSize(v, b) PROVE (v \div Power(b, i-1)) % b \in 0 .. b-1
  <2> DEFINE j == i - 1
             p == Power(b, j)
             q == v \div p
  <2>1. j \in Nat
    BY <1>1
  <2>2. p \in Nat \ {0}
    <3> HIDE DEF j
    <3> QED BY <2>1, PowerAbove
  <2>3. q \in Nat
    <3> HIDE DEF p
    <3> QED BY <2>2, Division
  <2>4. q % b \in 0 .. b-1
    <3>1. b \in Nat \ {0}
      OBVIOUS
    <3> HIDE DEF q
    <3> QED BY <2>3, <3>1, Division
  <2> QED BY <2>4
<1> QED BY <1>1, <1>2 DEF Digits

LEMMA DigitsStep ==
  ASSUME NEW v \in Nat, NEW b \in {10, 16}
  PROVE  IsStep(v, b, Digits(v, b), Digits(v \div b, b))
<1> DEFINE q == v \div b
           k == CSize(v, b)
<1>1. q \in Nat /\ k \in Nat \ {0} /\ v % b \in 0 .. b-1
  <2>1. b \in Nat \ {0}
    OBVIOUS
  <2> QED BY <2>1, Division, DigitsType
<1>2. Digits(v, b)[1] = v % b
  <2>1. 1 \in 1 .. k /\ 1 - 1 = 0
    BY <1>1
  <2>2. Digits(v, b)[1] = (v \div Power(b, 1-1)) % b
    BY <2>1, DigitsType
  <2>3. v \div 1 = v
    BY SMT
  <2> QED BY <2>1, <2>2, <2>3, PowerAt
<1>3. CASE ~ (q > 0)
  <2>1. k = 1
    BY <1>1, <1>3, SizeOfOne
  <2>2. Digits(v, b) = <<v % b>>
    <3> DEFINE d == Digits(v, b)
    <3>1. d \in Seq(0 .. b-1) /\ Len(d) = 1 /\ d[1] = v % b
      BY <1>2, <2>1, DigitsType
    <3> HIDE DEF d
    <3>2. d = <<v % b>>
      BY <3>1
    <3> QED BY <3>2 DEF d
  <2> QED BY <1>1, <1>3, <2>2 DEF IsStep
<1>4. CASE q > 0
  <2> DEFINE n == CSize(q, b)
             s == Digits(q, b)
             t == <<v % b>> \o s
  <2>1. k = n + 1 /\ n \in Nat \ {0}
    <3>1. k = n + 1
      BY <1>4, SizeOfMore
    <3> HIDE DEF q
    <3> QED BY <1>1, <3>1, DigitsType
  <2>2. s \in Seq(0 .. b-1) /\ Len(s) = n
    <3> HIDE DEF q
    <3> QED BY <1>1, DigitsType
  <2>3. t \in Seq(0 .. b-1) /\ Len(t) = k /\ t[1] = v % b /\ \A i \in 2 .. k : t[i] = s[i-1]
    <3> HIDE DEF s, n, k, q
    <3> QED BY <1>1, <2>1, <2>2
  <2>4. ASSUME NEW i \in 2 .. k PROVE Digits(v, b)[i] = s[i-1]
    <3> DEFINE j == i - 1
               h == j - 1
    <3>1. j \in 1 .. n /\ h \in Nat /\ h + 1 = j /\ i \in 1 .. k
      <4> HIDE DEF k, n
      <4> QED BY <2>1
    <3>2. Digits(v, b)[i] = (v \div Power(b, j)) % b
      BY <3>1, DigitsType
    <3>3. s[j] = (q \div Power(b, h)) % b
      <4> HIDE DEF j, q
      <4> QED BY <1>1, <3>1, DigitsType
    <3>4. Power(b, j) = b * Power(b, h) /\ Power(b, h) \in Nat \ {0}
      <4> HIDE DEF h, j
      <4>1. Power(b, h+1) = b * Power(b, h)
        BY <3>1, PowerAt
      <4>2. Power(b, h) \in Nat /\ Power(b, h) > h
        BY <3>1, PowerAbove
      <4> QED BY <3>1, <4>1, <4>2
    <3> DEFINE p == Power(b, h)
    <3>5. q \div p = v \div (b * p)
      <4>1. p \in Nat \ {0}
        BY <3>4
      <4> HIDE DEF p
      <4> QED BY <4>1, DivisionTwice
    <3> QED BY <3>2, <3>3, <3>4, <3>5
  <2>5. Digits(v, b) \in Seq(0 .. b-1) /\ Len(Digits(v, b)) = k
    BY DigitsType
  <2>6. Digits(v, b) = t
    <3> DEFINE d == Digits(v, b)
    <3>1. d \in Seq(0 .. b-1) /\ Len(d) = k /\ d[1] = v % b /\ \A i \in 2 .. k : d[i] = s[i-1]
      BY <1>2, <2>4, <2>5
    <3> HIDE DEF d, t, s, k, q, n
    <3>2. \A i \in 1 .. k : d[i] = t[i]
      BY <3>1, <2>3, <1>1
    <3>3. d = t
      BY <3>1, <3>2, <2>3, <1>1, SeqEqual
    <3> QED BY <3>3 DEF d
  <2> QED BY <1>4, <2>6 DEF IsStep
<1> QED BY <1>3, <1>4

LEMMA NumBufferDigits ==
  ASSUME NEW v \in Nat, NEW b \in {10, 16}
  PROVE  NumBuffer(v, b) = Digits(v, b)
<1> DEFINE g == [w \in 0 .. v |-> Digits(w, b)]
<1>1. IsNumBuffer(v, b, g)
  <2> DEFINE h == [w \in 0 .. v |-> <<w % b>> \o IF w \div b > 0 THEN g[w \div b] ELSE << >>]
  <2>1. ASSUME NEW w \in 0 .. v PROVE g[w] = h[w]
    <3>1. w \div b \in Nat /\ (w \div b > 0 => w \div b \in 0 .. v)
      <4>1. w \div b \in Nat
        BY Division
      <4>2. w > 0 => w \div b < w
        BY DivisionLess
      <4>3. w = 0 => w \div b = 0
        <5>1. CASE b = 10
          BY <5>1, SMT
        <5>2. CASE b = 16
          BY <5>2, SMT
        <5> QED BY <5>1, <5>2
      <4> QED BY <4>1, <4>2, <4>3
    <3>2. IsStep(w, b, Digits(w, b), Digits(w \div b, b))
      BY DigitsStep
    <3> QED BY <3>1, <3>2 DEF IsStep
  <2>2. g = h
    <3>1. g = [w \in 0 .. v |-> g[w]] /\ h = [w \in 0 .. v |-> h[w]]
      OBVIOUS
    <3> HIDE DEF g, h
    <3> QED BY <2>1, <3>1
  <2> HIDE DEF g
  <2> QED BY <2>2 DEF IsNumBuffer
<1>2. PICK f : IsNumBuffer(v, b, f) /\ NumBuffer(v, b) = f[v]
  BY <1>1, NumBufferIs
<1> DEFINE Bad == {w \in 0 .. v : f[w] # Digits(w, b)}
<1>3. Bad = {}
  <2>1. SUFFICES ASSUME Bad # {} PROVE FALSE
    OBVIOUS
  <2>2. PICK w \in Bad : \A y \in Bad : w <= y
    <3> Bad \in SUBSET Nat
      OBVIOUS
    <3> HIDE DEF Bad
    <3> QED BY <2>1, LeastOf
  <2>3. w \in 0 .. v /\ f[w] # Digits(w, b)
    OBVIOUS
  <2>4. f[w] = <<w % b>> \o IF w \div b > 0 THEN f[w \div b] ELSE << >>
    BY <1>2, <2>3 DEF IsNumBuffer
  <2>5. w \div b > 0 => f[w \div b] = Digits(w \div b, b)
    <3> DEFINE u == w \div b
    <3>1. u \in Nat
      BY <2>3, Division
    <3>2. w > 0 => u < w
      BY <2>3, DivisionLess
    <3>3. w = 0 => ~ (u > 0)
      <4>1. CASE b = 10
        BY <4>1, SMT
      <4>2. CASE b = 16
        BY <4>2, SMT
      <4> QED BY <4>1, <4>2
    <3> HIDE DEF u
    <3>4. u > 0 => f[u] = Digits(u, b)
      BY <2>2, <2>3, <3>1, <3>2, <3>3
    <3> QED BY <3>4 DEF u
  <2>6. IsStep(w, b, Digits(w, b), Digits(w \div b, b))
    BY <2>3, DigitsStep
  <2> QED BY <2>3, <2>4, <2>5, <2>6 DEF IsStep
<1> QED BY <1>2, <1>3

\* The first digit of a positive number is not 0.
LEMMA TopDigit ==
  ASSUME NEW v \in Nat, v > 0, NEW b \in {10, 16}
  PROVE  Reverse(Digits(v, b))[1] # 0
<1> DEFINE k == CSize(v, b)
           h == k - 1
           p == Power(b, h)
           d == Digits(v, b)
<1>1. d \in Seq(0 .. b-1) /\ Len(d) = k /\ k \in Nat \ {0} /\ d[k] = (v \div p) % b
  <2>1. k \in Nat \ {0} /\ Len(d) = k /\ d \in Seq(0 .. b-1)
    BY DigitsType
  <2>2. k \in 1 .. k
    BY <2>1
  <2> QED BY <2>1, <2>2, DigitsType
<1>2. Reverse(d)[1] = d[k]
  <2> HIDE DEF d, k
  <2>1. 1 \in 1 .. Len(d) /\ (Len(d) - 1) + 1 = k
    BY <1>1
  <2> QED BY <2>1 DEF Reverse
<1>3. h \in Nat /\ h + 1 = k
  <2> HIDE DEF k
  <2> QED BY <1>1
<1>4. p \in Nat \ {0} /\ Power(b, k) = b * p
  <2> HIDE DEF h
  <2>1. Power(b, h+1) = b * Power(b, h)
    BY <1>3, PowerAt
  <2>2. Power(b, h) \in Nat /\ Power(b, h) > h
    BY <1>3, PowerAbove
  <2> QED BY <1>3, <2>1, <2>2
<1>5. v < Power(b, k) /\ (k > 1 => v >= p)
  BY SizeIs DEF IsSize
<1>6. v >= p
  <2>1. CASE k = 1
    <3>1. h = 0
      <4> HIDE DEF k
      <4> QED BY <2>1
    <3>2. p = 1
      BY <3>1, PowerAt
    <3> HIDE DEF p
    <3> QED BY <3>2
  <2>2. CASE k # 1
    <3> HIDE DEF p, k
    <3> QED BY <1>1, <1>5, <2>2
  <2> QED BY <2>1, <2>2
<1> DEFINE q == v \div p
           r == v % p
<1>7. q \in Nat /\ r \in 0 .. p-1 /\ v = p * q + r
  <2> HIDE DEF p
  <2> QED BY <1>4, Division
<1> HIDE DEF k, h, p, d, q, r
<1>8. q # 0
  BY <1>4, <1>6, <1>7, SMT
<1>9. q < b
  <2>1. v < b * p
    BY <1>4, <1>5
  <2>2. p * q < p * b
    BY <1>4, <1>7, <2>1, SMT
  <2> QED BY <1>4, <1>7, <2>2, SMT
<1>10. q % b = q
  BY <1>7, <1>9, SMT
<1> QED BY <1>1, <1>2, <1>8, <1>10 DEF d, q

\* A literal is not known to the provers as a STRING, so those of the code are named.
LowerChars == {"0", "1", "2", "3", "4", "5", "6", "7",
               "8", "9", "a", "b", "c", "d", "e", "f"}
UpperChars == {"A", "B", "C", "D", "E", "F"}
Char == STRING \cup LowerChars \cup UpperChars
          \cup {" ", "-", "x", "%", "<", "n", "u", "l", ">", Nul}

LEMMA DigitCharType ==
  ASSUME NEW d \in 0 .. 15, NEW up \in BOOLEAN
  PROVE  DigitChar(d, up) \in Char
<1>1. CASE up /\ d >= 10
  <2> DEFINE t == <<"A", "B", "C", "D", "E", "F">>
  <2>1. t \in Seq(UpperChars) /\ Len(t) = 6
    BY DEF UpperChars
  <2>2. DigitChar(d, up) = t[d - 9]
    BY <1>1 DEF DigitChar
  <2> HIDE DEF t
  <2>3. t[d - 9] \in UpperChars
    <3>1. d - 9 \in 1 .. Len(t)
      BY <1>1, <2>1
    <3> QED BY <2>1, <3>1, ElementOfSeq
  <2> QED BY <2>2, <2>3 DEF Char
<1>2. CASE ~ (up /\ d >= 10)
  <2> DEFINE t == <<"0", "1", "2", "3", "4", "5", "6", "7",
                    "8", "9", "a", "b", "c", "d", "e", "f">>
  <2>1. t \in Seq(LowerChars) /\ Len(t) = 16
    BY DEF LowerChars
  <2>2. DigitChar(d, up) = t[d + 1]
    BY <1>2 DEF DigitChar
  <2> HIDE DEF t
  <2>3. t[d + 1] \in LowerChars
    <3>1. d + 1 \in 1 .. Len(t)
      BY <1>2, <2>1
    <3> QED BY <2>1, <3>1, ElementOfSeq
  <2> QED BY <2>2, <2>3 DEF Char
<1> QED BY <1>1, <1>2

\* The digits as they are printed are those of C.
LEMMA CDigitsAre ==
  ASSUME NEW v \in Nat, NEW b \in {10, 16}, NEW up \in BOOLEAN
  PROVE  /\ CDigits(v, b, up) = [i \in 1 .. CSize(v, b) |-> DigitChar(Reverse(Digits(v, b))[i], up)]
         /\ CDigits(v, b, up) \in Seq(Char)
         /\ Len(CDigits(v, b, up)) = CSize(v, b)
         /\ Reverse(Digits(v, b)) \in Seq(0 .. b-1)
         /\ Len(Reverse(Digits(v, b))) = CSize(v, b)
<1> DEFINE k == CSize(v, b)
           d == Digits(v, b)
<1>1. d \in Seq(0 .. b-1) /\ Len(d) = k /\ k \in Nat \ {0}
  BY DigitsType
<1>2. ASSUME NEW i \in 1 .. k
      PROVE  /\ Reverse(d)[i] = (v \div Power(b, k-i)) % b
             /\ Reverse(d)[i] \in 0 .. b-1
  <2> DEFINE j == (k - i) + 1
  <2>1. j \in 1 .. k /\ j - 1 = k - i
    <3> HIDE DEF k
    <3> QED BY <1>1
  <2>2. Reverse(d)[i] = d[j]
    <3> HIDE DEF d, k
    <3> QED BY <1>1 DEF Reverse
  <2>3. d[j] = (v \div Power(b, j-1)) % b
    <3> HIDE DEF j
    <3> QED BY <2>1, DigitsType
  <2>4. d[j] \in 0 .. b-1
    <3> HIDE DEF j, d, k
    <3> QED BY <1>1, <2>1
  <2> HIDE DEF j
  <2> QED BY <2>1, <2>2, <2>3, <2>4
<1>3. Reverse(d) = [i \in 1 .. k |-> Reverse(d)[i]]
  <2> HIDE DEF d, k
  <2> QED BY <1>1 DEF Reverse
<1>4. Reverse(d) \in Seq(0 .. b-1) /\ Len(Reverse(d)) = k
  <2> DEFINE r == Reverse(d)
  <2> HIDE DEF k, r
  <2>1. \A i \in 1 .. k : r[i] \in 0 .. b-1
    BY <1>2 DEF r
  <2>2. r = [i \in 1 .. k |-> r[i]]
    BY <1>3 DEF r
  <2>3. [i \in 1 .. k |-> r[i]] \in Seq(0 .. b-1) /\ Len([i \in 1 .. k |-> r[i]]) = k
    BY <1>1, <2>1
  <2> QED BY <2>2, <2>3 DEF r
<1>5. CDigits(v, b, up) = [i \in 1 .. k |-> DigitChar(Reverse(d)[i], up)]
  <2> HIDE DEF d
  <2> QED BY <1>2 DEF CDigits
<1>6. ASSUME NEW i \in 1 .. k PROVE DigitChar(Reverse(d)[i], up) \in Char
  <2> DEFINE e == Reverse(d)[i]
  <2>1. e \in 0 .. b-1
    BY <1>2
  <2> HIDE DEF e
  <2>2. e \in 0 .. 15
    BY <2>1
  <2>3. DigitChar(e, up) \in Char
    BY <2>2, DigitCharType
  <2> QED BY <2>3 DEF e
<1>7. CDigits(v, b, up) \in Seq(Char) /\ Len(CDigits(v, b, up)) = k
  <2> DEFINE F(i) == DigitChar(Reverse(d)[i], up)
  <2>1. \A i \in 1 .. k : F(i) \in Char
    BY <1>6
  <2>2. CDigits(v, b, up) = [i \in 1 .. k |-> F(i)]
    BY <1>5
  <2> HIDE DEF F, k
  <2>3. [i \in 1 .. k |-> F(i)] \in Seq(Char) /\ Len([i \in 1 .. k |-> F(i)]) = k
    BY <1>1, <2>1
  <2> QED BY <2>2, <2>3
<1> QED BY <1>4, <1>5, <1>7

-----------------------------------------------------------------------------
\* The padding of a number.
Zeros(n) == [i \in 1 .. n |-> "0"]
Sign(negative) == IF negative THEN <<"-">> ELSE << >>

\* How many digits in front are 0.
Lead(num) == IF \E i \in DOMAIN num : num[i] # 0
             THEN SelectInSeq(num, LAMBDA n : n # 0) - 1 ELSE Len(num)

\* The parts of Padded in its order.
Parts(zero, left, sign, a, b, c) ==
    (IF zero THEN sign ELSE << >>) \o (IF left THEN << >> ELSE a)
      \o (IF zero THEN << >> ELSE sign) \o b \o (IF left THEN c ELSE << >>)

\* Where C has the padding.
PadOut(pads, zero, left, sign, body) ==
    CASE left -> sign \o body \o Blanks(pads)
      [] ~ left /\ zero -> sign \o Zeros(pads) \o body
      [] OTHER -> Blanks(pads) \o sign \o body

LEMMA FillType ==
  ASSUME NEW n \in Nat
  PROVE  /\ Blanks(n) \in Seq(Char) /\ Len(Blanks(n)) = n
         /\ Zeros(n) \in Seq(Char) /\ Len(Zeros(n)) = n
<1>1. " " \in Char /\ "0" \in Char
  BY DEF Char, LowerChars
<1>2. ASSUME NEW c \in Char
      PROVE  [i \in 1 .. n |-> c] \in Seq(Char) /\ Len([i \in 1 .. n |-> c]) = n
  OBVIOUS
<1>3. Blanks(n) \in Seq(Char) /\ Len(Blanks(n)) = n
  BY <1>1, <1>2, Zenon DEF Blanks
<1>4. Zeros(n) \in Seq(Char) /\ Len(Zeros(n)) = n
  BY <1>1, <1>2, Zenon DEF Zeros
<1> QED BY <1>3, <1>4

LEMMA SignType ==
  ASSUME NEW negative \in BOOLEAN
  PROVE  Sign(negative) \in Seq(Char) /\ Len(Sign(negative)) = IF negative THEN 1 ELSE 0
<1>1. "-" \in Char
  BY DEF Char
<1> QED BY <1>1 DEF Sign

IsParts(zero, left, sign, a, b, c) ==
    /\ left => Parts(zero, left, sign, a, b, c) = sign \o b \o c
    /\ ~ left /\ zero => Parts(zero, left, sign, a, b, c) = sign \o a \o b
    /\ ~ left /\ ~ zero => Parts(zero, left, sign, a, b, c) = a \o sign \o b

LEMMA PartsAre ==
  ASSUME NEW zero \in BOOLEAN, NEW left \in BOOLEAN, NEW sign \in Seq(Char),
         NEW a \in Seq(Char), NEW b \in Seq(Char), NEW c \in Seq(Char)
  PROVE  IsParts(zero, left, sign, a, b, c)
<1>1. ASSUME NEW s \in Seq(Char) PROVE << >> \o s = s /\ s \o << >> = s
  BY ConcatEmptySeq
<1>2. sign \o b \in Seq(Char) /\ (sign \o a) \o b \in Seq(Char) /\ (a \o sign) \o b \in Seq(Char)
      /\ sign \o a \in Seq(Char)
  BY ConcatProperties
<1>3. CASE left /\ zero
  BY <1>1, <1>2, <1>3 DEF Parts, IsParts
<1>4. CASE left /\ ~ zero
  <2>1. (<< >> \o << >>) \o sign = sign
    <3>1. << >> \in Seq(Char)
      OBVIOUS
    <3> QED BY <1>1, <3>1
  <2> QED BY <1>4, <2>1 DEF Parts, IsParts
<1>5. CASE ~ left /\ zero
  BY <1>1, <1>2, <1>5 DEF Parts, IsParts
<1>6. CASE ~ left /\ ~ zero
  BY <1>1, <1>2, <1>6 DEF Parts, IsParts
<1> QED BY <1>3, <1>4, <1>5, <1>6

LEMMA LeadIs ==
  ASSUME NEW num \in Seq(Nat), NEW j \in 0 .. Len(num),
         \A i \in 1 .. j : num[i] = 0, j < Len(num) => num[j+1] # 0
  PROVE  Lead(num) = j
<1>1. CASE j = Len(num)
  BY <1>1 DEF Lead
<1>2. CASE j # Len(num)
  <2> DEFINE I == {i \in 1 .. Len(num) : num[i] # 0}
  <2>1. j+1 \in I /\ \A y \in I : j+1 <= y
    BY <1>2
  <2>2. Min(I) = j+1
    <3>1. I \subseteq Nat
      OBVIOUS
    <3>2. \A x \in I : (\A y \in I : x <= y) => x = j+1
      <4> HIDE DEF I
      <4> QED BY <2>1, <3>1
    <3> HIDE DEF I
    <3>3. \E x \in I : \A y \in I : x <= y
      BY <2>1
    <3> QED BY <3>2, <3>3 DEF Min
  <2>3. SelectInSeq(num, LAMBDA n : n # 0) = j+1
    BY <2>1, <2>2 DEF SelectInSeq
  <2>4. \E i \in DOMAIN num : num[i] # 0
    BY <2>1
  <2>5. Lead(num) = (j+1) - 1
    BY <2>3, <2>4 DEF Lead
  <2> QED BY <2>5
<1> QED BY <1>1, <1>2

\* The characters of the digits r.
Chars(r, up) == [i \in 1 .. Len(r) |-> DigitChar(r[i], up)]

LEMMA CharsType ==
  ASSUME NEW r \in Seq(0 .. 15), NEW up \in BOOLEAN
  PROVE  Chars(r, up) \in Seq(Char) /\ Len(Chars(r, up)) = Len(r)
<1>1. ASSUME NEW i \in 1 .. Len(r) PROVE DigitChar(r[i], up) \in Char
  <2>1. r[i] \in 0 .. 15
    BY ElementOfSeq
  <2> QED BY <2>1, DigitCharType
<1> DEFINE F(i) == DigitChar(r[i], up)
<1>2. \A i \in 1 .. Len(r) : F(i) \in Char
  BY <1>1
<1>3. Len(r) \in Nat
  OBVIOUS
<1>4. Chars(r, up) = [i \in 1 .. Len(r) |-> F(i)]
  BY DEF Chars
<1> HIDE DEF F
<1>5. [i \in 1 .. Len(r) |-> F(i)] \in Seq(Char) /\ Len([i \in 1 .. Len(r) |-> F(i)]) = Len(r)
  BY <1>2, <1>3
<1> QED BY <1>4, <1>5

\* Padded in its parts: the zeros in front, the digits after the first lead.
Front0(num, lead, zero) == [i \in 1 .. lead |-> IF zero \/ i = Len(num) THEN "0" ELSE " "]
Rest(num, lead, up) == [i \in 1 .. Len(num) - lead |-> DigitChar(num[lead + i], up)]

IsPadded(digits, pads, zero, negative, up, left, num) ==
    Padded(digits, pads, zero, negative, up, left) =
      Parts(zero, left, Sign(negative), Front0(num, Lead(num), zero),
            Rest(num, Lead(num), up), Blanks(pads))

LEMMA SeqOfMore ==
  ASSUME NEW S, NEW T, S \subseteq T, NEW s \in Seq(S)
  PROVE  s \in Seq(T)
<1>1. s = [i \in 1 .. Len(s) |-> s[i]] /\ Len(s) \in Nat
  OBVIOUS
<1>2. \A i \in 1 .. Len(s) : s[i] \in T
  BY ElementOfSeq
<1> QED BY <1>1, <1>2

LEMMA PaddedParts ==
  ASSUME NEW digits, NEW pads, NEW zero, NEW negative, NEW up, NEW left,
         NEW num, num = [i \in 1 .. pads |-> 0] \o Reverse(digits)
  PROVE  IsPadded(digits, pads, zero, negative, up, left, num)
BY DEF IsPadded, Padded, Parts, Sign, Front0, Rest, Lead

IsNum(num, pads, r) ==
    /\ num \in Seq(Nat) /\ Len(num) = pads + Len(r)
    /\ \A i \in 1 .. pads : num[i] = 0
    /\ \A i \in 1 .. Len(r) : num[pads + i] = r[i]

LEMMA PaddedNum ==
  ASSUME NEW pads \in Nat, NEW r \in Seq(0 .. 15), Len(r) >= 1,
         NEW num, num = [i \in 1 .. pads |-> 0] \o r
  PROVE  IsNum(num, pads, r)
<1> DEFINE z == [i \in 1 .. pads |-> 0]
<1>1. z \in Seq(0 .. 15) /\ Len(z) = pads /\ \A i \in 1 .. pads : z[i] = 0
  OBVIOUS
<1> HIDE DEF z
<1>2. num = z \o r
  BY DEF z
<1>3. /\ num \in Seq(0 .. 15) /\ Len(num) = pads + Len(r)
      /\ \A i \in 1 .. pads + Len(r) : num[i] = IF i <= pads THEN z[i] ELSE r[i - pads]
  <2>1. /\ z \o r \in Seq(0 .. 15) /\ Len(z \o r) = Len(z) + Len(r)
        /\ \A i \in 1 .. Len(z) + Len(r) :
              (z \o r)[i] = IF i <= Len(z) THEN z[i] ELSE r[i - Len(z)]
    BY <1>1, ConcatProperties
  <2> QED BY <1>1, <1>2, <2>1
<1>4. num \in Seq(Nat) /\ Len(r) \in Nat
  <2>1. 0 .. 15 \subseteq Nat
    OBVIOUS
  <2>2. num \in Seq(Nat)
    BY <1>3, <2>1, SeqOfMore
  <2>3. Len(r) \in Nat
    BY LenProperties
  <2> QED BY <2>2, <2>3
<1>5. ASSUME NEW i \in 1 .. pads PROVE num[i] = 0
  <2>1. i \in 1 .. pads + Len(r) /\ i <= pads
    BY <1>4
  <2> QED BY <1>1, <1>3, <2>1
<1>6. ASSUME NEW i \in 1 .. Len(r) PROVE num[pads + i] = r[i]
  <2>1. pads + i \in 1 .. pads + Len(r) /\ ~ (pads + i <= pads) /\ (pads + i) - pads = i
    BY <1>4
  <2> QED BY <1>3, <2>1
<1> QED BY <1>3, <1>4, <1>5, <1>6 DEF IsNum

LEMMA PartsPadOut ==
  ASSUME NEW pads \in Nat, NEW zero \in BOOLEAN, NEW left \in BOOLEAN,
         NEW sign \in Seq(Char), NEW b \in Seq(Char),
         NEW a, a = IF zero THEN Zeros(pads) ELSE Blanks(pads)
  PROVE  Parts(zero, left, sign, a, b, Blanks(pads)) = PadOut(pads, zero, left, sign, b)
<1> DEFINE c == Blanks(pads)
<1>1. a \in Seq(Char) /\ c \in Seq(Char)
  BY FillType
<1> HIDE DEF c
<1>2. IsParts(zero, left, sign, a, b, c)
  BY <1>1, PartsAre
<1>3. CASE left
  BY <1>2, <1>3 DEF PadOut, IsParts, c
<1>4. CASE ~ left /\ zero
  BY <1>2, <1>4 DEF PadOut, IsParts, c
<1>5. CASE ~ left /\ ~ zero
  BY <1>2, <1>5 DEF PadOut, IsParts, c
<1> QED BY <1>3, <1>4, <1>5

\* A number with a first digit that is not 0 is padded as C has it.
LEMMA PaddedMore ==
  ASSUME NEW digits, NEW r \in Seq(0 .. 15), Reverse(digits) = r, Len(r) >= 1, r[1] # 0,
         NEW pads \in Nat, NEW zero \in BOOLEAN, NEW negative \in BOOLEAN,
         NEW up \in BOOLEAN, NEW left \in BOOLEAN
  PROVE  Padded(digits, pads, zero, negative, up, left) =
           PadOut(pads, zero, left, Sign(negative), Chars(r, up))
<1> DEFINE num == [i \in 1 .. pads |-> 0] \o r
           a == Front0(num, pads, zero)
           b == Chars(r, up)
<1>1. /\ num \in Seq(Nat) /\ Len(num) = pads + Len(r)
      /\ \A i \in 1 .. pads : num[i] = 0
      /\ \A i \in 1 .. Len(r) : num[pads + i] = r[i]
  BY PaddedNum DEF IsNum
<1>2. Lead(num) = pads
  <2> HIDE DEF num
  <2>1. pads \in 0 .. Len(num) /\ num[pads+1] # 0
    BY <1>1
  <2> QED BY <1>1, <2>1, LeadIs
<1>3. a = IF zero THEN Zeros(pads) ELSE Blanks(pads)
  <2> HIDE DEF num
  <2>1. \A i \in 1 .. pads : i # Len(num)
    BY <1>1
  <2>2. CASE zero
    BY <2>2 DEF Front0, Zeros
  <2>3. CASE ~ zero
    BY <2>1, <2>3 DEF Front0, Blanks
  <2> QED BY <2>2, <2>3
<1>4. Rest(num, pads, up) = b
  <2> HIDE DEF num
  <2>1. Len(num) - pads = Len(r)
    BY <1>1
  <2> QED BY <1>1, <2>1 DEF Rest, Chars
<1>5. Padded(digits, pads, zero, negative, up, left)
        = Parts(zero, left, Sign(negative), a, b, Blanks(pads))
  <2>1. num = [i \in 1 .. pads |-> 0] \o Reverse(digits)
    OBVIOUS
  <2> HIDE DEF num
  <2>2. IsPadded(digits, pads, zero, negative, up, left, num)
    BY <2>1, PaddedParts
  <2> HIDE DEF b
  <2> QED BY <1>2, <1>4, <2>2 DEF IsPadded
<1>6. Sign(negative) \in Seq(Char) /\ b \in Seq(Char)
  BY SignType, CharsType
<1> HIDE DEF a, b
<1>7. Parts(zero, left, Sign(negative), a, b, Blanks(pads)) = PadOut(pads, zero, left, Sign(negative), b)
  BY <1>3, <1>6, PartsPadOut
<1> QED BY <1>5, <1>7 DEF b

\* So is a 0 that is not left justified; of a left-justified 0 only the padding is left.
IsZeroPadded(digits, pads, zero, up, left) ==
    Padded(digits, pads, zero, FALSE, up, left) =
      IF left THEN Blanks(pads) ELSE PadOut(pads, zero, left, << >>, Chars(<<0>>, up))

LEMMA PaddedZero ==
  ASSUME NEW digits, Reverse(digits) = << 0 >>, NEW pads \in Nat,
         NEW zero \in BOOLEAN, NEW up \in BOOLEAN, NEW left \in BOOLEAN
  PROVE  IsZeroPadded(digits, pads, zero, up, left)
<1> DEFINE r == <<0>>
           num == [i \in 1 .. pads |-> 0] \o r
           n == pads + 1
           a == Front0(num, n, zero)
           f == IF zero THEN Zeros(pads) ELSE Blanks(pads)
<1>1. /\ num \in Seq(Nat) /\ Len(num) = n
      /\ \A i \in 1 .. n : num[i] = 0
  <2>1. r \in Seq(0 .. 15) /\ Len(r) = 1 /\ Len(r) >= 1 /\ r[1] = 0
    OBVIOUS
  <2>2. num = [i \in 1 .. pads |-> 0] \o r
    OBVIOUS
  <2> HIDE DEF r, num
  <2>3. IsNum(num, pads, r)
    BY <2>1, <2>2, PaddedNum
  <2> QED BY <2>1, <2>3 DEF IsNum
<1>2. Lead(num) = n
  <2> HIDE DEF num
  <2>1. n \in 0 .. Len(num) /\ ~ (n < Len(num))
    BY <1>1
  <2> HIDE DEF n
  <2> QED BY <1>1, <2>1, LeadIs
<1>3. Chars(r, up) = <<"0">>
  <2>1. DigitChar(0, up) = "0"
    BY DEF DigitChar
  <2>2. Len(r) = 1 /\ r[1] = 0
    OBVIOUS
  <2>3. Chars(r, up) = [i \in 1 .. 1 |-> DigitChar(r[i], up)]
    BY <2>2 DEF Chars
  <2>4. [i \in 1 .. 1 |-> DigitChar(r[i], up)] = [i \in 1 .. 1 |-> "0"]
    <3> HIDE DEF r
    <3> QED BY <2>1, <2>2
  <2>5. [i \in 1 .. 1 |-> "0"] = <<"0">>
    OBVIOUS
  <2> QED BY <2>3, <2>4, <2>5
<1>4. f \in Seq(Char) /\ Len(f) = pads /\ \A i \in 1 .. pads : f[i] = IF zero THEN "0" ELSE " "
  <2>1. \A i \in 1 .. pads : Zeros(pads)[i] = "0" /\ Blanks(pads)[i] = " "
    BY DEF Zeros, Blanks
  <2> QED BY <2>1, FillType
<1>5. a = f \o <<"0">>
  <2>1. "0" \in Char
    BY DEF Char, LowerChars
  <2> HIDE DEF f, num
  <2>2. a = [i \in 1 .. n |-> IF zero \/ i = n THEN "0" ELSE " "]
    BY <1>1 DEF Front0
  <2> HIDE DEF a
  <2>3. f \o <<"0">> \in Seq(Char) /\ Len(f \o <<"0">>) = n
        /\ \A i \in 1 .. n : (f \o <<"0">>)[i] = IF i = n THEN "0" ELSE f[i]
    <3> DEFINE u == <<"0">>
    <3>1. u \in Seq(Char) /\ Len(u) = 1 /\ u[1] = "0"
      BY <2>1
    <3> HIDE DEF u
    <3>2. /\ f \o u \in Seq(Char) /\ Len(f \o u) = Len(f) + Len(u)
          /\ \A i \in 1 .. Len(f) + Len(u) : (f \o u)[i] = IF i <= Len(f) THEN f[i] ELSE u[i - Len(f)]
      BY <1>4, <3>1, ConcatProperties
    <3>3. /\ f \o u \in Seq(Char) /\ Len(f \o u) = n
          /\ \A i \in 1 .. n : (f \o u)[i] = IF i = n THEN "0" ELSE f[i]
      <4>1. \A i \in 1 .. n : i = n => ~ (i <= pads) /\ i - pads = 1
        OBVIOUS
      <4>4. Len(f \o u) = n
        BY <1>4, <3>1, <3>2
      <4>2. \A i \in 1 .. n : i # n => i <= pads
        OBVIOUS
      <4>3. \A i \in 1 .. n : (f \o u)[i] = IF i <= pads THEN f[i] ELSE u[i - pads]
        BY <1>4, <3>1, <3>2
      <4> HIDE DEF n
      <4> QED BY <3>1, <3>2, <4>1, <4>2, <4>3, <4>4
    <3> QED BY <3>3 DEF u
  <2>4. f \o <<"0">> = [i \in 1 .. n |-> (f \o <<"0">>)[i]]
    BY <2>3
  <2>5. ASSUME NEW i \in 1 .. n
        PROVE  (f \o <<"0">>)[i] = IF zero \/ i = n THEN "0" ELSE " "
    <3>1. CASE i = n
      BY <2>3, <3>1
    <3>2. CASE i # n
      <4>1. i \in 1 .. pads
        BY <3>2
      <4> QED BY <1>4, <2>3, <3>2, <4>1
    <3> QED BY <3>1, <3>2
  <2> QED BY <2>2, <2>4, <2>5
<1>6. Rest(num, n, up) = << >>
  <2> HIDE DEF num
  <2> QED BY <1>1 DEF Rest
<1>7. Padded(digits, pads, zero, FALSE, up, left)
        = Parts(zero, left, Sign(FALSE), a, << >>, Blanks(pads))
  <2>1. num = [i \in 1 .. pads |-> 0] \o Reverse(digits)
    OBVIOUS
  <2> HIDE DEF num, n
  <2>2. IsPadded(digits, pads, zero, FALSE, up, left, num)
    BY <2>1, PaddedParts
  <2> QED BY <1>2, <1>6, <2>2 DEF IsPadded
<1>8. Sign(FALSE) = << >> /\ << >> \in Seq(Char) /\ <<"0">> \in Seq(Char) /\ a \in Seq(Char)
  <2>1. "0" \in Char
    BY DEF Char, LowerChars
  <2>2. <<"0">> \in Seq(Char)
    BY <2>1
  <2> HIDE DEF a, f
  <2>3. a \in Seq(Char)
    <3> DEFINE u == <<"0">>
    <3> HIDE DEF u
    <3>1. u \in Seq(Char) /\ a = f \o u
      BY <1>5, <2>2 DEF u
    <3> QED BY <1>4, <3>1, ConcatProperties
  <2> QED BY <2>2, <2>3 DEF Sign
<1> HIDE DEF a, r, f
<1>9. Parts(zero, left, Sign(FALSE), a, << >>, Blanks(pads)) = IF left THEN Blanks(pads) ELSE a
  <2>1. << >> \o a = a /\ a \o << >> = a
    BY <1>8, ConcatEmptySeq
  <2>2. Blanks(pads) \in Seq(Char)
    BY FillType
  <2> DEFINE e == << >>
             c == Blanks(pads)
  <2>3. e \in Seq(Char) /\ Sign(FALSE) = e /\ e \o a = a /\ a \o e = a /\ c \in Seq(Char)
    BY <1>8, <2>1, <2>2
  <2> HIDE DEF e, c
  <2>4. IsParts(zero, left, e, a, e, c)
    BY <1>8, <2>3, PartsAre
  <2>5. e \o e = e /\ e \o c = c
    BY <2>3, ConcatEmptySeq DEF e
  <2>6. Parts(zero, left, e, a, e, c) = IF left THEN c ELSE a
    BY <2>3, <2>4, <2>5 DEF IsParts
  <2> QED BY <2>3, <2>6 DEF e, c
<1>10. ~ left => PadOut(pads, zero, left, << >>, <<"0">>) = f \o <<"0">>
  <2>1. << >> \o f = f /\ f \o << >> = f
    BY <1>4, ConcatEmptySeq
  <2> QED BY <2>1 DEF PadOut, f
<1> QED BY <1>3, <1>5, <1>7, <1>9, <1>10 DEF r, IsZeroPadded

LEMMA PadOutType ==
  ASSUME NEW pads \in Nat, NEW zero \in BOOLEAN, NEW left \in BOOLEAN,
         NEW sign \in Seq(Char), NEW body \in Seq(Char)
  PROVE  PadOut(pads, zero, left, sign, body) \in Seq(Char)
<1> DEFINE c == Blanks(pads)
           z == Zeros(pads)
<1>1. c \in Seq(Char) /\ z \in Seq(Char)
  BY FillType
<1> HIDE DEF c, z
<1>2. sign \o body \o c \in Seq(Char) /\ sign \o z \o body \in Seq(Char) /\ c \o sign \o body \in Seq(Char)
  BY <1>1
<1> QED BY <1>2 DEF PadOut, c, z

CPadPads(w, sign, body) == Most(w - Len(sign \o body), 0)

LEMMA CPadIs ==
  ASSUME NEW d, NEW w, NEW sign, NEW body
  PROVE  CPad(d, w, sign, body) = PadOut(CPadPads(w, sign, body), d.zero, d.left, sign, body)
BY DEF CPad, PadOut, CPadPads, Zeros

\* A number that is not a left-justified 0 is rendered as C has it.
IsNumberText(v, b, width, zero, negative, up, left) ==
    /\ ~ (left /\ v = 0) =>
          AppendNumber(v, b, width, zero, negative, up, left) =
            PadOut(CPadPads(width, Sign(negative), CDigits(v, b, up)), zero, left,
                   Sign(negative), CDigits(v, b, up))
    /\ AppendNumber(v, b, width, zero, negative, up, left) \in Seq(Char)

IsNumber(v, b, width, zero, negative, up, left) ==
    /\ v \in Nat /\ b \in {10, 16} /\ width \in Nat
    /\ zero \in BOOLEAN /\ negative \in BOOLEAN /\ up \in BOOLEAN /\ left \in BOOLEAN
    /\ negative => v > 0

LEMMA NumberText ==
  ASSUME NEW v, NEW b, NEW width, NEW zero, NEW negative, NEW up, NEW left,
         IsNumber(v, b, width, zero, negative, up, left)
  PROVE  IsNumberText(v, b, width, zero, negative, up, left)
<1> SUFFICES ASSUME v \in Nat, b \in {10, 16}, width \in Nat, zero \in BOOLEAN,
                    negative \in BOOLEAN, up \in BOOLEAN, left \in BOOLEAN, negative => v > 0
             PROVE  IsNumberText(v, b, width, zero, negative, up, left)
  BY DEF IsNumber
<1> DEFINE d == Digits(v, b)
           k == CSize(v, b)
           r == Reverse(d)
           body == CDigits(v, b, up)
           sign == Sign(negative)
           min == IF negative /\ width > 0 THEN width - 1 ELSE width
           pads == Most(min - k, 0)
<1>1. Len(d) = k /\ k \in Nat \ {0}
  BY DigitsType
<1>2. /\ body = Chars(r, up) /\ body \in Seq(Char) /\ Len(body) = k
      /\ r \in Seq(0 .. 15) /\ Len(r) = k
  <2>1. r \in Seq(0 .. b-1) /\ Len(r) = k /\ body \in Seq(Char) /\ Len(body) = k
    BY CDigitsAre
  <2>2. 0 .. b-1 \subseteq 0 .. 15
    OBVIOUS
  <2>3. r \in Seq(0 .. 15)
    <3> HIDE DEF r
    <3> QED BY <2>1, <2>2, SeqOfMore
  <2>4. body = [i \in 1 .. k |-> DigitChar(r[i], up)]
    BY CDigitsAre
  <2>5. body = Chars(r, up)
    <3> HIDE DEF body, r, k
    <3> QED BY <2>1, <2>4 DEF Chars
  <2> QED BY <2>1, <2>3, <2>5
<1>3. AppendNumber(v, b, width, zero, negative, up, left) = Padded(d, pads, zero, negative, up, left)
  BY <1>1, NumBufferDigits DEF AppendNumber
<1>4. sign \in Seq(Char) /\ Len(sign) = IF negative THEN 1 ELSE 0
  BY SignType
<1> HIDE DEF d, k, body, sign
<1>5. pads \in Nat /\ pads = CPadPads(width, sign, body)
  <2>1. Len(sign \o body) = Len(sign) + Len(body)
    <3>1. sign \in Seq(Char) /\ body \in Seq(Char)
      BY <1>2, <1>4
    <3> QED BY <3>1, ConcatProperties
  <2> DEFINE n == Len(sign \o body)
  <2>2. CASE negative
    <3>1. n = 1 + k
      BY <1>2, <1>4, <2>1, <2>2
    <3> HIDE DEF n
    <3>2. Most(min - k, 0) = Most(width - n, 0) /\ Most(min - k, 0) \in Nat
      BY <1>1, <2>2, <3>1, SMT DEF Most
    <3> QED BY <3>2 DEF CPadPads, n
  <2>3. CASE ~ negative
    <3>1. n = k
      BY <1>1, <1>2, <1>4, <2>1, <2>3
    <3> HIDE DEF n
    <3>2. Most(min - k, 0) = Most(width - n, 0) /\ Most(min - k, 0) \in Nat
      BY <1>1, <2>3, <3>1, SMT DEF Most
    <3> QED BY <3>2 DEF CPadPads, n
  <2> QED BY <2>2, <2>3
<1> HIDE DEF pads
<1>6. PadOut(pads, zero, left, sign, body) \in Seq(Char)
  BY <1>2, <1>4, <1>5, PadOutType
<1> DEFINE Result == /\ ~ (left /\ v = 0) =>
                              AppendNumber(v, b, width, zero, negative, up, left) =
                                PadOut(CPadPads(width, sign, body), zero, left, sign, body)
                     /\ AppendNumber(v, b, width, zero, negative, up, left) \in Seq(Char)
<1>7. ASSUME v > 0 PROVE Result
  <2>1. r[1] # 0
    BY <1>7, TopDigit DEF d
  <2>2. Len(r) >= 1
    BY <1>1, <1>2
  <2>3. Reverse(d) = r
    OBVIOUS
  <2> HIDE DEF r
  <2>4. Padded(d, pads, zero, negative, up, left) = PadOut(pads, zero, left, Sign(negative), Chars(r, up))
    BY <1>2, <1>5, <2>1, <2>2, <2>3, PaddedMore
  <2> QED BY <1>2, <1>3, <1>5, <1>6, <2>4 DEF sign, body
<1>8. ASSUME v = 0 PROVE Result
  <2>1. r = <<0>>
    <3>1. v \div b = 0
      <4>1. CASE b = 10
        BY <1>8, <4>1, SMT
      <4>2. CASE b = 16
        BY <1>8, <4>2, SMT
      <4> QED BY <4>1, <4>2
    <3>2. v % b = 0
      <4>1. CASE b = 10
        BY <1>8, <4>1, SMT
      <4>2. CASE b = 16
        BY <1>8, <4>2, SMT
      <4> QED BY <4>1, <4>2
    <3>3. d = <<0>> \o << >>
      <4>1. IsStep(v, b, d, Digits(v \div b, b))
        BY DigitsStep DEF d
      <4>2. ~ (v \div b > 0)
        BY <3>1
      <4> QED BY <3>2, <4>1, <4>2 DEF IsStep
    <3>4. d = <<0>>
      BY <3>3
    <3>5. Reverse(<<0>>) = <<0>>
      BY DEF Reverse
    <3> QED BY <3>4, <3>5
  <2>2. ~ negative /\ sign = << >>
    BY <1>8 DEF Sign, sign
  <2>3. Padded(d, pads, zero, FALSE, up, left) =
          IF left THEN Blanks(pads) ELSE PadOut(pads, zero, left, << >>, Chars(<<0>>, up))
    <3>1. Reverse(d) = <<0>>
      BY <2>1
    <3>2. IsZeroPadded(d, pads, zero, up, left)
      BY <1>5, <3>1, PaddedZero
    <3> QED BY <3>2 DEF IsZeroPadded
  <2>4. Blanks(pads) \in Seq(Char)
    BY <1>5, FillType
  <2>5. Padded(d, pads, zero, FALSE, up, left) = Padded(d, pads, zero, negative, up, left)
    BY <2>2
  <2>6. CASE left
    BY <1>3, <1>8, <2>3, <2>4, <2>5, <2>6
  <2>7. CASE ~ left
    <3>1. Padded(d, pads, zero, negative, up, left) = PadOut(pads, zero, left, sign, body)
      BY <1>2, <2>1, <2>2, <2>3, <2>5, <2>7
    <3> QED BY <1>3, <1>5, <1>6, <3>1 DEF sign, body
  <2> QED BY <2>6, <2>7
<1>9. Result
  <2> HIDE DEF Result
  <2> QED BY <1>7, <1>8
<1> QED BY <1>9 DEF IsNumberText, body, sign

-----------------------------------------------------------------------------
\* The directives.
ModOf(d) == IF d.ll THEN LongMod ELSE IntMod

LEMMA DirectiveType ==
  ASSUME NEW d \in Directives, IsDirective(d)
  PROVE  /\ d.conv \in {"lit", "d", "u", "x", "X", "p", "s", "c", "%"}
         /\ d.left \in BOOLEAN /\ d.zero \in BOOLEAN /\ d.ll \in BOOLEAN
         /\ d.width \in Nat /\ d.prec \in Nat \cup {-1} /\ d.num \in Nat
         /\ ModOf(d) \in Nat /\ d.num < ModOf(d)
         /\ d.str \in Seq(Char)
         /\ d.conv = "p" => ~ d.left
<1>1. d.str \in Seq(Char)
  <2>1. STRING \subseteq Char
    BY DEF Char
  <2>2. d.str \in Seq(STRING)
    BY DEF Directives
  <2> QED BY <2>1, <2>2, SeqOfMore
<1>2. ModOf(d) \in Nat /\ d.num < ModOf(d)
  BY FormatAssumption DEF ModOf, IsDirective
<1>3. /\ d.conv \in {"lit", "d", "u", "x", "X", "p", "s", "c", "%"}
      /\ d.left \in BOOLEAN /\ d.zero \in BOOLEAN /\ d.ll \in BOOLEAN
      /\ d.prec \in Nat \cup {-1} /\ d.num \in Nat
  BY DEF Directives
<1>5. d.width \in Nat
  <2>1. d.width \in 0 .. 29
    BY DEF Directives
  <2> QED BY <2>1
<1>4. d.conv = "p" => ~ d.left
  BY DEF IsDirective
<1> QED BY <1>1, <1>2, <1>3, <1>4, <1>5

LEMMA SignedText ==
  ASSUME NEW d \in Directives, IsDirective(d), d.conv = "d"
  PROVE  Appended(d) \in Seq(Char) /\ (~ LeftZero(d) => Appended(d) = CText(d))
<1> DEFINE mod == ModOf(d)
           neg == d.num >= mod \div 2
           v == Absolute(d.num, mod)
           body == CDigits(v, 10, FALSE)
<1>1. v = (IF neg THEN mod - d.num ELSE d.num) /\ v \in Nat /\ (neg => v > 0) /\ neg \in BOOLEAN
      /\ (v = 0 => d.num = 0)
  <2>1. mod \in Nat /\ d.num \in Nat /\ d.num < mod /\ mod \div 2 \in Nat
    BY DirectiveType, SMT
  <2> HIDE DEF mod
  <2> DEFINE half == mod \div 2
             num == d.num
  <2>2. half \in Nat /\ num \in Nat /\ num < mod /\ mod \in Nat
    BY <2>1
  <2>3. v = IF num < half THEN num ELSE mod - num
    BY DEF Absolute
  <2> HIDE DEF half, num, v
  <2>4. /\ v = (IF num >= half THEN mod - num ELSE num) /\ v \in Nat /\ (num >= half => v > 0)
        /\ (v = 0 => num = 0)
    BY <2>2, <2>3, SMT
  <2> QED BY <2>4 DEF half, num
<1>2. Appended(d) = AppendNumber(v, 10, d.width, d.zero, neg, FALSE, d.left)
  BY DEF Appended, Signed, ModOf
<1>3. CText(d) = CPad(d, d.width, Sign(neg), body)
  BY <1>1 DEF CText, Sign, ModOf
<1> HIDE DEF v, neg
<1>4. CText(d) = PadOut(CPadPads(d.width, Sign(neg), body), d.zero, d.left, Sign(neg), body)
  BY <1>3, CPadIs
<1>5. d.width \in Nat /\ d.zero \in BOOLEAN /\ d.left \in BOOLEAN /\ FALSE \in BOOLEAN /\ 10 \in {10, 16}
  BY DirectiveType
<1>6. IsNumberText(v, 10, d.width, d.zero, neg, FALSE, d.left)
  <2>1. v \in Nat /\ neg \in BOOLEAN /\ (neg => v > 0)
    BY <1>1
  <2>2. IsNumber(v, 10, d.width, d.zero, neg, FALSE, d.left)
    BY <1>5, <2>1 DEF IsNumber
  <2> QED BY <2>2, NumberText
<1>7. ~ LeftZero(d) => ~ (d.left /\ v = 0)
  BY <1>1 DEF LeftZero
<1> QED BY <1>2, <1>4, <1>6, <1>7 DEF IsNumberText

LEMMA UnsignedText ==
  ASSUME NEW d \in Directives, IsDirective(d), d.conv \in {"u", "x", "X"}
  PROVE  Appended(d) \in Seq(Char) /\ (~ LeftZero(d) => Appended(d) = CText(d))
<1> DEFINE v == d.num
           b == IF d.conv = "u" THEN 10 ELSE 16
           up == d.conv = "X"
           body == CDigits(v, b, up)
<1>1. v \in Nat /\ b \in {10, 16} /\ up \in BOOLEAN
  BY DirectiveType
<1>2. Appended(d) = AppendNumber(v, b, d.width, d.zero, FALSE, up, d.left)
  BY DEF Appended, Unsigned
<1>3. CText(d) = CPad(d, d.width, << >>, body)
  <2>1. CASE d.conv = "u"
    BY <2>1 DEF CText
  <2>2. CASE d.conv \in {"x", "X"}
    BY <2>2 DEF CText
  <2> QED BY <2>1, <2>2
<1> HIDE DEF v, b, up
<1>4. CText(d) = PadOut(CPadPads(d.width, Sign(FALSE), body), d.zero, d.left, Sign(FALSE), body)
  BY <1>3, CPadIs DEF Sign
<1>5. d.width \in Nat /\ d.zero \in BOOLEAN /\ d.left \in BOOLEAN /\ FALSE \in BOOLEAN
  BY DirectiveType
<1>6. IsNumberText(v, b, d.width, d.zero, FALSE, up, d.left)
  <2>1. IsNumber(v, b, d.width, d.zero, FALSE, up, d.left)
    BY <1>1, <1>5 DEF IsNumber
  <2> QED BY <2>1, NumberText
<1>7. ~ LeftZero(d) => ~ (d.left /\ v = 0)
  BY DEF LeftZero, v
<1> QED BY <1>2, <1>4, <1>6, <1>7 DEF IsNumberText

\* 12 digits after the 0x, or 14 places with it.
LEMMA PointerText ==
  ASSUME NEW d \in Directives, IsDirective(d), d.conv = "p"
  PROVE  Appended(d) \in Seq(Char) /\ Appended(d) = CText(d)
<1> DEFINE v == d.num
           body == CDigits(v, 16, FALSE)
           sign == <<"0", "x">>
           n == AppendNumber(v, 16, 12, TRUE, FALSE, FALSE, FALSE)
           e == [d EXCEPT !.left = FALSE, !.zero = TRUE]
           k == Len(body)
           z == Zeros(Most(12 - k, 0))
<1>1. v \in Nat /\ ~ d.left /\ d.left = FALSE /\ e.left = FALSE /\ e.zero = TRUE
  <2>1. v \in Nat /\ ~ d.left /\ d.left \in BOOLEAN
    BY DirectiveType
  <2> QED BY <2>1 DEF Directives
<1>2. Appended(d) = sign \o n
  BY <1>1 DEF Appended, Pointer
<1>3. CText(d) = CPad(e, 14, sign, body)
  BY DEF CText
<1>4. body \in Seq(Char) /\ k \in Nat
  <2>1. body \in Seq(Char)
    <3>1. FALSE \in BOOLEAN /\ 16 \in {10, 16}
      OBVIOUS
    <3> QED BY <1>1, <3>1, CDigitsAre
  <2> HIDE DEF body
  <2> QED BY <2>1
<1>5. n = PadOut(CPadPads(12, Sign(FALSE), body), TRUE, FALSE, Sign(FALSE), body)
  <2>1. FALSE \in BOOLEAN /\ TRUE \in BOOLEAN /\ 16 \in {10, 16} /\ 12 \in Nat /\ (FALSE => v > 0)
        /\ ~ (FALSE /\ v = 0)
    OBVIOUS
  <2> HIDE DEF v
  <2>2. IsNumberText(v, 16, 12, TRUE, FALSE, FALSE, FALSE)
    <3>1. IsNumber(v, 16, 12, TRUE, FALSE, FALSE, FALSE)
      BY <1>1, <2>1 DEF IsNumber
    <3> QED BY <3>1, NumberText
  <2> QED BY <2>1, <2>2 DEF IsNumberText
<1> HIDE DEF n, body, e
<1>6. z \in Seq(Char)
  <2>1. Most(12 - k, 0) \in Nat
    BY <1>4 DEF Most
  <2> QED BY <2>1, FillType
<1>7. n = z \o body
  <2>1. Sign(FALSE) = << >>
    BY DEF Sign
  <2>2. << >> \o body = body /\ << >> \o z = z
    BY <1>4, <1>6, ConcatEmptySeq
  <2>3. CPadPads(12, Sign(FALSE), body) = Most(12 - k, 0)
    BY <2>1, <2>2 DEF CPadPads
  <2> HIDE DEF k
  <2>4. n = PadOut(Most(12 - k, 0), TRUE, FALSE, << >>, body)
    BY <1>5, <2>1, <2>3
  <2> QED BY <2>2, <2>4 DEF PadOut
<1>8. sign \in Seq(Char) /\ Len(sign) = 2
  <2>1. "0" \in Char /\ "x" \in Char
    BY DEF Char, LowerChars
  <2> QED BY <2>1
<1> HIDE DEF sign, k
<1>9. CPadPads(14, sign, body) = Most(12 - k, 0)
  <2>1. Len(sign \o body) = 2 + k
    <3>1. Len(sign \o body) = Len(sign) + Len(body)
      BY <1>4, <1>8, ConcatProperties
    <3> QED BY <1>8, <3>1 DEF k
  <2> HIDE DEF k
  <2>2. 14 - (2 + k) = 12 - k
    BY <1>4
  <2> QED BY <2>1, <2>2 DEF CPadPads
<1>10. CText(d) = sign \o z \o body
  <2>1. CText(d) = PadOut(CPadPads(14, sign, body), e.zero, e.left, sign, body)
    BY <1>3, CPadIs
  <2>2. CText(d) = PadOut(Most(12 - k, 0), TRUE, FALSE, sign, body)
    BY <1>1, <1>9, <2>1
  <2> QED BY <2>2 DEF PadOut
<1> HIDE DEF z
<1>11. sign \o (z \o body) = (sign \o z) \o body /\ sign \o (z \o body) \in Seq(Char)
  BY <1>4, <1>6, <1>8, ConcatAssociative, ConcatProperties
<1> QED BY <1>2, <1>7, <1>10, <1>11

LEMMA SubSeqType ==
  ASSUME NEW s \in Seq(Char), NEW m \in Nat
  PROVE  /\ SubSeq(s, 1, Least(Len(s), m)) \in Seq(Char)
         /\ SubSeq(s, 1, Least(Len(s), m)) = SubSeq(s, 1, Least(m, Len(s)))
<1> DEFINE n == Least(Len(s), m)
<1>1. n \in Nat /\ n <= Len(s) /\ n = Least(m, Len(s))
  BY DEF Least
<1>2. n \in 0 .. Len(s)
  BY <1>1
<1>3. SubSeq(s, 1, n) \in Seq(Char)
  <2> HIDE DEF n
  <2>1. \A i \in 1 .. n : s[i] \in Char
    BY <1>2
  <2> QED BY <1>2, <2>1, SubSeqProperties
<1> QED BY <1>1, <1>3

\* Without a precision, or where no blanks stand in front, a string is padded and
\* cut as C has it.
LEMMA StringText ==
  ASSUME NEW d \in Directives, IsDirective(d), d.conv = "s"
  PROVE  Appended(d) \in Seq(Char) /\ (~ RightPrecision(d) => Appended(d) = CText(d))
<1> DEFINE s == IF d.str = Null THEN <<"<", "n", "u", "l", "l", ">">> ELSE d.str
           w == d.width
           before == IF d.left THEN 0 ELSE Most(w - Len(s), 0)
           body == IF d.prec < 0 THEN s
                   ELSE SubSeq(s, 1, Least(Len(s), Most(d.prec - before, 0)))
           after == IF d.left THEN Most(w - Len(body), 0) ELSE 0
           cut == IF d.prec < 0 THEN s ELSE SubSeq(s, 1, Least(d.prec, Len(s)))
           e == [d EXCEPT !.zero = FALSE]
           n == Most(w - Len(cut), 0)
<1>1. d.left \in BOOLEAN /\ w \in Nat /\ d.prec \in Nat \cup {-1} /\ d.str \in Seq(Char)
  BY DirectiveType
<1>2. e.left = d.left /\ e.zero = FALSE
  BY DEF Directives
<1>3. s \in Seq(Char)
  <2>1. "<" \in Char /\ "n" \in Char /\ "u" \in Char /\ "l" \in Char /\ ">" \in Char
    BY DEF Char
  <2>2. <<"<", "n", "u", "l", "l", ">">> \in Seq(Char)
    BY <2>1
  <2> QED BY <1>1, <2>2
<1>4. Appended(d) = Blanks(before) \o body \o Blanks(after)
  BY DEF Appended, String
<1>5. CText(d) = CPad(e, w, << >>, cut)
  BY DEF CText
<1> HIDE DEF s, e, w
<1>6. before \in Nat /\ (d.left => before = 0) /\ (w = 0 => before = 0)
  <2>1. Len(s) \in Nat
    BY <1>3
  <2> QED BY <1>1, <2>1 DEF Most
<1> HIDE DEF before
<1>7. body \in Seq(Char)
  <2>1. Most(d.prec - before, 0) \in Nat
    BY <1>1, <1>6 DEF Most
  <2> QED BY <1>3, <2>1, SubSeqType
<1>8. cut \in Seq(Char)
  <2>1. CASE d.prec < 0
    BY <1>3, <2>1
  <2>2. CASE ~ (d.prec < 0)
    <3>1. d.prec \in Nat
      BY <1>1, <2>2
    <3> QED BY <1>3, <3>1, <2>2, SubSeqType
  <2> QED BY <2>1, <2>2
<1>9. before = 0 => body = cut
  <2> SUFFICES ASSUME before = 0, ~ (d.prec < 0) PROVE body = cut
    OBVIOUS
  <2>1. d.prec \in Nat /\ Most(d.prec - before, 0) = d.prec
    BY <1>1 DEF Most
  <2> QED BY <1>3, <2>1, SubSeqType
<1>10. d.prec < 0 => body = cut /\ cut = s
  OBVIOUS
<1> HIDE DEF body, cut
<1>11. after \in Nat /\ n \in Nat
  <2>1. Len(body) \in Nat /\ Len(cut) \in Nat
    BY <1>7, <1>8
  <2> QED BY <1>1, <2>1 DEF Most
<1>12. /\ Blanks(before) \in Seq(Char) /\ Blanks(after) \in Seq(Char)
       /\ Blanks(n) \in Seq(Char) /\ Blanks(0) = << >>
  <2>1. Blanks(0) = << >>
    BY DEF Blanks
  <2> HIDE DEF n, after
  <2> QED BY <1>6, <1>11, <2>1, FillType
<1>13. Appended(d) \in Seq(Char)
  BY <1>4, <1>7, <1>12, ConcatProperties
<1>14. CText(d) = IF d.left THEN cut \o Blanks(n) ELSE Blanks(n) \o cut
  <2>1. << >> \o cut = cut
    BY <1>8, ConcatEmptySeq
  <2>2. Blanks(n) \o << >> = Blanks(n)
    BY <1>12, ConcatEmptySeq
  <2>3. CText(d) = PadOut(n, FALSE, d.left, << >>, cut)
    BY <1>2, <1>5, <2>1, CPadIs DEF CPadPads
  <2> HIDE DEF n
  <2> QED BY <1>1, <2>1, <2>2, <2>3 DEF PadOut
<1>15. CASE d.left
  <2>1. body = cut /\ before = 0 /\ after = n
    BY <1>6, <1>9, <1>15
  <2>2. << >> \o cut = cut
    BY <1>8, ConcatEmptySeq
  <2> HIDE DEF n, after
  <2> QED BY <1>4, <1>12, <1>13, <1>14, <1>15, <2>1, <2>2
<1>16. CASE ~ d.left /\ ~ RightPrecision(d)
  <2>1. w = 0 \/ d.prec < 0
    <3>1. ~ (w > 0 /\ d.prec >= 0)
      BY <1>16 DEF RightPrecision, w
    <3> QED BY <1>1, <3>1
  <2>2. body = cut
    BY <1>6, <1>9, <1>10, <2>1
  <2>3. before = n
    <3>1. Len(cut) \in Nat
      BY <1>8
    <3>2. CASE w = 0
      <4>1. n = 0
        BY <3>1, <3>2 DEF Most
      <4> QED BY <1>6, <3>2, <4>1
    <3>3. CASE d.prec < 0
      BY <1>10, <1>16, <3>3 DEF before
    <3> QED BY <2>1, <3>2, <3>3
  <2>4. after = 0
    BY <1>16
  <2> HIDE DEF n, after
  <2>5. (Blanks(n) \o cut) \o << >> = Blanks(n) \o cut
    BY <1>8, <1>12, ConcatProperties, ConcatEmptySeq
  <2> QED BY <1>4, <1>12, <1>13, <1>14, <1>16, <2>2, <2>3, <2>4, <2>5
<1> QED BY <1>13, <1>15, <1>16

\* What the loop appends for a directive is what C says of it, but for the two
\* combinations that are known to differ.
LEMMA AppendedText ==
  ASSUME NEW d \in Directives, IsDirective(d)
  PROVE  /\ Appended(d) \in Seq(Char)
         /\ ~ LeftZero(d) /\ ~ RightPrecision(d) => Appended(d) = CText(d)
<1>1. CASE d.conv = "d"
  BY <1>1, SignedText
<1>2. CASE d.conv \in {"u", "x", "X"}
  BY <1>2, UnsignedText
<1>3. CASE d.conv = "p"
  BY <1>3, PointerText
<1>4. CASE d.conv = "s"
  BY <1>4, StringText
<1>5. CASE d.conv \in {"c", "lit", "%"}
  <2>1. CText(d) = Appended(d)
    BY <1>5 DEF CText
  <2>2. "%" \in Char
    BY DEF Char
  <2>3. <<"%">> \in Seq(Char)
    BY <2>2
  <2>4. d.str \in Seq(Char)
    BY DirectiveType
  <2>5. CASE d.conv = "%"
    BY <2>1, <2>3, <2>5 DEF Appended
  <2>6. CASE d.conv \in {"c", "lit"}
    BY <2>1, <2>4, <2>6 DEF Appended
  <2> QED BY <1>5, <2>5, <2>6
<1> QED BY <1>1, <1>2, <1>3, <1>4, <1>5, DirectiveType

-----------------------------------------------------------------------------
\* The texts one after the other.

\* f holds what the first i of ss are together: the recursive function of FlattenSeq.
IsFlat(ss, m, f) == f = [i \in 1 .. m |-> IF i = 1 THEN ss[i] ELSE f[i-1] \o ss[i]]

LEMMA FlattenIs ==
  ASSUME NEW ss
  PROVE  FlattenSeq(ss) = IF Len(ss) = 0 THEN ss ELSE (CHOOSE f : IsFlat(ss, Len(ss), f))[Len(ss)]
BY DEF FlattenSeq, IsFlat

LEMMA FlatAt ==
  ASSUME NEW ss, NEW m \in Nat, NEW f, IsFlat(ss, m, f), NEW i \in 1 .. m
  PROVE  /\ i = 1 => f[i] = ss[i]
         /\ i # 1 => f[i] = f[i-1] \o ss[i]
BY DEF IsFlat

LEMMA FlatExists ==
  ASSUME NEW ss, NEW k \in Nat
  PROVE  \E f : IsFlat(ss, k, f)
<1> DEFINE Bad == {m \in Nat : ~ \E f : IsFlat(ss, m, f)}
<1>1. SUFFICES ASSUME Bad # {} PROVE FALSE
  OBVIOUS
<1>2. PICK m \in Bad : \A y \in Bad : m <= y
  <2> Bad \in SUBSET Nat
    OBVIOUS
  <2> HIDE DEF Bad
  <2> QED BY <1>1, LeastOf
<1>3. m \in Nat /\ ~ \E f : IsFlat(ss, m, f)
  OBVIOUS
<1>4. m # 0
  <2> IsFlat(ss, 0, [i \in 1 .. 0 |-> 0])
    BY DEF IsFlat
  <2> QED BY <1>3
<1>5. PICK f : IsFlat(ss, m-1, f)
  BY <1>2, <1>3, <1>4
<1> DEFINE g == [i \in 1 .. m |-> IF i < m THEN f[i] ELSE IF i = 1 THEN ss[i] ELSE f[i-1] \o ss[i]]
<1>6. g = [i \in 1 .. m |-> IF i = 1 THEN ss[i] ELSE g[i-1] \o ss[i]]
  <2>1. ASSUME NEW i \in 1 .. m PROVE g[i] = IF i = 1 THEN ss[i] ELSE g[i-1] \o ss[i]
    <3>0. i # 1 => g[i-1] = f[i-1]
      <4>1. i # 1 => i-1 \in 1 .. m /\ i-1 < m
        BY <1>3
      <4> QED BY <4>1
    <3>1. CASE i = m
      <4>1. g[i] = IF i = 1 THEN ss[i] ELSE f[i-1] \o ss[i]
        BY <3>1
      <4> HIDE DEF g
      <4> QED BY <3>0, <4>1
    <3>2. CASE i # m
      <4>1. i \in 1 .. m-1 /\ m-1 \in Nat
        BY <3>2, <1>3, <1>4
      <4>2. (i = 1 => f[i] = ss[i]) /\ (i # 1 => f[i] = f[i-1] \o ss[i])
        BY <1>5, <4>1, FlatAt
      <4>3. g[i] = f[i]
        BY <4>1, <1>3
      <4> HIDE DEF g
      <4> QED BY <3>0, <4>2, <4>3
    <3> QED BY <3>1, <3>2
  <2> DEFINE h == [i \in 1 .. m |-> IF i = 1 THEN ss[i] ELSE g[i-1] \o ss[i]]
  <2>2. g = [i \in 1 .. m |-> g[i]] /\ h = [i \in 1 .. m |-> h[i]]
    OBVIOUS
  <2>3. \A i \in 1 .. m : g[i] = h[i]
    <3> HIDE DEF g
    <3> QED BY <2>1
  <2>4. g = h
    <3> HIDE DEF g, h
    <3> QED BY <2>2, <2>3
  <2> HIDE DEF g
  <2> QED BY <2>4
<1>7. IsFlat(ss, m, g)
  <2> HIDE DEF g
  <2> QED BY <1>6 DEF IsFlat
<1> QED BY <1>3, <1>7

LEMMA FlatAgree ==
  ASSUME NEW ss, NEW tt, NEW k \in Nat, NEW m \in Nat, m <= k, NEW f, NEW g,
         IsFlat(ss, m, f), IsFlat(tt, k, g), \A i \in 1 .. m : tt[i] = ss[i], NEW n \in 1 .. m
  PROVE  f[n] = g[n]
<1> DEFINE Bad == {j \in 1 .. m : f[j] # g[j]}
<1>1. SUFFICES ASSUME Bad # {} PROVE FALSE
  OBVIOUS
<1>2. PICK j \in Bad : \A y \in Bad : j <= y
  <2> Bad \in SUBSET Nat
    OBVIOUS
  <2> HIDE DEF Bad
  <2> QED BY <1>1, LeastOf
<1>3. j \in 1 .. m /\ j \in 1 .. k /\ f[j] # g[j] /\ tt[j] = ss[j]
  OBVIOUS
<1>4. j # 1 => f[j-1] = g[j-1]
  BY <1>2, <1>3
<1>5. /\ j = 1 => f[j] = ss[j] /\ g[j] = tt[j]
      /\ j # 1 => f[j] = f[j-1] \o ss[j] /\ g[j] = g[j-1] \o tt[j]
  <2>1. (j = 1 => f[j] = ss[j]) /\ (j # 1 => f[j] = f[j-1] \o ss[j])
    BY <1>3, FlatAt
  <2>2. (j = 1 => g[j] = tt[j]) /\ (j # 1 => g[j] = g[j-1] \o tt[j])
    BY <1>3, FlatAt
  <2> QED BY <2>1, <2>2
<1> QED BY <1>3, <1>4, <1>5

\* One more text at the end.
LEMMA FlattenMore ==
  ASSUME NEW ss, NEW tt, NEW m \in Nat, Len(ss) = m, Len(tt) = m+1,
         \A i \in 1 .. m : tt[i] = ss[i], m = 0 => ss = << >>, tt[m+1] \in Seq(Char)
  PROVE  FlattenSeq(tt) = FlattenSeq(ss) \o tt[m+1]
<1> DEFINE k == m + 1
<1>1. k \in Nat /\ k # 0 /\ m <= k /\ k \in 1 .. k /\ k - 1 = m /\ (k = 1 <=> m = 0) /\ (m # 0 => m \in 1 .. m)
  OBVIOUS
<1>2. Len(tt) = k /\ tt[k] \in Seq(Char)
  OBVIOUS
<1> HIDE DEF k
<1>3. PICK g : IsFlat(tt, k, g) /\ FlattenSeq(tt) = g[k]
  BY <1>1, <1>2, FlatExists, FlattenIs
<1>4. CASE m = 0
  <2>1. FlattenSeq(ss) = << >>
    BY <1>4, FlattenIs
  <2>2. << >> \o tt[k] = tt[k]
    BY <1>2, ConcatEmptySeq
  <2>3. g[k] = tt[k]
    BY <1>1, <1>3, <1>4 DEF IsFlat
  <2> QED BY <1>3, <2>1, <2>2, <2>3 DEF k
<1>5. CASE m # 0
  <2>1. PICK f : IsFlat(ss, m, f) /\ FlattenSeq(ss) = f[m]
    BY <1>5, FlatExists, FlattenIs
  <2>2. f[m] = g[m]
    BY <1>1, <1>3, <1>5, <2>1, FlatAgree
  <2>3. g[k] = g[k-1] \o tt[k]
    BY <1>1, <1>3, <1>5 DEF IsFlat
  <2> QED BY <1>1, <1>3, <2>1, <2>2, <2>3 DEF k
<1> QED BY <1>4, <1>5

\* The texts of the first n directives of a format.
Texts(f, n) == [i \in 1 .. n |-> CText(f[i])]

LEMMA TextsMore ==
  ASSUME NEW f, NEW n \in Nat, CText(f[n+1]) \in Seq(Char)
  PROVE  FlattenSeq(Texts(f, n+1)) = FlattenSeq(Texts(f, n)) \o CText(f[n+1])
<1> DEFINE ss == Texts(f, n)
           tt == Texts(f, n+1)
<1>1. /\ Len(ss) = n /\ Len(tt) = n+1 /\ tt[n+1] = CText(f[n+1])
      /\ \A i \in 1 .. n : tt[i] = ss[i]
      /\ n = 0 => ss = << >>
  BY DEF Texts
<1> HIDE DEF ss, tt
<1>2. FlattenSeq(tt) = FlattenSeq(ss) \o tt[n+1]
  <2>1. tt[n+1] \in Seq(Char)
    BY <1>1
  <2> QED BY <1>1, <2>1, FlattenMore
<1> QED BY <1>1, <1>2 DEF ss, tt

-----------------------------------------------------------------------------
\* The buffer.
Prefix(s, m) == SubSeq(s, 1, Least(Len(s), m))

LEMMA PrefixType ==
  ASSUME NEW s \in Seq(Char), NEW m \in Nat
  PROVE  /\ Prefix(s, m) \in Seq(Char)
         /\ Len(Prefix(s, m)) = Least(Len(s), m) /\ Len(Prefix(s, m)) \in 0 .. m
         /\ \A i \in 1 .. Len(Prefix(s, m)) : Prefix(s, m)[i] = s[i]
<1> DEFINE n == Least(Len(s), m)
<1>1. n \in Nat /\ n <= Len(s) /\ n <= m
  BY DEF Least
<1> HIDE DEF n
<1>2. SubSeq(s, 1, n) \in Seq(Char) /\ Len(SubSeq(s, 1, n)) = n
      /\ \A i \in 1 .. n : SubSeq(s, 1, n)[i] = s[i]
  <2>1. \A i \in 1 .. n : s[i] \in Char
    BY <1>1
  <2> QED BY <1>1, <2>1
<1> QED BY <1>1, <1>2 DEF Prefix, n

\* To append what fits of s to what fits of c is to keep what fits of both.
IsMore(c, s, m, t) == t \o Prefix(s, m - Len(t)) = Prefix(c \o s, m)

LEMMA PrefixMore ==
  ASSUME NEW c \in Seq(Char), NEW s \in Seq(Char), NEW m \in Nat, NEW t, t = Prefix(c, m)
  PROVE  IsMore(c, s, m, t)
<1> DEFINE k == m - Len(t)
           u == Prefix(s, k)
           b == c \o s
           p == Prefix(b, m)
<1>1. t \in Seq(Char) /\ Len(t) = Least(Len(c), m) /\ Len(t) \in 0 .. m
      /\ \A i \in 1 .. Len(t) : t[i] = c[i]
  BY PrefixType
<1>2. k \in Nat
  BY <1>1
<1>3. u \in Seq(Char) /\ Len(u) = Least(Len(s), k) /\ \A i \in 1 .. Len(u) : u[i] = s[i]
  <2> HIDE DEF k
  <2> QED BY <1>2, PrefixType
<1>4. /\ b \in Seq(Char) /\ Len(b) = Len(c) + Len(s)
      /\ \A i \in 1 .. Len(b) : b[i] = IF i <= Len(c) THEN c[i] ELSE s[i - Len(c)]
  BY ConcatProperties
<1>5. p \in Seq(Char) /\ Len(p) = Least(Len(b), m) /\ \A i \in 1 .. Len(p) : p[i] = b[i]
  <2> HIDE DEF b
  <2> QED BY <1>4, PrefixType
<1> HIDE DEF u, b, p
<1>6. /\ t \o u \in Seq(Char) /\ Len(t \o u) = Len(t) + Len(u)
      /\ \A i \in 1 .. Len(t) + Len(u) : (t \o u)[i] = IF i <= Len(t) THEN t[i] ELSE u[i - Len(t)]
  BY <1>1, <1>3, ConcatProperties
<1>7. Len(c) \in Nat /\ Len(s) \in Nat /\ Len(t) \in Nat /\ Len(u) \in Nat
  BY <1>1, <1>3
<1>8. Len(t \o u) = Len(p)
  <2>1. /\ Len(t) = Least(Len(c), m) /\ Len(u) = Least(Len(s), k) /\ k = m - Len(t)
        /\ Len(p) = Least(Len(c) + Len(s), m) /\ Len(t \o u) = Len(t) + Len(u)
    BY <1>1, <1>3, <1>4, <1>5, <1>6
  <2> HIDE DEF k
  <2>2. Len(t) + Len(u) = Least(Len(c) + Len(s), m)
    <3> DEFINE lc == Len(c)
               ls == Len(s)
               lt == Len(t)
               lu == Len(u)
    <3>1. lc \in Nat /\ ls \in Nat /\ lt = Least(lc, m) /\ lu = Least(ls, k) /\ k = m - lt
      BY <1>7, <2>1
    <3> HIDE DEF lc, ls, lt, lu
    <3>2. lt + lu = Least(lc + ls, m)
      BY <3>1, SMT DEF Least
    <3> QED BY <3>2 DEF lc, ls, lt, lu
  <2> QED BY <2>1, <2>2
<1>9. ASSUME NEW i \in 1 .. Len(p) PROVE (t \o u)[i] = p[i]
  <2>1. i \in 1 .. Len(t) + Len(u) /\ i \in 1 .. Len(b) /\ i \in Nat
    BY <1>4, <1>5, <1>6, <1>7, <1>8, SMT DEF Least
  <2>2. CASE i <= Len(t)
    <3>1. i \in 1 .. Len(t) /\ i <= Len(c)
      BY <1>1, <1>7, <2>1, <2>2, SMT DEF Least
    <3> QED BY <1>1, <1>4, <1>5, <1>6, <2>1, <2>2, <3>1
  <2>3. CASE ~ (i <= Len(t))
    <3>1. Len(t) = Len(c) /\ i - Len(c) \in 1 .. Len(u)
      BY <1>1, <1>3, <1>5, <1>6, <1>7, <1>8, <2>1, <2>3, SMT DEF Least
    <3>2. (t \o u)[i] = u[i - Len(t)] /\ b[i] = s[i - Len(c)]
      BY <1>4, <1>6, <2>1, <2>3, <3>1
    <3> QED BY <1>3, <1>5, <3>1, <3>2
  <2> QED BY <2>2, <2>3
<1>10. t \o u = p
  BY <1>5, <1>6, <1>8, <1>9, SeqEqual
<1> QED BY <1>10 DEF IsMore, u, b, p

\* prints stops in front of the first 0.
LEMMA PrintsIs ==
  ASSUME NEW s \in Seq(Char), NEW j \in 1 .. Len(s),
         s[j] = Nul, \A i \in 1 .. j-1 : s[i] # Nul
  PROVE  Prints(s) = SubSeq(s, 1, j-1)
<1> DEFINE I == {i \in 1 .. Len(s) : s[i] = Nul}
<1>1. j \in I /\ \A y \in I : j <= y
  OBVIOUS
<1>2. Min(I) = j
  <2>1. \A x \in I : (\A y \in I : x <= y) => x = j
    <3>1. I \subseteq Nat
      OBVIOUS
    <3> HIDE DEF I
    <3> QED BY <1>1, <3>1
  <2> HIDE DEF I
  <2>2. \E x \in I : \A y \in I : x <= y
    BY <1>1
  <2> QED BY <2>1, <2>2 DEF Min
<1>3. SelectInSeq(s, LAMBDA c : c = Nul) = j
  BY <1>1, <1>2 DEF SelectInSeq
<1>4. Contains(s, Nul)
  BY DEF Contains
<1> QED BY <1>3, <1>4 DEF Prints

LEMMA PrintsEnd ==
  ASSUME NEW b \in Seq(Char)
  PROVE  Prints(Append(b, Nul)) = Prints(b)
<1> DEFINE s == Append(b, Nul)
           n == Len(b)
<1>1. /\ s \in Seq(Char) /\ Len(s) = n+1 /\ s[n+1] = Nul /\ n \in Nat
      /\ \A i \in 1 .. n : s[i] = b[i]
  <2>1. Nul \in Char
    BY DEF Char
  <2> QED BY <2>1, AppendProperties
<1> HIDE DEF s
<1>2. CASE Contains(b, Nul)
  <2> DEFINE I == {i \in 1 .. n : b[i] = Nul}
  <2>1. PICK j \in I : \A y \in I : j <= y
    <3>1. I \in SUBSET Nat /\ I # {}
      BY <1>2 DEF Contains
    <3> HIDE DEF I
    <3> QED BY <3>1, LeastOf
  <2>2. j \in 1 .. Len(b) /\ b[j] = Nul /\ \A i \in 1 .. j-1 : b[i] # Nul
    BY <2>1
  <2>3. j \in 1 .. Len(s) /\ s[j] = Nul /\ \A i \in 1 .. j-1 : s[i] # Nul
    BY <1>1, <2>2
  <2>4. Prints(b) = SubSeq(b, 1, j-1) /\ Prints(s) = SubSeq(s, 1, j-1)
    BY <1>1, <2>2, <2>3, PrintsIs
  <2>5. SubSeq(b, 1, j-1) = SubSeq(s, 1, j-1)
    <3>1. /\ SubSeq(b, 1, j-1) = [i \in 1 .. j-1 |-> b[i]]
          /\ SubSeq(s, 1, j-1) = [i \in 1 .. j-1 |-> s[i]]
      BY <1>1, <2>2, <2>3
    <3>2. \A i \in 1 .. j-1 : s[i] = b[i]
      BY <1>1, <2>2
    <3> QED BY <3>1, <3>2
  <2> QED BY <2>4, <2>5 DEF s
<1>3. CASE ~ Contains(b, Nul)
  <2>1. \A i \in 1 .. n : b[i] # Nul
    BY <1>3 DEF Contains
  <2>2. n+1 \in 1 .. Len(s) /\ \A i \in 1 .. (n+1)-1 : s[i] # Nul
    BY <1>1, <2>1
  <2>3. Prints(s) = SubSeq(s, 1, (n+1)-1)
    <3> DEFINE j == n + 1
    <3> HIDE DEF j
    <3>1. j \in 1 .. Len(s) /\ s[j] = Nul /\ \A i \in 1 .. j-1 : s[i] # Nul
      BY <1>1, <2>2 DEF j
    <3>2. Prints(s) = SubSeq(s, 1, j-1)
      BY <1>1, <3>1, PrintsIs
    <3> QED BY <3>2 DEF j
  <2>4. SubSeq(s, 1, n) = b
    <3>1. SubSeq(s, 1, n) = [i \in 1 .. n |-> s[i]] /\ b = [i \in 1 .. n |-> b[i]]
      BY <1>1
    <3> QED BY <1>1, <3>1
  <2>5. Prints(b) = b /\ (n+1)-1 = n
    BY <1>1, <1>3 DEF Prints
  <2> QED BY <2>3, <2>4, <2>5 DEF s
<1> QED BY <1>2, <1>3

-----------------------------------------------------------------------------
\* The loop of VSNPrintf.

Max1 == BufLength - 1

\* What Rendered says of a state, with the types that its steps need.
Inv == /\ TypeOK
       /\ buff \in Seq(Char)
       /\ ~ Differs => CSoFar \in Seq(Char)
       /\ Rendered

LEMMA RoomType == Max1 \in Nat /\ BufLength \in Nat /\ BufLength = Max1 + 1
BY FormatAssumption DEF Max1

LEMMA SoFarIs == CSoFar = FlattenSeq(Texts(format, Least(cur-1, Len(format))))
BY DEF CSoFar, Texts

LEMMA SoFarIsNext == CSoFar' = FlattenSeq(Texts(format', Least(cur'-1, Len(format'))))
BY DEF CSoFar, Texts

LEMMA InitInv ==
  ASSUME Init
  PROVE  Inv
<1>1. /\ format \in Seq(Directives) /\ \A i \in DOMAIN format : IsDirective(format[i])
      /\ cur = 1 /\ buff = << >> /\ result = 0 /\ Len(format) \in Nat
  BY FormatAssumption DEF Init
<1>2. TypeOK
  BY <1>1, RoomType DEF TypeOK
<1>3. CSoFar = << >>
  <2>1. Least(cur-1, Len(format)) = 0
    BY <1>1 DEF Least
  <2>2. Texts(format, 0) = << >>
    BY DEF Texts
  <2> QED BY <2>1, <2>2, SoFarIs, FlattenIs
<1>4. SubSeq(CSoFar, 1, Least(Len(CSoFar), BufLength - 1)) = << >>
  <2>1. Least(0, BufLength - 1) = 0
    BY RoomType DEF Least
  <2>2. Len(CSoFar) = 0
    BY <1>3
  <2> QED BY <1>3, <2>1, <2>2
<1>5. Rendered
  <2>1. cur # Len(format) + 2 /\ Len(CSoFar) = 0
    BY <1>1, <1>3
  <2> QED BY <1>1, <1>4, <2>1 DEF Rendered
<1> QED BY <1>1, <1>2, <1>3, <1>5 DEF Inv

LEMMA DirectiveInv ==
  ASSUME Inv, Directive
  PROVE  Inv'
<1> DEFINE d == format[cur]
           s == Appended(d)
           n == cur - 1
<1>1. /\ format \in Seq(Directives) /\ \A i \in DOMAIN format : IsDirective(format[i])
      /\ cur \in 1 .. Len(format) /\ Len(format) \in Nat
      /\ Len(buff) < BufLength /\ result \in Nat /\ buff \in Seq(Char)
  BY DEF Inv, TypeOK, Directive
<1>2. /\ format' = format /\ cur' = cur + 1 /\ printed' = printed
      /\ buff' = AppendChars(buff, s) /\ result' = result + Len(s)
  BY DEF Directive, Count
<1>3. d \in Directives /\ IsDirective(d)
  BY <1>1
<1>4. s \in Seq(Char) /\ (~ LeftZero(d) /\ ~ RightPrecision(d) => s = CText(d))
  <2> HIDE DEF d
  <2> QED BY <1>3, AppendedText
<1>5. Len(buff) \in Nat /\ Len(buff) <= Max1 /\ Max1 - Len(buff) \in Nat
  <2>1. Len(buff) \in Nat
    BY <1>1
  <2> QED BY <1>1, <2>1, RoomType
<1> HIDE DEF s
<1>6. buff' = buff \o Prefix(s, Max1 - Len(buff))
  BY <1>2 DEF AppendChars, Prefix, Max1
<1>7. buff' \in Seq(Char) /\ Len(buff') <= Max1 /\ Len(buff') \in Nat
  <2> DEFINE k == Max1 - Len(buff)
             u == Prefix(s, k)
  <2>1. u \in Seq(Char) /\ Len(u) \in 0 .. k
    <3> HIDE DEF k
    <3> QED BY <1>4, <1>5, PrefixType DEF k
  <2> HIDE DEF u
  <2>2. buff \o u \in Seq(Char) /\ Len(buff \o u) = Len(buff) + Len(u)
    BY <1>1, <2>1, ConcatProperties
  <2>3. Len(buff) + Len(u) <= Max1 /\ Len(buff) + Len(u) \in Nat
    BY <1>5, <2>1, RoomType
  <2>4. buff' = buff \o u
    BY <1>6 DEF u
  <2> QED BY <2>2, <2>3, <2>4
<1>8. TypeOK'
  <2>1. Len(buff') < BufLength
    BY <1>7, RoomType
  <2>2. result' \in Nat
    <3>1. Len(s) \in Nat
      BY <1>4
    <3> QED BY <1>1, <1>2, <3>1
  <2>3. cur' \in 1 .. Len(format') + 2
    BY <1>1, <1>2
  <2>4. format' \in Seq(Directives) /\ \A i \in DOMAIN format' : IsDirective(format'[i])
    BY <1>1, <1>2
  <2> QED BY <2>1, <2>2, <2>3, <2>4 DEF TypeOK
<1>9. Differs' = Differs
  BY <1>2 DEF Differs
<1>10. ASSUME ~ Differs
       PROVE  /\ CSoFar' \in Seq(Char)
              /\ buff' = SubSeq(CSoFar', 1, Least(Len(CSoFar'), BufLength - 1))
              /\ result' = Len(CSoFar')
  <2>1. /\ CSoFar \in Seq(Char) /\ result = Len(CSoFar)
        /\ buff = Prefix(CSoFar, Max1)
    BY <1>10 DEF Inv, Rendered, Prefix, Max1
  <2>2. s = CText(d)
    <3>1. cur \in DOMAIN format
      BY <1>1
    <3>2. ~ LeftZero(d) /\ ~ RightPrecision(d)
      BY <1>10, <3>1, Zenon DEF Differs
    <3> QED BY <1>4, <3>2
  <2>3. n \in Nat /\ n + 1 = cur /\ Least(cur-1, Len(format)) = n
        /\ Least(cur'-1, Len(format')) = n + 1
    BY <1>1, <1>2 DEF Least
  <2>4. CSoFar = FlattenSeq(Texts(format, n))
    BY <2>3, SoFarIs
  <2>5. CSoFar' = FlattenSeq(Texts(format, n+1))
    BY <1>2, <2>3, SoFarIsNext
  <2>6. CText(format[n+1]) = s
    BY <2>2, <2>3
  <2> HIDE DEF n
  <2>7. CSoFar' = CSoFar \o s
    <3>1. FlattenSeq(Texts(format, n+1)) = FlattenSeq(Texts(format, n)) \o CText(format[n+1])
      BY <1>4, <2>3, <2>6, TextsMore
    <3> QED BY <2>4, <2>5, <2>6, <3>1
  <2>8. CSoFar \o s \in Seq(Char) /\ Len(CSoFar \o s) = Len(CSoFar) + Len(s)
    BY <1>4, <2>1, ConcatProperties
  <2>9. buff \o Prefix(s, Max1 - Len(buff)) = Prefix(CSoFar \o s, Max1)
    <3>1. IsMore(CSoFar, s, Max1, buff)
      BY <1>4, <2>1, RoomType, PrefixMore
    <3> QED BY <3>1 DEF IsMore
  <2>10. buff' = Prefix(CSoFar', Max1)
    BY <1>6, <2>7, <2>9
  <2> QED BY <1>2, <2>1, <2>7, <2>8, <2>10 DEF Prefix, Max1
<1>11. cur' # Len(format') + 2
  BY <1>1, <1>2
<1>12. Rendered'
  BY <1>9, <1>10, <1>11 DEF Rendered
<1> QED BY <1>7, <1>8, <1>9, <1>10, <1>12 DEF Inv

LEMMA FinishInv ==
  ASSUME Inv, Finish
  PROVE  Inv'
<1>1. /\ format \in Seq(Directives) /\ \A i \in DOMAIN format : IsDirective(format[i])
      /\ cur = Len(format) + 1 /\ Len(format) \in Nat
      /\ Len(buff) < BufLength /\ result \in Nat /\ buff \in Seq(Char)
  BY DEF Inv, TypeOK, Finish
<1>2. /\ format' = format /\ cur' = cur + 1 /\ buff' = buff /\ result' = result
      /\ printed' = Prints(Append(buff, Nul))
  BY DEF Finish
<1>3. TypeOK'
  BY <1>1, <1>2 DEF TypeOK
<1>4. Differs' = Differs
  BY <1>2 DEF Differs
<1>5. CSoFar' = CSoFar
  <2>1. Least(cur-1, Len(format)) = Len(format) /\ Least(cur'-1, Len(format')) = Len(format)
    BY <1>1, <1>2 DEF Least
  <2> QED BY <1>2, <2>1, SoFarIs, SoFarIsNext
<1>6. printed' = Prints(buff')
  BY <1>1, <1>2, PrintsEnd
<1>7. Rendered'
  BY <1>2, <1>4, <1>5, <1>6 DEF Inv, Rendered
<1> QED BY <1>1, <1>2, <1>3, <1>4, <1>5, <1>7 DEF Inv

LEMMA NextInv ==
  ASSUME Inv, [Next]_vars
  PROVE  Inv'
<1>1. CASE Directive
  BY <1>1, DirectiveInv
<1>2. CASE Finish
  BY <1>2, FinishInv
<1>3. CASE UNCHANGED vars
  BY <1>3 DEF vars, Inv, TypeOK, Rendered, Differs, CSoFar
<1> QED BY <1>1, <1>2, <1>3 DEF Next

LEMMA SpecInv == Spec => []Inv
<1>1. Init => Inv
  BY InitInv
<1>2. Inv /\ [Next]_vars => Inv'
  BY NextInv
<1> QED BY <1>1, <1>2, PTL DEF Spec

\* No text takes the place that the 0 at the end needs, for every buffer and every
\* list of directives, also where the text is not what C has
\* (AppendChar, sanitizer_printf.cpp:50-57).
THEOREM PrintfTypes == Spec => []TypeOK
<1>1. Inv => TypeOK
  BY DEF Inv
<1> QED BY <1>1, SpecInv, PTL

\* The text of every list of supported directives, with every width, precision
\* and number, is the text C asks for, as much of it as the buffer takes, and its
\* whole length is returned (sanitizer_printf.cpp:50-255, 278-287).
THEOREM PrintfRendered == Spec => []Rendered
<1>1. Inv => Rendered
  BY DEF Inv
<1> QED BY <1>1, SpecInv, PTL
=============================================================================
