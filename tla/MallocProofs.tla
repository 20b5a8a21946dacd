---------------------------- MODULE MallocProofs ----------------------------
(***************************************************************************)
(* For every size of heap and pointer and every sequence of calls:         *)
(*                                                                         *)
(* 1. The chunks of Malloc tile the heap.                                  *)
(* 2. Every block lies in a chunk of its own, with room for what the       *)
(*    program asked for, and nothing is written over its data: the heap    *)
(*    implements Allocator.                                                *)
(* 3. The free list ascends, and no two of its chunks touch: free joins    *)
(*    all there is to join.  So malloc fails only if no gap is large       *)
(*    enough, and a program that gives back everything has the whole heap. *)
(***************************************************************************)
EXTENDS Malloc, SequenceTheorems, WellFoundedInduction, TLAPS

(***************************************************************************)
(* 1. The chunks tile the heap.                                            *)
(***************************************************************************)
-----------------------------------------------------------------------------
\* The least number of a set, and the place of the first entry that passes.

Below == {p \in Nat \X Nat : p[1] < p[2]}

LEMMA MinFact ==
  ASSUME NEW T \in SUBSET Nat, T # {}
  PROVE  Min(T) \in T /\ \A y \in T : Min(T) <= y
<1>1. IsWellFoundedOn(Below, Nat)
  BY NatLessThanWellFounded DEF OpToRel, Below
<1>2. PICK x \in T : \A y \in T : ~ (<<y, x>> \in Below)
  BY <1>1, WFMin
<1>3. ASSUME NEW y \in T PROVE x <= y
  <2>1. y < x => <<y, x>> \in Below
    BY DEF Below
  <2>2. ~ (y < x)
    BY <1>2, <2>1
  <2> QED BY <2>2
<1> QED BY <1>3 DEF Min

LEMMA PlaceFact ==
  ASSUME NEW h, h.list \in Seq(Nat), NEW a
  PROVE  Place(h, a) \in 1 .. Len(h.list) + 1
<1> DEFINE I == {i \in 1 .. Len(h.list) : h.list[i] >= a}
<1>1. I \in SUBSET Nat
  OBVIOUS
<1>2. I # {} => Min(I) \in I
  <2> HIDE DEF I
  <2> QED BY <1>1, MinFact
<1> QED BY <1>2 DEF Place, SelectInSeq

-----------------------------------------------------------------------------
\* Lists without repetition.  The lemmas about the places of a list are
\* stated for any function, those about Len and \o apart from them.

OneEach(l, n, S) == /\ \A i \in 1 .. n : l[i] \in S
                    /\ \A i, j \in 1 .. n : l[i] = l[j] => i = j
                    /\ \A x \in S : \E i \in 1 .. n : l[i] = x

Lists(l, S) == l \in Seq(Nat) /\ OneEach(l, Len(l), S)

LEMMA InsertEach ==
  ASSUME NEW n \in Nat, NEW l, NEW m, NEW S, OneEach(l, n, S),
         NEW a, a \notin S, NEW k \in 1 .. n+1,
         \A i \in 1 .. n+1 : m[i] = IF i < k THEN l[i] ELSE IF i = k THEN a ELSE l[i-1]
  PROVE  OneEach(m, n+1, S \union {a})
<1>1. \A i \in 1 .. n+1 : m[i] \in S \union {a}
  BY DEF OneEach
<1>2. \A i, j \in 1 .. n+1 : m[i] = m[j] => i = j
  BY DEF OneEach
<1>3. ASSUME NEW x \in S PROVE \E i \in 1 .. n+1 : m[i] = x
  <2>1. PICK j \in 1 .. n : l[j] = x
    BY DEF OneEach
  <2>2. CASE j < k
    BY <2>1, <2>2
  <2>3. CASE j >= k
    <3>1. j + 1 \in 1 .. n+1 /\ m[j+1] = x
      BY <2>1, <2>3
    <3> QED BY <3>1
  <2> QED BY <2>2, <2>3
<1>4. k \in 1 .. n+1 /\ m[k] = a
  OBVIOUS
<1> QED BY <1>1, <1>2, <1>3, <1>4 DEF OneEach

LEMMA RemoveEach ==
  ASSUME NEW n \in Nat, NEW l, NEW m, NEW S, OneEach(l, n, S), NEW k \in 1 .. n,
         \A i \in 1 .. n-1 : m[i] = IF i < k THEN l[i] ELSE l[i+1]
  PROVE  OneEach(m, n-1, S \ {l[k]})
<1>1. \A i \in 1 .. n-1 : m[i] \in S \ {l[k]}
  BY DEF OneEach
<1>2. \A i, j \in 1 .. n-1 : m[i] = m[j] => i = j
  BY DEF OneEach
<1>3. ASSUME NEW x \in S \ {l[k]} PROVE \E i \in 1 .. n-1 : m[i] = x
  <2>1. PICK j \in 1 .. n : l[j] = x
    BY DEF OneEach
  <2>2. CASE j < k
    BY <2>1, <2>2
  <2>3. CASE j > k
    <3>1. j - 1 \in 1 .. n-1 /\ m[j-1] = x
      BY <2>1, <2>3
    <3> QED BY <3>1
  <2>4. j # k
    BY <2>1
  <2> QED BY <2>2, <2>3, <2>4
<1> QED BY <1>1, <1>2, <1>3 DEF OneEach

LEMMA ReplaceEach ==
  ASSUME NEW n \in Nat, NEW l, NEW m, NEW S, OneEach(l, n, S),
         NEW a, a \notin S, NEW k \in 1 .. n,
         \A i \in 1 .. n : m[i] = IF i = k THEN a ELSE l[i]
  PROVE  OneEach(m, n, (S \ {l[k]}) \union {a})
  BY DEF OneEach

LEMMA InsertValue ==
  ASSUME NEW l \in Seq(Nat), NEW a \in Nat, NEW k \in 1 .. Len(l)+1
  PROVE  /\ InsertAt(l, k, a) \in Seq(Nat)
         /\ Len(InsertAt(l, k, a)) = Len(l) + 1
         /\ \A i \in 1 .. Len(l)+1 : InsertAt(l, k, a)[i] =
                IF i < k THEN l[i] ELSE IF i = k THEN a ELSE l[i-1]
<1> DEFINE p == SubSeq(l, 1, k-1)
           q == SubSeq(l, k, Len(l))
<1>1. /\ p \in Seq(Nat) /\ Len(p) = k - 1
      /\ \A i \in 1 .. k-1 : p[i] = l[i]
  BY SubSeqProperties
<1>2. /\ q \in Seq(Nat) /\ Len(q) = Len(l) - k + 1
      /\ \A i \in 1 .. Len(l)-k+1 : q[i] = l[k+i-1]
  BY SubSeqProperties
<1>3. <<a>> \in Seq(Nat) /\ Len(<<a>>) = 1 /\ <<a>>[1] = a
  OBVIOUS
<1> HIDE DEF p, q
<1> DEFINE r == p \o <<a>>
<1>4. /\ r \in Seq(Nat) /\ Len(r) = k
      /\ \A i \in 1 .. k : r[i] = IF i < k THEN l[i] ELSE a
  BY <1>1, <1>3, ConcatProperties
<1> HIDE DEF r
<1>5. /\ r \o q \in Seq(Nat) /\ Len(r \o q) = Len(r) + Len(q)
      /\ \A i \in 1 .. Len(r) + Len(q) : (r \o q)[i] = IF i <= Len(r) THEN r[i] ELSE q[i - Len(r)]
  BY <1>2, <1>4, ConcatProperties
<1>6. Len(r) + Len(q) = Len(l) + 1
  BY <1>2, <1>4
<1>7. ASSUME NEW i \in k+1 .. Len(l)+1 PROVE q[i-k] = l[i-1]
  <2>1. i - k \in 1 .. Len(l)-k+1 /\ k + (i - k) - 1 = i - 1
    OBVIOUS
  <2>2. q[i-k] = l[k + (i-k) - 1]
    BY <2>1, <1>2, Zenon
  <2> QED BY <2>1, <2>2, Zenon
<1>8. InsertAt(l, k, a) = r \o q
  BY DEF InsertAt, r, p, q
<1>9. ASSUME NEW i \in 1 .. Len(l)+1
      PROVE  (r \o q)[i] = IF i < k THEN l[i] ELSE IF i = k THEN a ELSE l[i-1]
  <2>0. i \in 1 .. Len(r) + Len(q) /\ Len(r) = k
    BY <1>4, <1>6
  <2>1. CASE i <= k
    <3>1. i \in 1 .. k /\ (i < k \/ i = k) /\ (i < k => i # k)
      BY <2>1
    <3>2. (r \o q)[i] = r[i]
      BY <1>5, <2>0, <2>1, Zenon
    <3>3. r[i] = IF i < k THEN l[i] ELSE a
      BY <1>4, <3>1, Zenon
    <3> QED BY <3>1, <3>2, <3>3, Zenon
  <2>2. CASE i > k
    <3>1. i \in k+1 .. Len(l)+1 /\ ~ (i <= k) /\ ~ (i < k) /\ i # k
      BY <2>2
    <3>2. (r \o q)[i] = q[i-k]
      BY <1>5, <2>0, <3>1, Zenon
    <3>3. q[i-k] = l[i-1]
      BY <1>7, <3>1, Zenon
    <3> QED BY <3>1, <3>2, <3>3, Zenon
  <2>3. i <= k \/ i > k
    OBVIOUS
  <2> QED BY <2>1, <2>2, <2>3, Zenon
<1> QED BY <1>5, <1>6, <1>8, <1>9, Zenon

LEMMA RemoveValue ==
  ASSUME NEW l \in Seq(Nat), NEW k \in 1 .. Len(l)
  PROVE  /\ RemoveAt(l, k) \in Seq(Nat)
         /\ Len(RemoveAt(l, k)) = Len(l) - 1
         /\ \A i \in 1 .. Len(l)-1 : RemoveAt(l, k)[i] = IF i < k THEN l[i] ELSE l[i+1]
<1> DEFINE p == SubSeq(l, 1, k-1)
           q == SubSeq(l, k+1, Len(l))
<1>1. /\ p \in Seq(Nat) /\ Len(p) = k - 1
      /\ \A i \in 1 .. k-1 : p[i] = l[i]
  BY SubSeqProperties
<1>2. /\ q \in Seq(Nat) /\ Len(q) = Len(l) - k
      /\ \A i \in 1 .. Len(l)-k : q[i] = l[k+i]
  <2>1. /\ k+1 \in Int /\ Len(l) \in Int
        /\ \A i \in k+1 .. Len(l) : l[i] \in Nat
    OBVIOUS
  <2>2. /\ q \in Seq(Nat)
        /\ Len(q) = IF k+1 <= Len(l) THEN Len(l)-(k+1)+1 ELSE 0
        /\ \A i \in 1 .. Len(l)-(k+1)+1 : q[i] = l[(k+1)+i-1]
    BY <2>1, SubSeqProperties
  <2> HIDE DEF q
  <2>3. (IF k+1 <= Len(l) THEN Len(l)-(k+1)+1 ELSE 0) = Len(l) - k
    OBVIOUS
  <2>4. Len(l)-(k+1)+1 = Len(l)-k /\ \A i \in 1 .. Len(l)-k : (k+1)+i-1 = k+i
    OBVIOUS
  <2> QED BY <2>2, <2>3, <2>4, Zenon
<1> HIDE DEF p, q
<1> DEFINE v == p \o q
<1>3. /\ v \in Seq(Nat) /\ Len(v) = Len(l) - 1
      /\ \A i \in 1 .. Len(l)-1 : v[i] = IF i <= k-1 THEN p[i] ELSE q[i - (k-1)]
  <2>1. /\ v \in Seq(Nat) /\ Len(v) = Len(p) + Len(q)
        /\ \A i \in 1 .. Len(p) + Len(q) : v[i] = IF i <= Len(p) THEN p[i] ELSE q[i - Len(p)]
    BY <1>1, <1>2, ConcatProperties, Zenon
  <2>2. Len(p) = k-1 /\ Len(p) + Len(q) = Len(l) - 1
    BY <1>1, <1>2
  <2> QED BY <2>1, <2>2, Zenon
<1> HIDE DEF v
<1>4. ASSUME NEW i \in 1 .. Len(l)-1, i >= k PROVE v[i] = l[i+1]
  <2>1. /\ i - (k-1) \in 1 .. Len(l)-k /\ ~ (i <= k-1)
        /\ k + (i - (k-1)) = i + 1
    BY <1>4
  <2>2. v[i] = q[i - (k-1)]
    BY <2>1, <1>3, Zenon
  <2>3. q[i - (k-1)] = l[k + (i - (k-1))]
    BY <2>1, <1>2, Zenon
  <2> QED BY <2>1, <2>2, <2>3, Zenon
<1>5. ASSUME NEW i \in 1 .. Len(l)-1, i < k PROVE v[i] = l[i]
  <2>1. i <= k-1 /\ i \in 1 .. k-1
    BY <1>5
  <2> QED BY <2>1, <1>1, <1>3, Zenon
<1>6. RemoveAt(l, k) = v
  BY DEF RemoveAt, p, q, v
<1>7. \A i \in 1 .. Len(l)-1 : i < k \/ i >= k
  OBVIOUS
<1>8. \A i \in 1 .. Len(l)-1 : i < k => ~ (i >= k)
  OBVIOUS
<1> QED BY <1>3, <1>4, <1>5, <1>6, <1>7, <1>8, Zenon

LEMMA InsertList ==
  ASSUME NEW l, NEW S, Lists(l, S), NEW a \in Nat, a \notin S, NEW k \in 1 .. Len(l)+1
  PROVE  Lists(InsertAt(l, k, a), S \union {a})
<1> DEFINE m == InsertAt(l, k, a)
           n == Len(l)
<1>1. l \in Seq(Nat) /\ n \in Nat /\ OneEach(l, n, S)
  BY DEF Lists
<1>2. /\ m \in Seq(Nat)
      /\ Len(m) = n + 1
      /\ \A i \in 1 .. n+1 : m[i] = IF i < k THEN l[i] ELSE IF i = k THEN a ELSE l[i-1]
  BY <1>1, InsertValue
<1> HIDE DEF m, n
<1>3. k \in 1 .. n+1
  BY DEF n
<1>4. OneEach(m, n+1, S \union {a})
  BY <1>1, <1>2, <1>3, InsertEach
<1> QED BY <1>2, <1>4 DEF m, Lists

LEMMA RemoveList ==
  ASSUME NEW l, NEW S, Lists(l, S), NEW k \in 1 .. Len(l)
  PROVE  Lists(RemoveAt(l, k), S \ {l[k]})
<1> DEFINE m == RemoveAt(l, k)
           n == Len(l)
<1>1. l \in Seq(Nat) /\ n \in Nat /\ OneEach(l, n, S)
  BY DEF Lists
<1>2. /\ m \in Seq(Nat)
      /\ Len(m) = n - 1
      /\ \A i \in 1 .. n-1 : m[i] = IF i < k THEN l[i] ELSE l[i+1]
  BY <1>1, RemoveValue
<1> HIDE DEF m, n
<1>3. k \in 1 .. n
  BY DEF n
<1>4. OneEach(m, n-1, S \ {l[k]})
  BY <1>1, <1>2, <1>3, RemoveEach
<1> QED BY <1>2, <1>4 DEF m, Lists

LEMMA ReplaceList ==
  ASSUME NEW l, NEW S, Lists(l, S), NEW a \in Nat, a \notin S, NEW k \in 1 .. Len(l)
  PROVE  Lists(ReplaceAt(l, k, a), (S \ {l[k]}) \union {a})
<1> DEFINE m == ReplaceAt(l, k, a)
           n == Len(l)
<1>1. l \in Seq(Nat) /\ n \in Nat /\ OneEach(l, n, S)
  BY DEF Lists
<1>2. /\ m \in Seq(Nat)
      /\ Len(m) = n
      /\ \A i \in 1 .. n : m[i] = IF i = k THEN a ELSE l[i]
  BY <1>1 DEF ReplaceAt
<1> HIDE DEF m, n
<1>3. k \in 1 .. n
  BY DEF n
<1>4. OneEach(m, n, (S \ {l[k]}) \union {a})
  BY <1>1, <1>2, <1>3, ReplaceEach
<1> QED BY <1>2, <1>4 DEF m, Lists

LEMMA FrontList ==
  ASSUME NEW l, NEW S, Lists(l, S), l # << >>
  PROVE  Len(l) \in 1 .. Len(l) /\ Lists(Front(l), S \ {Last(l)})
<1>1. l \in Seq(Nat) /\ Len(l) \in 1 .. Len(l)
  BY DEF Lists
<1>2. Front(l) = SubSeq(l, 1, Len(l)-1)
  BY DEF Front
<1>3. SubSeq(l, Len(l)+1, Len(l)) = << >>
  BY <1>1, SubSeqEmpty
<1>4. SubSeq(l, 1, Len(l)-1) \in Seq(Nat)
  BY <1>1, SubSeqProperties
<1>5. SubSeq(l, 1, Len(l)-1) \o << >> = SubSeq(l, 1, Len(l)-1)
  BY <1>4, ConcatEmptySeq
<1>6. Front(l) = RemoveAt(l, Len(l))
  BY <1>2, <1>3, <1>5, Zenon DEF RemoveAt
<1>7. Lists(RemoveAt(l, Len(l)), S \ {l[Len(l)]})
  BY <1>1, RemoveList
<1> QED BY <1>1, <1>6, <1>7, Zenon DEF Last

-----------------------------------------------------------------------------
\* Chunks that tile a heap that ends at b.

Ends(f, x) == x + W + f[x]

Tiles(b, f) ==
    /\ \A x \in DOMAIN f : Ends(f, x) \in DOMAIN f \union {b}
    /\ HeapStart \in DOMAIN f \union {b}
    /\ \A x, y \in DOMAIN f : x < y => Ends(f, x) <= y
    /\ \A x \in DOMAIN f : Ends(f, x) <= b

Chunky(f) == \A x \in DOMAIN f : x \in HeapStart .. SizeMod-1 /\ f[x] \in W .. SizeMod-1

LEMMA JoinTiles ==
  ASSUME NEW b \in Nat, NEW f, Tiles(b, f), Chunky(f),
         NEW x \in DOMAIN f, NEW y \in DOMAIN f, Ends(f, x) = y
  PROVE  Tiles(b, Merged(f, x, y))
<1> DEFINE g == Merged(f, x, y)
<1>1. /\ DOMAIN g = DOMAIN f \ {y}
      /\ x # y
      /\ \A z \in DOMAIN g : Ends(g, z) = IF z = x THEN Ends(f, y) ELSE Ends(f, z)
      /\ \A z \in DOMAIN f : z \in Nat /\ f[z] \in Nat /\ f[z] >= W
  BY HeapAssumption DEF Without, Merged, Ends, Chunky
<1> HIDE DEF g
<1>2. ASSUME NEW z \in DOMAIN f, Ends(f, z) = y PROVE z = x
  BY <1>1, <1>2, HeapAssumption DEF Tiles, Ends
<1>3. \A z \in DOMAIN g : Ends(g, z) \in DOMAIN g \union {b}
  BY <1>1, <1>2, HeapAssumption DEF Tiles, Ends
<1>4. HeapStart \in DOMAIN g \union {b}
  BY <1>1, HeapAssumption DEF Tiles, Ends, Chunky
<1>5. \A z, w \in DOMAIN g : z < w => Ends(g, z) <= w
  BY <1>1, HeapAssumption DEF Tiles, Ends
<1>6. \A z \in DOMAIN g : Ends(g, z) <= b
  BY <1>1 DEF Tiles
<1> QED BY <1>3, <1>4, <1>5, <1>6 DEF Tiles, g

MergeResult(f, x, y, g) ==
    /\ DOMAIN g = DOMAIN f \ {y} /\ x \in DOMAIN g /\ y > x
    /\ g[x] = f[x] + f[y] + W
    /\ Chunky(g)

LEMMA MergeChunky ==
  ASSUME NEW b \in Nat, b <= SizeMod-1, NEW f, Tiles(b, f), Chunky(f),
         NEW x \in DOMAIN f, NEW y \in DOMAIN f, Ends(f, x) = y
  PROVE  MergeResult(f, x, y, Merged(f, x, y))
<1> DEFINE g == Merged(f, x, y)
<1>1. \A z \in DOMAIN f : z \in Nat /\ f[z] \in Nat /\ f[z] >= W
  BY HeapAssumption DEF Chunky
<1>2. y > x /\ y = x + W + f[x]
  BY <1>1, HeapAssumption DEF Ends
<1>3. /\ DOMAIN g = DOMAIN f \ {y} /\ x \in DOMAIN g
      /\ g[x] = f[x] + f[y] + W
      /\ \A z \in DOMAIN g \ {x} : g[z] = f[z]
  <2>1. x # y
    BY <1>1, <1>2
  <2> DEFINE e == Without(f, y)
  <2>2. DOMAIN e = DOMAIN f \ {y} /\ \A z \in DOMAIN f \ {y} : e[z] = f[z]
    BY DEF Without
  <2>3. g = [e EXCEPT ![x] = @ + f[y] + W]
    BY DEF Merged
  <2> HIDE DEF e, g
  <2> QED BY <2>1, <2>2, <2>3
<1> HIDE DEF g
<1>4. Ends(f, y) <= b /\ Ends(f, y) = y + W + f[y]
  BY DEF Tiles, Ends
<1>5. g[x] \in W .. SizeMod-1
  BY <1>1, <1>2, <1>3, <1>4, HeapAssumption
<1>6. Chunky(g)
  BY <1>3, <1>5 DEF Chunky
<1> QED BY <1>2, <1>3, <1>6 DEF MergeResult, g

LEMMA LowerTiles ==
  ASSUME NEW b \in Nat, NEW f, Tiles(b, f), Chunky(f), NEW x \in DOMAIN f, Ends(f, x) = b
  PROVE  Tiles(x, Without(f, x))
<1> DEFINE g == Without(f, x)
<1>1. /\ DOMAIN g = DOMAIN f \ {x}
      /\ \A z \in DOMAIN g : Ends(g, z) = Ends(f, z)
      /\ \A z \in DOMAIN f : z \in Nat /\ f[z] \in Nat /\ f[z] >= W
  BY HeapAssumption DEF Without, Ends, Chunky
<1> HIDE DEF g
<1>2. \A z \in DOMAIN g : z < x
  BY <1>1, HeapAssumption DEF Tiles, Ends
<1>3. \A z \in DOMAIN g : Ends(g, z) <= x
  BY <1>1, <1>2, HeapAssumption DEF Tiles, Ends
<1>4. \A z \in DOMAIN g : Ends(g, z) \in DOMAIN g \union {x}
  BY <1>1, <1>3, HeapAssumption DEF Tiles, Ends
<1>5. HeapStart \in DOMAIN g \union {x}
  BY <1>1, HeapAssumption DEF Tiles, Ends, Chunky
<1> QED BY <1>1, <1>3, <1>4, <1>5 DEF Tiles, g

CutResult(b, f, x, y, n, g) ==
    /\ y \notin DOMAIN f
    /\ y \in Nat /\ y > x
    /\ DOMAIN g = DOMAIN f \union {y}
    /\ g[x] = n /\ g[y] = f[x] - n - W
    /\ \A z \in DOMAIN f \ {x} : g[z] = f[z]
    /\ Tiles(b, g)

LEMMA CutTiles ==
  ASSUME NEW b \in Nat, NEW f, Tiles(b, f), Chunky(f),
         NEW x \in DOMAIN f, NEW n \in Nat, f[x] - n - W >= 0
  PROVE  CutResult(b, f, x, x + W + n, n, Cut(f, x, n))
<1> DEFINE y == x + W + n
           g == Cut(f, x, n)
<1>0. \A z \in DOMAIN f : z \in Nat /\ f[z] \in Nat /\ f[z] >= W
  BY HeapAssumption DEF Chunky
<1>1. y \in Nat /\ y > x /\ y <= x + f[x] /\ y < Ends(f, x) /\ y \notin DOMAIN f
  BY <1>0, HeapAssumption DEF Tiles, Ends
<1>2. /\ DOMAIN g = DOMAIN f \union {y}
      /\ g[x] = n /\ g[y] = f[x] - n - W
      /\ \A z \in DOMAIN f \ {x} : g[z] = f[z]
  BY <1>1 DEF With, Cut
<1> HIDE DEF g
<1>3. \A z \in DOMAIN g : Ends(g, z) = IF z = x THEN y
                                         ELSE IF z = y THEN Ends(f, x) ELSE Ends(f, z)
  BY <1>0, <1>1, <1>2, HeapAssumption DEF Ends
<1> HIDE DEF y
<1>4. \A z \in DOMAIN g : Ends(g, z) \in DOMAIN g \union {b}
  BY <1>2, <1>3 DEF Tiles
<1>5. HeapStart \in DOMAIN g \union {b}
  BY <1>2 DEF Tiles
<1>6. \A z, w \in DOMAIN g : z < w => Ends(g, z) <= w
  BY <1>0, <1>1, <1>2, <1>3, HeapAssumption DEF Tiles, Ends
<1>7. \A z \in DOMAIN g : Ends(g, z) <= b
  BY <1>0, <1>1, <1>2, <1>3, HeapAssumption DEF Tiles, Ends
<1> QED BY <1>1, <1>2, <1>4, <1>5, <1>6, <1>7 DEF Tiles, CutResult, y, g

LEMMA GrowTiles ==
  ASSUME NEW b \in Nat, NEW f, Tiles(b, f), Chunky(f), NEW n \in Nat
  PROVE  b \notin DOMAIN f /\ Tiles(b + n + W, With(f, b, n))
<1> DEFINE g == With(f, b, n)
<1>1. /\ DOMAIN g = DOMAIN f \union {b}
      /\ b \notin DOMAIN f
      /\ \A z \in DOMAIN g : Ends(g, z) = IF z = b THEN b + n + W ELSE Ends(f, z)
      /\ \A z \in DOMAIN f : z \in Nat /\ f[z] \in Nat /\ f[z] >= W
  BY HeapAssumption DEF With, Ends, Chunky, Tiles
<1> HIDE DEF g
<1>2. \A z \in DOMAIN g : Ends(g, z) \in DOMAIN g \union {b + n + W}
  BY <1>1 DEF Tiles
<1>3. HeapStart \in DOMAIN g
  BY <1>1 DEF Tiles
<1>4. \A z, w \in DOMAIN g : z < w => Ends(g, z) <= w
  BY <1>1, HeapAssumption DEF Tiles, Ends
<1>5. \A z \in DOMAIN g : Ends(g, z) <= b + n + W
  BY <1>1, HeapAssumption DEF Tiles, Ends
<1> QED BY <1>1, <1>2, <1>3, <1>4, <1>5 DEF Tiles, g

LEMMA TopTiles ==
  ASSUME NEW b \in Nat, NEW f, Tiles(b, f), Chunky(f),
         NEW x \in DOMAIN f, Ends(f, x) = b, NEW n \in Nat, n > f[x]
  PROVE  Tiles(x + W + n, [f EXCEPT ![x] = n])
<1> DEFINE g == [f EXCEPT ![x] = n]
<1>1. /\ DOMAIN g = DOMAIN f
      /\ \A z \in DOMAIN g : Ends(g, z) = IF z = x THEN x + W + n ELSE Ends(f, z)
      /\ \A z \in DOMAIN f : z \in Nat /\ f[z] \in Nat /\ f[z] >= W
  BY HeapAssumption DEF Ends, Chunky
<1> HIDE DEF g
<1>2. \A z \in DOMAIN g : z <= x
  BY <1>1, HeapAssumption DEF Tiles, Ends
<1>3. \A z \in DOMAIN g : z # x => Ends(f, z) \in DOMAIN f
  BY <1>1, <1>2, HeapAssumption DEF Tiles, Ends
<1>4. \A z \in DOMAIN g : Ends(g, z) \in DOMAIN g \union {x + W + n}
  BY <1>1, <1>3
<1>5. HeapStart \in DOMAIN g
  BY <1>1, HeapAssumption DEF Tiles, Ends, Chunky
<1>6. \A z, w \in DOMAIN g : z < w => Ends(g, z) <= w
  BY <1>1, <1>2 DEF Tiles
<1>7. \A z \in DOMAIN g : Ends(g, z) <= x + W + n
  BY <1>1, <1>2, HeapAssumption DEF Tiles, Ends
<1> QED BY <1>4, <1>5, <1>6, <1>7 DEF Tiles, g

-----------------------------------------------------------------------------
\* What every operation keeps of a heap h of which the chunks U are in use.

Shape(h) == h = [brk |-> h.brk, list |-> h.list, size |-> h.size, wrote |-> h.wrote]

Sound(h, U) ==
    /\ Shape(h)
    /\ h.brk \in {Null} \union (HeapStart .. SizeMod-1)
    /\ Chunky(h.size)
    /\ U \subseteq DOMAIN h.size
    /\ Lists(h.list, DOMAIN h.size \ U)
    /\ Tiles(Break(h), h.size)

LEMMA BreakFact ==
  ASSUME NEW h, NEW U, Sound(h, U)
  PROVE  /\ Break(h) \in HeapStart .. SizeMod-1
         /\ Break(h) \in Nat
         /\ DOMAIN h.size # {} => Break(h) = h.brk
<1>1. Break(h) \in HeapStart .. SizeMod-1
  BY HeapAssumption DEF Sound, Break
<1>2. ASSUME NEW x \in DOMAIN h.size PROVE Break(h) > HeapStart
  BY HeapAssumption, <1>1 DEF Sound, Chunky, Tiles, Ends
<1> QED BY <1>1, <1>2, HeapAssumption DEF Break

LEMMA InsertSound ==
  ASSUME NEW h, NEW U, Sound(h, U), NEW a \in U
  PROVE  /\ Sound(Inserted(h, a), U \ {a})
         /\ Place(h, a) \in 1 .. Len(h.list) + 1
         /\ Inserted(h, a).list # << >>
<1> DEFINE k == Place(h, a)
           g == Inserted(h, a)
           S == DOMAIN h.size \ U
<1>1. h.list \in Seq(Nat) /\ Lists(h.list, S) /\ a \in DOMAIN h.size /\ a \notin S
  BY DEF Sound, Lists
<1>2. k \in 1 .. Len(h.list) + 1
  BY <1>1, PlaceFact
<1> HIDE DEF k
<1>3. a \in Nat
  BY <1>1, HeapAssumption DEF Sound, Chunky
<1>4. /\ g.list = InsertAt(h.list, k, a)
      /\ g.size = h.size /\ g.brk = h.brk /\ Shape(g)
  <2>1. g = [h EXCEPT !.list = InsertAt(@, k, a), !.wrote = @ \union Bytes(a, W)]
    BY DEF Inserted, k
  <2> HIDE DEF g
  <2> QED BY <2>1 DEF Sound, Shape
<1>5. Lists(g.list, S \union {a})
  BY <1>1, <1>2, <1>3, <1>4, InsertList
<1>6. S \union {a} = DOMAIN h.size \ (U \ {a})
  BY <1>1
<1>7. Break(g) = Break(h)
  BY <1>4 DEF Break
<1>8. Sound(g, U \ {a})
  BY <1>4, <1>5, <1>6, <1>7 DEF Sound
<1>9. g.list # << >>
  <2>1. Len(InsertAt(h.list, k, a)) = Len(h.list) + 1 /\ Len(h.list) \in Nat
    BY <1>1, <1>2, <1>3, InsertValue
  <2>2. Len(g.list) # 0
    BY <2>1, <1>4
  <2> QED BY <2>2
<1> QED BY <1>2, <1>8, <1>9 DEF k

LEMMA JoinSound ==
  ASSUME NEW h, NEW U, Sound(h, U), NEW i \in Int
  PROVE  Sound(JoinedAt(h, i), U) /\ (h.list # << >> => JoinedAt(h, i).list # << >>)
<1>1. CASE ~ Adjacent(h, i)
  BY <1>1 DEF JoinedAt
<1>2. CASE Adjacent(h, i)
  <2> DEFINE a == h.list[i]
             b == h.list[i+1]
             g == JoinedAt(h, i)
             S == DOMAIN h.size \ U
  <2>1. h.list \in Seq(Nat) /\ Len(h.list) \in Nat /\ Lists(h.list, S)
    BY DEF Sound, Lists
  <2>2. i \in 1 .. Len(h.list) /\ i+1 \in 1 .. Len(h.list) /\ Len(h.list) - 1 > 0
    BY <1>2, <2>1 DEF Adjacent
  <2>3. a \in S /\ b \in S
    BY <2>1, <2>2 DEF Lists, OneEach
  <2>4. Ends(h.size, a) = b
    BY <1>2 DEF Adjacent, Ends, End
  <2>5. /\ g.list = RemoveAt(h.list, i+1)
        /\ g.size = Merged(h.size, a, b)
        /\ g.brk = h.brk /\ Shape(g)
    <3> DEFINE f == Merged(h.size, a, b)
               r == RemoveAt(h.list, i+1)
    <3>1. g = [h EXCEPT !.list = r, !.size = f]
      BY <1>2 DEF JoinedAt
    <3> HIDE DEF g, f, r
    <3>2. g.list = r /\ g.size = f /\ g.brk = h.brk /\ Shape(g)
      BY <3>1 DEF Sound, Shape
    <3> QED BY <3>2, Zenon DEF f, r
  <2>6. Lists(g.list, S \ {b})
    BY <2>1, <2>2, <2>5, RemoveList
  <2>7. DOMAIN g.size = DOMAIN h.size \ {b}
    BY <2>5 DEF Without, Merged
  <2>8. Break(g) = Break(h)
    BY <2>5 DEF Break
  <2>9. Tiles(Break(h), g.size)
    <3>1. Break(h) \in Nat /\ Tiles(Break(h), h.size) /\ Chunky(h.size)
      BY BreakFact DEF Sound
    <3>2. a \in DOMAIN h.size /\ b \in DOMAIN h.size
      BY <2>3
    <3>3. Tiles(Break(h), Merged(h.size, a, b))
      BY <3>1, <3>2, <2>4, JoinTiles
    <3> QED BY <3>3, <2>5, Zenon
  <2>10. Chunky(g.size)
    <3>1. Break(h) \in Nat /\ Break(h) <= SizeMod-1 /\ Tiles(Break(h), h.size) /\ Chunky(h.size)
      <4>1. Break(h) \in HeapStart .. SizeMod-1 /\ Break(h) \in Nat
        BY BreakFact
      <4>2. Break(h) <= SizeMod-1
        BY <4>1, HeapAssumption
      <4> QED BY <4>1, <4>2 DEF Sound
    <3>2. a \in DOMAIN h.size /\ b \in DOMAIN h.size
      BY <2>3
    <3>3. MergeResult(h.size, a, b, Merged(h.size, a, b))
      BY <2>4, <3>1, <3>2, MergeChunky, Zenon
    <3> QED BY <2>5, <3>3, Zenon DEF MergeResult
  <2>11. Sound(g, U)
    BY <2>3, <2>5, <2>6, <2>7, <2>8, <2>9, <2>10 DEF Sound
  <2>12. g.list # << >>
    <3>1. Len(g.list) = Len(h.list) - 1
      BY <2>1, <2>2, <2>5, RemoveValue
    <3> QED BY <3>1, <2>2
  <2> QED BY <2>11, <2>12
<1> QED BY <1>1, <1>2

LEMMA LowerSound ==
  ASSUME NEW h, NEW U, Sound(h, U), h.list # << >>
  PROVE  Sound(Lowered(h), U)
<1> DEFINE a == Last(h.list)
           g == Lowered(h)
           S == DOMAIN h.size \ U
<1>1. CASE End(h, a) # h.brk
  BY <1>1 DEF Lowered
<1>2. CASE End(h, a) = h.brk
  <2>1. Lists(h.list, S) /\ h.list \in Seq(Nat)
    BY DEF Sound, Lists
  <2>2. Len(h.list) \in 1 .. Len(h.list) /\ Lists(Front(h.list), S \ {a})
    BY <2>1, FrontList
  <2>3. a \in S
    BY <2>1, <2>2 DEF Lists, OneEach, Last
  <2>4. /\ g.list = Front(h.list) /\ g.size = Without(h.size, a)
        /\ g.brk = a /\ Shape(g)
    BY <1>2 DEF Lowered, Sound, Shape
  <2>5. DOMAIN g.size = DOMAIN h.size \ {a}
    BY <2>4 DEF Without
  <2>6. a \in HeapStart .. SizeMod-1 /\ Break(g) = a
    <3>1. a \in HeapStart .. SizeMod-1
      BY <2>3 DEF Sound, Chunky
    <3> HIDE DEF a, g
    <3> QED BY <2>4, <3>1, HeapAssumption DEF Break, Null
  <2>7. Ends(h.size, a) = Break(h)
    BY <2>3, <1>2, BreakFact DEF Ends, End
  <2>8. Tiles(a, g.size)
    BY <2>3, <2>4, <2>7, BreakFact, LowerTiles DEF Sound
  <2>9. Chunky(g.size)
    BY <2>4, <2>5 DEF Sound, Chunky, Without
  <2> QED BY <2>2, <2>3, <2>4, <2>5, <2>6, <2>8, <2>9 DEF Sound
<1> QED BY <1>1, <1>2

LEMMA FreeSound ==
  ASSUME NEW h, NEW U, Sound(h, U), NEW a \in U
  PROVE  Sound(Freed(h, a), U \ {a})
<1> DEFINE k  == Place(h, a)
           i1 == Inserted(h, a)
           up == JoinedAt(i1, k)
           dn == JoinedAt(up, k-1)
<1>1. Sound(i1, U \ {a}) /\ k \in Int /\ k-1 \in Int /\ i1.list # << >>
  <2>1. Sound(i1, U \ {a}) /\ k \in 1 .. Len(h.list)+1 /\ i1.list # << >>
    BY InsertSound
  <2>2. Len(h.list) \in Nat
    BY DEF Sound, Lists
  <2> HIDE DEF k, i1
  <2> QED BY <2>1, <2>2
<1>2. Sound(up, U \ {a}) /\ up.list # << >>
  BY <1>1, JoinSound
<1>3. Sound(dn, U \ {a}) /\ dn.list # << >>
  BY <1>1, <1>2, JoinSound
<1>4. Sound(Lowered(dn), U \ {a})
  BY <1>3, LowerSound
<1> QED BY <1>2, <1>4 DEF Freed

\* What was written does not matter to soundness.
LEMMA WroteSound ==
  ASSUME NEW h, NEW U, Sound(h, U), NEW w
  PROVE  /\ Sound([h EXCEPT !.wrote = w], U)
         /\ Sound([brk |-> h.brk, list |-> h.list, size |-> h.size, wrote |-> w], U)
<1> DEFINE g == [brk |-> h.brk, list |-> h.list, size |-> h.size, wrote |-> w]
<1>1. [h EXCEPT !.wrote = w] = g
  BY DEF Sound, Shape
<1>2. g.brk = h.brk /\ g.list = h.list /\ g.size = h.size /\ Shape(g)
  BY DEF Shape
<1> HIDE DEF g
<1>3. Break(g) = Break(h)
  BY <1>2 DEF Break
<1>4. Sound(g, U)
  BY <1>2, <1>3 DEF Sound
<1> QED BY <1>1, <1>4, Zenon DEF g

LEMMA ModFact ==
  ASSUME NEW x \in Nat, x < 2 * SizeMod
  PROVE  x % SizeMod = IF x < SizeMod THEN x ELSE x - SizeMod
<1>1. SizeMod \in Nat /\ SizeMod > 0
  BY HeapAssumption
<1> QED BY <1>1

-----------------------------------------------------------------------------
\* malloc

LEMMA TakenSound ==
  ASSUME NEW h, NEW U, Sound(h, U), NEW i \in 1 .. Len(h.list)
  PROVE  LET r == Taken(h, i)
         IN  r.at \notin U /\ r.at # Null /\ Sound(r.heap, U \union {r.at})
<1> DEFINE a == h.list[i]
           l == RemoveAt(h.list, i)
           g == [h EXCEPT !.list = l]
           S == DOMAIN h.size \ U
<1>1. Lists(h.list, S) /\ a \in S
  BY DEF Sound, Lists, OneEach
<1>2. Lists(l, S \ {a})
  BY <1>1, RemoveList
<1>3. a # Null
  BY <1>1, HeapAssumption DEF Sound, Chunky, Null
<1> HIDE DEF a, l
<1>4. g.list = l /\ g.size = h.size /\ g.brk = h.brk /\ Shape(g)
  BY DEF Sound, Shape
<1> HIDE DEF g
<1>5. Break(g) = Break(h)
  BY <1>4 DEF Break
<1>6. S \ {a} = DOMAIN h.size \ (U \union {a})
  OBVIOUS
<1>7. Lists(g.list, DOMAIN h.size \ (U \union {a}))
  BY <1>2, <1>4, <1>6
<1> HIDE DEF S
<1>8. a \in DOMAIN h.size /\ a \notin U
  BY <1>1 DEF S
<1>9. Sound(g, U \union {a})
  BY <1>4, <1>5, <1>7, <1>8 DEF Sound
<1>10. Taken(h, i).heap = g /\ Taken(h, i).at = a
  BY DEF Taken, Result, g, a, l
<1> QED BY <1>3, <1>8, <1>9, <1>10

LEMMA CutChunky ==
  ASSUME NEW b \in Nat, b <= SizeMod-1, NEW f, Tiles(b, f), Chunky(f),
         NEW x \in DOMAIN f, NEW n \in Nat, n >= W, f[x] - n - W >= W
  PROVE  Chunky(Cut(f, x, n))
<1> DEFINE y == x + W + n
           g == Cut(f, x, n)
<1>0. f[x] - n - W >= 0
  <2>1. f[x] \in Nat
    BY HeapAssumption DEF Chunky
  <2> QED BY <2>1, HeapAssumption
<1>1. /\ y \in Nat /\ y > x
      /\ DOMAIN g = DOMAIN f \union {y}
      /\ g[x] = n /\ g[y] = f[x] - n - W
      /\ \A z \in DOMAIN f \ {x} : g[z] = f[z]
      /\ Tiles(b, g)
  <2>1. CutResult(b, f, x, y, n, g)
    BY <1>0, CutTiles, Zenon
  <2> HIDE DEF y, g
  <2> QED BY <2>1, Zenon DEF CutResult
<1> HIDE DEF g, y
<1>2. x \in Nat /\ x >= HeapStart /\ f[x] \in Nat /\ f[x] <= SizeMod-1
  BY HeapAssumption DEF Chunky
<1>3. Ends(g, y) <= b /\ b <= SizeMod-1
  BY <1>1, HeapAssumption DEF Tiles
<1>4. y \in HeapStart .. SizeMod-1 /\ g[y] \in W .. SizeMod-1 /\ g[x] \in W .. SizeMod-1
  BY <1>1, <1>2, <1>3, HeapAssumption DEF Ends
<1> QED BY <1>1, <1>4 DEF Chunky, g

LEMMA SplitOffSound ==
  ASSUME NEW h, NEW U, Sound(h, U), NEW i \in 1 .. Len(h.list),
         NEW n \in Nat, n >= W, h.size[h.list[i]] - n >= FreeEntry
  PROVE  LET r == SplitOff(h, i, n)
         IN  r.at \notin U /\ r.at # Null /\ Sound(r.heap, U \union {r.at})
<1> DEFINE a == h.list[i]
           m == h.size[a] - n - W
           b == a + h.size[a] - n
           f == Cut(h.size, a, m)
           w == h.wrote \union Header(b)
           g == [h EXCEPT !.size = f, !.wrote = w]
           S == DOMAIN h.size \ U
<1>1. Lists(h.list, S) /\ a \in S /\ a \in DOMAIN h.size
  BY DEF Sound, Lists, OneEach
<1>2. /\ Break(h) \in Nat /\ Break(h) <= SizeMod-1
      /\ Tiles(Break(h), h.size) /\ Chunky(h.size)
  <2>1. Break(h) \in HeapStart .. SizeMod-1 /\ Break(h) \in Nat
    BY BreakFact
  <2>2. Break(h) <= SizeMod-1
    BY <2>1, HeapAssumption
  <2> QED BY <2>1, <2>2 DEF Sound
<1>3. /\ m \in Nat /\ m >= W /\ a \in Nat
      /\ b = a + W + m /\ h.size[a] - m - W = n
  <2>1. h.size[a] \in Nat /\ a \in Nat
    BY <1>1, <1>2, HeapAssumption DEF Chunky
  <2>2. h.size[a] - n >= 2 * W
    BY DEF FreeEntry
  <2> HIDE DEF a
  <2> DEFINE s == h.size[a]
  <2>3. s \in Nat /\ s - n >= 2 * W /\ m = s - n - W /\ b = a + s - n
    BY <2>1, <2>2
  <2> HIDE DEF s, m, b
  <2>4. m \in Nat /\ m >= W /\ b = a + W + m /\ s - m - W = n
    BY <2>1, <2>3, HeapAssumption
  <2> QED BY <2>1, <2>4 DEF s
<1>4. SplitOff(h, i, n) = Result(g, b)
  BY DEF SplitOff
<1> HIDE DEF a, b, S, m
<1>5. /\ b \notin DOMAIN h.size /\ b > a
      /\ DOMAIN f = DOMAIN h.size \union {b}
      /\ Tiles(Break(h), f)
  <2>1. h.size[a] - m - W >= 0
    BY <1>3, HeapAssumption
  <2>2. CutResult(Break(h), h.size, a, a + W + m, m, f)
    BY <1>1, <1>2, <1>3, <2>1, CutTiles, Zenon
  <2> HIDE DEF f
  <2> QED BY <1>3, <2>2 DEF CutResult
<1>6. Chunky(f)
  <2>1. h.size[a] - m - W >= W
    BY <1>3
  <2> HIDE DEF f
  <2> QED BY <1>1, <1>2, <1>3, <2>1, CutChunky, Zenon DEF f
<1> HIDE DEF f, w
<1>7. g = [h EXCEPT !.size = f, !.wrote = w]
  OBVIOUS
<1> HIDE DEF g
<1>8. g.list = h.list /\ g.size = f /\ g.brk = h.brk /\ Shape(g)
  BY <1>7 DEF Sound, Shape
<1>9. Break(g) = Break(h)
  BY <1>8 DEF Break
<1>10. S = DOMAIN f \ (U \union {b})
  BY <1>5 DEF S
<1>11. b \notin U /\ b # Null
  BY <1>3, <1>5, HeapAssumption DEF Sound, Null
<1>12. Sound(g, U \union {b})
  BY <1>1, <1>2, <1>5, <1>6, <1>8, <1>9, <1>10 DEF Sound
<1> QED BY <1>4, <1>11, <1>12 DEF Result

LEMMA GrownSound ==
  ASSUME NEW h, NEW U, Sound(h, U), NEW n \in W .. SizeMod-1, NEW limit \in Limits
  PROVE  LET r == Grown(h, n, limit)
         IN  \/ r.at = Null /\ Sound(r.heap, U)
             \/ r.at \notin U /\ r.at # Null /\ Sound(r.heap, U \union {r.at})
<1> DEFINE b == Break(h)
           ok == limit > b /\ Fits(limit - b, n)
<1>1. b \in HeapStart .. SizeMod-1 /\ b \in Nat /\ Tiles(b, h.size) /\ Chunky(h.size)
  BY BreakFact DEF Sound
<1>2. CASE ~ ok
  <2> DEFINE g == [h EXCEPT !.brk = b]
  <2>1. Grown(h, n, limit).heap = g /\ Grown(h, n, limit).at = Null
    BY <1>2 DEF Grown, Result
  <2> HIDE DEF b
  <2>2. g.list = h.list /\ g.size = h.size /\ g.brk = b /\ Shape(g)
    BY DEF Sound, Shape
  <2> HIDE DEF g
  <2>3. Break(g) = b
    BY <2>2, <1>1, HeapAssumption DEF Break, Null
  <2>4. Sound(g, U)
    BY <2>2, <2>3, <1>1 DEF Sound
  <2> QED BY <2>1, <2>4
<1>3. CASE ok
  <2> DEFINE top == (b + n + W) % SizeMod
             f == With(h.size, b, n)
             w == h.wrote \union Header(b)
             g == [h EXCEPT !.brk = top, !.size = f, !.wrote = w]
  <2>1. Grown(h, n, limit).heap = g /\ Grown(h, n, limit).at = b
    BY <1>3 DEF Grown, Result
  <2> HIDE DEF b
  <2>2. top = b + n + W /\ top \in HeapStart .. SizeMod-1
    <3>1. limit \in 0 .. SizeMod-1 /\ SizeMod \in Nat
      BY HeapAssumption
    <3>2. n + W \in Nat /\ n + W < 2 * SizeMod /\ n <= limit - b
      BY <1>1, <1>3, <3>1, HeapAssumption DEF Fits
    <3>3. n + W < SizeMod
      BY <1>1, <3>1, <3>2, HeapAssumption
    <3>4. (n + W) % SizeMod = n + W
      BY <3>2, <3>3, ModFact
    <3>5. n + W <= limit - b
      BY <1>3, <3>4 DEF Fits
    <3>6. b + n + W \in Nat /\ b + n + W <= SizeMod-1 /\ b + n + W >= HeapStart
      BY <1>1, <3>1, <3>5, HeapAssumption
    <3> QED BY <3>1, <3>6, ModFact, HeapAssumption
  <2>3. n \in Nat
    BY HeapAssumption
  <2>4. b \notin DOMAIN h.size /\ Tiles(top, f)
    BY <1>1, <2>2, <2>3, GrowTiles
  <2>5. DOMAIN f = DOMAIN h.size \union {b} /\ f[b] = n /\ \A z \in DOMAIN h.size : f[z] = h.size[z]
    BY <2>4 DEF With
  <2> HIDE DEF f, w, top
  <2>61. g = [h EXCEPT !.brk = top, !.size = f, !.wrote = w]
    OBVIOUS
  <2> HIDE DEF g
  <2>6. g.list = h.list /\ g.size = f /\ g.brk = top /\ Shape(g)
    BY <2>61 DEF Sound, Shape
  <2>7. Break(g) = top
    BY <2>2, <2>6, HeapAssumption DEF Break, Null
  <2>8. Chunky(f)
    BY <1>1, <2>5 DEF Chunky
  <2>9. DOMAIN h.size \ U = DOMAIN f \ (U \union {b})
    BY <2>4, <2>5
  <2>10. b \notin U /\ b # Null
    BY <1>1, <2>4, HeapAssumption DEF Sound, Null
  <2>11. Sound(g, U \union {b})
    BY <2>2, <2>4, <2>5, <2>6, <2>7, <2>8, <2>9 DEF Sound
  <2> QED BY <2>1, <2>10, <2>11
<1> QED BY <1>2, <1>3

LEMMA ExactFact ==
  ASSUME NEW h, h.list \in Seq(Nat), NEW n, Exact(h, n) # 0
  PROVE  Exact(h, n) \in 1 .. Len(h.list) /\ h.size[h.list[Exact(h, n)]] = n
<1> DEFINE I == {i \in 1 .. Len(h.list) : h.size[h.list[i]] = n}
<1>1. I \in SUBSET Nat
  OBVIOUS
<1>2. I # {} => Min(I) \in I
  <2> HIDE DEF I
  <2> QED BY <1>1, MinFact
<1> QED BY <1>2 DEF Exact, SelectInSeq

\* There is a first one of the smallest chunks that are large enough.
LEMMA BestFact ==
  ASSUME NEW h, h.list \in Seq(Nat), NEW n,
         \A i \in DOMAIN h.list : h.size[h.list[i]] \in Nat,
         Larger(h, n) # {}
  PROVE  Best(h, n) \in 1 .. Len(h.list) /\ h.size[h.list[Best(h, n)]] > n
<1> DEFINE L    == Larger(h, n)
           s(i) == h.size[h.list[i]]
           T    == {s(i) : i \in L}
           J    == {i \in L : s(i) = Min(T)}
           P(i) == \A j \in L : s(i) < s(j) \/ (s(i) = s(j) /\ i <= j)
<1>1. L \in SUBSET Nat /\ L # {} /\ \A i \in L : s(i) \in Nat
  BY DEF Larger
<1>2. Best(h, n) = CHOOSE i \in L : P(i)
  BY DEF Best
<1> HIDE DEF s, L
<1>3. T \in SUBSET Nat /\ T # {}
  BY <1>1
<1>4. Min(T) \in T /\ \A y \in T : Min(T) <= y
  BY <1>3, MinFact
<1>5. J \in SUBSET Nat /\ J # {}
  BY <1>1, <1>4
<1>6. Min(J) \in J /\ \A y \in J : Min(J) <= y
  BY <1>5, MinFact
<1>7. Min(J) \in L /\ P(Min(J))
  <2>1. Min(J) \in L /\ s(Min(J)) = Min(T)
    BY <1>6
  <2> DEFINE i == Min(J)
             m == Min(T)
  <2>2. ASSUME NEW j \in L PROVE s(i) < s(j) \/ (s(i) = s(j) /\ i <= j)
    <3>1. s(j) \in T
      OBVIOUS
    <3>2. m <= s(j) /\ m \in Nat /\ s(j) \in Nat
      BY <1>1, <1>3, <1>4, <3>1
    <3>3. s(j) = m => j \in J
      OBVIOUS
    <3>4. s(j) = m => i <= j
      BY <1>6, <3>3
    <3>5. s(i) = m
      BY <2>1
    <3> HIDE DEF i, m
    <3> QED BY <3>2, <3>4, <3>5
  <2> QED BY <2>1, <2>2
<1>8. Best(h, n) \in L
  <2> HIDE DEF P
  <2> QED BY <1>2, <1>7
<1> QED BY <1>8 DEF L, Larger

LEMMA AllocatedSound ==
  ASSUME NEW h, NEW U, Sound(h, U), NEW len \in 0 .. SizeMod-1, NEW limit \in Limits
  PROVE  LET r == Allocated(h, len, limit)
         IN  \/ r.at = Null /\ Sound(r.heap, U)
             \/ r.at \notin U /\ r.at # Null /\ Sound(r.heap, U \union {r.at})
<1> DEFINE n == AtLeastLink(len)
<1>1. n \in Nat /\ n \in W .. SizeMod-1 /\ n >= W
  BY HeapAssumption DEF AtLeastLink
<1>2. h.list \in Seq(Nat) /\ Lists(h.list, DOMAIN h.size \ U)
  BY DEF Sound, Lists
<1>3. \A i \in DOMAIN h.list : h.size[h.list[i]] \in Nat
  <2>1. ASSUME NEW i \in 1 .. Len(h.list) PROVE h.list[i] \in DOMAIN h.size
    BY <1>2 DEF Lists, OneEach
  <2>2. DOMAIN h.list = 1 .. Len(h.list)
    BY <1>2
  <2>3. \A x \in DOMAIN h.size : h.size[x] \in Nat
    BY HeapAssumption DEF Sound, Chunky
  <2> QED BY <2>1, <2>2, <2>3
<1> HIDE DEF n
<1>4. CASE Exact(h, n) # 0
  <2>1. Allocated(h, len, limit) = Taken(h, Exact(h, n))
    BY <1>4 DEF Allocated, n
  <2>2. Exact(h, n) \in 1 .. Len(h.list)
    BY <1>2, <1>4, ExactFact
  <2> QED BY <2>1, <2>2, TakenSound
<1>5. CASE Exact(h, n) = 0 /\ Larger(h, n) = {}
  <2>1. Allocated(h, len, limit) = Grown(h, n, limit)
    BY <1>5 DEF Allocated, n
  <2> QED BY <1>1, <2>1, GrownSound
<1>6. CASE Exact(h, n) = 0 /\ Larger(h, n) # {}
  <2> DEFINE i == Best(h, n)
  <2>1. Allocated(h, len, limit) =
          IF h.size[h.list[i]] - n < FreeEntry THEN Taken(h, i) ELSE SplitOff(h, i, n)
    BY <1>6 DEF Allocated, n
  <2>2. i \in 1 .. Len(h.list) /\ h.size[h.list[i]] \in Nat
    <3>1. i \in 1 .. Len(h.list)
      BY <1>2, <1>3, <1>6, BestFact
    <3>2. i \in DOMAIN h.list
      BY <1>2, <3>1
    <3> QED BY <1>3, <3>1, <3>2
  <2> HIDE DEF i
  <2>3. CASE h.size[h.list[i]] - n < FreeEntry
    BY <2>1, <2>2, <2>3, TakenSound
  <2>4. CASE ~ (h.size[h.list[i]] - n < FreeEntry)
    <3>1. h.size[h.list[i]] - n >= FreeEntry
      BY <2>2, <2>4, <1>1, HeapAssumption DEF FreeEntry
    <3> QED BY <1>1, <2>1, <2>2, <2>4, <3>1, SplitOffSound
  <2> QED BY <2>3, <2>4
<1> QED BY <1>4, <1>5, <1>6

-----------------------------------------------------------------------------
\* realloc, for lengths it is made for.

SaneReLens == ReLens \subseteq W .. SizeMod-W-1

LEMMA ShrunkSound ==
  ASSUME NEW h, NEW U, Sound(h, U), NEW a \in U, NEW len \in Nat, len >= W,
         len <= h.size[a]
  PROVE  Sound(Shrunk(h, a, len).heap, U)
<1> DEFINE s == h.size[a]
           b == a + W + len
           f == Cut(h.size, a, len)
           w == h.wrote \union Header(b)
           g == [h EXCEPT !.size = f, !.wrote = w]
           S == DOMAIN h.size \ U
<1>1. CASE s <= FreeEntry \/ len > s - FreeEntry
  BY <1>1 DEF Shrunk, Result
<1>2. CASE ~ (s <= FreeEntry \/ len > s - FreeEntry)
  <2>1. Shrunk(h, a, len).heap = Freed(g, b)
    BY <1>2 DEF Shrunk, Result
  <2>2. /\ Break(h) \in Nat /\ Break(h) <= SizeMod-1
        /\ Tiles(Break(h), h.size) /\ Chunky(h.size)
        /\ Lists(h.list, S)
    <3>1. Break(h) \in HeapStart .. SizeMod-1 /\ Break(h) \in Nat
      BY BreakFact
    <3>2. Break(h) <= SizeMod-1
      BY <3>1, HeapAssumption
    <3> QED BY <3>1, <3>2 DEF Sound
  <2>3. a \in DOMAIN h.size /\ a \in Nat /\ s \in Nat
    <3>1. a \in DOMAIN h.size
      BY DEF Sound
    <3> QED BY <3>1, <2>2, HeapAssumption DEF Chunky
  <2> HIDE DEF S, s
  <2>4. s - len - W >= W
    BY <1>2, <2>3, HeapAssumption DEF FreeEntry
  <2>5. CutResult(Break(h), h.size, a, b, len, f)
    <3>1. h.size[a] - len - W >= 0
      BY <2>3, <2>4, HeapAssumption DEF s
    <3> QED BY <2>2, <2>3, <3>1, CutTiles, Zenon
  <2>6. Chunky(f)
    BY <2>2, <2>3, <2>4, CutChunky, Zenon DEF s
  <2> HIDE DEF f, w, b
  <2>7. g = [h EXCEPT !.size = f, !.wrote = w]
    OBVIOUS
  <2> HIDE DEF g
  <2>8. g.list = h.list /\ g.size = f /\ g.brk = h.brk /\ Shape(g)
    BY <2>7 DEF Sound, Shape
  <2>9. Break(g) = Break(h)
    BY <2>8 DEF Break
  <2>10. DOMAIN f = DOMAIN h.size \union {b} /\ b \notin DOMAIN h.size /\ Tiles(Break(h), f)
    BY <2>5, Zenon DEF CutResult
  <2>11. S = DOMAIN f \ (U \union {b}) /\ U \union {b} \subseteq DOMAIN f
    BY <2>10 DEF S, Sound
  <2>12. Sound(g, U \union {b})
    BY <2>2, <2>6, <2>8, <2>9, <2>10, <2>11 DEF Sound
  <2>13. Sound(Freed(g, b), (U \union {b}) \ {b})
    BY <2>12, FreeSound
  <2>14. (U \union {b}) \ {b} = U
    BY <2>10 DEF Sound
  <2> QED BY <2>1, <2>13, <2>14
<1> QED BY <1>1, <1>2

LEMMA GrownOnTopSound ==
  ASSUME NEW h, NEW U, Sound(h, U), NEW a \in U, NEW len \in W .. SizeMod-W-1,
         NEW limit \in Limits,
         ~ Wrapped(a, len), len > h.size[a], h.brk = End(h, a)
  PROVE  Sound(GrownOnTop(h, a, len, limit).heap, U)
<1> DEFINE new == (a + W + len) % SizeMod
           f == [h.size EXCEPT ![a] = len]
           g == [h EXCEPT !.brk = new, !.size = f]
<1>1. CASE ~ (new < limit)
  BY <1>1 DEF GrownOnTop, Result
<1>2. CASE new < limit
  <2>1. GrownOnTop(h, a, len, limit).heap = g
    BY <1>2 DEF GrownOnTop, Result
  <2>2. a \in DOMAIN h.size /\ Chunky(h.size) /\ Tiles(Break(h), h.size)
    BY DEF Sound
  <2>3. a \in Nat /\ a >= HeapStart /\ a <= SizeMod-1 /\ len \in Nat
    BY <2>2, HeapAssumption DEF Chunky
  <2>4. new = a + W + len /\ new \in Nat
    <3> DEFINE t == a + W + len
    <3>1. W \in Nat /\ SizeMod \in Nat /\ len + W <= SizeMod - 1
      BY <2>3, HeapAssumption
    <3>2. t \in Nat /\ t < 2 * SizeMod /\ t - SizeMod < a
      BY <2>3, <3>1
    <3>3. ~ (t % SizeMod < a)
      BY DEF Wrapped
    <3>4. new = t % SizeMod
      OBVIOUS
    <3> HIDE DEF t, new
    <3>5. t % SizeMod = IF t < SizeMod THEN t ELSE t - SizeMod
      BY <3>2, ModFact
    <3>6. t < SizeMod
      BY <2>3, <3>1, <3>2, <3>3, <3>5
    <3> QED BY <3>2, <3>4, <3>5, <3>6 DEF t
  <2> HIDE DEF new
  <2>5. new \in HeapStart .. SizeMod-1
    BY <1>2, <2>3, <2>4, HeapAssumption
  <2>6. Ends(h.size, a) = Break(h) /\ Break(h) \in Nat
    BY <2>2, BreakFact DEF Ends, End
  <2>7. Tiles(new, f)
    BY <2>2, <2>3, <2>4, <2>6, TopTiles
  <2>8. Chunky(f)
    BY <2>2, HeapAssumption DEF Chunky
  <2>9. DOMAIN f = DOMAIN h.size
    OBVIOUS
  <2> HIDE DEF f
  <2>10. g = [h EXCEPT !.brk = new, !.size = f]
    OBVIOUS
  <2> HIDE DEF g
  <2>11. g.list = h.list /\ g.size = f /\ g.brk = new /\ Shape(g)
    BY <2>10 DEF Sound, Shape
  <2>12. Break(g) = new
    BY <2>5, <2>11, HeapAssumption DEF Break, Null
  <2>13. Sound(g, U)
    BY <2>5, <2>7, <2>8, <2>9, <2>11, <2>12 DEF Sound
  <2> QED BY <2>1, <2>13
<1> QED BY <1>1, <1>2

LEMMA GrownIntoSound ==
  ASSUME NEW h, NEW U, Sound(h, U), NEW a \in U, NEW len \in Nat,
         NEW i \in 1 .. Len(h.list), h.list[i] = End(h, a), len > h.size[a]
  PROVE  Sound(GrownInto(h, a, len, i).heap, U)
<1> DEFINE c == h.list[i]
           b == a + W + len
           rest == h.size[c] - (len - h.size[a])
           m == Merged(h.size, a, c)
           S == DOMAIN h.size \ U
<1>1. /\ Break(h) \in Nat /\ Break(h) <= SizeMod-1
      /\ Tiles(Break(h), h.size) /\ Chunky(h.size)
      /\ Lists(h.list, S)
  <2>1. Break(h) \in HeapStart .. SizeMod-1 /\ Break(h) \in Nat
    BY BreakFact
  <2>2. Break(h) <= SizeMod-1
    BY <2>1, HeapAssumption
  <2> QED BY <2>1, <2>2 DEF Sound
<1>2. a \in DOMAIN h.size /\ c \in S /\ c \in DOMAIN h.size
  BY <1>1 DEF Sound, Lists, OneEach
<1>3. Ends(h.size, a) = c
  BY DEF Ends, End
<1> HIDE DEF S, c
<1>4. /\ a \in Nat /\ h.size[a] \in Nat /\ h.size[c] \in Nat
      /\ len \in Nat /\ len >= W
  BY <1>1, <1>2, HeapAssumption DEF Chunky
<1>5. MergeResult(h.size, a, c, m)
  BY <1>1, <1>2, <1>3, MergeChunky, Zenon
<1>6. Tiles(Break(h), m)
  BY <1>1, <1>2, <1>3, JoinTiles, Zenon
<1> HIDE DEF m
<1>7. DOMAIN m = DOMAIN h.size \ {c} /\ a \in DOMAIN m /\ Chunky(m)
  BY <1>5, Zenon DEF MergeResult
<1>8. U \subseteq DOMAIN m
  BY <1>2, <1>7 DEF S, Sound
<1>9. CASE rest + W > FreeEntry
  <2> DEFINE f == Cut(m, a, len)
             l == ReplaceAt(h.list, i, b)
             w == h.wrote \union (b .. b + FreeEntry - 1)
             g == [h EXCEPT !.list = l, !.size = f, !.wrote = w]
  <2>1. GrownInto(h, a, len, i).heap = g
    BY <1>9 DEF GrownInto, Result, c, m
  <2>2. m[a] - len - W >= W /\ m[a] - len - W >= 0
    <3>1. m[a] = h.size[a] + h.size[c] + W
      BY <1>5 DEF MergeResult
    <3> QED BY <3>1, <1>4, <1>9, HeapAssumption DEF FreeEntry
  <2>3. CutResult(Break(h), m, a, b, len, f)
    BY <1>1, <1>4, <1>6, <1>7, <2>2, CutTiles, Zenon
  <2>4. Chunky(f)
    BY <1>1, <1>4, <1>6, <1>7, <2>2, CutChunky, Zenon
  <2> HIDE DEF f, w
  <2>5. /\ DOMAIN f = DOMAIN m \union {b} /\ b \notin DOMAIN m /\ b \in Nat
        /\ Tiles(Break(h), f)
    BY <2>3, Zenon DEF CutResult
  <2>6. b > c
    BY <1>3, <1>4, HeapAssumption DEF Ends
  <2> HIDE DEF b
  <2>7. b \notin DOMAIN h.size /\ b # c
    <3>1. b # c
      BY <1>3, <1>4, <2>5, <2>6, HeapAssumption DEF Ends
    <3> QED BY <1>7, <2>5, <3>1
  <2>8. Lists(l, (S \ {c}) \union {b})
    <3>1. b \notin S
      BY <2>7 DEF S
    <3> QED BY <1>1, <2>5, <3>1, ReplaceList DEF c
  <2> HIDE DEF l
  <2>9. (S \ {c}) \union {b} = DOMAIN f \ U
    BY <1>7, <2>5, <2>7 DEF S, Sound
  <2>10. g = [h EXCEPT !.list = l, !.size = f, !.wrote = w]
    OBVIOUS
  <2> HIDE DEF g
  <2>11. g.list = l /\ g.size = f /\ g.brk = h.brk /\ Shape(g)
    BY <2>10 DEF Sound, Shape
  <2>12. Break(g) = Break(h)
    BY <2>11 DEF Break
  <2>13. U \subseteq DOMAIN f
    BY <1>8, <2>5
  <2>14. Sound(g, U)
    BY <2>4, <2>5, <2>8, <2>9, <2>11, <2>12, <2>13 DEF Sound
  <2> QED BY <2>1, <2>14
<1>10. CASE ~ (rest + W > FreeEntry)
  <2> DEFINE l == RemoveAt(h.list, i)
             g == [h EXCEPT !.list = l, !.size = m]
  <2>1. GrownInto(h, a, len, i).heap = g
    BY <1>10 DEF GrownInto, Result, c, m
  <2>2. Lists(l, S \ {c})
    BY <1>1, RemoveList DEF c
  <2> HIDE DEF l
  <2>3. S \ {c} = DOMAIN m \ U
    BY <1>7 DEF S
  <2>4. g = [h EXCEPT !.list = l, !.size = m]
    OBVIOUS
  <2> HIDE DEF g
  <2>5. g.list = l /\ g.size = m /\ g.brk = h.brk /\ Shape(g)
    BY <2>4 DEF Sound, Shape
  <2>6. Break(g) = Break(h)
    BY <2>5 DEF Break
  <2>7. Sound(g, U)
    BY <1>6, <1>7, <1>8, <2>2, <2>3, <2>5, <2>6 DEF Sound
  <2> QED BY <2>1, <2>7
<1> QED BY <1>9, <1>10

LEMMA AboveFact ==
  ASSUME NEW h, h.list \in Seq(Nat), NEW a, NEW len, Above(h, a, len) # 0
  PROVE  /\ Above(h, a, len) \in 1 .. Len(h.list)
         /\ h.list[Above(h, a, len)] = End(h, a)
<1> DEFINE I == {i \in 1 .. Len(h.list) : /\ h.list[i] = End(h, a)
                                          /\ h.size[h.list[i]] + W >= len - h.size[a]}
<1>1. I \in SUBSET Nat
  OBVIOUS
<1>2. I # {} => Min(I) \in I
  <2> HIDE DEF I
  <2> QED BY <1>1, MinFact
<1> QED BY <1>2 DEF Above, SelectInSeq

LEMMA ResizedSound ==
  ASSUME NEW h, NEW U, Sound(h, U), NEW a \in U, NEW len \in W .. SizeMod-W-1,
         NEW limit \in Limits, ~ Moves(h, a, len)
  PROVE  Sound(Resized(h, a, len, limit).heap, U)
<1> DEFINE i == Above(h, a, len)
<1>1. a \in DOMAIN h.size /\ h.size[a] \in Nat /\ len \in Nat /\ len >= W
  BY HeapAssumption DEF Sound, Chunky
<1>2. CASE Wrapped(a, len)
  BY <1>2 DEF Resized, Result
<1>3. CASE ~ Wrapped(a, len) /\ len <= h.size[a]
  <2>1. Resized(h, a, len, limit) = Shrunk(h, a, len)
    BY <1>3 DEF Resized
  <2> QED BY <1>1, <1>3, <2>1, ShrunkSound
<1>4. CASE ~ Wrapped(a, len) /\ len > h.size[a] /\ i # 0
  <2>1. Resized(h, a, len, limit) = GrownInto(h, a, len, i)
    <3>1. ~ (len <= h.size[a])
      BY <1>1, <1>4
    <3> QED BY <1>4, <3>1 DEF Resized
  <2>2. h.list \in Seq(Nat)
    BY DEF Sound, Lists
  <2>3. i \in 1 .. Len(h.list) /\ h.list[i] = End(h, a)
    BY <1>4, <2>2, AboveFact
  <2> HIDE DEF i
  <2> QED BY <1>1, <1>4, <2>1, <2>3, GrownIntoSound
<1>5. CASE ~ Wrapped(a, len) /\ len > h.size[a] /\ i = 0
  <2>1. Resized(h, a, len, limit) = GrownOnTop(h, a, len, limit)
    <3>1. ~ (len <= h.size[a])
      BY <1>1, <1>5
    <3> QED BY <1>5, <3>1 DEF Resized
  <2>2. h.brk = End(h, a)
    BY <1>5 DEF Moves, Topmost
  <2> QED BY <1>5, <2>1, <2>2, GrownOnTopSound
<1>6. len <= h.size[a] \/ len > h.size[a]
  BY <1>1
<1> QED BY <1>2, <1>3, <1>4, <1>5, <1>6

-----------------------------------------------------------------------------
\* The invariant and its proof.

IInv == Sound(Heap, InUse)

\* The heap of the next state is the heap that an operation made.
LEMMA HeapPrime ==
  ASSUME NEW h, NEW U, Sound(h, U), Becomes(h), DOMAIN block' = U
  PROVE  IInv'
<1>1. Heap' = [brk |-> h.brk, list |-> h.list, size |-> h.size, wrote |-> {}]
  BY DEF Heap, Becomes
<1>2. Sound([brk |-> h.brk, list |-> h.list, size |-> h.size, wrote |-> {}], U)
  BY WroteSound
<1> QED BY <1>1, <1>2 DEF IInv, InUse

LEMMA CallInv ==
  ASSUME IInv, NEW n \in 0 .. SizeMod-1, NEW len, NEW limit \in Limits, Call(n, len, limit)
  PROVE  IInv'
<1> DEFINE r == Allocated(Heap, n, limit)
           U == InUse
<1>1. \/ r.at = Null /\ Sound(r.heap, U)
      \/ r.at \notin U /\ r.at # Null /\ Sound(r.heap, U \union {r.at})
  BY AllocatedSound DEF IInv
<1>2. Becomes(r.heap) /\ (r.at = Null => block' = block) /\ (r.at # Null => block' = With(block, r.at, len))
  BY DEF Call
<1> HIDE DEF r
<1>3. CASE r.at = Null
  BY <1>1, <1>2, <1>3, HeapPrime DEF InUse
<1>4. CASE r.at # Null
  <2>1. DOMAIN block' = U \union {r.at}
    BY <1>2, <1>4 DEF With, InUse
  <2> QED BY <1>1, <1>2, <1>4, <2>1, HeapPrime
<1> QED BY <1>3, <1>4

LEMMA NextInv ==
  ASSUME IInv, [Next]_vars, SaneReLens
  PROVE  IInv'
<1>1. ASSUME NEW limit \in Limits, NEW len \in Lens, Malloc(len, limit) PROVE IInv'
  <2>1. len \in 0 .. SizeMod-1
    BY HeapAssumption
  <2> QED BY <1>1, <2>1, CallInv DEF Malloc
<1>2. ASSUME NEW limit \in Limits, NEW p \in Arrays, Calloc(p[1], p[2], limit) PROVE IInv'
  <2>1. p[1] \in Nat /\ p[2] \in Nat /\ SizeMod \in Nat /\ SizeMod > 0
    BY HeapAssumption
  <2>2. p[1] * p[2] \in Nat
    BY <2>1
  <2>3. (p[1] * p[2]) % SizeMod \in 0 .. SizeMod-1
    BY <2>1, <2>2
  <2> QED BY <1>2, <2>3, CallInv DEF Calloc
<1>3. ASSUME NEW a \in DOMAIN block, Free(a) PROVE IInv'
  <2>1. Sound(Freed(Heap, a), InUse \ {a})
    BY FreeSound DEF IInv, InUse
  <2>2. Becomes(Freed(Heap, a)) /\ DOMAIN block' = InUse \ {a}
    BY <1>3 DEF Free, Without, InUse
  <2> QED BY <2>1, <2>2, HeapPrime
<1>4. ASSUME NEW limit \in Limits, NEW a \in DOMAIN block, NEW len \in ReLens,
             ReallocInPlace(a, len, limit)
      PROVE  IInv'
  <2>1. Sound(Resized(Heap, a, len, limit).heap, InUse)
    <3>1. len \in W .. SizeMod-W-1
      BY DEF SaneReLens
    <3> QED BY <1>4, <3>1, ResizedSound DEF ReallocInPlace, IInv, InUse
  <2>2. Becomes(Resized(Heap, a, len, limit).heap) /\ DOMAIN block' = InUse
    BY <1>4 DEF ReallocInPlace, InUse
  <2> QED BY <2>1, <2>2, HeapPrime
<1>5. ASSUME NEW limit \in Limits, NEW a \in DOMAIN block, NEW len \in ReLens,
             ReallocMove(a, len, limit)
      PROVE  IInv'
  <2> DEFINE r == Allocated(Heap, len, limit)
             b == r.at
             g == [r.heap EXCEPT !.wrote = {}]
             U == InUse
  <2>1. \/ b = Null /\ Sound(r.heap, U)
        \/ b \notin U /\ b # Null /\ Sound(r.heap, U \union {b})
    <3>1. len \in 0 .. SizeMod-1
      BY HeapAssumption
    <3> QED BY <3>1, AllocatedSound DEF IInv
  <2>2. CASE b = Null
    <3>1. Becomes(r.heap) /\ DOMAIN block' = U
      BY <1>5, <2>2 DEF ReallocMove, InUse
    <3> HIDE DEF r, U
    <3> QED BY <2>1, <2>2, <3>1, HeapPrime
  <2>3. CASE b # Null
    <3>1. Becomes(Freed(g, a)) /\ block' = With(Without(block, a), b, len)
      BY <1>5, <2>3 DEF ReallocMove
    <3>2. DOMAIN block' = (U \ {a}) \union {b}
      BY <3>1 DEF With, Without, InUse
    <3>3. a \in U
      BY DEF InUse
    <3> HIDE DEF r, U
    <3>4. Sound(g, U \union {b}) /\ a # b
      BY <2>1, <2>3, <3>3, WroteSound
    <3> HIDE DEF g
    <3>5. Sound(Freed(g, a), (U \union {b}) \ {a})
      BY <3>3, <3>4, FreeSound
    <3>6. (U \union {b}) \ {a} = (U \ {a}) \union {b}
      BY <3>4
    <3> QED BY <3>1, <3>2, <3>5, <3>6, HeapPrime
  <2> QED BY <2>2, <2>3
<1>6. CASE UNCHANGED vars
  BY <1>6 DEF vars, IInv, InUse, Heap, Sound, Break
<1> QED BY <1>1, <1>2, <1>3, <1>4, <1>5, <1>6 DEF Next

LEMMA InitInv ==
  ASSUME Init
  PROVE  IInv
<1>1. Heap = [brk |-> Null, list |-> << >>, size |-> << >>, wrote |-> {}] /\ InUse = {}
  BY DEF Init, Heap, InUse
<1>2. /\ Shape(Heap) /\ Heap.brk = Null /\ Heap.list = << >> /\ Heap.size = << >>
      /\ DOMAIN Heap.size = {}
  BY <1>1 DEF Shape
<1> HIDE DEF Heap
<1>3. Chunky(Heap.size)
  BY <1>2 DEF Chunky
<1>4. Lists(Heap.list, {})
  BY <1>2 DEF Lists, OneEach
<1>5. Break(Heap) = HeapStart
  BY <1>2 DEF Break
<1>6. Tiles(Break(Heap), Heap.size)
  BY <1>2, <1>5 DEF Tiles
<1> QED BY <1>1, <1>2, <1>3, <1>4, <1>6 DEF IInv, Sound

LEMMA InvTiled ==
  ASSUME IInv
  PROVE  Tiled
<1>1. Tiles(Brk, size)
  BY DEF IInv, Sound, Heap, Brk
<1>2. \A a \in Chunks : End(Heap, a) = Ends(size, a)
  BY DEF Ends, End, Heap
<1> HIDE DEF Brk
<1> QED BY <1>1, <1>2 DEF Tiles, Tiled, Chunks

\* malloc.c, realloc.c: in whatever order the program calls malloc, calloc, free
\* and realloc, and with whatever stack, the chunks follow one another from the
\* start of the heap to its end, without overlap and without a gap, for every size
\* of the heap and of a pointer.  The condition is SaneReLens: no length given to
\* realloc is below that of a pointer or within it of the end of size_t.
THEOREM ChunksTile ==
  ASSUME SaneReLens
  PROVE  Spec => []Tiled
<1>1. Init => IInv
  BY InitInv
<1>2. IInv /\ [Next]_vars => IInv'
  BY NextInv
<1>3. IInv => Tiled
  BY InvTiled
<1> QED BY <1>1, <1>2, <1>3, PTL DEF Spec

(***************************************************************************)
(* 2. The blocks.                                                          *)
(***************************************************************************)
-----------------------------------------------------------------------------
\* free, and what it consists of, leave the sizes of chunks in use alone.

Same(h, g, U) == \A z \in U : g.size[z] = h.size[z]

LEMMA InsertSame ==
  ASSUME NEW h, NEW U, Sound(h, U), NEW a
  PROVE  Inserted(h, a).size = h.size
  BY DEF Inserted, Sound, Shape

LEMMA JoinSame ==
  ASSUME NEW h, NEW U, Sound(h, U), NEW i \in Int
  PROVE  Same(h, JoinedAt(h, i), U)
<1>1. CASE ~ Adjacent(h, i)
  BY <1>1 DEF JoinedAt, Same
<1>2. CASE Adjacent(h, i)
  <2> DEFINE a == h.list[i]
             b == h.list[i+1]
             g == JoinedAt(h, i)
             f == Merged(h.size, a, b)
             r == RemoveAt(h.list, i+1)
  <2>1. h.list \in Seq(Nat) /\ Len(h.list) \in Nat /\ Lists(h.list, DOMAIN h.size \ U)
    BY DEF Sound, Lists
  <2>2. i \in 1 .. Len(h.list) /\ i+1 \in 1 .. Len(h.list)
    BY <1>2, <2>1 DEF Adjacent
  <2>3. a \notin U /\ b \notin U
    BY <2>1, <2>2 DEF Lists, OneEach
  <2>4. g = [h EXCEPT !.list = r, !.size = f]
    BY <1>2 DEF JoinedAt
  <2>5. \A z \in DOMAIN h.size \ {a, b} : f[z] = h.size[z]
    BY DEF Merged, Without
  <2> HIDE DEF g, f, r, a, b
  <2>6. g.size = f
    BY <2>4 DEF Sound, Shape
  <2>7. U \subseteq DOMAIN h.size
    BY DEF Sound
  <2>8. Same(h, g, U)
    BY <2>3, <2>5, <2>6, <2>7 DEF Same
  <2> QED BY <2>8 DEF g
<1> QED BY <1>1, <1>2

LEMMA LowerSame ==
  ASSUME NEW h, NEW U, Sound(h, U), h.list # << >>
  PROVE  Same(h, Lowered(h), U)
<1> DEFINE a == Last(h.list)
           g == Lowered(h)
<1>1. CASE End(h, a) # h.brk
  BY <1>1 DEF Lowered, Same
<1>2. CASE End(h, a) = h.brk
  <2>1. Lists(h.list, DOMAIN h.size \ U) /\ h.list \in Seq(Nat)
    BY DEF Sound, Lists
  <2>2. Len(h.list) \in 1 .. Len(h.list)
    BY <2>1, FrontList
  <2>3. a \notin U
    BY <2>1, <2>2 DEF Lists, OneEach, Last
  <2>4. g.size = Without(h.size, a)
    BY <1>2 DEF Lowered, Sound, Shape
  <2>5. U \subseteq DOMAIN h.size
    BY DEF Sound
  <2> QED BY <2>3, <2>4, <2>5 DEF Same, Without
<1> QED BY <1>1, <1>2

LEMMA FreeSame ==
  ASSUME NEW h, NEW U, Sound(h, U), NEW a \in U
  PROVE  Same(h, Freed(h, a), U \ {a})
<1> DEFINE k  == Place(h, a)
           i1 == Inserted(h, a)
           up == JoinedAt(i1, k)
           dn == JoinedAt(up, k-1)
           T  == U \ {a}
<1>1. Sound(i1, T) /\ k \in Int /\ k-1 \in Int /\ i1.list # << >> /\ i1.size = h.size
  <2>1. Sound(i1, T) /\ k \in 1 .. Len(h.list)+1 /\ i1.list # << >>
    BY InsertSound
  <2>2. Len(h.list) \in Nat
    BY DEF Sound, Lists
  <2>3. i1.size = h.size
    BY InsertSame
  <2> HIDE DEF k, i1
  <2> QED BY <2>1, <2>2, <2>3
<1>2. Sound(up, T) /\ up.list # << >> /\ Same(i1, up, T)
  BY <1>1, JoinSound, JoinSame
<1>3. Sound(dn, T) /\ dn.list # << >> /\ Same(up, dn, T)
  BY <1>1, <1>2, JoinSound, JoinSame
<1>4. Same(dn, Lowered(dn), T)
  BY <1>3, LowerSame
<1>5. Freed(h, a) = up \/ Freed(h, a) = Lowered(dn)
  BY DEF Freed
<1> HIDE DEF k, i1, up, dn, T
<1>6. Same(h, up, T) /\ Same(h, Lowered(dn), T)
  BY <1>1, <1>2, <1>3, <1>4 DEF Same
<1>7. Same(h, Freed(h, a), T)
  BY <1>5, <1>6
<1> QED BY <1>7 DEF T

-----------------------------------------------------------------------------
\* malloc gives a chunk of at least the length, and changes no other in use.

Gives(h, r, U, n) == /\ Same(h, r.heap, U)
                     /\ r.at # Null => r.heap.size[r.at] >= n

LEMMA TakenGives ==
  ASSUME NEW h, NEW U, Sound(h, U), NEW i, NEW n, h.size[h.list[i]] >= n
  PROVE  Gives(h, Taken(h, i), U, n)
<1> DEFINE l == RemoveAt(h.list, i)
           g == [h EXCEPT !.list = l]
<1>1. Taken(h, i).heap = g /\ Taken(h, i).at = h.list[i]
  BY DEF Taken, Result
<1> HIDE DEF l
<1>2. g.size = h.size
  BY DEF Sound, Shape
<1> HIDE DEF g
<1> QED BY <1>1, <1>2 DEF Gives, Same

LEMMA SplitOffGives ==
  ASSUME NEW h, NEW U, Sound(h, U), NEW i \in 1 .. Len(h.list),
         NEW n \in Nat, n >= W, h.size[h.list[i]] - n >= FreeEntry
  PROVE  Gives(h, SplitOff(h, i, n), U, n)
<1> DEFINE a == h.list[i]
           m == h.size[a] - n - W
           b == a + h.size[a] - n
           f == Cut(h.size, a, m)
           w == h.wrote \union Header(b)
           g == [h EXCEPT !.size = f, !.wrote = w]
<1>1. a \in DOMAIN h.size /\ a \notin U
  BY DEF Sound, Lists, OneEach
<1>2. Break(h) \in Nat /\ Tiles(Break(h), h.size) /\ Chunky(h.size)
  BY BreakFact DEF Sound
<1>3. SplitOff(h, i, n) = Result(g, b)
  BY DEF SplitOff
<1> HIDE DEF a
<1>4. h.size[a] \in Nat /\ a \in Nat
  BY <1>1, <1>2, HeapAssumption DEF Chunky
<1>5. h.size[a] - n >= 2 * W
  BY DEF FreeEntry, a
<1>6. m \in Nat /\ m >= 0 /\ b = a + W + m /\ h.size[a] - m - W = n
  <2> DEFINE s == h.size[a]
  <2> HIDE DEF s
  <2>1. s \in Nat /\ s - n >= 2 * W
    BY <1>4, <1>5 DEF s
  <2>2. s - n - W \in Nat /\ a + s - n = a + W + (s - n - W) /\ s - (s - n - W) - W = n
    BY <1>4, <2>1, HeapAssumption
  <2> QED BY <2>2 DEF s
<1> HIDE DEF m, b
<1>7. CutResult(Break(h), h.size, a, a + W + m, m, f)
  <2>1. h.size[a] - m - W >= 0
    BY <1>6
  <2> QED BY <1>1, <1>2, <1>6, <2>1, CutTiles, Zenon
<1> HIDE DEF f, w
<1>8. f[b] = n /\ \A z \in DOMAIN h.size \ {a} : f[z] = h.size[z]
  BY <1>6, <1>7 DEF CutResult
<1>9. g.size = f
  BY DEF Sound, Shape
<1> HIDE DEF g
<1>10. U \subseteq DOMAIN h.size \ {a}
  BY <1>1 DEF Sound
<1> QED BY <1>3, <1>8, <1>9, <1>10 DEF Gives, Same, Result

LEMMA GrownGives ==
  ASSUME NEW h, NEW U, Sound(h, U), NEW n \in Nat, NEW limit
  PROVE  Gives(h, Grown(h, n, limit), U, n)
<1> DEFINE b == Break(h)
           ok == limit > b /\ Fits(limit - b, n)
<1>1. b \in Nat /\ Tiles(b, h.size) /\ Chunky(h.size)
  BY BreakFact DEF Sound
<1>2. CASE ~ ok
  <2> DEFINE g == [h EXCEPT !.brk = b]
  <2>1. Grown(h, n, limit).heap = g /\ Grown(h, n, limit).at = Null
    BY <1>2 DEF Grown, Result
  <2> HIDE DEF b
  <2>2. g.size = h.size
    BY DEF Sound, Shape
  <2> HIDE DEF g
  <2> QED BY <2>1, <2>2 DEF Gives, Same
<1>3. CASE ok
  <2> DEFINE top == (b + n + W) % SizeMod
             f == With(h.size, b, n)
             w == h.wrote \union Header(b)
             g == [h EXCEPT !.brk = top, !.size = f, !.wrote = w]
  <2>1. Grown(h, n, limit).heap = g /\ Grown(h, n, limit).at = b
    BY <1>3 DEF Grown, Result
  <2> HIDE DEF b
  <2>2. b \notin DOMAIN h.size
    BY <1>1, GrowTiles
  <2>3. f[b] = n /\ \A z \in DOMAIN h.size : f[z] = h.size[z]
    BY <2>2 DEF With
  <2> HIDE DEF f, w, top
  <2>4. g.size = f
    BY DEF Sound, Shape
  <2> HIDE DEF g
  <2> QED BY <2>1, <2>3, <2>4 DEF Gives, Same, Sound
<1> QED BY <1>2, <1>3

LEMMA AllocatedGives ==
  ASSUME NEW h, NEW U, Sound(h, U), NEW len \in 0 .. SizeMod-1, NEW limit \in Limits
  PROVE  Gives(h, Allocated(h, len, limit), U, len)
<1> DEFINE n == AtLeastLink(len)
           r == Allocated(h, len, limit)
<1>1. n \in Nat /\ n >= W /\ n >= len /\ len \in Nat
  BY HeapAssumption DEF AtLeastLink
<1>2. h.list \in Seq(Nat) /\ Lists(h.list, DOMAIN h.size \ U) /\ Chunky(h.size)
  BY DEF Sound, Lists
<1>3. \A i \in DOMAIN h.list : h.size[h.list[i]] \in Nat
  <2>1. ASSUME NEW i \in 1 .. Len(h.list) PROVE h.list[i] \in DOMAIN h.size
    BY <1>2 DEF Lists, OneEach
  <2>2. DOMAIN h.list = 1 .. Len(h.list)
    BY <1>2
  <2>3. \A x \in DOMAIN h.size : h.size[x] \in Nat
    BY <1>2, HeapAssumption DEF Chunky
  <2> QED BY <2>1, <2>2, <2>3
<1> HIDE DEF n
<1>4. Gives(h, r, U, n)
  <2>1. CASE Exact(h, n) # 0
    <3>1. r = Taken(h, Exact(h, n))
      BY <2>1 DEF Allocated, n
    <3>2. h.size[h.list[Exact(h, n)]] = n
      BY <1>2, <2>1, ExactFact
    <3>3. h.size[h.list[Exact(h, n)]] >= n
      BY <1>1, <3>2
    <3> QED BY <3>1, <3>3, TakenGives
  <2>2. CASE Exact(h, n) = 0 /\ Larger(h, n) = {}
    <3>1. r = Grown(h, n, limit)
      BY <2>2 DEF Allocated, n
    <3> QED BY <1>1, <3>1, GrownGives
  <2>3. CASE Exact(h, n) = 0 /\ Larger(h, n) # {}
    <3> DEFINE i == Best(h, n)
    <3>1. r = IF h.size[h.list[i]] - n < FreeEntry THEN Taken(h, i) ELSE SplitOff(h, i, n)
      BY <2>3 DEF Allocated, n
    <3>2. i \in 1 .. Len(h.list) /\ h.size[h.list[i]] > n /\ h.size[h.list[i]] \in Nat
      <4>1. i \in 1 .. Len(h.list) /\ h.size[h.list[i]] > n
        BY <1>2, <1>3, <2>3, BestFact
      <4>2. i \in DOMAIN h.list
        BY <1>2, <4>1
      <4> QED BY <1>3, <4>1, <4>2
    <3> HIDE DEF i, r
    <3>3. h.size[h.list[i]] >= n
      BY <1>1, <3>2
    <3>4. CASE h.size[h.list[i]] - n < FreeEntry
      BY <3>1, <3>3, <3>4, TakenGives
    <3>5. CASE ~ (h.size[h.list[i]] - n < FreeEntry)
      <4>1. h.size[h.list[i]] - n >= FreeEntry
        BY <1>1, <3>2, <3>5, HeapAssumption DEF FreeEntry
      <4> QED BY <1>1, <3>1, <3>2, <3>5, <4>1, SplitOffGives
    <3> QED BY <3>4, <3>5
  <2> QED BY <2>1, <2>2, <2>3
<1>5. r.at # Null => r.heap.size[r.at] >= len
  <2>1. CASE r.at # Null
    <3>1. \/ r.at = Null /\ Sound(r.heap, U)
          \/ r.at \notin U /\ r.at # Null /\ Sound(r.heap, U \union {r.at})
      BY AllocatedSound
    <3> HIDE DEF r
    <3>2. Sound(r.heap, U \union {r.at})
      BY <2>1, <3>1
    <3>3. r.heap.size[r.at] \in Nat
      BY <3>2, HeapAssumption DEF Sound, Chunky
    <3> QED BY <1>1, <1>4, <2>1, <3>3 DEF Gives
  <2> QED BY <2>1
<1> QED BY <1>4, <1>5 DEF Gives

-----------------------------------------------------------------------------
\* realloc in place gives the chunk the length, or leaves it as it is.

Resizes(h, r, U, a, len) ==
    /\ Same(h, r.heap, U \ {a})
    /\ r.at = Null => r.heap.size[a] = h.size[a]
    /\ r.at # Null => r.heap.size[a] >= len

\* The heap g in the middle of shrinking: the chunk is cut, its rest b not yet freed.
Splits(h, a, len, b, w, g) ==
    /\ len \in Nat
    /\ ~ (h.size[a] <= FreeEntry \/ len > h.size[a] - FreeEntry)
    /\ b = a + W + len
    /\ g = [h EXCEPT !.size = Cut(h.size, a, len), !.wrote = w]

LEMMA SplitSound ==
  ASSUME NEW h, NEW U, Sound(h, U), NEW a \in U, NEW len, len >= W,
         NEW b, NEW w, NEW g, Splits(h, a, len, b, w, g)
  PROVE  /\ Sound(g, U \union {b}) /\ b \notin U
         /\ g.size[a] = len /\ \A z \in U \ {a} : g.size[z] = h.size[z]
<1> DEFINE s == h.size[a]
           f == Cut(h.size, a, len)
           S == DOMAIN h.size \ U
<1>0. /\ Break(h) \in Nat /\ Break(h) <= SizeMod-1
      /\ Tiles(Break(h), h.size) /\ Chunky(h.size)
      /\ Lists(h.list, S)
  <2>1. Break(h) \in HeapStart .. SizeMod-1 /\ Break(h) \in Nat
    BY BreakFact
  <2>2. Break(h) <= SizeMod-1
    BY <2>1, HeapAssumption
  <2> QED BY <2>1, <2>2 DEF Sound
<1>1. a \in DOMAIN h.size /\ a \in Nat /\ s \in Nat
  <2>1. a \in DOMAIN h.size
    BY DEF Sound
  <2> QED BY <2>1, <1>0, HeapAssumption DEF Chunky
<1>2. len \in Nat /\ b = a + W + len
  BY DEF Splits
<1> HIDE DEF S, s
<1>3. s - len - W >= W /\ len <= s
  <2>1. ~ (s <= FreeEntry \/ len > s - FreeEntry)
    BY DEF s, Splits
  <2> QED BY <1>1, <1>2, <2>1, HeapAssumption DEF FreeEntry
<1>4. CutResult(Break(h), h.size, a, b, len, f)
  <2>1. h.size[a] - len - W >= 0
    BY <1>1, <1>3, <1>2, HeapAssumption DEF s
  <2> QED BY <1>0, <1>1, <1>2, <2>1, CutTiles, Zenon
<1>5. Chunky(f)
  BY <1>0, <1>1, <1>3, <1>2, CutChunky, Zenon DEF s
<1>6. g = [h EXCEPT !.size = f, !.wrote = w]
  BY DEF Splits
<1> HIDE DEF f
<1>7. g.list = h.list /\ g.size = f /\ g.brk = h.brk /\ Shape(g)
  BY <1>6 DEF Sound, Shape
<1>8. Break(g) = Break(h)
  BY <1>7 DEF Break
<1>9. /\ DOMAIN f = DOMAIN h.size \union {b} /\ b \notin DOMAIN h.size /\ Tiles(Break(h), f)
      /\ f[a] = len /\ \A z \in DOMAIN h.size \ {a} : f[z] = h.size[z]
  BY <1>4, Zenon DEF CutResult
<1>10. S = DOMAIN f \ (U \union {b}) /\ U \union {b} \subseteq DOMAIN f
  BY <1>9 DEF S, Sound
<1>11. Sound(g, U \union {b})
  BY <1>0, <1>5, <1>7, <1>8, <1>9, <1>10 DEF Sound
<1>12. b \notin U /\ g.size[a] = len /\ \A z \in U \ {a} : g.size[z] = h.size[z]
  BY <1>7, <1>9 DEF Sound
<1> QED BY <1>11, <1>12

LEMMA ShrunkResizes ==
  ASSUME NEW h, NEW U, Sound(h, U), NEW a \in U, NEW len \in Nat, len >= W,
         len <= h.size[a]
  PROVE  Resizes(h, Shrunk(h, a, len), U, a, len)
<1> DEFINE s == h.size[a]
           b == a + W + len
           g == [h EXCEPT !.size = Cut(h.size, a, len), !.wrote = h.wrote \union Header(b)]
<1>1. s \in Nat /\ a # Null
  BY HeapAssumption DEF Sound, Chunky, Null
<1>2. CASE s <= FreeEntry \/ len > s - FreeEntry
  <2>1. Shrunk(h, a, len).heap = h /\ Shrunk(h, a, len).at = a
    BY <1>2 DEF Shrunk, Result
  <2>2. h.size[a] >= len
    BY <1>1
  <2> QED BY <1>1, <2>1, <2>2 DEF Resizes, Same
<1>3. CASE ~ (s <= FreeEntry \/ len > s - FreeEntry)
  <2> DEFINE t == Freed(g, b)
  <2>1. Shrunk(h, a, len).heap = t /\ Shrunk(h, a, len).at = a
    BY <1>3 DEF Shrunk, Result
  <2>2. /\ Sound(g, U \union {b}) /\ b \notin U
        /\ g.size[a] = len /\ \A z \in U \ {a} : g.size[z] = h.size[z]
    <3> DEFINE w == h.wrote \union Header(b)
    <3>1. Splits(h, a, len, b, w, g)
      BY <1>3 DEF Splits
    <3> HIDE DEF g, b, w
    <3> HIDE DEF s
    <3> QED BY <3>1, SplitSound
  <2> HIDE DEF g, b
  <2>3. Same(g, t, U)
    <3>1. Same(g, t, (U \union {b}) \ {b})
      BY <2>2, FreeSame
    <3>2. (U \union {b}) \ {b} = U
      BY <2>2
    <3> QED BY <3>1, <3>2
  <2> HIDE DEF t
  <2>4. t.size[a] = len /\ \A z \in U \ {a} : t.size[z] = h.size[z]
    BY <2>2, <2>3 DEF Same
  <2>5. t.size[a] >= len
    BY <2>4
  <2> QED BY <1>1, <2>1, <2>4, <2>5 DEF Resizes, Same
<1> QED BY <1>2, <1>3

LEMMA GrownOnTopResizes ==
  ASSUME NEW h, NEW U, Sound(h, U), NEW a \in U, NEW len \in Nat, NEW limit
  PROVE  Resizes(h, GrownOnTop(h, a, len, limit), U, a, len)
<1> DEFINE new == (a + W + len) % SizeMod
           f == [h.size EXCEPT ![a] = len]
           g == [h EXCEPT !.brk = new, !.size = f]
<1>0. U \subseteq DOMAIN h.size /\ a # Null
  <2>1. U \subseteq DOMAIN h.size
    BY DEF Sound
  <2> QED BY <2>1, HeapAssumption DEF Sound, Chunky, Null
<1>1. CASE ~ (new < limit)
  <2>1. GrownOnTop(h, a, len, limit).heap = h /\ GrownOnTop(h, a, len, limit).at = Null
    BY <1>1 DEF GrownOnTop, Result
  <2> QED BY <2>1 DEF Resizes, Same
<1>2. CASE new < limit
  <2>1. GrownOnTop(h, a, len, limit).heap = g /\ GrownOnTop(h, a, len, limit).at = a
    BY <1>2 DEF GrownOnTop, Result
  <2>2. f[a] = len /\ f[a] >= len /\ \A z \in U \ {a} : f[z] = h.size[z]
    BY <1>0
  <2> HIDE DEF f, new
  <2>3. g.size = f
    BY DEF Sound, Shape
  <2> HIDE DEF g
  <2> QED BY <1>0, <2>1, <2>2, <2>3 DEF Resizes, Same
<1> QED BY <1>1, <1>2

LEMMA GrownIntoResizes ==
  ASSUME NEW h, NEW U, Sound(h, U), NEW a \in U, NEW len \in Nat,
         NEW i \in 1 .. Len(h.list), h.list[i] = End(h, a), len > h.size[a],
         h.size[h.list[i]] + W >= len - h.size[a]
  PROVE  Resizes(h, GrownInto(h, a, len, i), U, a, len)
<1> DEFINE c == h.list[i]
           b == a + W + len
           rest == h.size[c] - (len - h.size[a])
           m == Merged(h.size, a, c)
           S == DOMAIN h.size \ U
           r == GrownInto(h, a, len, i)
<1>1. /\ Break(h) \in Nat /\ Break(h) <= SizeMod-1
      /\ Tiles(Break(h), h.size) /\ Chunky(h.size)
      /\ Lists(h.list, S)
  <2>1. Break(h) \in HeapStart .. SizeMod-1 /\ Break(h) \in Nat
    BY BreakFact
  <2>2. Break(h) <= SizeMod-1
    BY <2>1, HeapAssumption
  <2> QED BY <2>1, <2>2 DEF Sound
<1>2. a \in DOMAIN h.size /\ c \in S /\ c \in DOMAIN h.size /\ U \subseteq DOMAIN h.size
  BY <1>1 DEF Sound, Lists, OneEach
<1>3. Ends(h.size, a) = c
  BY DEF Ends, End
<1>4. h.size[c] + W >= len - h.size[a]
  OBVIOUS
<1> HIDE DEF S, c
<1>5. /\ a \in Nat /\ h.size[a] \in Nat /\ h.size[c] \in Nat /\ a # Null
      /\ len \in Nat /\ len >= W
  <2>1. /\ a \in HeapStart .. SizeMod-1 /\ h.size[a] \in W .. SizeMod-1
        /\ h.size[c] \in W .. SizeMod-1
    BY <1>1, <1>2, Zenon DEF Chunky
  <2> DEFINE s == h.size[a]
             t == h.size[c]
  <2>2. len > s /\ len \in Nat
    OBVIOUS
  <2> HIDE DEF s, t
  <2>3. a \in HeapStart .. SizeMod-1 /\ s \in W .. SizeMod-1 /\ t \in W .. SizeMod-1
    BY <2>1 DEF s, t
  <2>4. a \in Nat /\ s \in Nat /\ t \in Nat /\ a # Null /\ len >= W
    BY <2>2, <2>3, HeapAssumption DEF Null
  <2> QED BY <2>2, <2>4 DEF s, t
<1>6. MergeResult(h.size, a, c, m)
  BY <1>1, <1>2, <1>3, MergeChunky, Zenon
<1>7. Tiles(Break(h), m)
  BY <1>1, <1>2, <1>3, JoinTiles, Zenon
<1>8. \A z \in U \ {a} : m[z] = h.size[z]
  <2>1. \A z \in DOMAIN h.size \ {a, c} : m[z] = h.size[z]
    BY DEF Merged, Without
  <2>2. c \notin U
    BY <1>2 DEF S
  <2> HIDE DEF m
  <2> QED BY <1>2, <2>1, <2>2
<1> HIDE DEF m
<1>9. DOMAIN m = DOMAIN h.size \ {c} /\ a \in DOMAIN m /\ Chunky(m)
  BY <1>6, Zenon DEF MergeResult
<1>10. m[a] = h.size[a] + h.size[c] + W
  BY <1>6 DEF MergeResult
<1>11. U \subseteq DOMAIN m
  BY <1>2, <1>9 DEF S
<1>12. CASE rest + W > FreeEntry
  <2> DEFINE f == Cut(m, a, len)
             l == ReplaceAt(h.list, i, b)
             w == h.wrote \union (b .. b + FreeEntry - 1)
             g == [h EXCEPT !.list = l, !.size = f, !.wrote = w]
  <2>1. r.heap = g /\ r.at = a
    BY <1>12 DEF GrownInto, Result, c, m
  <2>2. m[a] - len - W >= 0
    BY <1>5, <1>10, <1>12, HeapAssumption DEF FreeEntry
  <2>3. CutResult(Break(h), m, a, b, len, f)
    BY <1>1, <1>5, <1>7, <1>9, <2>2, CutTiles, Zenon
  <2> HIDE DEF f, w, l, b
  <2>4. f[a] = len /\ \A z \in DOMAIN m \ {a} : f[z] = m[z]
    BY <2>3, Zenon DEF CutResult
  <2>5. g.size = f
    BY DEF Sound, Shape
  <2> HIDE DEF g, r
  <2>6. f[a] >= len /\ \A z \in U \ {a} : f[z] = h.size[z]
    BY <1>5, <1>8, <1>11, <2>4
  <2> QED BY <1>5, <2>1, <2>5, <2>6 DEF Resizes, Same, r
<1>13. CASE ~ (rest + W > FreeEntry)
  <2> DEFINE l == RemoveAt(h.list, i)
             g == [h EXCEPT !.list = l, !.size = m]
  <2>1. r.heap = g /\ r.at = a
    BY <1>13 DEF GrownInto, Result, c, m
  <2> HIDE DEF l
  <2>2. g.size = m
    BY DEF Sound, Shape
  <2> HIDE DEF g, r
  <2>3. m[a] >= len
    BY <1>4, <1>5, <1>10, HeapAssumption
  <2> QED BY <1>5, <1>8, <2>1, <2>2, <2>3 DEF Resizes, Same, r
<1> QED BY <1>12, <1>13

LEMMA AboveFits ==
  ASSUME NEW h, h.list \in Seq(Nat), NEW a, NEW len, Above(h, a, len) # 0
  PROVE  h.size[h.list[Above(h, a, len)]] + W >= len - h.size[a]
<1> DEFINE I == {i \in 1 .. Len(h.list) : /\ h.list[i] = End(h, a)
                                          /\ h.size[h.list[i]] + W >= len - h.size[a]}
<1>1. I \in SUBSET Nat
  OBVIOUS
<1>2. I # {} => Min(I) \in I
  <2> HIDE DEF I
  <2> QED BY <1>1, MinFact
<1> QED BY <1>2 DEF Above, SelectInSeq

LEMMA ResizedResizes ==
  ASSUME NEW h, NEW U, Sound(h, U), NEW a \in U, NEW len \in W .. SizeMod-W-1, NEW limit
  PROVE  Resizes(h, Resized(h, a, len, limit), U, a, len)
<1> DEFINE i == Above(h, a, len)
<1>1. a \in DOMAIN h.size /\ h.size[a] \in Nat /\ len \in Nat /\ len >= W
  BY HeapAssumption DEF Sound, Chunky
<1>2. CASE Wrapped(a, len)
  <2>1. Resized(h, a, len, limit).heap = h /\ Resized(h, a, len, limit).at = Null
    BY <1>2 DEF Resized, Result
  <2> QED BY <2>1 DEF Resizes, Same
<1>3. CASE ~ Wrapped(a, len) /\ len <= h.size[a]
  <2>1. Resized(h, a, len, limit) = Shrunk(h, a, len)
    BY <1>3 DEF Resized
  <2> QED BY <1>1, <1>3, <2>1, ShrunkResizes
<1>4. CASE ~ Wrapped(a, len) /\ len > h.size[a] /\ i # 0
  <2>1. Resized(h, a, len, limit) = GrownInto(h, a, len, i)
    <3>1. ~ (len <= h.size[a])
      BY <1>1, <1>4
    <3> QED BY <1>4, <3>1 DEF Resized
  <2>2. h.list \in Seq(Nat)
    BY DEF Sound, Lists
  <2>3. /\ i \in 1 .. Len(h.list) /\ h.list[i] = End(h, a)
        /\ h.size[h.list[i]] + W >= len - h.size[a]
    BY <1>4, <2>2, AboveFact, AboveFits
  <2> HIDE DEF i
  <2> QED BY <1>1, <1>4, <2>1, <2>3, GrownIntoResizes
<1>5. CASE ~ Wrapped(a, len) /\ len > h.size[a] /\ i = 0
  <2>1. Resized(h, a, len, limit) = GrownOnTop(h, a, len, limit)
    <3>1. ~ (len <= h.size[a])
      BY <1>1, <1>5
    <3> QED BY <1>5, <3>1 DEF Resized
  <2> QED BY <1>1, <2>1, GrownOnTopResizes
<1>6. len <= h.size[a] \/ len > h.size[a]
  BY <1>1
<1> QED BY <1>2, <1>3, <1>4, <1>5, <1>6

-----------------------------------------------------------------------------
\* The invariant and its proof.

Held == \A a \in InUse : block[a] \in Nat /\ block[a] <= size[a]

BInv == IInv /\ Held

\* The product of calloc is not truncated.
SaneArrays == \A p \in Arrays : p[1] * p[2] < SizeMod

LEMMA CallHeld ==
  ASSUME BInv, NEW n \in 0 .. SizeMod-1, NEW limit \in Limits, Call(n, n, limit)
  PROVE  Held'
<1> DEFINE r == Allocated(Heap, n, limit)
           U == InUse
<1>1. Gives(Heap, r, U, n)
  BY AllocatedGives DEF BInv, IInv
<1>2. /\ Becomes(r.heap)
      /\ r.at = Null => block' = block
      /\ r.at # Null => block' = With(block, r.at, n)
  BY DEF Call
<1>3. size' = r.heap.size /\ Heap.size = size
  BY <1>2 DEF Becomes, Heap
<1> HIDE DEF r, U
<1>4. \A z \in U : size'[z] = size[z]
  BY <1>1, <1>3 DEF Gives, Same
<1>5. n \in Nat
  BY HeapAssumption
<1>6. CASE r.at = Null
  BY <1>2, <1>4, <1>6 DEF BInv, Held, InUse, U
<1>7. CASE r.at # Null
  <2>1. size'[r.at] >= n
    BY <1>1, <1>3, <1>7 DEF Gives
  <2>2. ASSUME NEW z \in DOMAIN block'
        PROVE  block'[z] \in Nat /\ block'[z] <= size'[z]
    <3>1. CASE z = r.at
      <4>1. block'[z] = n
        BY <1>2, <1>7, <3>1 DEF With
      <4>2. n <= size'[z]
        <5>1. size'[z] \in Nat
          <6>1. IInv'
            BY CallInv DEF BInv
          <6> QED BY <2>2, <6>1, HeapAssumption DEF IInv, Sound, Heap, InUse, Chunky
        <5> QED BY <1>5, <2>1, <3>1, <5>1
      <4> QED BY <1>5, <4>1, <4>2
    <3>2. CASE z # r.at
      <4>1. z \in U /\ block'[z] = block[z]
        BY <1>2, <1>7, <2>2, <3>2 DEF With, InUse, U
      <4> QED BY <1>4, <4>1 DEF BInv, Held, U
    <3> QED BY <3>1, <3>2
  <2> QED BY <2>2 DEF Held, InUse
<1> QED BY <1>6, <1>7

LEMMA FreeHeld ==
  ASSUME BInv, NEW a \in DOMAIN block, Free(a)
  PROVE  Held'
<1> DEFINE g == Freed(Heap, a)
<1>1. Same(Heap, g, InUse \ {a})
  BY FreeSame DEF BInv, IInv, InUse
<1>2. Becomes(g) /\ block' = Without(block, a)
  BY DEF Free
<1> HIDE DEF g
<1>3. size' = g.size /\ Heap.size = size
  BY <1>2 DEF Becomes, Heap
<1>4. \A z \in InUse \ {a} : size'[z] = size[z]
  BY <1>1, <1>3 DEF Same
<1>5. DOMAIN block' = InUse \ {a} /\ \A z \in DOMAIN block' : block'[z] = block[z]
  BY <1>2 DEF Without, InUse
<1> QED BY <1>4, <1>5 DEF BInv, Held, InUse

LEMMA ReallocInPlaceHeld ==
  ASSUME BInv, NEW limit \in Limits, NEW a \in DOMAIN block, NEW len \in W .. SizeMod-W-1,
         ReallocInPlace(a, len, limit), IInv'
  PROVE  Held'
<1> DEFINE r == Resized(Heap, a, len, limit)
<1>1. Resizes(Heap, r, InUse, a, len)
  BY ResizedResizes DEF BInv, IInv, InUse
<1>2. /\ Becomes(r.heap)
      /\ r.at = Null => block' = block
      /\ r.at # Null => block' = [block EXCEPT ![a] = len]
  BY DEF ReallocInPlace
<1>3. size' = r.heap.size /\ Heap.size = size
  BY <1>2 DEF Becomes, Heap
<1> HIDE DEF r
<1>4. /\ \A z \in InUse \ {a} : size'[z] = size[z]
      /\ r.at = Null => size'[a] = size[a]
      /\ r.at # Null => size'[a] >= len
  BY <1>1, <1>3 DEF Resizes, Same
<1>5. len \in Nat
  BY HeapAssumption
<1>6. DOMAIN block' = InUse
  BY <1>2 DEF InUse
<1>7. ASSUME NEW z \in InUse
      PROVE  block'[z] \in Nat /\ block'[z] <= size'[z]
  <2>1. CASE z # a \/ r.at = Null
    <3>1. block'[z] = block[z] /\ size'[z] = size[z]
      BY <1>2, <1>4, <2>1 DEF InUse
    <3> QED BY <3>1 DEF BInv, Held
  <2>2. CASE z = a /\ r.at # Null
    <3>1. block'[z] = len
      BY <1>2, <2>2 DEF InUse
    <3>2. size'[z] \in Nat
      BY <1>6, HeapAssumption DEF IInv, Sound, Heap, InUse, Chunky
    <3> QED BY <1>4, <1>5, <2>2, <3>1, <3>2
  <2> QED BY <2>1, <2>2
<1> QED BY <1>6, <1>7 DEF Held, InUse

LEMMA ReallocMoveHeld ==
  ASSUME BInv, NEW limit \in Limits, NEW a \in DOMAIN block, NEW len \in 0 .. SizeMod-1,
         ReallocMove(a, len, limit), IInv'
  PROVE  Held'
<1> DEFINE r == Allocated(Heap, len, limit)
           b == r.at
           g == [r.heap EXCEPT !.wrote = {}]
           U == InUse
<1>1. Gives(Heap, r, U, len)
  BY AllocatedGives DEF BInv, IInv
<1>2. \/ b = Null /\ Sound(r.heap, U)
      \/ b \notin U /\ b # Null /\ Sound(r.heap, U \union {b})
  BY AllocatedSound DEF BInv, IInv
<1>3. Heap.size = size /\ a \in U /\ len \in Nat
  BY HeapAssumption DEF Heap, InUse
<1>4. CASE b = Null
  <2>1. Becomes(r.heap) /\ block' = block
    BY <1>4 DEF ReallocMove
  <2> HIDE DEF r
  <2>2. \A z \in U : size'[z] = size[z]
    BY <1>1, <1>3, <2>1 DEF Becomes, Gives, Same
  <2> QED BY <2>1, <2>2 DEF BInv, Held, InUse
<1>5. CASE b # Null
  <2>1. Becomes(Freed(g, a)) /\ block' = With(Without(block, a), b, len)
    BY <1>5 DEF ReallocMove
  <2>2. Held = \A z \in U : block[z] \in Nat /\ block[z] <= size[z]
    BY DEF Held
  <2>3. /\ DOMAIN block' = (U \ {a}) \union {b}
        /\ \A z \in DOMAIN block' : block'[z] = IF z = b THEN len ELSE block[z]
    BY <2>1 DEF With, Without, InUse
  <2> HIDE DEF r, U
  <2>4. Sound(r.heap, U \union {b}) /\ a # b
    BY <1>2, <1>3, <1>5
  <2>5. Sound(g, U \union {b})
    BY <2>4, WroteSound
  <2>6. g.size = r.heap.size
    BY <2>4 DEF Sound, Shape
  <2> HIDE DEF g
  <2>7. Same(g, Freed(g, a), (U \union {b}) \ {a})
    BY <1>3, <2>5, FreeSame
  <2>8. \A z \in (U \ {a}) \union {b} : size'[z] = g.size[z]
    BY <2>1, <2>4, <2>7 DEF Becomes, Same
  <2>9. \A z \in U : g.size[z] = size[z]
    BY <1>1, <1>3, <2>6 DEF Gives, Same
  <2>10. g.size[b] >= len /\ g.size[b] \in Nat
    BY <1>1, <1>5, <2>4, <2>6, HeapAssumption DEF Gives, Sound, Chunky
  <2>11. ASSUME NEW z \in DOMAIN block'
         PROVE  block'[z] \in Nat /\ block'[z] <= size'[z]
    <3>1. CASE z = b
      BY <1>3, <2>3, <2>8, <2>10, <3>1
    <3>2. CASE z # b
      BY <2>2, <2>3, <2>8, <2>9, <3>2 DEF BInv
    <3> QED BY <3>1, <3>2
  <2> QED BY <2>11 DEF Held, InUse
<1> QED BY <1>4, <1>5

LEMMA NextBlocks ==
  ASSUME BInv, [Next]_vars, SaneReLens, SaneArrays
  PROVE  BInv'
<1>1. IInv'
  BY NextInv DEF BInv
<1>2. ASSUME NEW limit \in Limits, NEW len \in Lens, Malloc(len, limit) PROVE Held'
  <2>1. len \in 0 .. SizeMod-1
    BY HeapAssumption
  <2> QED BY <1>2, <2>1, CallHeld DEF Malloc
<1>3. ASSUME NEW limit \in Limits, NEW p \in Arrays, Calloc(p[1], p[2], limit) PROVE Held'
  <2>1. p[1] \in Nat /\ p[2] \in Nat /\ SizeMod \in Nat
    BY HeapAssumption
  <2> DEFINE n == p[1] * p[2]
  <2>2. n \in Nat
    BY <2>1
  <2>3. n < SizeMod
    BY DEF SaneArrays
  <2>4. Call(n % SizeMod, n, limit)
    BY <1>3 DEF Calloc
  <2> HIDE DEF n
  <2>5. n % SizeMod = n /\ n \in 0 .. SizeMod-1
    BY <2>1, <2>2, <2>3
  <2> QED BY <2>4, <2>5, CallHeld
<1>4. ASSUME NEW a \in DOMAIN block, Free(a) PROVE Held'
  BY <1>4, FreeHeld
<1>5. ASSUME NEW limit \in Limits, NEW a \in DOMAIN block, NEW len \in ReLens,
             ReallocInPlace(a, len, limit)
      PROVE  Held'
  <2>1. len \in W .. SizeMod-W-1
    BY DEF SaneReLens
  <2> QED BY <1>1, <1>5, <2>1, ReallocInPlaceHeld
<1>6. ASSUME NEW limit \in Limits, NEW a \in DOMAIN block, NEW len \in ReLens,
             ReallocMove(a, len, limit)
      PROVE  Held'
  <2>1. len \in 0 .. SizeMod-1
    BY HeapAssumption
  <2> QED BY <1>1, <1>6, <2>1, ReallocMoveHeld
<1>7. ASSUME UNCHANGED vars PROVE Held'
  BY <1>7 DEF vars, BInv, Held, InUse
<1>8. Held'
  BY <1>2, <1>3, <1>4, <1>5, <1>6, <1>7 DEF Next
<1> QED BY <1>1, <1>8 DEF BInv

LEMMA InitBlocks ==
  ASSUME Init
  PROVE  BInv
<1>1. InUse = {}
  BY DEF Init, InUse
<1> QED BY <1>1, InitInv DEF BInv, Held

LEMMA BlocksType ==
  ASSUME BInv
  PROVE  TypeOK
<1>1. /\ brkval \in {Null} \union (HeapStart .. SizeMod-1)
      /\ \A a \in Chunks : a \in HeapStart .. SizeMod-1 /\ size[a] \in W .. SizeMod-1
      /\ InUse \subseteq Chunks
      /\ Lists(flist, Chunks \ InUse)
  BY DEF BInv, IInv, Sound, Heap, Chunky, Chunks
<1>2. \A a \in InUse : block[a] \in 0 .. size[a]
  <2>1. ASSUME NEW a \in InUse PROVE size[a] \in Nat
    BY <1>1, HeapAssumption
  <2> QED BY <2>1 DEF BInv, Held
<1>3. flist \in Seq(Chunks)
  <2>1. flist \in Seq(Nat) /\ Len(flist) \in Nat /\ \A i \in 1 .. Len(flist) : flist[i] \in Chunks
    BY <1>1 DEF Lists, OneEach
  <2> QED BY <2>1, LenProperties, SeqDef
<1> QED BY <1>1, <1>2, <1>3 DEF TypeOK

\* malloc.c, realloc.c, calloc.c: a block never reaches behind its chunk, and
\* every chunk has room for a link, for every size of heap and of a pointer and
\* every sequence of calls in which no length given to realloc is below that of a
\* pointer or within it of the end of size_t, and no product of calloc is truncated.
THEOREM TypeCorrect ==
  ASSUME SaneReLens, SaneArrays
  PROVE  Spec => []TypeOK
<1>1. Init => BInv
  BY InitBlocks
<1>2. BInv /\ [Next]_vars => BInv'
  BY NextBlocks
<1>3. BInv => TypeOK
  BY BlocksType
<1> QED BY <1>1, <1>2, <1>3, PTL DEF Spec

\* No two blocks of the program share a byte: what Allocator promises of each
\* state (malloc.c, realloc.c).
BlocksApart == \A a, b \in InUse : a # b => Bytes(a, block[a]) \intersect Bytes(b, block[b]) = {}

\* Blocks are apart if no length given to realloc is below that of a pointer or
\* within it of the end of size_t, and no product of calloc is truncated.
THEOREM NoOverlap ==
  ASSUME SaneReLens, SaneArrays
  PROVE  Spec => []BlocksApart
<1>1. BInv => BlocksApart
  <2> SUFFICES ASSUME BInv, NEW a \in InUse, NEW b \in InUse, a # b
               PROVE  Bytes(a, block[a]) \intersect Bytes(b, block[b]) = {}
    BY DEF BlocksApart
  <2>1. Tiled /\ TypeOK
    BY InvTiled, BlocksType DEF BInv
  <2>2. /\ a \in Nat /\ b \in Nat /\ a \in Chunks /\ b \in Chunks
        /\ block[a] \in Nat /\ block[a] <= size[a] /\ size[a] \in Nat
        /\ block[b] \in Nat /\ block[b] <= size[b] /\ size[b] \in Nat
    BY <2>1, HeapAssumption DEF TypeOK
  <2>3. /\ a < b => a + W + size[a] <= b
        /\ b < a => b + W + size[b] <= a
    BY <2>1, <2>2 DEF Tiled, End, Heap
  <2>4. W \in Nat
    BY HeapAssumption
  <2>5. \A x : ~ (x \in a + W .. a + W + block[a] - 1 /\ x \in b + W .. b + W + block[b] - 1)
    BY <2>2, <2>3, <2>4
  <2> QED BY <2>5 DEF Bytes
<1>2. Init => BInv
  BY InitBlocks
<1>3. BInv /\ [Next]_vars => BInv'
  BY NextBlocks
<1> QED BY <1>1, <1>2, <1>3, PTL DEF Spec

-----------------------------------------------------------------------------
\* What the operations write between the blocks.

\* Bytes within one chunk are in no other.
LEMMA ChunksApart ==
  ASSUME NEW b, NEW f, Tiles(b, f), Chunky(f),
         NEW x \in DOMAIN f, NEW y \in DOMAIN f, x # y
  PROVE  \A z : ~ (z \in x .. Ends(f, x) - 1 /\ z \in y .. Ends(f, y) - 1)
<1>1. x \in Nat /\ y \in Nat /\ f[x] \in Nat /\ f[y] \in Nat /\ W \in Nat
  BY HeapAssumption DEF Chunky
<1>2. (x < y => Ends(f, x) <= y) /\ (y < x => Ends(f, y) <= x)
  BY DEF Tiles
<1> QED BY <1>1, <1>2 DEF Ends

\* free writes a link into the chunk, joining and lowering write nothing else.
LEMMA FreeWrites ==
  ASSUME NEW h, NEW U, Sound(h, U), NEW a \in U
  PROVE  Freed(h, a).wrote = h.wrote \union Bytes(a, W)
<1> DEFINE k  == Place(h, a)
           i1 == Inserted(h, a)
           up == JoinedAt(i1, k)
           dn == JoinedAt(up, k-1)
<1>1. Sound(i1, U \ {a}) /\ k \in Int /\ k-1 \in Int /\ i1.list # << >>
  <2>1. Sound(i1, U \ {a}) /\ k \in 1 .. Len(h.list)+1 /\ i1.list # << >>
    BY InsertSound
  <2>2. Len(h.list) \in Nat
    BY DEF Sound, Lists
  <2> HIDE DEF k, i1
  <2> QED BY <2>1, <2>2
<1>2. i1.wrote = h.wrote \union Bytes(a, W)
  BY DEF Inserted, Sound, Shape
<1>3. ASSUME NEW g, Shape(g), NEW i PROVE JoinedAt(g, i).wrote = g.wrote
  BY <1>3 DEF JoinedAt, Shape
<1>4. ASSUME NEW g, Shape(g) PROVE Lowered(g).wrote = g.wrote
  BY <1>4 DEF Lowered, Shape
<1>5. Freed(h, a) = up \/ Freed(h, a) = Lowered(dn)
  BY DEF Freed
<1>6. Sound(up, U \ {a}) /\ up.list # << >>
  BY <1>1, JoinSound
<1>7. Sound(dn, U \ {a})
  BY <1>1, <1>6, JoinSound
<1>8. up.wrote = i1.wrote /\ dn.wrote = up.wrote
  BY <1>1, <1>3, <1>6 DEF Sound
<1>9. Lowered(dn).wrote = dn.wrote
  BY <1>4, <1>7 DEF Sound
<1> HIDE DEF k, i1, up, dn
<1> QED BY <1>2, <1>5, <1>8, <1>9

\* malloc writes at most the header of the chunk it gives.
LEMMA AllocatedWrites ==
  ASSUME NEW h, NEW U, Sound(h, U), NEW len, NEW limit
  PROVE  Allocated(h, len, limit).heap.wrote \subseteq h.wrote \union Header(Allocated(h, len, limit).at)
<1> DEFINE n == AtLeastLink(len)
           Fine(r) == r.heap.wrote \subseteq h.wrote \union Header(r.at)
<1>1. ASSUME NEW i PROVE Fine(Taken(h, i))
  BY DEF Taken, Result, Sound, Shape
<1>2. ASSUME NEW i PROVE Fine(SplitOff(h, i, n))
  BY DEF SplitOff, Result, Sound, Shape
<1>3. Fine(Grown(h, n, limit))
  BY DEF Grown, Result, Sound, Shape
<1> HIDE DEF Fine, n
<1>4. Fine(Allocated(h, len, limit))
  BY <1>1, <1>2, <1>3 DEF Allocated, n
<1> QED BY <1>4 DEF Fine

\* Shrinking writes a header and a link behind what the block keeps.
LEMMA ShrunkWrites ==
  ASSUME NEW h, NEW U, Sound(h, U), NEW a \in U, NEW len \in Nat, len >= W,
         len <= h.size[a], h.wrote = {}
  PROVE  Shrunk(h, a, len).heap.wrote \subseteq Bytes(a, h.size[a]) \ Bytes(a, len)
<1> DEFINE s == h.size[a]
           b == a + W + len
           f == Cut(h.size, a, len)
           g == [h EXCEPT !.size = f, !.wrote = h.wrote \union Header(b)]
<1>1. CASE s <= FreeEntry \/ len > s - FreeEntry
  BY <1>1 DEF Shrunk, Result
<1>2. CASE ~ (s <= FreeEntry \/ len > s - FreeEntry)
  <2>1. Shrunk(h, a, len).heap = Freed(g, b)
    BY <1>2 DEF Shrunk, Result
  <2>2. a \in Nat /\ s \in Nat /\ W \in Nat
    BY HeapAssumption DEF Sound, Chunky
  <2>3. g.wrote = Header(b)
    BY DEF Sound, Shape
  <2>4. Freed(g, b).wrote = g.wrote \union Bytes(b, W)
    <3> DEFINE w == h.wrote \union Header(b)
    <3>1. Splits(h, a, len, b, w, g)
      BY <1>2 DEF Splits
    <3> HIDE DEF g, b, w
    <3>2. Sound(g, U \union {b})
      BY <3>1, SplitSound, Zenon
    <3> QED BY <3>2, FreeWrites
  <2>5. s - len >= 2 * W
    <3> HIDE DEF s
    <3> QED BY <1>2, <2>2 DEF FreeEntry
  <2> HIDE DEF g, s
  <2>6. ASSUME NEW x \in Header(b) \union Bytes(b, W)
        PROVE  x \in Bytes(a, s) /\ x \notin Bytes(a, len)
    BY <2>2, <2>5 DEF Header, Bytes
  <2>7. Header(b) \union Bytes(b, W) \subseteq Bytes(a, s) \ Bytes(a, len)
    BY <2>6
  <2> HIDE DEF b
  <2>8. Shrunk(h, a, len).heap.wrote \subseteq Bytes(a, s) \ Bytes(a, len)
    BY <2>1, <2>3, <2>4, <2>7
  <2> QED BY <2>8 DEF s
<1> QED BY <1>1, <1>2

\* Growing into the chunk above writes the header and the link of its rest.
LEMMA GrownIntoWrites ==
  ASSUME NEW h, NEW U, Sound(h, U), NEW a \in U, NEW len \in Nat,
         NEW i \in 1 .. Len(h.list), h.list[i] = End(h, a), len > h.size[a], h.wrote = {}
  PROVE  GrownInto(h, a, len, i).heap.wrote \subseteq
             (h.list[i] .. Ends(h.size, h.list[i]) - 1) \ Bytes(a, len)
<1> DEFINE c == h.list[i]
           s == h.size[a]
           t == h.size[c]
           b == a + W + len
           rest == t - (len - s)
           r == GrownInto(h, a, len, i)
<1>1. CASE ~ (rest + W > FreeEntry)
  BY <1>1 DEF GrownInto, Result, Sound, Shape
<1>2. CASE rest + W > FreeEntry
  <2>1. r.heap.wrote = h.wrote \union (b .. b + FreeEntry - 1)
    BY <1>2 DEF GrownInto, Result, Sound, Shape
  <2>2. a \in DOMAIN h.size /\ c \in DOMAIN h.size
    BY DEF Sound, Lists, OneEach
  <2>3. a \in Nat /\ s \in Nat /\ c \in Nat /\ t \in Nat /\ W \in Nat
    BY <2>2, HeapAssumption DEF Sound, Chunky
  <2>4. c = a + W + s
    BY DEF End
  <2> HIDE DEF c, s, t, r
  <2>5. len > s
    BY DEF s
  <2> DEFINE e == Ends(h.size, c)
  <2>6. e = c + W + t
    BY DEF Ends, t
  <2> HIDE DEF e
  <2>7. ASSUME NEW x \in b .. b + FreeEntry - 1
        PROVE  x \in c .. e - 1 /\ x \notin Bytes(a, len)
    BY <1>2, <2>3, <2>4, <2>5, <2>6 DEF Bytes, FreeEntry
  <2> HIDE DEF b
  <2>8. r.heap.wrote \subseteq (c .. e - 1) \ Bytes(a, len)
    BY <2>1, <2>7
  <2> QED BY <2>8, Zenon DEF c, r, e
<1> QED BY <1>1, <1>2

\* What realloc writes in place hurts no other block, nor what it resized.
Unhurt(w, h, U, a, len) == \A x \in w : /\ x \notin Bytes(a, len)
                                        /\ \A z \in U \ {a} : x \notin Bytes(z, h.size[z])

LEMMA ResizedWrites ==
  ASSUME NEW h, NEW U, Sound(h, U), NEW a \in U, NEW len \in W .. SizeMod-W-1, NEW limit,
         h.wrote = {}
  PROVE  Unhurt(Resized(h, a, len, limit).heap.wrote, h, U, a, len)
<1> DEFINE i == Above(h, a, len)
           w == Resized(h, a, len, limit).heap.wrote
<1>1. a \in DOMAIN h.size /\ h.size[a] \in Nat /\ len \in Nat /\ len >= W /\ a \in Nat /\ W \in Nat
  BY HeapAssumption DEF Sound, Chunky
<1>2. CASE w = {}
  BY <1>2 DEF Unhurt
<1>3. ASSUME NEW x, NEW z \in U \ {a}, NEW y \in DOMAIN h.size \ {z}, x \in y .. Ends(h.size, y) - 1
      PROVE  x \notin Bytes(z, h.size[z])
  <2>1. z \in DOMAIN h.size /\ Tiles(Break(h), h.size) /\ Chunky(h.size)
    BY DEF Sound
  <2>2. ~ (x \in z .. Ends(h.size, z) - 1)
    BY <1>3, <2>1, ChunksApart
  <2>3. z \in Nat /\ h.size[z] \in Nat
    BY <2>1, HeapAssumption DEF Chunky
  <2> QED BY <1>1, <2>2, <2>3 DEF Bytes, Ends
<1>4. ASSUME NEW x \in Bytes(a, h.size[a]) PROVE x \in a .. Ends(h.size, a) - 1
  BY <1>1 DEF Bytes, Ends
<1>5. CASE ~ Wrapped(a, len) /\ len <= h.size[a]
  <2>1. Resized(h, a, len, limit) = Shrunk(h, a, len)
    BY <1>5 DEF Resized
  <2>2. w \subseteq Bytes(a, h.size[a]) \ Bytes(a, len)
    BY <1>1, <1>5, <2>1, ShrunkWrites
  <2> HIDE DEF w
  <2> QED BY <1>1, <1>3, <1>4, <2>2 DEF Unhurt, w
<1>6. CASE ~ Wrapped(a, len) /\ len > h.size[a] /\ i # 0
  <2>1. Resized(h, a, len, limit) = GrownInto(h, a, len, i)
    <3>1. ~ (len <= h.size[a])
      BY <1>1, <1>6
    <3> QED BY <1>6, <3>1 DEF Resized
  <2>2. h.list \in Seq(Nat) /\ Lists(h.list, DOMAIN h.size \ U)
    BY DEF Sound, Lists
  <2>3. i \in 1 .. Len(h.list) /\ h.list[i] = End(h, a)
    BY <1>6, <2>2, AboveFact
  <2> DEFINE c == h.list[i]
  <2>4. c \in DOMAIN h.size \ U
    BY <2>2, <2>3 DEF Lists, OneEach
  <2> HIDE DEF i
  <2>5. w \subseteq (c .. Ends(h.size, c) - 1) \ Bytes(a, len)
    BY <1>1, <1>6, <2>1, <2>3, GrownIntoWrites
  <2> HIDE DEF w, c
  <2>6. ASSUME NEW x \in w
        PROVE  x \notin Bytes(a, len) /\ \A z \in U \ {a} : x \notin Bytes(z, h.size[z])
    BY <1>1, <1>3, <1>4, <2>4, <2>5
  <2> QED BY <2>6 DEF Unhurt, w
<1>7. CASE ~ Wrapped(a, len) /\ len > h.size[a] /\ i = 0
  <2>1. Resized(h, a, len, limit) = GrownOnTop(h, a, len, limit)
    <3>1. ~ (len <= h.size[a])
      BY <1>1, <1>7
    <3> QED BY <1>7, <3>1 DEF Resized
  <2>2. w = {}
    BY <2>1 DEF GrownOnTop, Result, Sound, Shape
  <2> QED BY <1>2, <2>2
<1>8. CASE Wrapped(a, len)
  <2>1. w = {}
    BY <1>8 DEF Resized, Result
  <2> QED BY <1>2, <2>1
<1>9. len <= h.size[a] \/ len > h.size[a]
  BY <1>1
<1> QED BY <1>5, <1>6, <1>7, <1>8, <1>9

-----------------------------------------------------------------------------
\* What the program has put into its blocks is there.

Whole == \A z \in InUse : Bytes(z, block[z]) \subseteq good

LEMMA BytesApart ==
  ASSUME NEW h, NEW U, Sound(h, U), NEW x \in DOMAIN h.size, NEW y \in DOMAIN h.size, x # y,
         NEW m \in Nat, NEW k \in Nat, m <= h.size[x], k <= h.size[y],
         NEW z \in Bytes(y, k)
  PROVE  z \notin Header(x) /\ z \notin Bytes(x, m)
<1>1. Tiles(Break(h), h.size) /\ Chunky(h.size)
  BY DEF Sound
<1>2. ~ (z \in x .. Ends(h.size, x) - 1 /\ z \in y .. Ends(h.size, y) - 1)
  BY <1>1, ChunksApart
<1>3. x \in Nat /\ y \in Nat /\ h.size[x] \in Nat /\ h.size[y] \in Nat /\ W \in Nat
  BY <1>1, HeapAssumption DEF Chunky
<1> QED BY <1>2, <1>3 DEF Header, Bytes, Ends

\* A link lies in a chunk of the list, which is in no block.
LEMMA LinksApart ==
  ASSUME NEW h, NEW g, NEW U, Sound(g, U), NEW y \in U, NEW k \in Nat, k <= g.size[y],
         NEW z \in Bytes(y, k)
  PROVE  z \in Touched(h, g) => z \in g.wrote
<1> SUFFICES ASSUME NEW l \in Links(g), z \in Bytes(l[1], W) PROVE FALSE
  BY DEF Touched
<1>1. PICK i \in DOMAIN g.list : l[1] = g.list[i]
  BY DEF Links
<1>2. l[1] \in DOMAIN g.size \ U
  BY <1>1 DEF Sound, Lists, OneEach
<1>3. y \in DOMAIN g.size /\ W \in Nat /\ W <= g.size[l[1]]
  BY <1>2, HeapAssumption DEF Sound, Chunky
<1> QED BY <1>2, <1>3, BytesApart

LEMMA CallWhole ==
  ASSUME BInv, Whole, NEW n \in 0 .. SizeMod-1, NEW limit \in Limits, Call(n, n, limit)
  PROVE  Whole'
<1> DEFINE r == Allocated(Heap, n, limit)
           b == r.at
           w == r.heap.wrote
           U == InUse
<1>1. Gives(Heap, r, U, n)
  BY AllocatedGives DEF BInv, IInv
<1>2. \/ b = Null
      \/ b \notin U /\ b # Null /\ Sound(r.heap, U \union {b})
  BY AllocatedSound DEF BInv, IInv
<1>3. w \subseteq Header(b)
  <2>1. w \subseteq Heap.wrote \union Header(b)
    BY AllocatedWrites DEF BInv, IInv
  <2> QED BY <2>1 DEF Heap
<1>4. CASE b = Null
  <2>1. block' = block /\ good' = good
    BY <1>4 DEF Call
  <2> QED BY <2>1 DEF Whole, InUse
<1>5. CASE b # Null
  <2>1. block' = With(block, b, n) /\ good' = (good \ Touched(Heap, r.heap)) \union Bytes(b, n)
    BY <1>5 DEF Call
  <2>2. Heap.size = size
    BY DEF Heap
  <2> HIDE DEF r, w
  <2>3. /\ DOMAIN block' = U \union {b}
        /\ \A z \in DOMAIN block' : block'[z] = IF z = b THEN n ELSE block[z]
    BY <2>1 DEF With, InUse
  <2>4. b \in DOMAIN r.heap.size /\ U \subseteq DOMAIN r.heap.size
    BY <1>2, <1>5 DEF Sound
  <2>5. ASSUME NEW z \in U, z # b PROVE Bytes(z, block[z]) \subseteq good'
    <3>1. r.heap.size[z] = size[z]
      BY <1>1, <2>2 DEF Gives, Same
    <3>2. block[z] \in Nat /\ block[z] <= r.heap.size[z]
      BY <3>1 DEF BInv, Held
    <3>3. Sound(r.heap, U \union {b}) /\ 0 \in Nat /\ 0 <= r.heap.size[b]
      BY <1>2, <1>5, <2>4, HeapAssumption DEF Sound, Chunky
    <3>4. ASSUME NEW x \in Bytes(z, block[z]) PROVE x \in good'
      <4>1. x \notin Header(b)
        BY <2>4, <2>5, <3>2, <3>3, BytesApart
      <4>2. x \in good
        BY DEF Whole
      <4>3. x \notin Touched(Heap, r.heap)
        BY <1>3, <3>2, <3>3, <4>1, LinksApart DEF w
      <4> QED BY <2>1, <4>2, <4>3
    <3> QED BY <3>4
  <2>6. ASSUME NEW z \in DOMAIN block' PROVE Bytes(z, block'[z]) \subseteq good'
    <3>1. CASE z = b
      <4>1. block'[z] = n
        BY <2>3, <3>1
      <4> QED BY <2>1, <3>1, <4>1
    <3>2. CASE z # b
      <4>1. z \in U /\ block'[z] = block[z]
        BY <2>3, <3>2
      <4> QED BY <2>5, <3>2, <4>1
    <3> QED BY <3>1, <3>2
  <2> QED BY <2>6 DEF Whole, InUse
<1> QED BY <1>4, <1>5

LEMMA FreeWhole ==
  ASSUME BInv, Whole, NEW a \in DOMAIN block, Free(a)
  PROVE  Whole'
<1> DEFINE g == Freed(Heap, a)
<1>1. /\ block' = Without(block, a)
      /\ good' = (good \ Touched(Heap, g)) \ Bytes(a, block[a])
  BY DEF Free
<1>2. Sound(Heap, InUse) /\ Heap.size = size /\ InUse \subseteq DOMAIN size /\ a \in InUse
  BY DEF BInv, IInv, Heap, Sound, InUse
<1>3. g.wrote = Bytes(a, W)
  <2>1. g.wrote = Heap.wrote \union Bytes(a, W)
    BY <1>2, FreeWrites
  <2> QED BY <2>1 DEF Heap
<1>7. Sound(g, InUse \ {a}) /\ Same(Heap, g, InUse \ {a})
  BY <1>2, FreeSound, FreeSame
<1> HIDE DEF g
<1>4. W \in Nat /\ W <= size[a]
  BY <1>2, HeapAssumption DEF Sound, Chunky
<1>5. ASSUME NEW z \in InUse \ {a}, NEW x \in Bytes(z, block[z]) PROVE x \in good'
  <2>1. /\ block[z] \in Nat /\ block[z] <= size[z]
        /\ block[a] \in Nat /\ block[a] <= size[a]
    BY <1>2 DEF BInv, Held
  <2>2. x \notin Bytes(a, W) /\ x \notin Bytes(a, block[a])
    BY <1>2, <1>4, <2>1, BytesApart
  <2>3. block[z] <= g.size[z]
    BY <1>2, <1>7, <2>1 DEF Same
  <2>4. x \notin Touched(Heap, g)
    BY <1>3, <1>7, <2>1, <2>2, <2>3, LinksApart
  <2> QED BY <1>1, <2>2, <2>4 DEF Whole
<1>6. DOMAIN block' = InUse \ {a} /\ \A z \in DOMAIN block' : block'[z] = block[z]
  BY <1>1 DEF Without, InUse
<1> QED BY <1>5, <1>6 DEF Whole, InUse

LEMMA ReallocInPlaceWhole ==
  ASSUME BInv, Whole, NEW limit \in Limits, NEW a \in DOMAIN block, NEW len \in W .. SizeMod-W-1,
         ReallocInPlace(a, len, limit)
  PROVE  Whole'
<1> DEFINE r == Resized(Heap, a, len, limit)
           w == r.heap.wrote
<1>1. Sound(Heap, InUse) /\ Heap.size = size /\ Heap.wrote = {} /\ a \in InUse
      /\ InUse \subseteq DOMAIN size
  BY DEF BInv, IInv, Heap, Sound, InUse
<1>2. Unhurt(w, Heap, InUse, a, len)
  BY <1>1, ResizedWrites
<1>5. Sound(r.heap, InUse)
  BY <1>1, ResizedSound DEF ReallocInPlace
<1>6. Resizes(Heap, r, InUse, a, len)
  BY <1>1, ResizedResizes DEF ReallocInPlace
<1>3. CASE r.at = Null
  <2>1. block' = block /\ good' = good
    BY <1>3 DEF ReallocInPlace
  <2> QED BY <2>1 DEF Whole, InUse
<1>4. CASE r.at # Null
  <2>1. /\ block' = [block EXCEPT ![a] = len]
        /\ good' = ((good \ (Bytes(a, block[a]) \ Bytes(a, len))) \ Touched(Heap, r.heap))
                      \union NewBytes(a, a, len)
    BY <1>4 DEF ReallocInPlace
  <2> HIDE DEF r, w
  <2>2. W \in Nat /\ len \in Nat
    BY HeapAssumption
  <2>3. ASSUME NEW z \in InUse \ {a}, NEW x \in Bytes(z, block[z]) PROVE x \in good'
    <3>1. /\ block[z] \in Nat /\ block[z] <= size[z]
          /\ block[a] \in Nat /\ block[a] <= size[a]
      BY <1>1 DEF BInv, Held
    <3>2. x \notin Bytes(a, block[a])
      BY <1>1, <3>1, BytesApart
    <3>3. x \in Bytes(z, size[z])
      <4>1. z \in Nat /\ size[z] \in Nat
        BY <1>1, HeapAssumption DEF Sound, Chunky
      <4> QED BY <2>2, <3>1, <4>1 DEF Bytes
    <3>4. x \notin w
      BY <1>1, <1>2, <3>3 DEF Unhurt
    <3>5. block[z] <= r.heap.size[z]
      BY <1>1, <1>4, <1>6, <3>1 DEF Resizes, Same
    <3>6. x \notin Touched(Heap, r.heap)
      BY <1>5, <3>1, <3>4, <3>5, LinksApart DEF w
    <3> QED BY <2>1, <3>2, <3>6 DEF Whole
  <2>4. ASSUME NEW x \in Bytes(a, len) PROVE x \in good'
    <3>4. x \notin w
      BY <1>2 DEF Unhurt
    <3>5. len <= r.heap.size[a]
      BY <1>4, <1>6 DEF Resizes
    <3>1. x \notin Touched(Heap, r.heap)
      BY <1>1, <1>5, <2>2, <3>4, <3>5, LinksApart DEF w
    <3>2. CASE x \in Bytes(a, KeptLen(a, len))
      <4>1. block[a] \in Nat /\ a \in Nat
        BY <1>1, HeapAssumption DEF BInv, Held, Sound, Chunky
      <4>2. x \in Bytes(a, block[a])
        BY <2>2, <3>2, <4>1 DEF Bytes, KeptLen
      <4>3. x \in good
        BY <1>1, <4>2 DEF Whole
      <4> QED BY <2>1, <3>1, <4>3
    <3>3. CASE x \notin Bytes(a, KeptLen(a, len))
      BY <2>1, <3>3 DEF NewBytes
    <3> QED BY <3>2, <3>3
  <2>5. /\ DOMAIN block' = InUse
        /\ \A z \in InUse : block'[z] = IF z = a THEN len ELSE block[z]
    BY <2>1 DEF InUse
  <2>6. ASSUME NEW z \in InUse PROVE Bytes(z, block'[z]) \subseteq good'
    BY <2>3, <2>4, <2>5
  <2> QED BY <2>5, <2>6 DEF Whole, InUse
<1> QED BY <1>3, <1>4

LEMMA ReallocMoveWhole ==
  ASSUME BInv, Whole, NEW limit \in Limits, NEW a \in DOMAIN block, NEW len \in 0 .. SizeMod-1,
         ReallocMove(a, len, limit)
  PROVE  Whole'
<1> DEFINE r == Allocated(Heap, len, limit)
           b == r.at
           g == [r.heap EXCEPT !.wrote = {}]
           h == Freed(g, a)
           n == size[a]
           w == r.heap.wrote
           kept == good \ Touched(Heap, r.heap)
           copy == (kept \ Bytes(b, n)) \union Copied(kept, a, b, n)
           U == InUse
<1>1. Gives(Heap, r, U, len)
  BY AllocatedGives DEF BInv, IInv
<1>2. \/ b = Null
      \/ b \notin U /\ b # Null /\ Sound(r.heap, U \union {b})
  BY AllocatedSound DEF BInv, IInv
<1>3. w \subseteq Header(b)
  <2>1. w \subseteq Heap.wrote \union Header(b)
    BY AllocatedWrites DEF BInv, IInv
  <2> QED BY <2>1 DEF Heap
<1>4. CASE b = Null
  <2>1. block' = block /\ good' = good
    BY <1>4 DEF ReallocMove
  <2> QED BY <2>1 DEF Whole, InUse
<1>5. CASE b # Null
  <2>1. /\ block' = With(Without(block, a), b, len)
        /\ good' = ((copy \ Touched(r.heap, h)) \ Bytes(a, block[a])) \union NewBytes(a, b, len)
    BY <1>5 DEF ReallocMove
  <2>2. len > n
    BY DEF ReallocMove, Moves, Heap
  <2>3. Heap.size = size /\ a \in U
    BY DEF Heap, InUse
  <2> HIDE DEF r, h, w, n, U
  <2>4. /\ DOMAIN block' = (U \ {a}) \union {b}
        /\ \A z \in DOMAIN block' : block'[z] = IF z = b THEN len ELSE block[z]
    BY <2>1 DEF With, Without, InUse, U
  <2>5. Sound(r.heap, U \union {b}) /\ a # b /\ b \notin U
    BY <1>2, <1>5, <2>3
  <2>6. Sound(g, U \union {b})
    BY <2>5, WroteSound
  <2>7. g.size = r.heap.size /\ g.wrote = {}
    BY <2>5 DEF Sound, Shape
  <2> HIDE DEF g
  <2>8. h.wrote = Bytes(a, W)
    <3>1. h.wrote = g.wrote \union Bytes(a, W)
      BY <2>3, <2>6, FreeWrites DEF h
    <3> QED BY <2>7, <3>1
  <2>9. /\ U \union {b} \subseteq DOMAIN g.size
        /\ \A z \in U : g.size[z] = size[z] /\ block[z] \in Nat /\ block[z] <= g.size[z]
    BY <1>1, <2>3, <2>6, <2>7 DEF Gives, Same, Sound, BInv, Held, U
  <2>10. /\ W \in Nat /\ len \in Nat /\ n \in Nat /\ a \in Nat /\ b \in Nat
         /\ W <= g.size[a] /\ n <= g.size[a] /\ n <= g.size[b] /\ len <= g.size[b]
         /\ g.size[b] \in Nat
    <3>1. g.size[b] \in Nat /\ g.size[a] \in Nat /\ g.size[a] >= W /\ a \in Nat /\ b \in Nat
      BY <2>3, <2>6, <2>9, HeapAssumption DEF Sound, Chunky
    <3>2. g.size[b] >= len
      BY <1>1, <1>5, <2>7 DEF Gives
    <3>3. W \in Nat /\ len \in Nat
      BY HeapAssumption
    <3>4. n = g.size[a]
      BY <2>3, <2>9 DEF n
    <3> HIDE DEF b
    <3> QED BY <2>2, <3>1, <3>2, <3>3, <3>4
  <2>14. Sound(h, (U \union {b}) \ {a}) /\ Same(g, h, (U \union {b}) \ {a})
    BY <2>3, <2>6, FreeSound, FreeSame DEF h
  <2>15. ASSUME NEW z \in U, NEW x \in Bytes(z, block[z]), x \notin Header(b)
         PROVE  x \in kept
    <3>1. block[z] \in Nat /\ block[z] <= r.heap.size[z]
      BY <2>7, <2>9
    <3>2. x \notin Touched(Heap, r.heap)
      BY <1>3, <2>5, <2>15, <3>1, LinksApart DEF w
    <3> QED BY <3>2 DEF Whole, U
  <2>16. ASSUME NEW z \in (U \union {b}) \ {a}, NEW k \in Nat, k <= g.size[z],
                NEW x \in Bytes(z, k), x \notin Bytes(a, W)
         PROVE  x \notin Touched(r.heap, h)
    <3>1. k <= h.size[z]
      BY <2>14, <2>16 DEF Same
    <3> QED BY <2>8, <2>14, <2>16, <3>1, LinksApart
  <2>11. ASSUME NEW z \in U \ {a}, NEW x \in Bytes(z, block[z]) PROVE x \in good'
    <3>1. z \in DOMAIN g.size /\ a \in DOMAIN g.size /\ b \in DOMAIN g.size /\ z # b
      BY <2>3, <2>5, <2>9
    <3>2. x \notin Header(b) /\ x \notin Bytes(b, n)
      BY <2>6, <2>9, <2>10, <3>1, BytesApart
    <3>3. x \notin Bytes(a, W) /\ x \notin Bytes(a, block[a])
      BY <2>3, <2>6, <2>9, <2>10, <3>1, BytesApart
    <3>4. x \in kept
      BY <2>15, <3>2
    <3>5. x \in copy
      BY <3>2, <3>4
    <3>6. x \notin Touched(r.heap, h)
      BY <2>9, <2>16, <3>1, <3>3
    <3> HIDE DEF copy
    <3> QED BY <2>1, <3>3, <3>5, <3>6
  <2>12. ASSUME NEW x \in Bytes(b, len) PROVE x \in good'
    <3> DEFINE k == KeptLen(a, len)
    <3>1. a \in DOMAIN g.size /\ b \in DOMAIN g.size
      BY <2>3, <2>9
    <3>2. block[a] \in Nat /\ block[a] <= n /\ block[a] <= g.size[a]
      BY <2>3, <2>9 DEF n
    <3>3. k = block[a]
      BY <2>2, <2>10, <3>2 DEF KeptLen
    <3>4. CASE x \notin Bytes(b, k)
      BY <2>1, <3>4 DEF NewBytes
    <3>5. CASE x \in Bytes(b, k)
      <4> HIDE DEF k, b
      <4>1. x - b + a \in Bytes(a, block[a]) /\ x \in Bytes(b, n)
        BY <2>10, <3>2, <3>3, <3>5 DEF Bytes
      <4>2. x - b + a \notin Header(b)
        <5>1. 0 \in Nat /\ 0 <= g.size[b]
          BY <2>2, <2>10
        <5> QED BY <2>5, <2>6, <3>1, <3>2, <4>1, <5>1, BytesApart
      <4>3. x - b + a \in kept
        BY <2>3, <2>15, <4>1, <4>2
      <4>4. x \in copy
        <5> HIDE DEF kept
        <5> QED BY <4>1, <4>3 DEF Copied
      <4>5. x \notin Bytes(a, W) /\ x \notin Bytes(a, block[a])
        BY <2>5, <2>6, <2>10, <3>1, <3>2, BytesApart
      <4>6. x \notin Touched(r.heap, h)
        BY <2>5, <2>10, <2>16, <4>1, <4>5
      <4> HIDE DEF copy
      <4> QED BY <2>1, <4>4, <4>5, <4>6
    <3> QED BY <3>4, <3>5
  <2>13. ASSUME NEW z \in DOMAIN block' PROVE Bytes(z, block'[z]) \subseteq good'
    <3>1. CASE z = b
      <4>1. block'[z] = len
        BY <2>4, <3>1
      <4> QED BY <2>12, <3>1, <4>1
    <3>2. CASE z # b
      <4>1. z \in U \ {a} /\ block'[z] = block[z]
        BY <2>4, <3>2
      <4> QED BY <2>11, <4>1
    <3> QED BY <3>1, <3>2
  <2> QED BY <2>13 DEF Whole, InUse
<1> QED BY <1>4, <1>5

LEMMA CallocCalls ==
  ASSUME SaneArrays, NEW p \in Arrays, NEW limit, Calloc(p[1], p[2], limit)
  PROVE  \E n \in 0 .. SizeMod-1 : Call(n, n, limit)
<1>1. p[1] \in Nat /\ p[2] \in Nat /\ SizeMod \in Nat
  BY HeapAssumption
<1> DEFINE n == p[1] * p[2]
<1>2. n \in Nat
  BY <1>1
<1>3. n < SizeMod
  BY DEF SaneArrays
<1>4. Call(n % SizeMod, n, limit)
  BY DEF Calloc
<1> HIDE DEF n
<1>5. n % SizeMod = n /\ n \in 0 .. SizeMod-1
  BY <1>1, <1>2, <1>3
<1> QED BY <1>4, <1>5

\* Next, with the lengths as the theorems assume them.
LEMMA NextCases ==
  ASSUME Next, SaneReLens, SaneArrays
  PROVE  \E limit \in Limits :
            \/ \E n \in 0 .. SizeMod-1 : Call(n, n, limit)
            \/ \E a \in DOMAIN block :
                  \/ Free(a)
                  \/ \E len \in W .. SizeMod-W-1 :
                        /\ len \in 0 .. SizeMod-1
                        /\ ReallocInPlace(a, len, limit) \/ ReallocMove(a, len, limit)
<1>1. PICK limit \in Limits :
            \/ \E len \in Lens : Malloc(len, limit)
            \/ \E p \in Arrays : Calloc(p[1], p[2], limit)
            \/ \E a \in DOMAIN block :
                   \/ Free(a)
                   \/ \E len \in ReLens : ReallocInPlace(a, len, limit) \/ ReallocMove(a, len, limit)
  BY DEF Next
<1>2. ASSUME NEW len \in Lens, Malloc(len, limit)
      PROVE  len \in 0 .. SizeMod-1 /\ Call(len, len, limit)
  BY <1>2, HeapAssumption DEF Malloc
<1>3. ASSUME NEW len \in ReLens PROVE len \in W .. SizeMod-W-1 /\ len \in 0 .. SizeMod-1
  BY HeapAssumption DEF SaneReLens
<1>4. ASSUME NEW p \in Arrays, Calloc(p[1], p[2], limit)
      PROVE  \E n \in 0 .. SizeMod-1 : Call(n, n, limit)
  BY <1>4, CallocCalls
<1> QED BY <1>1, <1>2, <1>3, <1>4

LEMMA NextWhole ==
  ASSUME BInv, Whole, [Next]_vars, SaneReLens, SaneArrays
  PROVE  Whole'
<1>1. CASE UNCHANGED vars
  BY <1>1 DEF vars, Whole, InUse
<1>2. CASE Next
  BY <1>2, NextCases, CallWhole, FreeWhole, ReallocInPlaceWhole, ReallocMoveWhole
<1> QED BY <1>1, <1>2

-----------------------------------------------------------------------------
\* The heap implements Allocator.

\* The blocks as the program knows them, by the addresses it was given.
Given(f) == [p \in {a + W : a \in DOMAIN f} |-> f[p - W]]

LEMMA GivenFact ==
  ASSUME NEW f, DOMAIN f \subseteq Nat
  PROVE  /\ DOMAIN Given(f) = {a + W : a \in DOMAIN f}
         /\ \A a \in DOMAIN f : a + W \in DOMAIN Given(f) /\ Given(f)[a + W] = f[a]
         /\ \A p \in DOMAIN Given(f) : p - W \in DOMAIN f /\ (p - W) + W = p /\ Given(f)[p] = f[p - W]
<1>1. W \in Nat
  BY HeapAssumption
<1>2. \A a \in DOMAIN f : (a + W) - W = a
  BY <1>1
<1> QED BY <1>2 DEF Given

\* One block more, one less, or one for another: the same for the program.
MoreBy(f, g, b) == /\ b \notin DOMAIN f
                   /\ DOMAIN g = DOMAIN f \union {b}
                   /\ \A z \in DOMAIN f : g[z] = f[z]
LessBy(f, g, a) == /\ a \in DOMAIN f
                   /\ DOMAIN g = DOMAIN f \ {a}
                   /\ \A z \in DOMAIN g : g[z] = f[z]
Instead(f, g, a, b) == /\ a \in DOMAIN f
                       /\ b = a \/ b \notin DOMAIN f
                       /\ DOMAIN g = (DOMAIN f \ {a}) \union {b}
                       /\ \A z \in DOMAIN f \ {a} : g[z] = f[z]

LEMMA GivenMore ==
  ASSUME NEW f, DOMAIN f \subseteq Nat, NEW b \in Nat, NEW g, MoreBy(f, g, b)
  PROVE  MoreBy(Given(f), Given(g), b + W)
<1>1. DOMAIN g \subseteq Nat
  BY DEF MoreBy
<1>2. b + W \notin DOMAIN Given(f)
  <2>1. W \in Nat /\ (b + W) - W = b
    BY HeapAssumption
  <2> QED BY <2>1, GivenFact DEF MoreBy
<1>3. DOMAIN Given(g) = DOMAIN Given(f) \union {b + W}
  <2>1. DOMAIN Given(g) = {z + W : z \in DOMAIN f \union {b}} /\ DOMAIN Given(f) = {z + W : z \in DOMAIN f}
    BY <1>1, GivenFact DEF MoreBy
  <2> QED BY <2>1
<1>4. ASSUME NEW q \in DOMAIN Given(f) PROVE Given(g)[q] = Given(f)[q]
  <2>1. q - W \in DOMAIN f /\ Given(f)[q] = f[q - W]
    BY GivenFact
  <2>2. q \in DOMAIN Given(g)
    BY <1>3
  <2> QED BY <1>1, <2>1, <2>2, GivenFact DEF MoreBy
<1> QED BY <1>2, <1>3, <1>4 DEF MoreBy

LEMMA GivenLess ==
  ASSUME NEW f, DOMAIN f \subseteq Nat, NEW a, NEW g, LessBy(f, g, a)
  PROVE  LessBy(Given(f), Given(g), a + W)
<1>1. DOMAIN g \subseteq Nat /\ a \in Nat /\ W \in Nat /\ a \in DOMAIN f
  BY HeapAssumption DEF LessBy
<1>2. a + W \in DOMAIN Given(f)
  BY <1>1, GivenFact
<1>3. ASSUME NEW z \in DOMAIN g PROVE z + W # a + W
  BY <1>1 DEF LessBy
<1>4. DOMAIN Given(g) = DOMAIN Given(f) \ {a + W}
  <2>1. DOMAIN Given(g) = {z + W : z \in DOMAIN g} /\ DOMAIN Given(f) = {z + W : z \in DOMAIN f}
    BY <1>1, GivenFact
  <2>2. ASSUME NEW z \in DOMAIN f, z # a PROVE z + W \in DOMAIN Given(g)
    BY <2>1, <2>2 DEF LessBy
  <2>3. ASSUME NEW z \in DOMAIN g PROVE z + W \in DOMAIN Given(f) /\ z + W # a + W
    BY <1>3, <2>1 DEF LessBy
  <2> QED BY <2>1, <2>2, <2>3
<1>5. ASSUME NEW q \in DOMAIN Given(g) PROVE Given(g)[q] = Given(f)[q]
  <2>1. q - W \in DOMAIN g /\ Given(g)[q] = g[q - W]
    BY <1>1, GivenFact
  <2>2. q \in DOMAIN Given(f)
    BY <1>4
  <2> QED BY <2>1, <2>2, GivenFact DEF LessBy
<1> QED BY <1>2, <1>4, <1>5 DEF LessBy

LEMMA GivenInstead ==
  ASSUME NEW f, DOMAIN f \subseteq Nat, NEW a, NEW b \in Nat, NEW g, Instead(f, g, a, b)
  PROVE  Instead(Given(f), Given(g), a + W, b + W)
<1> DEFINE m == [z \in DOMAIN f \ {a} |-> f[z]]
<1>1. LessBy(f, m, a) /\ MoreBy(m, g, b)
  BY DEF LessBy, MoreBy, Instead
<1> HIDE DEF m
<1>2. DOMAIN m \subseteq Nat
  BY <1>1 DEF LessBy
<1>3. LessBy(Given(f), Given(m), a + W)
  BY <1>1, GivenLess
<1>4. MoreBy(Given(m), Given(g), b + W)
  BY <1>1, <1>2, GivenMore
<1> DEFINE F == Given(f)
           M == Given(m)
           G == Given(g)
           p == a + W
           q == b + W
<1> HIDE DEF F, M, G, p, q
<1>5. LessBy(F, M, p) /\ MoreBy(M, G, q)
  BY <1>3, <1>4 DEF F, M, G, p, q
<1>6. Instead(F, G, p, q)
  BY <1>5 DEF LessBy, MoreBy, Instead
<1> QED BY <1>6 DEF F, G, p, q

LEMMA GivenApart ==
  ASSUME NEW f, DOMAIN f \subseteq Nat,
         \A x, y \in DOMAIN f : x # y => Bytes(x, f[x]) \intersect Bytes(y, f[y]) = {}
  PROVE  \A p, q \in DOMAIN Given(f) :
             p # q => (p .. p + Given(f)[p] - 1) \intersect (q .. q + Given(f)[q] - 1) = {}
<1> SUFFICES ASSUME NEW p \in DOMAIN Given(f), NEW q \in DOMAIN Given(f), p # q
             PROVE  (p .. p + Given(f)[p] - 1) \intersect (q .. q + Given(f)[q] - 1) = {}
  OBVIOUS
<1>1. /\ p - W \in DOMAIN f /\ (p - W) + W = p /\ Given(f)[p] = f[p - W]
      /\ q - W \in DOMAIN f /\ (q - W) + W = q /\ Given(f)[q] = f[q - W]
  BY GivenFact
<1>2. Bytes(p - W, f[p - W]) \intersect Bytes(q - W, f[q - W]) = {}
  BY <1>1
<1> QED BY <1>1, <1>2 DEF Bytes

\* The invariant of the refinement.
KInv == BInv /\ Whole

LEMMA KNat ==
  ASSUME KInv
  PROVE  DOMAIN block \subseteq Nat
BY HeapAssumption DEF KInv, BInv, IInv, Sound, Chunky, InUse

LEMMA KApart ==
  ASSUME KInv
  PROVE  Promise!Apart
<1>1. \A x, y \in DOMAIN block : x # y => Bytes(x, block[x]) \intersect Bytes(y, block[y]) = {}
  <2> SUFFICES ASSUME NEW x \in DOMAIN block, NEW y \in DOMAIN block, x # y,
                      NEW z \in Bytes(y, block[y])
               PROVE  z \notin Bytes(x, block[x])
    OBVIOUS
  <2>1. /\ Sound(Heap, InUse) /\ Heap.size = size /\ x \in DOMAIN size /\ y \in DOMAIN size
        /\ block[x] \in Nat /\ block[x] <= size[x] /\ block[y] \in Nat /\ block[y] <= size[y]
    BY DEF KInv, BInv, IInv, Held, Sound, Heap, InUse
  <2> QED BY <2>1, BytesApart
<1>2. [p \in {a + W : a \in InUse} |-> block[p - W]] = Given(block)
  BY DEF Given, InUse
<1>3. \A p, q \in DOMAIN Given(block) :
          p # q => (p .. p + Given(block)[p] - 1) \intersect (q .. q + Given(block)[q] - 1) = {}
  BY <1>1, KNat, GivenApart
<1> QED BY <1>2, <1>3 DEF Promise!Apart, Promise!Extent

\* A step of the heap but for what Apart says of the next state.
PromiseStep == Promise!Allocate \/ Promise!Release \/ Promise!Resize

LEMMA CallShows ==
  ASSUME KInv, NEW n \in 0 .. SizeMod-1, NEW limit \in Limits, Call(n, n, limit)
  PROVE  block' = block \/ Promise!Allocate
<1> DEFINE r == Allocated(Heap, n, limit)
           b == r.at
           U == InUse
<1>1. \/ b = Null
      \/ b \notin U /\ b # Null /\ Sound(r.heap, U \union {b})
  BY AllocatedSound DEF KInv, BInv, IInv
<1>2. CASE b = Null
  BY <1>2 DEF Call
<1>3. CASE b # Null
  <2>1. block' = With(block, b, n)
    BY <1>3 DEF Call
  <2> HIDE DEF r
  <2>2. b \in Nat /\ b \notin DOMAIN block
    BY <1>1, <1>3, HeapAssumption DEF Sound, Chunky, InUse
  <2> HIDE DEF b
  <2>3. MoreBy(block, block', b)
    BY <2>1, <2>2 DEF With, MoreBy
  <2>4. MoreBy(Given(block), Given(block'), b + W)
    BY <2>2, <2>3, KNat, GivenMore
  <2>5. b + W \in DOMAIN Given(block')
    BY <2>4 DEF MoreBy
  <2> QED BY <2>4, <2>5 DEF Promise!Allocate, Promise!Others, Given, InUse, MoreBy
<1> QED BY <1>2, <1>3

LEMMA FreeShows ==
  ASSUME KInv, NEW a \in DOMAIN block, Free(a)
  PROVE  Promise!Release
<1>1. block' = Without(block, a)
  BY DEF Free
<1>2. LessBy(block, block', a)
  BY <1>1 DEF Without, LessBy
<1>3. LessBy(Given(block), Given(block'), a + W)
  BY <1>2, KNat, GivenLess
<1> QED BY <1>3 DEF Promise!Release, Promise!Others, Given, InUse, LessBy

LEMMA ReallocShows ==
  ASSUME KInv, NEW limit \in Limits, NEW a \in DOMAIN block, NEW len \in 0 .. SizeMod-1,
         ReallocInPlace(a, len, limit) \/ ReallocMove(a, len, limit)
  PROVE  block' = block \/ Promise!Resize
<1>1. ASSUME NEW b \in Nat, Instead(block, block', a, b)
      PROVE  Promise!Resize
  <2>1. Instead(Given(block), Given(block'), a + W, b + W)
    BY <1>1, KNat, GivenInstead
  <2>2. b + W \in DOMAIN Given(block')
    BY <2>1 DEF Instead
  <2>3. \A x \in DOMAIN Given(block) \ {a + W} : x \in DOMAIN Given(block')
    BY <2>1 DEF Instead
  <2> QED BY <2>1, <2>2, <2>3 DEF Promise!Resize, Promise!Others, Given, InUse, Instead
<1>2. CASE ReallocInPlace(a, len, limit)
  <2>1. block' = block \/ block' = [block EXCEPT ![a] = len]
    BY <1>2 DEF ReallocInPlace
  <2>2. a \in Nat
    BY KNat
  <2>3. CASE block' = [block EXCEPT ![a] = len]
    <3>1. Instead(block, block', a, a)
      BY <2>3 DEF Instead
    <3> QED BY <1>1, <2>2, <3>1
  <2> QED BY <2>1, <2>3
<1>3. CASE ReallocMove(a, len, limit)
  <2> DEFINE r == Allocated(Heap, len, limit)
             b == r.at
             U == InUse
  <2>1. \/ b = Null
        \/ b \notin U /\ b # Null /\ Sound(r.heap, U \union {b})
    BY AllocatedSound DEF KInv, BInv, IInv
  <2>2. CASE b = Null
    BY <1>3, <2>2 DEF ReallocMove
  <2>3. CASE b # Null
    <3>1. block' = With(Without(block, a), b, len)
      BY <1>3, <2>3 DEF ReallocMove
    <3> HIDE DEF r
    <3>2. b \in Nat /\ b \notin DOMAIN block
      BY <2>1, <2>3, HeapAssumption DEF Sound, Chunky, InUse
    <3> HIDE DEF b
    <3>3. Instead(block, block', a, b)
      BY <3>1, <3>2 DEF With, Without, Instead
    <3> QED BY <1>1, <3>2, <3>3
  <2> QED BY <2>2, <2>3
<1> QED BY <1>2, <1>3

\* No byte is lost, before or after.
LEMMA NothingLostStep ==
  ASSUME Whole, Whole'
  PROVE  UNCHANGED (BlockBytes \ good)
<1>1. BlockBytes \ good = {}
  BY DEF Whole, BlockBytes
<1>2. BlockBytes' \ good' = {}
  BY DEF Whole, BlockBytes
<1> QED BY <1>1, <1>2

LEMMA NextShows ==
  ASSUME KInv, Whole', [Next]_vars, SaneReLens, SaneArrays
  PROVE  [PromiseStep /\ UNCHANGED (BlockBytes \ good)]_(Promise!avars)
<1>1. UNCHANGED (BlockBytes \ good)
  BY NothingLostStep DEF KInv
<1>2. CASE block' = block
  BY <1>1, <1>2 DEF Promise!avars, InUse
<1>3. CASE UNCHANGED vars
  BY <1>2, <1>3 DEF vars
<1>4. CASE Next
  <2>1. block' = block \/ PromiseStep
    BY <1>4, NextCases, CallShows, FreeShows, ReallocShows DEF PromiseStep
  <2> QED BY <1>1, <1>2, <2>1
<1> QED BY <1>3, <1>4

LEMMA InitShows ==
  ASSUME Init
  PROVE  KInv /\ Promise!AInit
<1>1. InUse = {} /\ block = << >>
  BY DEF Init, InUse
<1>2. KInv
  BY <1>1, InitBlocks DEF KInv, Whole
<1>3. BlockBytes \ good = {}
  BY <1>1 DEF BlockBytes
<1>4. [p \in {a + W : a \in InUse} |-> block[p - W]] = << >>
  BY <1>1
<1> QED BY <1>2, <1>3, <1>4 DEF Promise!AInit

\* malloc.c, realloc.c, calloc.c: the heap keeps the promise of Allocator. Each
\* call changes one block and leaves the others where and as they are; no link,
\* header or copy is written over data, and blocks stay apart - under the two
\* conditions of NoOverlap.
THEOREM HeapKeepsBlocks ==
  ASSUME SaneReLens, SaneArrays
  PROVE  Spec => KeepsBlocks
<1>1. Init => KInv /\ Promise!AInit
  BY InitShows
<1>2. KInv /\ [Next]_vars => KInv'
  BY NextBlocks, NextWhole DEF KInv
<1>3. KInv => Promise!Apart
  BY KApart
<1>4. KInv /\ KInv' /\ [Next]_vars => [PromiseStep /\ UNCHANGED (BlockBytes \ good)]_(Promise!avars)
  BY NextShows DEF KInv
<1>5. Promise!Apart' /\ [PromiseStep /\ UNCHANGED (BlockBytes \ good)]_(Promise!avars)
        => [Promise!ANext]_(Promise!avars)
  BY DEF PromiseStep, Promise!ANext
<1> QED BY <1>1, <1>2, <1>3, <1>4, <1>5, PTL DEF Spec, KeepsBlocks, Promise!ASpec

(***************************************************************************)
(* 3. The free list.                                                       *)
(***************************************************************************)
-----------------------------------------------------------------------------
\* Lists that ascend.

Ascends(l, n) == /\ \A i \in 1 .. n : l[i] \in Nat
                 /\ \A i, j \in 1 .. n : i < j => l[i] < l[j]

Sorted(l) == l \in Seq(Nat) /\ Ascends(l, Len(l))

\* What is before place k is below a, what is at it or behind it is above a.
Parts(l, n, k, a) == \A i \in 1 .. n : (i < k => l[i] < a) /\ (i >= k => l[i] > a)

\* The same for the entries other than the one at k.
Around(l, n, k, a) == \A i \in 1 .. n : (i < k => l[i] < a) /\ (i > k => l[i] > a)

LEMMA InsertAscends ==
  ASSUME NEW n \in Nat, NEW l, NEW m, Ascends(l, n), NEW a \in Nat, NEW k \in 1 .. n+1,
         Parts(l, n, k, a),
         \A i \in 1 .. n+1 : m[i] = IF i < k THEN l[i] ELSE IF i = k THEN a ELSE l[i-1]
  PROVE  Ascends(m, n+1)
<1> USE DEF Parts
<1>1. \A i \in 1 .. n+1 : m[i] \in Nat
  BY DEF Ascends
<1>2. ASSUME NEW i \in 1 .. n+1, NEW j \in 1 .. n+1, i < j
      PROVE  m[i] < m[j]
  <2>1. CASE j < k
    <3>1. m[i] = l[i] /\ m[j] = l[j] /\ i \in 1 .. n /\ j \in 1 .. n
      BY <1>2, <2>1
    <3> QED BY <1>2, <3>1 DEF Ascends
  <2>2. CASE i < k /\ j = k
    <3>1. m[i] = l[i] /\ m[j] = a /\ i \in 1 .. n
      BY <2>2
    <3> QED BY <2>2, <3>1
  <2>3. CASE i < k /\ j > k
    <3>1. m[i] = l[i] /\ m[j] = l[j-1] /\ i \in 1 .. n /\ j-1 \in 1 .. n /\ i < j-1
      BY <2>3
    <3> QED BY <3>1 DEF Ascends
  <2>4. CASE i = k
    <3>1. m[i] = a /\ m[j] = l[j-1] /\ j-1 \in 1 .. n /\ j-1 >= k
      BY <1>2, <2>4
    <3>2. l[j-1] > a /\ l[j-1] \in Nat
      BY <3>1 DEF Ascends
    <3> QED BY <3>1, <3>2
  <2>5. CASE i > k
    <3>1. m[i] = l[i-1] /\ m[j] = l[j-1] /\ i-1 \in 1 .. n /\ j-1 \in 1 .. n /\ i-1 < j-1
      BY <1>2, <2>5
    <3> QED BY <3>1 DEF Ascends
  <2> QED BY <1>2, <2>1, <2>2, <2>3, <2>4, <2>5
<1> QED BY <1>1, <1>2 DEF Ascends

LEMMA RemoveAscends ==
  ASSUME NEW n \in Nat, NEW l, NEW m, Ascends(l, n), NEW k \in 1 .. n,
         \A i \in 1 .. n-1 : m[i] = IF i < k THEN l[i] ELSE l[i+1]
  PROVE  Ascends(m, n-1)
  BY DEF Ascends

LEMMA ReplaceAscends ==
  ASSUME NEW n \in Nat, NEW l, NEW m, Ascends(l, n), NEW a \in Nat, NEW k \in 1 .. n,
         Around(l, n, k, a),
         \A i \in 1 .. n : m[i] = IF i = k THEN a ELSE l[i]
  PROVE  Ascends(m, n)
  BY DEF Ascends, Around

LEMMA InsertSorted ==
  ASSUME NEW l, Sorted(l), NEW a \in Nat, NEW k \in 1 .. Len(l)+1, Parts(l, Len(l), k, a)
  PROVE  Sorted(InsertAt(l, k, a)) /\ InsertAt(l, k, a)[k] = a
<1> DEFINE m == InsertAt(l, k, a)
           n == Len(l)
<1>1. l \in Seq(Nat) /\ n \in Nat /\ Ascends(l, n)
  BY DEF Sorted
<1>2. /\ m \in Seq(Nat) /\ Len(m) = n + 1
      /\ \A i \in 1 .. n+1 : m[i] = IF i < k THEN l[i] ELSE IF i = k THEN a ELSE l[i-1]
  BY <1>1, InsertValue
<1>3. k \in 1 .. n+1 /\ Parts(l, n, k, a)
  OBVIOUS
<1> HIDE DEF m, n
<1>a. Ascends(m, n+1)
  BY <1>1, <1>2, <1>3, InsertAscends
<1>b. m[k] = a
  BY <1>1, <1>2, <1>3
<1>4. Ascends(m, n+1) /\ m[k] = a
  BY <1>a, <1>b
<1>5. Sorted(m)
  BY <1>2, <1>4 DEF Sorted
<1> QED BY <1>4, <1>5, Zenon DEF m

LEMMA RemoveSorted ==
  ASSUME NEW l, Sorted(l), NEW k \in 1 .. Len(l)
  PROVE  Sorted(RemoveAt(l, k)) /\ \A i \in 1 .. k-1 : RemoveAt(l, k)[i] = l[i]
<1> DEFINE m == RemoveAt(l, k)
           n == Len(l)
<1>1. l \in Seq(Nat) /\ n \in Nat /\ Ascends(l, n)
  BY DEF Sorted
<1>2. /\ m \in Seq(Nat) /\ Len(m) = n - 1
      /\ \A i \in 1 .. n-1 : m[i] = IF i < k THEN l[i] ELSE l[i+1]
  BY <1>1, RemoveValue
<1>a. k \in 1 .. n
  OBVIOUS
<1> HIDE DEF m, n
<1>3. Ascends(m, n-1)
  BY <1>1, <1>2, <1>a, RemoveAscends
<1>4. \A i \in 1 .. k-1 : m[i] = l[i]
  BY <1>1, <1>2, <1>a
<1>5. Sorted(m)
  BY <1>2, <1>3 DEF Sorted
<1> QED BY <1>4, <1>5, Zenon DEF m

LEMMA ReplaceSorted ==
  ASSUME NEW l, Sorted(l), NEW a \in Nat, NEW k \in 1 .. Len(l),
         Around(l, Len(l), k, a)
  PROVE  Sorted(ReplaceAt(l, k, a))
<1> DEFINE m == ReplaceAt(l, k, a)
           n == Len(l)
<1>1. l \in Seq(Nat) /\ n \in Nat /\ Ascends(l, n)
  BY DEF Sorted
<1>2. /\ m \in Seq(Nat) /\ Len(m) = n
      /\ \A i \in 1 .. n : m[i] = IF i = k THEN a ELSE l[i]
  BY <1>1 DEF ReplaceAt
<1>a. k \in 1 .. n /\ Around(l, n, k, a)
  OBVIOUS
<1> HIDE DEF m, n
<1>3. Ascends(m, n)
  BY <1>1, <1>2, <1>a, ReplaceAscends
<1>4. Sorted(m)
  BY <1>2, <1>3 DEF Sorted
<1> QED BY <1>4, Zenon DEF m

LEMMA FrontSorted ==
  ASSUME NEW l, Sorted(l), l # << >>
  PROVE  Sorted(Front(l))
<1>1. l \in Seq(Nat) /\ Len(l) \in 1 .. Len(l)
  BY DEF Sorted
<1>2. Front(l) = SubSeq(l, 1, Len(l)-1)
  BY DEF Front
<1>3. SubSeq(l, Len(l)+1, Len(l)) = << >>
  BY <1>1, SubSeqEmpty
<1>4. SubSeq(l, 1, Len(l)-1) \in Seq(Nat)
  BY <1>1, SubSeqProperties
<1>5. SubSeq(l, 1, Len(l)-1) \o << >> = SubSeq(l, 1, Len(l)-1)
  BY <1>4, ConcatEmptySeq
<1>6. Front(l) = RemoveAt(l, Len(l))
  BY <1>2, <1>3, <1>5, Zenon DEF RemoveAt
<1> QED BY <1>1, <1>6, RemoveSorted

\* The entries before the place of a are below a, the others are not.
LEMMA PlaceOrder ==
  ASSUME NEW h, Sorted(h.list), NEW a \in Nat
  PROVE  \A i \in 1 .. Len(h.list) : /\ i < Place(h, a) => h.list[i] < a
                                     /\ i >= Place(h, a) => h.list[i] >= a
<1> DEFINE n == Len(h.list)
           I == {i \in 1 .. n : h.list[i] >= a}
<1>1. n \in Nat /\ I \in SUBSET Nat /\ \A i \in 1 .. n : h.list[i] \in Nat
  BY DEF Sorted, Ascends
<1>2. I # {} => Min(I) \in I /\ \A i \in I : Min(I) <= i
  <2> HIDE DEF I
  <2> QED BY <1>1, MinFact
<1>3. Place(h, a) = IF I = {} THEN n + 1 ELSE Min(I)
  <2>1. h.list \in Seq(Nat)
    BY DEF Sorted
  <2> QED BY <1>1, <1>2, <2>1 DEF Place, SelectInSeq
<1> HIDE DEF n
<1>4. ASSUME NEW i \in 1 .. n
      PROVE  /\ i < Place(h, a) => h.list[i] < a
             /\ i >= Place(h, a) => h.list[i] >= a
  <2>1. CASE I = {}
    <3>1. i \notin I /\ Place(h, a) = n + 1
      BY <1>3, <2>1
    <3> QED BY <1>1, <3>1
  <2>2. CASE I # {}
    <3> DEFINE k == Min(I)
    <3>1. k \in 1 .. n /\ h.list[k] >= a /\ (i < k => i \notin I) /\ Place(h, a) = k
      BY <1>1, <1>2, <1>3, <2>2
    <3> HIDE DEF k
    <3>2. i < k => h.list[i] < a
      BY <1>1, <3>1
    <3>3. i > k => h.list[k] < h.list[i]
      BY <3>1 DEF Sorted, Ascends, n
    <3> QED BY <1>1, <3>1, <3>2, <3>3
  <2> QED BY <2>1, <2>2
<1> QED BY <1>4 DEF n

-----------------------------------------------------------------------------
\* free: the list ascends again, and no two chunks of it touch.

Frees(h, U) == DOMAIN h.size \ U

\* No chunk of S touches another one of S, or the end of the heap.
Loose(f, S) == \A x \in S : Ends(f, x) \notin S
Apart(f, S, b) == Loose(f, S) /\ \A x \in S : Ends(f, x) # b

Neat(h, U) == /\ Sound(h, U)
              /\ Sorted(h.list)
              /\ Apart(h.size, Frees(h, U), Break(h))

\* The chunks of a heap are numbers, and each ends above its beginning.
LEMMA ChunkFact ==
  ASSUME NEW h, NEW U, Sound(h, U)
  PROVE  /\ \A x \in DOMAIN h.size : /\ x \in Nat /\ x >= HeapStart /\ x # Null
                                     /\ h.size[x] \in Nat /\ h.size[x] >= W
                                     /\ Ends(h.size, x) = x + W + h.size[x]
                                     /\ Ends(h.size, x) \in Nat /\ Ends(h.size, x) > x
                                     /\ Ends(h.size, x) <= Break(h)
                                     /\ Ends(h.size, x) \in DOMAIN h.size \union {Break(h)}
         /\ \A x, y \in DOMAIN h.size : x < y => Ends(h.size, x) <= y
         /\ Break(h) \in Nat
         /\ h.list \in Seq(Nat) /\ Len(h.list) \in Nat
         /\ \A i \in 1 .. Len(h.list) : h.list[i] \in Frees(h, U)
         /\ \A x \in Frees(h, U) : \E i \in 1 .. Len(h.list) : h.list[i] = x
<1>1. Chunky(h.size) /\ Tiles(Break(h), h.size)
  BY DEF Sound
<1>2. \A x \in DOMAIN h.size : /\ x \in Nat /\ x >= HeapStart /\ x # Null
                               /\ h.size[x] \in Nat /\ h.size[x] >= W
                               /\ Ends(h.size, x) = x + W + h.size[x]
                               /\ Ends(h.size, x) \in Nat /\ Ends(h.size, x) > x
  BY <1>1, HeapAssumption DEF Chunky, Ends, Null
<1>3. Break(h) \in Nat
  BY BreakFact
<1>4. Lists(h.list, Frees(h, U))
  BY DEF Sound, Frees
<1> QED BY <1>1, <1>2, <1>3, <1>4 DEF Tiles, Lists, OneEach

\* The chunk of the list that begins where entry i ends is the next entry.
LEMMA NextEntry ==
  ASSUME NEW h, NEW U, Sound(h, U), Sorted(h.list),
         NEW i \in 1 .. Len(h.list), Ends(h.size, h.list[i]) \in Frees(h, U)
  PROVE  Adjacent(h, i)
<1>1. PICK j \in 1 .. Len(h.list) : h.list[j] = Ends(h.size, h.list[i])
  BY ChunkFact
<1>2. h.list[i] < h.list[j] /\ h.list[i] \in DOMAIN h.size /\ h.list[j] \in DOMAIN h.size
  BY <1>1, ChunkFact DEF Frees
<1>3. Len(h.list) \in Nat /\ Ascends(h.list, Len(h.list))
  BY ChunkFact DEF Sorted
<1>4. i < j
  BY <1>2, <1>3 DEF Ascends
<1>5. j = i+1
  <2>1. CASE j > i+1
    <3>1. i+1 \in 1 .. Len(h.list) /\ h.list[i] < h.list[i+1] /\ h.list[i+1] < h.list[j]
      BY <1>3, <1>4, <2>1 DEF Ascends
    <3>2. h.list[i+1] \in DOMAIN h.size
      BY <3>1, ChunkFact DEF Frees
    <3>3. Ends(h.size, h.list[i]) <= h.list[i+1]
      BY <1>2, <3>1, <3>2, ChunkFact
    <3>4. h.list[i+1] \in Nat /\ h.list[j] \in Nat
      BY <1>2, <3>2, ChunkFact
    <3> QED BY <1>1, <3>1, <3>3, <3>4
  <2> QED BY <1>3, <1>4, <2>1
<1>6. i \in 1 .. Len(h.list)-1
  BY <1>3, <1>5
<1> QED BY <1>1, <1>5, <1>6 DEF Adjacent, Ends, End

\* What joining entry i with the next one does to the heap.
Joins(h, g, x, y) ==
    /\ x \in DOMAIN h.size /\ y \in DOMAIN h.size /\ Ends(h.size, x) = y
    /\ DOMAIN g.size = DOMAIN h.size \ {y}
    /\ \A z \in DOMAIN g.size : Ends(g.size, z) = Ends(h.size, IF z = x THEN y ELSE z)
    /\ Break(g) = Break(h)

LEMMA JoinOrder ==
  ASSUME NEW h, NEW U, Sound(h, U), Sorted(h.list), NEW i \in Int, Adjacent(h, i)
  PROVE  LET g == JoinedAt(h, i)
         IN  /\ Sorted(g.list)
             /\ \A j \in 1 .. i : g.list[j] = h.list[j]
             /\ Joins(h, g, h.list[i], h.list[i+1])
             /\ h.list[i] \in Frees(h, U) /\ h.list[i+1] \in Frees(h, U)
<1> DEFINE a == h.list[i]
           b == h.list[i+1]
           f == Merged(h.size, a, b)
           r == RemoveAt(h.list, i+1)
           g == JoinedAt(h, i)
<1>1. /\ Len(h.list) \in Nat /\ i \in 1 .. Len(h.list) /\ i+1 \in 1 .. Len(h.list)
      /\ i+1-1 = i
  BY ChunkFact DEF Adjacent
<1>2. a \in Frees(h, U) /\ b \in Frees(h, U) /\ a \in DOMAIN h.size /\ b \in DOMAIN h.size
  BY <1>1, ChunkFact DEF Frees
<1>3. Ends(h.size, a) = b
  BY DEF Adjacent, Ends, End
<1>4. g.list = r /\ g.size = f /\ g.brk = h.brk
  <2>1. g = [h EXCEPT !.list = r, !.size = f]
    BY DEF JoinedAt
  <2> HIDE DEF g, f, r
  <2> QED BY <2>1 DEF Sound, Shape
<1>5. Sorted(r) /\ \A j \in 1 .. i : r[j] = h.list[j]
  <2>1. Sorted(r) /\ \A j \in 1 .. i+1-1 : r[j] = h.list[j]
    BY <1>1, RemoveSorted
  <2> QED BY <1>1, <2>1
<1> HIDE DEF a, b, g, r
<1>6. a # b /\ \A z \in DOMAIN h.size : z \in Nat /\ h.size[z] \in Nat
  BY <1>2, <1>3, ChunkFact
<1>7. DOMAIN f = DOMAIN h.size \ {b} /\ \A z \in DOMAIN f : f[z] = IF z = a THEN h.size[a] + h.size[b] + W ELSE h.size[z]
  BY <1>6 DEF Merged, Without
<1> HIDE DEF f
<1>8. \A z \in DOMAIN f : Ends(f, z) = Ends(h.size, IF z = a THEN b ELSE z)
  <2> SUFFICES ASSUME NEW z \in DOMAIN f PROVE Ends(f, z) = Ends(h.size, IF z = a THEN b ELSE z)
    OBVIOUS
  <2>1. CASE z = a
    BY <1>2, <1>3, <1>6, <1>7, <2>1, HeapAssumption DEF Ends
  <2>2. CASE z # a
    BY <1>7, <2>2 DEF Ends
  <2> QED BY <2>1, <2>2
<1>9. Joins(h, g, a, b)
  BY <1>2, <1>3, <1>4, <1>7, <1>8 DEF Joins, Break
<1> QED BY <1>2, <1>4, <1>5, <1>9 DEF a, b, g, r

\* Entry i is joined with what lies above it, the others being apart.
LEMMA JoinAbove ==
  ASSUME NEW h, NEW U, Sound(h, U), Sorted(h.list), NEW i \in 1 .. Len(h.list),
         Apart(h.size, Frees(h, U) \ {h.list[i]}, Break(h))
  PROVE  LET g == JoinedAt(h, i)
             a == h.list[i]
         IN  /\ Sound(g, U) /\ Sorted(g.list) /\ g.list # << >>
             /\ g.list[i] = a /\ i \in 1 .. Len(g.list) /\ a \in Frees(g, U)
             /\ Ends(g.size, a) \notin Frees(g, U)
             /\ Apart(g.size, Frees(g, U) \ {a}, Break(g))
             /\ Ends(g.size, a) = Break(g) => Ends(h.size, a) = Break(h)
<1> DEFINE g == JoinedAt(h, i)
           a == h.list[i]
           c == h.list[i+1]
<1>1. Len(h.list) \in Nat /\ a \in Frees(h, U) /\ i \in Int /\ h.list # << >>
  BY ChunkFact
<1>2. Sound(g, U) /\ g.list # << >>
  BY <1>1, JoinSound
<1>3. CASE ~ Adjacent(h, i)
  <2>1. g = h
    BY <1>3 DEF JoinedAt
  <2>2. Ends(h.size, a) \notin Frees(h, U)
    BY <1>3, NextEntry
  <2> QED BY <1>1, <1>2, <2>1, <2>2
<1>4. CASE Adjacent(h, i)
  <2>1. /\ Sorted(g.list) /\ \A j \in 1 .. i : g.list[j] = h.list[j]
        /\ Joins(h, g, a, c) /\ c \in Frees(h, U)
    BY <1>1, <1>4, JoinOrder
  <2>2. i \in 1 .. Len(g.list)
    <3>1. i \in 1 .. Len(h.list)-1 /\ i+1 \in 1 .. Len(h.list)
      BY <1>1, <1>4 DEF Adjacent
    <3>2. g.list = RemoveAt(h.list, i+1)
      <4> DEFINE f == Merged(h.size, a, c)
                 r == RemoveAt(h.list, i+1)
      <4>1. g = [h EXCEPT !.list = r, !.size = f]
        BY <1>4 DEF JoinedAt
      <4> HIDE DEF f, r, g
      <4>2. g.list = r
        BY <4>1 DEF Sound, Shape
      <4> QED BY <4>2 DEF r
    <3>3. Len(g.list) = Len(h.list) - 1
      BY <3>1, <3>2, RemoveValue, ChunkFact
    <3> QED BY <1>1, <3>1, <3>3
  <2> HIDE DEF g, c
  <2>3. /\ Frees(g, U) = Frees(h, U) \ {c} /\ a # c
        /\ \A z \in Frees(g, U) : Ends(g.size, z) = Ends(h.size, IF z = a THEN c ELSE z)
        /\ Break(g) = Break(h)
    <3>1. a # c
      BY <2>1, ChunkFact DEF Joins
    <3> QED BY <2>1, <3>1 DEF Joins, Frees
  <2> HIDE DEF a
  <2>4. a \in Frees(g, U)
    BY <1>1, <2>3
  <2>5. Ends(g.size, a) = Ends(h.size, c)
    BY <2>3, <2>4
  <2>6. /\ c \in Frees(h, U) \ {a}
        /\ Ends(h.size, c) \notin Frees(h, U) \ {a} /\ Ends(h.size, c) # Break(h)
        /\ Ends(h.size, c) # a
    <3>1. c \in Frees(h, U) \ {a}
      BY <2>1, <2>3
    <3>2. Ends(h.size, a) = c /\ a \in DOMAIN h.size /\ c \in DOMAIN h.size
      BY <2>1 DEF Joins
    <3>3. Ends(h.size, c) # a
      <4>1. c > a /\ Ends(h.size, c) > c /\ a \in Nat /\ c \in Nat /\ Ends(h.size, c) \in Nat
        BY <3>2, ChunkFact
      <4> QED BY <4>1
    <3> QED BY <3>1, <3>3 DEF Apart, Loose, a
  <2>7. Ends(g.size, a) \notin Frees(g, U) /\ Ends(g.size, a) # Break(g)
    BY <2>3, <2>5, <2>6
  <2>8. Apart(g.size, Frees(g, U) \ {a}, Break(g))
    <3>1. Apart(h.size, Frees(h, U) \ {a}, Break(h))
      BY DEF a
    <3> QED BY <2>3, <3>1 DEF Apart, Loose
  <2>9. g.list[i] = a
    BY <1>1, <2>1 DEF a
  <2> QED BY <1>2, <2>1, <2>2, <2>4, <2>7, <2>8, <2>9 DEF g, a
<1> QED BY <1>3, <1>4

\* Entry i+1, which nothing above touches, is joined with what lies below it.
LEMMA JoinBelow ==
  ASSUME NEW h, NEW U, Sound(h, U), Sorted(h.list), NEW i \in Nat, i+1 \in 1 .. Len(h.list),
         Loose(h.size, Frees(h, U) \ {h.list[i+1]}),
         Ends(h.size, h.list[i+1]) \notin Frees(h, U)
  PROVE  LET g == JoinedAt(h, i)
         IN  Sound(g, U) /\ Sorted(g.list) /\ g.list # << >> /\ Loose(g.size, Frees(g, U))
<1> DEFINE g == JoinedAt(h, i)
           p == h.list[i]
           a == h.list[i+1]
<1>1. Len(h.list) \in Nat /\ a \in Frees(h, U) /\ i \in Int /\ h.list # << >>
  BY ChunkFact
<1>2. Sound(g, U) /\ g.list # << >>
  BY <1>1, JoinSound
<1>3. CASE ~ Adjacent(h, i)
  <2>1. g = h
    BY <1>3 DEF JoinedAt
  <2>2. ASSUME NEW x \in Frees(h, U), Ends(h.size, x) = a
        PROVE  FALSE
    <3>1. PICK j \in 1 .. Len(h.list) : h.list[j] = x
      BY ChunkFact
    <3>2. Adjacent(h, j)
      BY <1>1, <2>2, <3>1, NextEntry
    <3>3. j+1 \in 1 .. Len(h.list) /\ h.list[j+1] = a
      BY <1>1, <2>2, <3>1, <3>2 DEF Adjacent, Ends, End
    <3>4. j+1 = i+1
      <4>1. Ascends(h.list, Len(h.list))
        BY DEF Sorted
      <4>2. h.list[i+1] \in Nat
        BY <4>1 DEF Ascends
      <4>3. ~ (j+1 < i+1) /\ ~ (i+1 < j+1)
        BY <3>3, <4>1, <4>2 DEF Ascends
      <4> QED BY <1>1, <4>3
    <3>5. j = i
      BY <3>4
    <3> QED BY <1>3, <3>2, <3>5
  <2>3. Loose(h.size, Frees(h, U))
    BY <2>2 DEF Loose
  <2> QED BY <1>1, <1>2, <2>1, <2>3
<1>4. CASE Adjacent(h, i)
  <2>1. /\ Sorted(g.list)
        /\ Joins(h, g, p, a) /\ p \in Frees(h, U)
    BY <1>1, <1>4, JoinOrder
  <2> HIDE DEF g, p
  <2>2. /\ Frees(g, U) = Frees(h, U) \ {a}
        /\ \A z \in Frees(g, U) : Ends(g.size, z) = Ends(h.size, IF z = p THEN a ELSE z)
    BY <2>1 DEF Joins, Frees
  <2>3. Loose(h.size, Frees(h, U) \ {a}) /\ Ends(h.size, a) \notin Frees(h, U)
    OBVIOUS
  <2> HIDE DEF a
  <2>4. Loose(g.size, Frees(g, U))
    BY <2>2, <2>3 DEF Loose
  <2> QED BY <1>2, <2>1, <2>4 DEF g
<1> QED BY <1>3, <1>4

\* The last chunk of the list is given back if it is the topmost.
LEMMA LowerOrder ==
  ASSUME NEW h, NEW U, Sound(h, U), Sorted(h.list), h.list # << >>, Loose(h.size, Frees(h, U))
  PROVE  Neat(Lowered(h), U)
<1> DEFINE n == Len(h.list)
           a == Last(h.list)
           g == Lowered(h)
<1>1. n \in Nat /\ n \in 1 .. n /\ a = h.list[n] /\ a \in Frees(h, U)
  <2>1. n \in Nat /\ n # 0
    BY ChunkFact
  <2>2. n \in 1 .. n
    BY <2>1
  <2>3. a = h.list[n]
    BY DEF Last
  <2> QED BY <2>1, <2>2, <2>3, ChunkFact
<1>2. Sound(g, U)
  BY LowerSound
<1>3. Break(h) = h.brk
  BY <1>1, BreakFact DEF Frees
<1>4. CASE End(h, a) # h.brk
  <2>1. g = h
    BY <1>4 DEF Lowered
  <2>2. ASSUME NEW x \in Frees(h, U), Ends(h.size, x) = Break(h)
        PROVE  FALSE
    <3>1. PICK j \in 1 .. n : h.list[j] = x
      BY ChunkFact
    <3>2. j # n
      BY <1>1, <1>3, <1>4, <2>2, <3>1 DEF Ends, End
    <3>3. x < a
      BY <1>1, <3>1, <3>2 DEF Sorted, Ascends
    <3> HIDE DEF a
    <3>4. x \in DOMAIN h.size /\ a \in DOMAIN h.size
      BY <1>1 DEF Frees
    <3>5. /\ Ends(h.size, x) <= a /\ a < Ends(h.size, a) /\ Ends(h.size, a) <= Break(h)
          /\ a \in Nat /\ Break(h) \in Nat /\ Ends(h.size, a) \in Nat
      BY <3>3, <3>4, ChunkFact
    <3> QED BY <2>2, <3>5
  <2>3. Apart(h.size, Frees(h, U), Break(h))
    BY <2>2 DEF Apart
  <2> QED BY <1>2, <2>1, <2>3 DEF Neat
<1>5. CASE End(h, a) = h.brk
  <2>1. g = [h EXCEPT !.brk = a, !.list = Front(h.list), !.size = Without(h.size, a)]
    BY <1>5 DEF Lowered
  <2> HIDE DEF g, a
  <2>2. g.list = Front(h.list) /\ g.size = Without(h.size, a) /\ g.brk = a
    BY <2>1 DEF Sound, Shape
  <2>3. Sorted(g.list)
    BY <2>2, FrontSorted
  <2>4. Break(g) = a
    <3>1. a # Null
      BY <1>1, ChunkFact DEF Frees
    <3> QED BY <2>2, <3>1 DEF Break
  <2>5. Frees(g, U) = Frees(h, U) \ {a} /\ \A z \in Frees(g, U) : Ends(g.size, z) = Ends(h.size, z)
    BY <2>2 DEF Frees, Without, Ends
  <2>6. Apart(g.size, Frees(g, U), Break(g))
    BY <1>1, <2>4, <2>5 DEF Apart, Loose
  <2>7. Neat(g, U)
    BY <1>2, <2>3, <2>6 DEF Neat, g
  <2> QED BY <2>7 DEF g
<1> QED BY <1>4, <1>5

LEMMA InsertOrder ==
  ASSUME NEW h, NEW U, Neat(h, U), NEW a \in U
  PROVE  LET g == Inserted(h, a)
             k == Place(h, a)
         IN  /\ Sound(g, U \ {a}) /\ Sorted(g.list) /\ k \in 1 .. Len(g.list) /\ g.list[k] = a
             /\ Apart(g.size, Frees(g, U \ {a}) \ {a}, Break(g))
             /\ k = 1 /\ h.list # << >> => Ends(g.size, a) # Break(g)
<1> DEFINE g == Inserted(h, a)
           k == Place(h, a)
           l == h.list
           T == U \ {a}
<1>0. Sound(h, U) /\ Sorted(l) /\ Apart(h.size, Frees(h, U), Break(h))
  BY DEF Neat
<1>1. Sound(g, T) /\ k \in 1 .. Len(l) + 1
  BY <1>0, InsertSound
<1>2. a \in DOMAIN h.size /\ a \in Nat /\ Len(l) \in Nat /\ l \in Seq(Nat)
  BY <1>0, ChunkFact DEF Sound
<1>3. \A i \in 1 .. Len(l) : l[i] \in Frees(h, U) /\ l[i] # a /\ l[i] \in Nat
  BY <1>0, ChunkFact DEF Frees
<1>4. \A i \in 1 .. Len(l) : (i < k => l[i] < a) /\ (i >= k => l[i] >= a)
  BY <1>0, <1>2, PlaceOrder
<1>5. g.list = InsertAt(l, k, a) /\ g.size = h.size /\ g.brk = h.brk
  BY <1>0 DEF Inserted, Sound, Shape
<1>6. Break(g) = Break(h)
  BY <1>5 DEF Break
<1> HIDE DEF g, k
<1>7. Parts(l, Len(l), k, a)
  BY <1>1, <1>2, <1>3, <1>4 DEF Parts
<1>8. Sorted(g.list) /\ g.list[k] = a
  BY <1>0, <1>1, <1>2, <1>5, <1>7, InsertSorted
<1>9. Len(g.list) = Len(l) + 1
  BY <1>1, <1>2, <1>5, InsertValue
<1>10. Frees(g, T) \ {a} = Frees(h, U)
  <2>1. a \notin Frees(h, U)
    BY DEF Frees
  <2> QED BY <1>2, <1>5, <2>1 DEF Frees
<1>11. Apart(g.size, Frees(g, T) \ {a}, Break(g))
  BY <1>0, <1>5, <1>6, <1>10
<1>12. ASSUME k = 1, l # << >>
       PROVE  Ends(g.size, a) # Break(g)
  <2>1. 1 \in 1 .. Len(l)
    <3>1. Len(l) # 0
      BY <1>2, <1>12
    <3> QED BY <1>2, <3>1
  <2>2. a < l[1] /\ l[1] \in DOMAIN h.size
    BY <1>2, <1>3, <1>4, <1>12, <2>1 DEF Frees
  <2> DEFINE y == l[1]
  <2> HIDE DEF y
  <2>3. /\ Ends(h.size, a) <= y /\ y < Ends(h.size, y) /\ Ends(h.size, y) <= Break(h)
        /\ y \in Nat /\ Ends(h.size, a) \in Nat /\ Ends(h.size, y) \in Nat /\ Break(h) \in Nat
    BY <1>0, <1>2, <2>2, ChunkFact DEF y
  <2> QED BY <1>5, <1>6, <2>3
<1>13. k \in 1 .. Len(g.list)
  BY <1>1, <1>9
<1> QED BY <1>1, <1>8, <1>11, <1>12, <1>13 DEF g, k

LEMMA FreeOrder ==
  ASSUME NEW h, NEW U, Neat(h, U), NEW a \in U
  PROVE  Neat(Freed(h, a), U \ {a})
<1> DEFINE T  == U \ {a}
           k  == Place(h, a)
           i1 == Inserted(h, a)
           up == JoinedAt(i1, k)
           dn == JoinedAt(up, k-1)
<1>1. /\ Sound(i1, T) /\ Sorted(i1.list) /\ k \in 1 .. Len(i1.list) /\ i1.list[k] = a
      /\ Apart(i1.size, Frees(i1, T) \ {a}, Break(i1))
      /\ k = 1 /\ h.list # << >> => Ends(i1.size, a) # Break(i1)
  BY InsertOrder
<1>2. Freed(h, a) = IF k = 1 /\ h.list # << >> THEN up ELSE Lowered(dn)
  BY DEF Freed
<1> HIDE DEF i1, k, T
<1>3. Apart(i1.size, Frees(i1, T) \ {i1.list[k]}, Break(i1))
  BY <1>1
<1>4. /\ Sound(up, T) /\ Sorted(up.list) /\ up.list # << >>
      /\ up.list[k] = i1.list[k] /\ k \in 1 .. Len(up.list) /\ i1.list[k] \in Frees(up, T)
      /\ Ends(up.size, i1.list[k]) \notin Frees(up, T)
      /\ Apart(up.size, Frees(up, T) \ {i1.list[k]}, Break(up))
      /\ Ends(up.size, i1.list[k]) = Break(up) => Ends(i1.size, i1.list[k]) = Break(i1)
  BY <1>1, <1>3, JoinAbove
<1> HIDE DEF up
<1>5. k-1 \in Nat /\ k = (k-1)+1
  BY <1>1
<1>6. /\ up.list[k] = a /\ a \in Frees(up, T) /\ Ends(up.size, a) \notin Frees(up, T)
      /\ Apart(up.size, Frees(up, T) \ {a}, Break(up))
      /\ Ends(up.size, a) = Break(up) => Ends(i1.size, a) = Break(i1)
  BY <1>1, <1>4
<1>7. Sound(dn, T) /\ Sorted(dn.list) /\ dn.list # << >> /\ Loose(dn.size, Frees(dn, T))
  <2> DEFINE j == k-1
  <2>1. /\ j \in Nat /\ j+1 \in 1 .. Len(up.list) /\ up.list[j+1] = a
    BY <1>4, <1>5, <1>6
  <2>2. Loose(up.size, Frees(up, T) \ {up.list[j+1]}) /\ Ends(up.size, up.list[j+1]) \notin Frees(up, T)
    BY <1>6, <2>1 DEF Apart
  <2>3. dn = JoinedAt(up, j)
    OBVIOUS
  <2> HIDE DEF j, dn
  <2> QED BY <1>4, <2>1, <2>2, <2>3, JoinBelow
<1>8. CASE k = 1 /\ h.list # << >>
  <2>1. dn = up
    <3>1. ~ Adjacent(up, 0)
      BY DEF Adjacent
    <3> QED BY <1>8, <3>1 DEF JoinedAt
  <2>2. Ends(up.size, a) # Break(up)
    BY <1>1, <1>6, <1>8
  <2>3. Loose(up.size, Frees(up, T))
    BY <1>7, <2>1
  <2>4. Apart(up.size, Frees(up, T), Break(up))
    BY <1>6, <2>2, <2>3 DEF Apart
  <2>5. Neat(up, T)
    BY <1>4, <2>4 DEF Neat
  <2> QED BY <1>2, <1>8, <2>5 DEF T
<1>9. CASE ~ (k = 1 /\ h.list # << >>)
  <2> HIDE DEF dn
  <2>1. Neat(Lowered(dn), T)
    BY <1>7, LowerOrder
  <2> QED BY <1>2, <1>9, <2>1 DEF T, dn
<1> QED BY <1>8, <1>9

-----------------------------------------------------------------------------
\* malloc takes chunks off the list or cuts them, and the heap grows above them.

\* The chunks of a free list that got shorter are still apart.
LEMMA FewerApart ==
  ASSUME NEW f, NEW S, NEW b, Apart(f, S, b), NEW R \in SUBSET S
  PROVE  Apart(f, R, b)
  BY DEF Apart, Loose

LEMMA TakenOrder ==
  ASSUME NEW h, NEW U, Neat(h, U), NEW i \in 1 .. Len(h.list)
  PROVE  LET r == Taken(h, i)
         IN  Neat(r.heap, U \union {r.at})
<1> DEFINE r == Taken(h, i)
           l == RemoveAt(h.list, i)
           g == [h EXCEPT !.list = l]
<1>0. Sound(h, U) /\ Sorted(h.list) /\ Apart(h.size, Frees(h, U), Break(h))
  BY DEF Neat
<1>1. Sound(r.heap, U \union {r.at})
  BY <1>0, TakenSound
<1>2. Sorted(l)
  BY <1>0, RemoveSorted
<1>3. r.heap = g
  BY DEF Taken, Result
<1> HIDE DEF r, l
<1>4. g.list = l /\ g.size = h.size /\ g.brk = h.brk
  BY <1>0 DEF Sound, Shape
<1> HIDE DEF g
<1>5. Break(g) = Break(h) /\ Frees(g, U \union {r.at}) \in SUBSET Frees(h, U)
  BY <1>4 DEF Break, Frees
<1>6. Apart(g.size, Frees(g, U \union {r.at}), Break(g))
  BY <1>0, <1>4, <1>5, FewerApart
<1>7. Neat(r.heap, U \union {r.at})
  BY <1>1, <1>2, <1>3, <1>4, <1>6 DEF Neat
<1> QED BY <1>7 DEF r

\* A chunk of a heap is cut: what is behind the first n bytes begins at y.
Cuts(h, x, y, n, f) ==
    /\ y \notin DOMAIN h.size /\ y \in Nat /\ y > x /\ y < Ends(h.size, x)
    /\ DOMAIN f = DOMAIN h.size \union {y} /\ y # Break(h)
    /\ f[x] = n
    /\ Ends(f, x) = y /\ Ends(f, y) = Ends(h.size, x)
    /\ \A z \in DOMAIN h.size \ {x} : f[z] = h.size[z] /\ Ends(f, z) = Ends(h.size, z)

LEMMA CutEnds ==
  ASSUME NEW h, NEW U, Sound(h, U), NEW x \in DOMAIN h.size, NEW n \in Nat,
         h.size[x] - n - W >= 0
  PROVE  Cuts(h, x, x + W + n, n, Cut(h.size, x, n))
<1> DEFINE y == x + W + n
           f == Cut(h.size, x, n)
<1>1. Break(h) \in Nat /\ Tiles(Break(h), h.size) /\ Chunky(h.size)
  BY BreakFact DEF Sound
<1>2. CutResult(Break(h), h.size, x, y, n, f)
  BY <1>1, CutTiles, Zenon
<1>3. /\ x \in Nat /\ h.size[x] \in Nat /\ Ends(h.size, x) = x + W + h.size[x]
      /\ Ends(h.size, x) <= Break(h)
  BY ChunkFact
<1>4. y = x + W + n /\ W \in Nat \ {0}
  BY HeapAssumption
<1> HIDE DEF f, y
<1>5. /\ y \notin DOMAIN h.size /\ y \in Nat /\ y > x
      /\ DOMAIN f = DOMAIN h.size \union {y}
      /\ f[x] = n /\ f[y] = h.size[x] - n - W
      /\ \A z \in DOMAIN h.size \ {x} : f[z] = h.size[z]
  BY <1>2 DEF CutResult
<1>6. y < Ends(h.size, x) /\ y # Break(h)
  BY <1>1, <1>3, <1>4
<1>7. Ends(f, x) = y /\ Ends(f, y) = Ends(h.size, x)
  BY <1>3, <1>4, <1>5 DEF Ends
<1>8. \A z \in DOMAIN h.size \ {x} : f[z] = h.size[z] /\ Ends(f, z) = Ends(h.size, z)
  BY <1>5 DEF Ends
<1>9. Cuts(h, x, y, n, f)
  BY <1>5, <1>6, <1>7, <1>8 DEF Cuts
<1> QED BY <1>9 DEF f, y

LEMMA SplitOffOrder ==
  ASSUME NEW h, NEW U, Neat(h, U), NEW i \in 1 .. Len(h.list),
         NEW n \in Nat, n >= W, h.size[h.list[i]] - n >= FreeEntry
  PROVE  LET r == SplitOff(h, i, n)
         IN  Neat(r.heap, U \union {r.at})
<1> DEFINE r == SplitOff(h, i, n)
           a == h.list[i]
           m == h.size[a] - n - W
           b == a + h.size[a] - n
           f == Cut(h.size, a, m)
           w == h.wrote \union Header(b)
           g == [h EXCEPT !.size = f, !.wrote = w]
<1>0. Sound(h, U) /\ Sorted(h.list) /\ Apart(h.size, Frees(h, U), Break(h))
  BY DEF Neat
<1>1. Sound(r.heap, U \union {r.at})
  BY <1>0, SplitOffSound
<1>2. a \in Frees(h, U) /\ a \in DOMAIN h.size /\ a \in Nat /\ h.size[a] \in Nat
  BY <1>0, ChunkFact DEF Frees
<1>3. r.heap = g /\ r.at = b
  BY DEF SplitOff, Result
<1>4. h.size[a] - n >= 2 * W /\ W \in Nat \ {0}
  BY HeapAssumption DEF FreeEntry
<1> HIDE DEF r, a
<1>5. m \in Nat /\ b = a + W + m /\ h.size[a] - m - W >= 0
  <2> DEFINE s == h.size[a]
  <2>1. s \in Nat /\ s - n >= 2 * W
    BY <1>2, <1>4
  <2> HIDE DEF s
  <2>2. s - n - W \in Nat /\ a + s - n = a + W + (s - n - W) /\ s - (s - n - W) - W >= 0
    BY <1>2, <1>4, <2>1
  <2> QED BY <2>2 DEF s
<1> HIDE DEF m, b
<1>6. /\ b \notin DOMAIN h.size /\ DOMAIN f = DOMAIN h.size \union {b} /\ b # Break(h)
      /\ Ends(f, a) = b /\ \A z \in DOMAIN h.size \ {a} : Ends(f, z) = Ends(h.size, z)
  <2>1. Cuts(h, a, b, m, f)
    <3>1. Cuts(h, a, a + W + m, m, f)
      BY <1>0, <1>2, <1>5, CutEnds, Zenon
    <3> HIDE DEF f
    <3> QED BY <1>5, <3>1
  <2> HIDE DEF f
  <2> QED BY <2>1 DEF Cuts
<1> HIDE DEF f, w
<1>7. g.list = h.list /\ g.size = f /\ g.brk = h.brk
  BY <1>0 DEF Sound, Shape
<1> HIDE DEF g
<1>8. Break(g) = Break(h) /\ Frees(g, U \union {b}) = Frees(h, U)
  BY <1>6, <1>7 DEF Break, Frees
<1>9. \A z \in Frees(h, U) : Ends(f, z) = b \/ Ends(f, z) = Ends(h.size, z)
  BY <1>6 DEF Frees
<1>10. b \notin Frees(h, U)
  BY <1>6 DEF Frees
<1>11. Apart(f, Frees(h, U), Break(h))
  BY <1>0, <1>6, <1>9, <1>10 DEF Apart, Loose
<1>12. Neat(r.heap, U \union {r.at})
  BY <1>0, <1>1, <1>3, <1>7, <1>8, <1>11 DEF Neat
<1> QED BY <1>12 DEF r

\* The heap ends higher than before.
LEMMA HigherApart ==
  ASSUME NEW h, NEW U, Neat(h, U), NEW b \in Nat, b > Break(h)
  PROVE  Apart(h.size, Frees(h, U), b)
<1>1. /\ Apart(h.size, Frees(h, U), Break(h)) /\ Break(h) \in Nat
      /\ \A x \in Frees(h, U) : Ends(h.size, x) \in Nat /\ Ends(h.size, x) <= Break(h)
  BY ChunkFact DEF Neat, Frees
<1> QED BY <1>1 DEF Apart

LEMMA GrownOrder ==
  ASSUME NEW h, NEW U, Neat(h, U), NEW n \in W .. SizeMod-1, NEW limit \in Limits
  PROVE  LET r == Grown(h, n, limit)
         IN  IF r.at = Null THEN Neat(r.heap, U) ELSE Neat(r.heap, U \union {r.at})
<1> DEFINE r == Grown(h, n, limit)
           b == Break(h)
           ok == limit > b /\ Fits(limit - b, n)
<1>0. Sound(h, U) /\ Sorted(h.list) /\ Apart(h.size, Frees(h, U), b)
  BY DEF Neat
<1>1. \/ r.at = Null /\ Sound(r.heap, U)
      \/ r.at \notin U /\ r.at # Null /\ Sound(r.heap, U \union {r.at})
  BY <1>0, GrownSound
<1>2. b \in Nat /\ b # Null /\ b \in HeapStart .. SizeMod-1 /\ Tiles(b, h.size) /\ Chunky(h.size)
  <2>1. b \in HeapStart .. SizeMod-1 /\ Tiles(b, h.size) /\ Chunky(h.size)
    BY <1>0, BreakFact DEF Sound
  <2> QED BY <2>1, HeapAssumption DEF Null
<1>3. CASE ~ ok
  <2> DEFINE g == [h EXCEPT !.brk = b]
  <2>1. r.heap = g /\ r.at = Null
    BY <1>3 DEF Grown, Result
  <2> HIDE DEF b, r
  <2>2. g.list = h.list /\ g.size = h.size /\ g.brk = b
    BY <1>0 DEF Sound, Shape
  <2> HIDE DEF g
  <2>3. Break(g) = b /\ Frees(g, U) = Frees(h, U)
    BY <1>2, <2>2 DEF Break, Frees
  <2>4. Neat(r.heap, U)
    BY <1>0, <1>1, <2>1, <2>2, <2>3 DEF Neat
  <2> QED BY <2>1, <2>4 DEF r
<1>4. CASE ok
  <2> DEFINE top == (b + n + W) % SizeMod
             f == With(h.size, b, n)
             w == h.wrote \union Header(b)
             g == [h EXCEPT !.brk = top, !.size = f, !.wrote = w]
  <2>1. r.heap = g /\ r.at = b
    BY <1>4 DEF Grown, Result
  <2> HIDE DEF b, r
  <2>2. Sound(g, U \union {b})
    BY <1>1, <1>2, <2>1
  <2>3. b \notin DOMAIN h.size /\ n \in Nat
    BY <1>2, GrowTiles, HeapAssumption
  <2>4. DOMAIN f = DOMAIN h.size \union {b} /\ f[b] = n /\ \A z \in DOMAIN h.size : f[z] = h.size[z]
    BY <2>3 DEF With
  <2> HIDE DEF f, w, top
  <2>5. g.list = h.list /\ g.size = f
    BY <1>0 DEF Sound, Shape
  <2> HIDE DEF g
  <2>6. Frees(g, U \union {b}) = Frees(h, U) /\ \A z \in Frees(h, U) : Ends(f, z) = Ends(h.size, z)
    BY <2>3, <2>4, <2>5 DEF Frees, Ends
  <2>7. Break(g) \in Nat /\ Break(g) > Break(h)
    <3>1. b \in DOMAIN g.size
      BY <2>4, <2>5
    <3>2. b < Ends(g.size, b) /\ Ends(g.size, b) <= Break(g) /\ Break(g) \in Nat /\ Ends(g.size, b) \in Nat
      BY <2>2, <3>1, ChunkFact
    <3> QED BY <1>2, <3>2 DEF b
  <2>8. Apart(h.size, Frees(h, U), Break(g))
    BY <2>7, HigherApart
  <2>9. Apart(g.size, Frees(g, U \union {b}), Break(g))
    BY <2>5, <2>6, <2>8 DEF Apart, Loose
  <2>10. Neat(g, U \union {b})
    BY <1>0, <2>2, <2>5, <2>9 DEF Neat
  <2> QED BY <1>2, <2>1, <2>10 DEF r
<1> QED BY <1>3, <1>4

LEMMA AllocatedOrder ==
  ASSUME NEW h, NEW U, Neat(h, U), NEW len \in 0 .. SizeMod-1, NEW limit \in Limits
  PROVE  LET r == Allocated(h, len, limit)
         IN  IF r.at = Null THEN Neat(r.heap, U) ELSE Neat(r.heap, U \union {r.at})
<1> DEFINE n == AtLeastLink(len)
<1>0. Sound(h, U)
  BY DEF Neat
<1>1. n \in Nat /\ n \in W .. SizeMod-1 /\ n >= W
  BY HeapAssumption DEF AtLeastLink
<1>2. h.list \in Seq(Nat) /\ \A i \in DOMAIN h.list : h.size[h.list[i]] \in Nat
  BY <1>0, ChunkFact DEF Frees
<1> HIDE DEF n
<1>3. ASSUME NEW i \in 1 .. Len(h.list)
      PROVE  LET r == Taken(h, i)
             IN  IF r.at = Null THEN Neat(r.heap, U) ELSE Neat(r.heap, U \union {r.at})
  BY <1>0, TakenOrder, TakenSound
<1>4. CASE Exact(h, n) # 0
  <2>1. Allocated(h, len, limit) = Taken(h, Exact(h, n))
    BY <1>4 DEF Allocated, n
  <2>2. Exact(h, n) \in 1 .. Len(h.list)
    BY <1>2, <1>4, ExactFact
  <2> QED BY <1>3, <2>1, <2>2
<1>5. CASE Exact(h, n) = 0 /\ Larger(h, n) = {}
  <2>1. Allocated(h, len, limit) = Grown(h, n, limit)
    BY <1>5 DEF Allocated, n
  <2> QED BY <1>1, <2>1, GrownOrder
<1>6. CASE Exact(h, n) = 0 /\ Larger(h, n) # {}
  <2> DEFINE i == Best(h, n)
  <2>1. Allocated(h, len, limit) =
          IF h.size[h.list[i]] - n < FreeEntry THEN Taken(h, i) ELSE SplitOff(h, i, n)
    BY <1>6 DEF Allocated, n
  <2>2. i \in 1 .. Len(h.list) /\ h.size[h.list[i]] \in Nat
    <3>1. i \in 1 .. Len(h.list)
      BY <1>2, <1>6, BestFact
    <3>2. i \in DOMAIN h.list
      BY <1>2, <3>1
    <3> QED BY <1>2, <3>1, <3>2
  <2> HIDE DEF i
  <2>3. CASE h.size[h.list[i]] - n < FreeEntry
    BY <1>3, <2>1, <2>2, <2>3
  <2>4. CASE ~ (h.size[h.list[i]] - n < FreeEntry)
    <3>1. h.size[h.list[i]] - n >= FreeEntry
      BY <2>2, <2>4, <1>1, HeapAssumption DEF FreeEntry
    <3>2. SplitOff(h, i, n).at # Null
      BY <1>0, <1>1, <2>2, <3>1, SplitOffSound
    <3>3. Neat(SplitOff(h, i, n).heap, U \union {SplitOff(h, i, n).at})
      BY <1>1, <2>2, <3>1, SplitOffOrder
    <3> QED BY <2>1, <2>4, <3>2, <3>3
  <2> QED BY <2>3, <2>4
<1> QED BY <1>4, <1>5, <1>6

-----------------------------------------------------------------------------
\* realloc cuts a chunk, takes the one above, or raises the end of the heap.

\* What was written does not matter.
LEMMA WroteNeat ==
  ASSUME NEW h, NEW U, Neat(h, U), NEW w
  PROVE  /\ Neat([h EXCEPT !.wrote = w], U)
         /\ Neat([brk |-> h.brk, list |-> h.list, size |-> h.size, wrote |-> w], U)
<1> DEFINE g == [brk |-> h.brk, list |-> h.list, size |-> h.size, wrote |-> w]
<1>0. Sound(h, U) /\ Sorted(h.list) /\ Apart(h.size, Frees(h, U), Break(h))
  BY DEF Neat
<1>1. [h EXCEPT !.wrote = w] = g
  BY <1>0 DEF Sound, Shape
<1>2. Sound(g, U)
  BY <1>0, WroteSound
<1>3. g.brk = h.brk /\ g.list = h.list /\ g.size = h.size
  OBVIOUS
<1> HIDE DEF g
<1>4. Break(g) = Break(h) /\ Frees(g, U) = Frees(h, U)
  BY <1>3 DEF Break, Frees
<1>5. Neat(g, U)
  BY <1>0, <1>2, <1>3, <1>4 DEF Neat
<1> QED BY <1>1, <1>5, Zenon DEF g

LEMMA ShrunkOrder ==
  ASSUME NEW h, NEW U, Neat(h, U), NEW a \in U, NEW len \in Nat, len >= W,
         len <= h.size[a]
  PROVE  Neat(Shrunk(h, a, len).heap, U)
<1> DEFINE s == h.size[a]
           b == a + W + len
           f == Cut(h.size, a, len)
           w == h.wrote \union Header(b)
           g == [h EXCEPT !.size = f, !.wrote = w]
<1>0. Sound(h, U) /\ Sorted(h.list) /\ Apart(h.size, Frees(h, U), Break(h))
  BY DEF Neat
<1>1. CASE s <= FreeEntry \/ len > s - FreeEntry
  BY <1>1 DEF Shrunk, Result
<1>2. CASE ~ (s <= FreeEntry \/ len > s - FreeEntry)
  <2>1. Shrunk(h, a, len).heap = Freed(g, b)
    BY <1>2 DEF Shrunk, Result
  <2>2. a \in DOMAIN h.size /\ s \in Nat
    <3>1. a \in DOMAIN h.size
      BY <1>0 DEF Sound
    <3> QED BY <1>0, <3>1, ChunkFact
  <2>3. s - len - W >= W /\ s - len - W >= 0
    <3> HIDE DEF s
    <3> QED BY <1>2, <2>2, HeapAssumption DEF FreeEntry
  <2>4. Cuts(h, a, b, len, f)
    BY <1>0, <2>2, <2>3, CutEnds, Zenon
  <2>5. Chunky(f)
    <3>1. Break(h) \in Nat /\ Break(h) <= SizeMod-1 /\ Tiles(Break(h), h.size) /\ Chunky(h.size)
      <4>1. Break(h) \in HeapStart .. SizeMod-1
        BY <1>0, BreakFact
      <4>2. Break(h) \in Nat /\ Break(h) <= SizeMod-1
        BY <4>1, HeapAssumption
      <4> QED BY <1>0, <4>2 DEF Sound
    <3> QED BY <2>2, <2>3, <3>1, CutChunky, Zenon
  <2>6. Tiles(Break(h), f)
    <3>1. Break(h) \in Nat /\ Tiles(Break(h), h.size) /\ Chunky(h.size)
      BY <1>0, BreakFact DEF Sound
    <3>2. CutResult(Break(h), h.size, a, b, len, f)
      BY <2>2, <2>3, <3>1, CutTiles, Zenon
    <3> QED BY <3>2, Zenon DEF CutResult
  <2> HIDE DEF f, w, b, s
  <2>70. g = [h EXCEPT !.size = f, !.wrote = w]
    OBVIOUS
  <2> HIDE DEF g
  <2>7. g.list = h.list /\ g.size = f /\ g.brk = h.brk /\ Shape(g)
    BY <1>0, <2>70 DEF Sound, Shape
  <2>8. /\ Break(g) = Break(h) /\ b \notin DOMAIN h.size /\ b \notin U
        /\ DOMAIN f = DOMAIN h.size \union {b} /\ Frees(g, U \union {b}) = Frees(h, U)
    BY <1>0, <2>4, <2>7 DEF Cuts, Break, Frees, Sound
  <2>9. \A z \in Frees(h, U) : Ends(f, z) = Ends(h.size, z)
    BY <2>4 DEF Cuts, Frees
  <2>10. Sound(g, U \union {b})
    <3>1. DOMAIN f \ (U \union {b}) = DOMAIN h.size \ U
      BY <2>8
    <3> QED BY <1>0, <2>5, <2>6, <2>7, <2>8, <3>1 DEF Sound
  <2>11. Apart(g.size, Frees(g, U \union {b}), Break(g))
    BY <1>0, <2>7, <2>8, <2>9 DEF Apart, Loose
  <2>12. Neat(g, U \union {b})
    BY <1>0, <2>7, <2>10, <2>11 DEF Neat
  <2>13. Neat(Freed(g, b), (U \union {b}) \ {b})
    BY <2>12, FreeOrder
  <2>14. (U \union {b}) \ {b} = U
    BY <2>8
  <2> QED BY <2>1, <2>13, <2>14
<1> QED BY <1>1, <1>2

LEMMA GrownOnTopOrder ==
  ASSUME NEW h, NEW U, Neat(h, U), NEW a \in U, NEW len \in W .. SizeMod-W-1,
         NEW limit \in Limits,
         ~ Wrapped(a, len), len > h.size[a], h.brk = End(h, a)
  PROVE  Neat(GrownOnTop(h, a, len, limit).heap, U)
<1> DEFINE new == (a + W + len) % SizeMod
           f == [h.size EXCEPT ![a] = len]
           g == [h EXCEPT !.brk = new, !.size = f]
<1>0. Sound(h, U) /\ Sorted(h.list) /\ Apart(h.size, Frees(h, U), Break(h))
  BY DEF Neat
<1>1. CASE ~ (new < limit)
  BY <1>1 DEF GrownOnTop, Result
<1>2. CASE new < limit
  <2>1. GrownOnTop(h, a, len, limit).heap = g
    BY <1>2 DEF GrownOnTop, Result
  <2>2. Sound(g, U)
    BY <1>0, <2>1, GrownOnTopSound
  <2>3. a \in DOMAIN h.size /\ len \in Nat
    BY <1>0, HeapAssumption DEF Sound
  <2>4. DOMAIN f = DOMAIN h.size /\ f[a] = len /\ \A z \in DOMAIN h.size \ {a} : f[z] = h.size[z]
    BY <2>3
  <2> HIDE DEF f, new
  <2>5. g.list = h.list /\ g.size = f
    BY <1>0 DEF Sound, Shape
  <2> HIDE DEF g
  <2>6. Frees(g, U) = Frees(h, U) /\ \A z \in Frees(h, U) : Ends(f, z) = Ends(h.size, z)
    BY <2>4, <2>5 DEF Frees, Ends
  <2>7. Break(g) \in Nat /\ Break(g) > Break(h)
    <3>1. Break(h) = Ends(h.size, a) /\ Ends(h.size, a) = a + W + h.size[a] /\ a \in Nat /\ h.size[a] \in Nat
      BY <1>0, <2>3, BreakFact, ChunkFact DEF End, Ends
    <3>2. Ends(f, a) = a + W + len /\ Ends(f, a) <= Break(g) /\ Break(g) \in Nat
      BY <2>2, <2>3, <2>4, <2>5, ChunkFact DEF Ends
    <3> QED BY <2>3, <3>1, <3>2, HeapAssumption
  <2>8. Apart(h.size, Frees(h, U), Break(g))
    BY <2>7, HigherApart
  <2>9. Apart(g.size, Frees(g, U), Break(g))
    BY <2>5, <2>6, <2>8 DEF Apart, Loose
  <2>10. Neat(g, U)
    BY <1>0, <2>2, <2>5, <2>9 DEF Neat
  <2> QED BY <2>1, <2>10
<1> QED BY <1>1, <1>2

\* Two neighbours of s and t bytes, from a and from c, of which the first gets n.
LEMMA CutSums ==
  ASSUME NEW a \in Nat, NEW s \in Nat, NEW t \in Nat, NEW n \in Nat, NEW c \in Nat,
         c = a + W + s, n > s, t - (n - s) + W > 2 * W
  PROVE  /\ a + W + n > c /\ a + W + n < c + W + t
         /\ s + t + W - n - W >= 0
         /\ a + W + n + W + (s + t + W - n - W) = c + W + t
<1>1. W \in Nat
  BY HeapAssumption
<1> QED BY <1>1

LEMMA GrownIntoOrder ==
  ASSUME NEW h, NEW U, Neat(h, U), NEW a \in U, NEW len \in Nat,
         NEW i \in 1 .. Len(h.list), h.list[i] = End(h, a), len > h.size[a]
  PROVE  Neat(GrownInto(h, a, len, i).heap, U)
<1> DEFINE l == h.list
           c == l[i]
           b == a + W + len
           rest == h.size[c] - (len - h.size[a])
           m == Merged(h.size, a, c)
           G == GrownInto(h, a, len, i).heap
<1>0. Sound(h, U) /\ Sorted(l) /\ Apart(h.size, Frees(h, U), Break(h))
  BY DEF Neat
<1>1. Sound(G, U)
  BY <1>0, GrownIntoSound
<1>2. c \in Frees(h, U) /\ c \in DOMAIN h.size /\ a \in DOMAIN h.size /\ Ends(h.size, a) = c
  <2>1. c \in Frees(h, U) /\ a \in DOMAIN h.size
    BY <1>0, ChunkFact DEF Sound
  <2> QED BY <2>1 DEF Frees, Ends, End
<1>3. /\ Break(h) \in Nat /\ Break(h) <= SizeMod-1 /\ Tiles(Break(h), h.size) /\ Chunky(h.size)
  <2>1. Break(h) \in HeapStart .. SizeMod-1
    BY <1>0, BreakFact
  <2>2. Break(h) \in Nat /\ Break(h) <= SizeMod-1
    BY <2>1, HeapAssumption
  <2> QED BY <1>0, <2>2 DEF Sound
<1>4. MergeResult(h.size, a, c, m)
  BY <1>2, <1>3, MergeChunky, Zenon
<1>5. \A z \in DOMAIN h.size \ {a, c} : m[z] = h.size[z]
  BY DEF Merged, Without
<1> HIDE DEF c, m, G
<1>6. /\ DOMAIN m = DOMAIN h.size \ {c} /\ a \in DOMAIN m /\ c > a
      /\ m[a] = h.size[a] + h.size[c] + W /\ Chunky(m)
  BY <1>4 DEF MergeResult
<1>7. \A z \in Frees(h, U) \ {c} : z \in DOMAIN m /\ Ends(m, z) = Ends(h.size, z)
  BY <1>5, <1>6 DEF Frees, Ends
<1>8. CASE rest + W > FreeEntry
  <2> DEFINE f == Cut(m, a, len)
             k == ReplaceAt(l, i, b)
             w == h.wrote \union (b .. b + FreeEntry - 1)
             g == [h EXCEPT !.list = k, !.size = f, !.wrote = w]
  <2>1. G = g
    BY <1>8 DEF GrownInto, Result, c, m, G
  <2>2. /\ a \in Nat /\ h.size[a] \in Nat /\ h.size[c] \in Nat /\ c \in Nat
        /\ c = a + W + h.size[a] /\ Ends(h.size, c) = c + W + h.size[c]
        /\ Ends(h.size, c) <= Break(h) /\ Break(h) \in Nat
    BY <1>0, <1>2, ChunkFact
  <2>3. m[a] - len - W >= 0 /\ b > c /\ b < Ends(h.size, c)
    <3> DEFINE s == h.size[a]
               t == h.size[c]
    <3>1. s \in Nat /\ t \in Nat /\ c = a + W + s /\ Ends(h.size, c) = c + W + t
      BY <2>2
    <3>2. len > s /\ t - (len - s) + W > 2 * W /\ m[a] = s + t + W
      BY <1>6, <1>8 DEF FreeEntry
    <3> HIDE DEF s, t
    <3>3. s + t + W - len - W >= 0 /\ a + W + len > c /\ a + W + len < c + W + t
      BY <2>2, <3>1, <3>2, CutSums
    <3>4. b = a + W + len
      OBVIOUS
    <3> HIDE DEF b
    <3> QED BY <3>1, <3>2, <3>3, <3>4, HeapAssumption
  <2>4. CutResult(Break(h), m, a, b, len, f)
    <3>1. Tiles(Break(h), m)
      BY <1>2, <1>3, JoinTiles, Zenon DEF m
    <3> QED BY <1>3, <1>6, <2>3, <3>1, CutTiles, Zenon
  <2>5. b \in Nat /\ b > c /\ b < Ends(h.size, c)
    BY <2>2, <2>3, HeapAssumption
  <2>6. b = a + W + len
    OBVIOUS
  <2> HIDE DEF f, w, b, k
  <2>7. g.list = k /\ g.size = f /\ g.brk = h.brk
    <3>1. g = [h EXCEPT !.list = k, !.size = f, !.wrote = w]
      OBVIOUS
    <3> HIDE DEF g
    <3> QED BY <1>0, <3>1 DEF Sound, Shape
  <2> HIDE DEF g
  <2>8. /\ DOMAIN f = DOMAIN m \union {b} /\ b \notin DOMAIN m
        /\ f[b] = m[a] - len - W /\ \A z \in DOMAIN m \ {a} : f[z] = m[z]
    BY <2>4 DEF CutResult
  <2>9. Ends(f, b) = Ends(h.size, c)
    <3> DEFINE s == h.size[a]
               t == h.size[c]
    <3>1. s \in Nat /\ t \in Nat /\ c = a + W + s /\ Ends(h.size, c) = c + W + t
      BY <2>2
    <3>2. f[b] = s + t + W - len - W
      <4>1. m[a] = s + t + W
        BY <1>6
      <4> HIDE DEF s, t
      <4> QED BY <2>8, <3>1, <4>1, HeapAssumption
    <3> HIDE DEF s, t
    <3>3. len > s /\ t - (len - s) + W > 2 * W
      BY <1>8 DEF FreeEntry, s, t
    <3>4. b + W + (s + t + W - len - W) = c + W + t
      BY <2>2, <2>6, <3>1, <3>3, CutSums
    <3> QED BY <3>1, <3>2, <3>4 DEF Ends
  <2>10. \A z \in Frees(h, U) \ {c} : z \in DOMAIN f /\ z # b /\ Ends(f, z) = Ends(h.size, z)
    BY <1>7, <2>8 DEF Ends, Frees
  <2>11. Frees(g, U) = (Frees(h, U) \ {c}) \union {b} /\ Break(g) = Break(h)
    <3>1. b \notin U
      <4>1. b # c
        BY <2>2, <2>5
      <4> QED BY <1>0, <1>6, <2>8, <4>1 DEF Sound, Frees
    <3> QED BY <1>6, <2>7, <2>8, <3>1 DEF Frees, Break
  <2>12. Sorted(k)
    <3>1. Len(l) \in Nat /\ Ascends(l, Len(l)) /\ i \in 1 .. Len(l) /\ l[i] = c
      BY <1>0, ChunkFact DEF Sorted, c
    <3>2. ASSUME NEW j \in 1 .. Len(l)
          PROVE  (j < i => l[j] < b) /\ (j > i => l[j] > b)
      <4>1. l[j] \in DOMAIN h.size /\ l[j] \in Nat
        BY <1>0, ChunkFact DEF Frees
      <4>2. j < i => l[j] < c
        BY <3>1 DEF Ascends
      <4>3. j > i => l[j] > c
        BY <3>1 DEF Ascends
      <4>4. l[j] > c => Ends(h.size, c) <= l[j]
        BY <1>0, <1>2, <2>2, <4>1, ChunkFact
      <4>5. Ends(h.size, c) \in Nat
        BY <1>0, <1>2, ChunkFact
      <4> QED BY <2>2, <2>5, <4>1, <4>2, <4>3, <4>4, <4>5
    <3>3. Around(l, Len(l), i, b)
      BY <3>2 DEF Around
    <3> QED BY <1>0, <2>5, <3>3, ReplaceSorted DEF k
  <2>13. Apart(g.size, Frees(g, U), Break(g))
    <3>1. \A z \in Frees(h, U) : Ends(h.size, z) # b
      <4>1. b \notin DOMAIN h.size
        <5>1. b # c
          BY <2>2, <2>5
        <5> QED BY <1>6, <2>8, <5>1
      <4>2. b # Break(h)
        <5>1. Ends(h.size, c) \in Nat
          BY <1>0, <1>2, ChunkFact
        <5> QED BY <2>2, <2>5, <5>1
      <4> QED BY <1>0, <4>1, <4>2, ChunkFact DEF Frees
    <3>2. Loose(h.size, Frees(h, U)) /\ \A x \in Frees(h, U) : Ends(h.size, x) # Break(h)
      BY <1>0 DEF Apart
    <3>3. \A z \in Frees(g, U) : \E y \in Frees(h, U) : Ends(f, z) = Ends(h.size, y)
      BY <1>2, <2>9, <2>10, <2>11
    <3>4. Loose(f, Frees(g, U))
      BY <2>11, <3>1, <3>2, <3>3 DEF Loose
    <3> QED BY <2>7, <2>11, <3>2, <3>3, <3>4 DEF Apart
  <2>14. Neat(g, U)
    BY <1>1, <2>1, <2>7, <2>12, <2>13 DEF Neat
  <2> QED BY <2>1, <2>14 DEF G
<1>9. CASE ~ (rest + W > FreeEntry)
  <2> DEFINE k == RemoveAt(l, i)
             g == [h EXCEPT !.list = k, !.size = m]
  <2>1. G = g
    BY <1>9 DEF GrownInto, Result, c, m, G
  <2>2. Sorted(k)
    BY <1>0, RemoveSorted
  <2> HIDE DEF k
  <2>3. g.list = k /\ g.size = m /\ g.brk = h.brk
    <3>1. g = [h EXCEPT !.list = k, !.size = m]
      OBVIOUS
    <3> HIDE DEF g
    <3> QED BY <1>0, <3>1 DEF Sound, Shape
  <2> HIDE DEF g
  <2>4. Frees(g, U) = Frees(h, U) \ {c} /\ Break(g) = Break(h)
    BY <1>6, <2>3 DEF Frees, Break
  <2>5. Apart(g.size, Frees(g, U), Break(g))
    BY <1>0, <1>7, <2>3, <2>4 DEF Apart, Loose
  <2>6. Neat(g, U)
    BY <1>1, <2>1, <2>2, <2>3, <2>5 DEF Neat
  <2> QED BY <2>1, <2>6 DEF G
<1> QED BY <1>8, <1>9

LEMMA ResizedOrder ==
  ASSUME NEW h, NEW U, Neat(h, U), NEW a \in U, NEW len \in W .. SizeMod-W-1,
         NEW limit \in Limits, ~ Moves(h, a, len)
  PROVE  Neat(Resized(h, a, len, limit).heap, U)
<1> DEFINE i == Above(h, a, len)
<1>0. Sound(h, U)
  BY DEF Neat
<1>1. a \in DOMAIN h.size /\ h.size[a] \in Nat /\ len \in Nat /\ len >= W
  BY <1>0, HeapAssumption DEF Sound, Chunky
<1>2. CASE Wrapped(a, len)
  BY <1>2 DEF Resized, Result
<1>3. CASE ~ Wrapped(a, len) /\ len <= h.size[a]
  <2>1. Resized(h, a, len, limit) = Shrunk(h, a, len)
    BY <1>3 DEF Resized
  <2> QED BY <1>1, <1>3, <2>1, ShrunkOrder
<1>4. CASE ~ Wrapped(a, len) /\ len > h.size[a] /\ i # 0
  <2>1. Resized(h, a, len, limit) = GrownInto(h, a, len, i)
    <3>1. ~ (len <= h.size[a])
      BY <1>1, <1>4
    <3> QED BY <1>4, <3>1 DEF Resized
  <2>2. h.list \in Seq(Nat)
    BY <1>0 DEF Sound, Lists
  <2>3. i \in 1 .. Len(h.list) /\ h.list[i] = End(h, a)
    BY <1>4, <2>2, AboveFact
  <2> HIDE DEF i
  <2> QED BY <1>1, <1>4, <2>1, <2>3, GrownIntoOrder
<1>5. CASE ~ Wrapped(a, len) /\ len > h.size[a] /\ i = 0
  <2>1. Resized(h, a, len, limit) = GrownOnTop(h, a, len, limit)
    <3>1. ~ (len <= h.size[a])
      BY <1>1, <1>5
    <3> QED BY <1>5, <3>1 DEF Resized
  <2>2. h.brk = End(h, a)
    BY <1>5 DEF Moves, Topmost
  <2> QED BY <1>5, <2>1, <2>2, GrownOnTopOrder
<1>6. len <= h.size[a] \/ len > h.size[a]
  BY <1>1
<1> QED BY <1>2, <1>3, <1>4, <1>5, <1>6

-----------------------------------------------------------------------------
\* The invariant: no two free chunks touch, in whatever order they were freed.

OInv == Neat(Heap, InUse)

LEMMA HeapPrimeOrder ==
  ASSUME NEW h, NEW U, Neat(h, U), Becomes(h), DOMAIN block' = U
  PROVE  OInv'
<1>1. Heap' = [brk |-> h.brk, list |-> h.list, size |-> h.size, wrote |-> {}]
  BY DEF Heap, Becomes
<1>2. Neat([brk |-> h.brk, list |-> h.list, size |-> h.size, wrote |-> {}], U)
  BY WroteNeat
<1> QED BY <1>1, <1>2 DEF OInv, InUse

LEMMA CallOrder ==
  ASSUME OInv, NEW n \in 0 .. SizeMod-1, NEW len, NEW limit \in Limits, Call(n, len, limit)
  PROVE  OInv'
<1> DEFINE r == Allocated(Heap, n, limit)
           U == InUse
<1>1. IF r.at = Null THEN Neat(r.heap, U) ELSE Neat(r.heap, U \union {r.at})
  BY AllocatedOrder DEF OInv
<1>2. Becomes(r.heap) /\ (r.at = Null => block' = block) /\ (r.at # Null => block' = With(block, r.at, len))
  BY DEF Call
<1> HIDE DEF r
<1>3. CASE r.at = Null
  BY <1>1, <1>2, <1>3, HeapPrimeOrder DEF InUse
<1>4. CASE r.at # Null
  <2>1. DOMAIN block' = U \union {r.at}
    BY <1>2, <1>4 DEF With, InUse
  <2> QED BY <1>1, <1>2, <1>4, <2>1, HeapPrimeOrder
<1> QED BY <1>3, <1>4

LEMMA NextOrder ==
  ASSUME OInv, [Next]_vars, SaneReLens
  PROVE  OInv'
<1>1. ASSUME NEW limit \in Limits, NEW len \in Lens, Malloc(len, limit) PROVE OInv'
  <2>1. len \in 0 .. SizeMod-1
    BY HeapAssumption
  <2> QED BY <1>1, <2>1, CallOrder DEF Malloc
<1>2. ASSUME NEW limit \in Limits, NEW p \in Arrays, Calloc(p[1], p[2], limit) PROVE OInv'
  <2>1. p[1] \in Nat /\ p[2] \in Nat /\ SizeMod \in Nat /\ SizeMod > 0
    BY HeapAssumption
  <2>2. p[1] * p[2] \in Nat
    BY <2>1
  <2>3. (p[1] * p[2]) % SizeMod \in 0 .. SizeMod-1
    BY <2>1, <2>2
  <2> QED BY <1>2, <2>3, CallOrder DEF Calloc
<1>3. ASSUME NEW a \in DOMAIN block, Free(a) PROVE OInv'
  <2>1. Neat(Freed(Heap, a), InUse \ {a})
    BY FreeOrder DEF OInv, InUse
  <2>2. Becomes(Freed(Heap, a)) /\ DOMAIN block' = InUse \ {a}
    BY <1>3 DEF Free, Without, InUse
  <2> QED BY <2>1, <2>2, HeapPrimeOrder
<1>4. ASSUME NEW limit \in Limits, NEW a \in DOMAIN block, NEW len \in ReLens,
             ReallocInPlace(a, len, limit)
      PROVE  OInv'
  <2>1. Neat(Resized(Heap, a, len, limit).heap, InUse)
    <3>1. len \in W .. SizeMod-W-1
      BY DEF SaneReLens
    <3> QED BY <1>4, <3>1, ResizedOrder DEF ReallocInPlace, OInv, InUse
  <2>2. Becomes(Resized(Heap, a, len, limit).heap) /\ DOMAIN block' = InUse
    BY <1>4 DEF ReallocInPlace, InUse
  <2> QED BY <2>1, <2>2, HeapPrimeOrder
<1>5. ASSUME NEW limit \in Limits, NEW a \in DOMAIN block, NEW len \in ReLens,
             ReallocMove(a, len, limit)
      PROVE  OInv'
  <2> DEFINE r == Allocated(Heap, len, limit)
             b == r.at
             g == [r.heap EXCEPT !.wrote = {}]
             U == InUse
  <2>0. len \in 0 .. SizeMod-1
    BY HeapAssumption
  <2>1. IF b = Null THEN Neat(r.heap, U) ELSE Neat(r.heap, U \union {b})
    BY <2>0, AllocatedOrder DEF OInv
  <2>2. CASE b = Null
    <3>1. Becomes(r.heap) /\ DOMAIN block' = U
      BY <1>5, <2>2 DEF ReallocMove, InUse
    <3> HIDE DEF r, U
    <3> QED BY <2>1, <2>2, <3>1, HeapPrimeOrder
  <2>3. CASE b # Null
    <3>1. Becomes(Freed(g, a)) /\ block' = With(Without(block, a), b, len)
      BY <1>5, <2>3 DEF ReallocMove
    <3>2. DOMAIN block' = (U \ {a}) \union {b}
      BY <3>1 DEF With, Without, InUse
    <3>3. a \in U /\ b \notin U
      <4>1. b \notin U
        BY <2>0, <2>3, AllocatedSound DEF OInv, Neat
      <4> QED BY <4>1 DEF InUse
    <3> HIDE DEF r, U
    <3>4. Neat(g, U \union {b}) /\ a # b
      BY <2>1, <2>3, <3>3, WroteNeat
    <3> HIDE DEF g
    <3>5. Neat(Freed(g, a), (U \union {b}) \ {a})
      BY <3>3, <3>4, FreeOrder
    <3>6. (U \union {b}) \ {a} = (U \ {a}) \union {b}
      BY <3>4
    <3> QED BY <3>1, <3>2, <3>5, <3>6, HeapPrimeOrder
  <2> QED BY <2>2, <2>3
<1>6. CASE UNCHANGED vars
  BY <1>6 DEF vars, OInv, InUse, Heap, Neat, Sound, Frees, Break
<1> QED BY <1>1, <1>2, <1>3, <1>4, <1>5, <1>6 DEF Next

LEMMA InitOrder ==
  ASSUME Init
  PROVE  OInv
<1>1. Heap = [brk |-> Null, list |-> << >>, size |-> << >>, wrote |-> {}] /\ InUse = {}
  BY DEF Init, Heap, InUse
<1>2. Heap.list = << >> /\ DOMAIN Heap.size = {}
  BY <1>1
<1>3. Sound(Heap, InUse)
  BY InitInv DEF IInv
<1> HIDE DEF Heap
<1>4. Sorted(Heap.list)
  BY <1>2 DEF Sorted, Ascends
<1>5. Apart(Heap.size, Frees(Heap, InUse), Break(Heap))
  BY <1>2 DEF Apart, Loose, Frees
<1> QED BY <1>3, <1>4, <1>5 DEF OInv, Neat

LEMMA OrderInv ==
  ASSUME SaneReLens
  PROVE  Spec => []OInv
<1>1. Init => OInv
  BY InitOrder
<1>2. OInv /\ [Next]_vars => OInv'
  BY NextOrder
<1> QED BY <1>1, <1>2, PTL DEF Spec

\* What the invariant says of the variables.
LEMMA OrderFacts ==
  ASSUME OInv
  PROVE  /\ flist \in Seq(Nat) /\ Len(flist) \in Nat
         /\ \A i \in 1 .. Len(flist) : flist[i] \in Chunks \ InUse
         /\ \A x \in Chunks \ InUse : \E i \in 1 .. Len(flist) : flist[i] = x
         /\ \A i, j \in 1 .. Len(flist) : i < j => flist[i] < flist[j]
         /\ \A x \in Chunks : /\ x \in Nat /\ x >= HeapStart /\ x # Null
                              /\ size[x] \in Nat /\ size[x] >= W
                              /\ End(Heap, x) = x + W + size[x]
                              /\ End(Heap, x) \in Nat /\ End(Heap, x) > x
                              /\ End(Heap, x) <= Brk
                              /\ End(Heap, x) \in Chunks \union {Brk}
         /\ \A x, y \in Chunks : x < y => End(Heap, x) <= y
         /\ \A x \in Chunks \ InUse : End(Heap, x) \notin Chunks \ InUse /\ End(Heap, x) # Brk
         /\ Brk \in Nat /\ Brk \in HeapStart .. SizeMod-1
         /\ HeapStart \in Chunks \union {Brk}
         /\ InUse \subseteq Chunks
<1> DEFINE h == Heap
           U == InUse
<1>0. Sound(h, U) /\ Sorted(h.list) /\ Apart(h.size, Frees(h, U), Break(h))
  BY DEF OInv, Neat
<1>1. h.list = flist /\ h.size = size /\ Break(h) = Brk
  BY DEF Heap, Brk
<1> HIDE DEF h, U
<1>2. /\ \A x \in DOMAIN h.size : /\ x \in Nat /\ x >= HeapStart /\ x # Null
                                  /\ h.size[x] \in Nat /\ h.size[x] >= W
                                  /\ Ends(h.size, x) = x + W + h.size[x]
                                  /\ Ends(h.size, x) \in Nat /\ Ends(h.size, x) > x
                                  /\ Ends(h.size, x) <= Break(h)
                                  /\ Ends(h.size, x) \in DOMAIN h.size \union {Break(h)}
      /\ \A x, y \in DOMAIN h.size : x < y => Ends(h.size, x) <= y
      /\ Break(h) \in Nat
      /\ h.list \in Seq(Nat) /\ Len(h.list) \in Nat
      /\ \A i \in 1 .. Len(h.list) : h.list[i] \in Frees(h, U)
      /\ \A x \in Frees(h, U) : \E i \in 1 .. Len(h.list) : h.list[i] = x
  BY <1>0, ChunkFact, Zenon
<1>3. \A x : End(h, x) = Ends(h.size, x)
  BY DEF End, Ends
<1>4. Frees(h, U) = Chunks \ InUse /\ DOMAIN h.size = Chunks /\ Brk \in HeapStart .. SizeMod-1
  <2>1. Break(h) \in HeapStart .. SizeMod-1
    BY <1>0, BreakFact
  <2> QED BY <1>1, <2>1 DEF Frees, Chunks, U
<1>5. /\ Loose(h.size, Frees(h, U)) /\ \A x \in Frees(h, U) : Ends(h.size, x) # Break(h)
  BY <1>0 DEF Apart
<1>6. \A i, j \in 1 .. Len(flist) : i < j => flist[i] < flist[j]
  BY <1>0, <1>1 DEF Sorted, Ascends
<1>7. HeapStart \in Chunks \union {Brk} /\ InUse \subseteq Chunks
  BY <1>0, <1>1, <1>4 DEF Sound, Tiles, U
<1>8. \A x \in Chunks \ InUse : End(Heap, x) \notin Chunks \ InUse /\ End(Heap, x) # Brk
  BY <1>1, <1>3, <1>4, <1>5 DEF Loose, h
<1>9. \A x, y \in Chunks : x < y => End(Heap, x) <= y
  BY <1>2, <1>3, <1>4 DEF h
<1>10. \A x \in Chunks : /\ x \in Nat /\ x >= HeapStart /\ x # Null
                         /\ size[x] \in Nat /\ size[x] >= W
                         /\ End(Heap, x) = x + W + size[x]
                         /\ End(Heap, x) \in Nat /\ End(Heap, x) > x
                         /\ End(Heap, x) <= Brk
                         /\ End(Heap, x) \in Chunks \union {Brk}
  BY <1>1, <1>2, <1>3, <1>4 DEF h
<1>11. /\ flist \in Seq(Nat) /\ Len(flist) \in Nat /\ Brk \in Nat
       /\ \A i \in 1 .. Len(flist) : flist[i] \in Chunks \ InUse
       /\ \A x \in Chunks \ InUse : \E i \in 1 .. Len(flist) : flist[i] = x
  BY <1>1, <1>2, <1>4
<1> QED BY <1>4, <1>6, <1>7, <1>8, <1>9, <1>10, <1>11

\* malloc.c:188-270: each call of free joins all there is to join, however the
\* chunks were cut, taken and moved before; malloc and realloc leave it so, given
\* lengths of realloc as in ChunksTile.
THEOREM FreeJoinsAll ==
  ASSUME SaneReLens
  PROVE  Spec => []Coalesced
<1>1. OInv => Coalesced
  <2> SUFFICES ASSUME OInv PROVE Coalesced
    OBVIOUS
  <2>1. DOMAIN flist = 1 .. Len(flist)
    BY OrderFacts
  <2>2. OnList = Chunks \ InUse
    BY <2>1, OrderFacts DEF OnList
  <2>3. ASSUME NEW i \in 1 .. Len(flist), NEW j \in 1 .. Len(flist), i < j
        PROVE  End(Heap, flist[i]) < flist[j]
    <3> DEFINE x == flist[i]
               y == flist[j]
    <3>1. x \in Chunks \ InUse /\ y \in Chunks \ InUse /\ x < y
      BY <2>3, OrderFacts
    <3> HIDE DEF x, y
    <3>2. End(Heap, x) <= y /\ End(Heap, x) # y /\ End(Heap, x) \in Nat /\ y \in Nat
      BY <3>1, OrderFacts
    <3> QED BY <3>2 DEF x, y
  <2>4. \A i \in 1 .. Len(flist) : End(Heap, flist[i]) # Brk
    BY OrderFacts
  <2> QED BY <2>1, <2>2, <2>3, <2>4 DEF Coalesced
<1> QED BY <1>1, OrderInv, PTL

\* malloc.c:188-270: a program that has given back everything has the whole
\* heap again, whatever it did before, given lengths of realloc as in ChunksTile.
THEOREM WholeHeapAgain ==
  ASSUME SaneReLens
  PROVE  Spec => []AllGivenBack
<1>1. OInv => AllGivenBack
  <2> SUFFICES ASSUME OInv, InUse = {} PROVE flist = << >> /\ Brk = HeapStart
    BY DEF AllGivenBack
  <2>1. ASSUME NEW x \in Chunks PROVE FALSE
    <3>1. x \in Chunks \ InUse
      OBVIOUS
    <3> QED BY <3>1, OrderFacts
  <2>2. Brk = HeapStart
    BY <2>1, OrderFacts
  <2>3. Len(flist) = 0
    <3>1. \A i \in 1 .. Len(flist) : flist[i] \in Chunks
      BY OrderFacts
    <3>2. 1 \notin 1 .. Len(flist)
      BY <2>1, <3>1
    <3> QED BY <3>2, OrderFacts
  <2>4. flist = << >>
    BY <2>3, OrderFacts
  <2> QED BY <2>2, <2>4
<1> QED BY <1>1, OrderInv, PTL

-----------------------------------------------------------------------------
\* malloc fails only if there is no room.

LEMMA ExactNone ==
  ASSUME NEW h, h.list \in Seq(Nat), NEW n, Exact(h, n) = 0
  PROVE  \A i \in 1 .. Len(h.list) : h.size[h.list[i]] # n
<1> DEFINE I == {i \in 1 .. Len(h.list) : h.size[h.list[i]] = n}
<1>1. I \in SUBSET Nat /\ 0 \notin I
  OBVIOUS
<1>2. I # {} => Min(I) \in I
  <2> HIDE DEF I
  <2> QED BY <1>1, MinFact
<1>3. I # {} => Exact(h, n) = Min(I)
  BY DEF Exact, SelectInSeq
<1>4. I = {}
  <2> HIDE DEF I
  <2> QED BY <1>1, <1>2, <1>3
<1> QED BY <1>4

\* Every address of the heap lies in one of its chunks.
LEMMA Covered ==
  ASSUME OInv, NEW x \in Nat, HeapStart <= x, x < Brk
  PROVE  \E y \in Chunks : y <= x /\ x < End(Heap, y)
<1> DEFINE T == {x - y : y \in {z \in Chunks : z <= x}}
<1>1. T \in SUBSET Nat /\ T # {}
  <2>1. HeapStart \in Chunks
    BY OrderFacts, HeapAssumption
  <2>2. \A y \in Chunks : y \in Nat
    BY OrderFacts
  <2> QED BY <2>1, <2>2
<1>2. Min(T) \in T /\ \A t \in T : Min(T) <= t
  <2> HIDE DEF T
  <2> QED BY <1>1, MinFact
<1>3. PICK y \in Chunks : y <= x /\ Min(T) = x - y
  BY <1>2
<1>4. \A z \in Chunks : z <= x => x - y <= x - z
  BY <1>2, <1>3
<1>5. y \in Nat /\ End(Heap, y) \in Nat /\ End(Heap, y) > y /\ End(Heap, y) \in Chunks \union {Brk}
  BY OrderFacts
<1>6. x < End(Heap, y)
  <2>1. CASE End(Heap, y) = Brk
    BY <2>1
  <2>2. CASE End(Heap, y) \in Chunks
    <3> DEFINE z == End(Heap, y)
    <3>1. z <= x => x - y <= x - z
      BY <1>4, <2>2
    <3>2. z \in Nat /\ z > y /\ y \in Nat
      BY <1>5
    <3> HIDE DEF z
    <3>3. x < z
      BY <3>1, <3>2
    <3> QED BY <3>3 DEF z
  <2> QED BY <1>5, <2>1, <2>2
<1> QED BY <1>3, <1>6

\* Where an allocation fails, every free chunk is too small, and so is what is
\* left above the heap.
LEMMA FailureFacts ==
  ASSUME OInv, NEW len \in 0 .. SizeMod-1, NEW limit \in Limits,
         Allocated(Heap, len, limit).at = Null
  PROVE  /\ \A y \in Chunks \ InUse : size[y] < AtLeastLink(len)
         /\ ~ (limit > Brk /\ Fits(limit - Brk, AtLeastLink(len)))
<1> DEFINE n == AtLeastLink(len)
           h == Heap
<1>0. Sound(h, InUse) /\ h.list = flist /\ h.size = size /\ Break(h) = Brk
  BY DEF OInv, Neat, Heap, Brk
<1>1. n \in Nat /\ n \in W .. SizeMod-1 /\ n >= W
  BY HeapAssumption DEF AtLeastLink
<1>2. /\ flist \in Seq(Nat) /\ Len(flist) \in Nat /\ \A i \in 1 .. Len(flist) : size[flist[i]] \in Nat
      /\ \A y \in Chunks \ InUse : \E i \in 1 .. Len(flist) : flist[i] = y
  BY OrderFacts
<1>3. \A i \in DOMAIN h.list : h.size[h.list[i]] \in Nat
  BY <1>0, <1>2
<1> HIDE DEF n, h
<1>4. \A i \in 1 .. Len(h.list) : Taken(h, i).at # Null
  BY <1>0, TakenSound
<1>5. Exact(h, n) = 0
  <2> SUFFICES ASSUME Exact(h, n) # 0 PROVE FALSE
    OBVIOUS
  <2>1. Allocated(h, len, limit) = Taken(h, Exact(h, n))
    BY DEF Allocated, n
  <2>2. Exact(h, n) \in 1 .. Len(h.list)
    BY <1>0, <1>2, ExactFact
  <2> QED BY <1>4, <2>1, <2>2 DEF h
<1>6. Larger(h, n) = {}
  <2> SUFFICES ASSUME Larger(h, n) # {} PROVE FALSE
    OBVIOUS
  <2> DEFINE i == Best(h, n)
  <2>1. Allocated(h, len, limit) =
          IF h.size[h.list[i]] - n < FreeEntry THEN Taken(h, i) ELSE SplitOff(h, i, n)
    BY <1>5 DEF Allocated, n
  <2>2. i \in 1 .. Len(h.list)
    BY <1>0, <1>2, <1>3, BestFact
  <2>3. h.size[h.list[i]] \in Nat
    BY <1>0, <1>2, <2>2
  <2> HIDE DEF i
  <2>4. ~ (h.size[h.list[i]] - n < FreeEntry) => SplitOff(h, i, n).at # Null
    <3> SUFFICES ASSUME ~ (h.size[h.list[i]] - n < FreeEntry) PROVE SplitOff(h, i, n).at # Null
      OBVIOUS
    <3>1. h.size[h.list[i]] - n >= FreeEntry
      BY <1>1, <2>3, HeapAssumption DEF FreeEntry
    <3> QED BY <1>0, <1>1, <2>2, <3>1, SplitOffSound
  <2> QED BY <1>4, <2>1, <2>2, <2>4 DEF h
<1>7. Grown(h, n, limit).at = Null
  <2>1. Allocated(h, len, limit) = Grown(h, n, limit)
    BY <1>5, <1>6 DEF Allocated, n
  <2> QED BY <2>1 DEF h
<1>8. ~ (limit > Brk /\ Fits(limit - Brk, n))
  <2>1. Brk # Null
    BY OrderFacts, HeapAssumption DEF Null
  <2> QED BY <1>0, <1>7, <2>1 DEF Grown, Result
<1>9. ASSUME NEW y \in Chunks \ InUse PROVE size[y] < n
  <2>1. PICK i \in 1 .. Len(flist) : flist[i] = y
    BY <1>2
  <2>2. size[y] # n
    BY <1>0, <1>2, <1>5, <2>1, ExactNone
  <2>3. ~ (size[y] > n)
    BY <1>0, <1>2, <1>6, <2>1 DEF Larger
  <2>4. size[y] \in Nat
    BY OrderFacts
  <2> QED BY <1>1, <2>2, <2>3, <2>4
<1> QED BY <1>8, <1>9 DEF n

\* malloc.c:66-185: malloc fails only if no gap between the blocks in use, their
\* headers and the end of the heap has room for the block and a header - the
\* fragments that free leaves are never hidden from it, given lengths of realloc as
\* in ChunksTile.
THEOREM FailsWhenFull ==
  ASSUME SaneReLens
  PROVE  Spec => []FailsOnlyWhenFull
<1>1. OInv => FailsOnlyWhenFull
  <2> SUFFICES ASSUME OInv, NEW len \in Lens, NEW limit \in Limits,
                      Allocated(Heap, len, limit).at = Null,
                      NEW x \in HeapStart .. limit - W - AtLeastLink(len),
                      FreeRange(x, W + AtLeastLink(len))
               PROVE  FALSE
    BY DEF FailsOnlyWhenFull
  <2> DEFINE n == AtLeastLink(len)
  <2>0. len \in 0 .. SizeMod-1 /\ limit \in 0 .. SizeMod-1 /\ SizeMod \in Nat
    BY HeapAssumption
  <2>1. n \in Nat /\ n >= W /\ n <= SizeMod-1 /\ W \in Nat \ {0}
    BY <2>0, HeapAssumption DEF AtLeastLink
  <2>2. /\ \A y \in Chunks \ InUse : size[y] < n
        /\ ~ (limit > Brk /\ Fits(limit - Brk, n))
    BY <2>0, FailureFacts
  <2>3. x \in Nat /\ x >= HeapStart /\ x + W + n <= limit /\ FreeRange(x, W + n)
    BY <2>0, <2>1, HeapAssumption
  <2>4. Brk \in Nat
    BY OrderFacts
  <2> HIDE DEF n
  <2>5. CASE x >= Brk
    <3>1. limit - Brk >= n + W /\ limit > Brk
      BY <2>0, <2>1, <2>3, <2>4, <2>5
    <3>2. n + W < SizeMod /\ n + W \in Nat
      BY <2>0, <2>1, <2>4, <3>1
    <3>3. (n + W) % SizeMod = n + W
      BY <2>0, <3>2, ModFact
    <3>4. limit - Brk >= n
      BY <2>0, <2>1, <2>4, <3>1
    <3> QED BY <2>2, <3>1, <3>3, <3>4 DEF Fits
  <2>6. CASE x < Brk
    <3>1. PICK y \in Chunks : y <= x /\ x < End(Heap, y)
      BY <2>3, <2>6, Covered
    <3>2. y \in Nat /\ End(Heap, y) \in Nat /\ End(Heap, y) = y + W + size[y] /\ size[y] \in Nat
      BY OrderFacts
    <3>3. y \notin InUse
      <4> SUFFICES ASSUME y \in InUse PROVE FALSE
        OBVIOUS
      <4>1. x + (W + n) <= y \/ End(Heap, y) <= x
        BY <2>3 DEF FreeRange
      <4> QED BY <2>1, <2>3, <3>1, <3>2, <4>1
    <3> DEFINE z == End(Heap, y)
    <3>4. z \in InUse
      BY <3>3, OrderFacts
    <3>5. z > x /\ z < x + (W + n)
      <4>1. size[y] < n
        BY <2>2, <3>3
      <4> QED BY <2>1, <2>3, <3>1, <3>2, <4>1
    <3> HIDE DEF z
    <3>6. x + (W + n) <= z \/ End(Heap, z) <= x
      BY <2>3, <3>4 DEF FreeRange
    <3>7. z \in Nat /\ End(Heap, z) \in Nat /\ End(Heap, z) > z
      BY <3>4, OrderFacts
    <3> QED BY <2>1, <2>3, <3>5, <3>6, <3>7
  <2> QED BY <2>3, <2>4, <2>5, <2>6
<1> QED BY <1>1, OrderInv, PTL
=============================================================================
