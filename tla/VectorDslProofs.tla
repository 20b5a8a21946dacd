-------------------------- MODULE VectorDslProofs --------------------------
(***************************************************************************)
(* No operator of VectorDsl changes an operand, no loop leaves an array,   *)
(* and a chain of operators computes what its expression means, for every  *)
(* program, size of vectors and grant of vsetvl.                           *)
(***************************************************************************)
EXTENDS VectorDsl, SequenceTheorems, WellFoundedInduction, TLAPS

-----------------------------------------------------------------------------
\* The recursive functions of Meaning and Means: that each exists, and what
\* one more statement adds.

\* What an operand stands for, if f holds the values of the operators before.
Arg(env, p, f) == IF p.node = 0 THEN env[p.vec] ELSE f[p.node]

Applied(env, o, f) ==
    LET b == Arg(env, o.l, f)
        c == Arg(env, o.r, f)
    IN [x \in DOMAIN b |-> CASE o.f = "scale" -> (o.by * b[x]) % WordMod
                             [] o.f = "mul"   -> (b[x] * c[x]) % WordMod
                             [] o.f = "add"   -> (b[x] + c[x]) % WordMod]

\* f holds the value of each of the first m operators.
EachApplied(ops, env, m, f) == \A i \in 1 .. m : f[i] = Applied(env, ops[i], f)
Evaluates(ops, env, m, f) == f = [i \in 1 .. m |-> Applied(env, ops[i], f)]

\* Statement s changes what the vectors hold.
After(s, env) == [env EXCEPT ![s.to] = Meaning(s.ops, env)]

\* e holds what the vectors mean after each of the first m statements.
IsMeans(stmts, b, m, e) ==
    e = [j \in 0 .. m |-> IF j = 0 THEN b ELSE After(stmts[j], e[j-1])]

LEMMA MeaningIs ==
  ASSUME NEW ops, NEW env
  PROVE  Meaning(ops, env) = (CHOOSE f : Evaluates(ops, env, Len(ops), f))[Len(ops)]
BY DEF Meaning, Evaluates, Applied, Arg

LEMMA MeansIs == Means = (CHOOSE e : IsMeans(prog.stmts, Begin, k-1, e))[k-1]
BY DEF Means, IsMeans, After

\* A set of numbers has a least one: what stands in for induction below.
Below == {p \in Nat \X Nat : p[1] < p[2]}

LEMMA LeastOf ==
  ASSUME NEW S \in SUBSET Nat, S # {}
  PROVE  \E m \in S : \A y \in S : m <= y
<1>1. IsWellFoundedOn(Below, Nat)
  BY NatLessThanWellFounded DEF OpToRel, Below
<1>2. PICK m \in S : \A y \in S : ~ (<<y, m>> \in Below)
  BY <1>1, WFMin
<1>3. ASSUME NEW y \in S PROVE m <= y
  <2>1. y < m => <<y, m>> \in Below
    BY DEF Below
  <2>2. ~ (y < m)
    BY <1>2, <2>1
  <2> QED BY <2>2
<1> QED BY <1>3

LEMMA EvaluatesAt ==
  ASSUME NEW ops, NEW env, NEW m, NEW f, Evaluates(ops, env, m, f)
  PROVE  EachApplied(ops, env, m, f)
BY DEF Evaluates, EachApplied

\* Operands come before their operators, so there is a value for each.
LEMMA EvaluatesExists ==
  ASSUME NEW ops, NEW env, NEW len \in Nat,
         \A i \in 1 .. len : /\ ops[i].l.node \in Nat /\ ops[i].l.node < i
                             /\ ops[i].r.node \in Nat /\ ops[i].r.node < i
  PROVE  \E f : Evaluates(ops, env, len, f)
<1> DEFINE Bad == {m \in 0 .. len : ~ \E f : Evaluates(ops, env, m, f)}
<1>1. SUFFICES ASSUME Bad # {} PROVE FALSE
  OBVIOUS
<1>2. PICK m \in Bad : \A y \in Bad : m <= y
  <2> Bad \in SUBSET Nat
    OBVIOUS
  <2> HIDE DEF Bad
  <2> QED BY <1>1, LeastOf
<1>3. m \in 0 .. len /\ ~ \E f : Evaluates(ops, env, m, f)
  OBVIOUS
<1>4. m # 0
  <2>1. Evaluates(ops, env, 0, [i \in 1 .. 0 |-> 0])
    BY DEF Evaluates
  <2> QED BY <1>3, <2>1
<1>5. PICK f : Evaluates(ops, env, m-1, f)
  BY <1>2, <1>3, <1>4
<1> DEFINE g == [i \in 1 .. m |-> IF i < m THEN f[i] ELSE Applied(env, ops[m], f)]
<1>6. ASSUME NEW i \in 1 .. m PROVE g[i] = Applied(env, ops[i], g)
  <2>1. /\ ops[i].l.node \in Nat /\ ops[i].l.node < i
        /\ ops[i].r.node \in Nat /\ ops[i].r.node < i
    BY <1>3
  <2>2. /\ Arg(env, ops[i].l, g) = Arg(env, ops[i].l, f)
        /\ Arg(env, ops[i].r, g) = Arg(env, ops[i].r, f)
    BY <1>3, <2>1 DEF Arg
  <2>3. Applied(env, ops[i], g) = Applied(env, ops[i], f)
    <3> HIDE DEF g
    <3> QED BY <2>2 DEF Applied
  <2>4. CASE i < m
    <3>1. f[i] = Applied(env, ops[i], f)
      BY <1>3, <1>5, <2>4 DEF Evaluates
    <3> QED BY <2>3, <2>4, <3>1
  <2>5. CASE ~ (i < m)
    BY <1>3, <2>3, <2>5
  <2> QED BY <2>4, <2>5
<1>7. Evaluates(ops, env, m, g)
  <2> DEFINE h == [i \in 1 .. m |-> Applied(env, ops[i], g)]
  <2>1. \A i \in 1 .. m : g[i] = h[i]
    BY <1>6
  <2>2. g = h
    <3> g = [i \in 1 .. m |-> g[i]] /\ h = [i \in 1 .. m |-> h[i]]
      OBVIOUS
    <3> HIDE DEF g, h
    <3> QED BY <2>1
  <2> HIDE DEF g
  <2> QED BY <2>2 DEF Evaluates
<1> QED BY <1>3, <1>7

LEMMA IsMeansAt ==
  ASSUME NEW stmts, NEW b, NEW m \in Nat, NEW e, IsMeans(stmts, b, m, e), NEW j \in 0 .. m
  PROVE  /\ j = 0 => e[j] = b
         /\ j # 0 => e[j] = After(stmts[j], e[j-1])
BY DEF IsMeans

LEMMA MeansExists ==
  ASSUME NEW stmts, NEW b, NEW len \in Nat
  PROVE  \E e : IsMeans(stmts, b, len, e)
<1> DEFINE Bad == {m \in Nat : ~ \E e : IsMeans(stmts, b, m, e)}
<1>1. SUFFICES ASSUME Bad # {} PROVE FALSE
  OBVIOUS
<1>2. PICK m \in Bad : \A y \in Bad : m <= y
  <2> Bad \in SUBSET Nat
    OBVIOUS
  <2> HIDE DEF Bad
  <2> QED BY <1>1, LeastOf
<1>3. m \in Nat /\ ~ \E e : IsMeans(stmts, b, m, e)
  OBVIOUS
<1>4. m # 0
  <2> DEFINE e == [j \in 0 .. 0 |-> b]
  <2>1. IsMeans(stmts, b, 0, e)
    BY DEF IsMeans
  <2> QED BY <1>3, <2>1
<1>5. PICK e : IsMeans(stmts, b, m-1, e)
  BY <1>2, <1>3, <1>4
<1> DEFINE g == [j \in 0 .. m |-> IF j < m THEN e[j] ELSE After(stmts[m], e[m-1])]
           h == [j \in 0 .. m |-> IF j = 0 THEN b ELSE After(stmts[j], g[j-1])]
<1>6. ASSUME NEW j \in 0 .. m PROVE g[j] = h[j]
  <2>1. j # 0 => g[j-1] = e[j-1]
    BY <1>3
  <2>2. j # 0 => After(stmts[j], g[j-1]) = After(stmts[j], e[j-1])
    <3> HIDE DEF g
    <3> QED BY <2>1
  <2>3. CASE j < m
    <3>1. /\ j = 0 => e[j] = b
          /\ j # 0 => e[j] = After(stmts[j], e[j-1])
      <4>1. m-1 \in Nat /\ j \in 0 .. m-1
        BY <1>3, <2>3
      <4> HIDE DEF g, h
      <4> QED BY <1>5, <4>1, IsMeansAt
    <3> QED BY <2>2, <2>3, <3>1
  <2>4. CASE j = m
    <3> QED BY <1>3, <1>4, <2>2, <2>4
  <2> QED BY <1>3, <2>3, <2>4
<1>7. g = h
  <2> g = [j \in 0 .. m |-> g[j]] /\ h = [j \in 0 .. m |-> h[j]]
    OBVIOUS
  <2> HIDE DEF g, h
  <2> QED BY <1>6
<1>8. IsMeans(stmts, b, m, g)
  <2>1. h = [j \in 0 .. m |-> IF j = 0 THEN b ELSE After(stmts[j], g[j-1])]
    OBVIOUS
  <2> HIDE DEF g, h
  <2> QED BY <1>7, <2>1 DEF IsMeans
<1> QED BY <1>3, <1>8

\* The values after fewer statements are those of the statements they share.
LEMMA MeansAgree ==
  ASSUME NEW stmts, NEW b, NEW m \in Nat, NEW n2 \in Nat, m <= n2,
         NEW e, IsMeans(stmts, b, m, e), NEW g, IsMeans(stmts, b, n2, g)
  PROVE  \A j \in 0 .. m : e[j] = g[j]
<1> DEFINE Bad == {j \in 0 .. m : e[j] # g[j]}
<1>1. SUFFICES ASSUME Bad # {} PROVE FALSE
  OBVIOUS
<1>2. PICK j \in Bad : \A y \in Bad : j <= y
  <2> Bad \in SUBSET Nat
    OBVIOUS
  <2> HIDE DEF Bad
  <2> QED BY <1>1, LeastOf
<1>3. j \in 0 .. m /\ j \in 0 .. n2 /\ e[j] # g[j]
  OBVIOUS
<1>4. /\ e[j] = IF j = 0 THEN b ELSE After(stmts[j], e[j-1])
      /\ g[j] = IF j = 0 THEN b ELSE After(stmts[j], g[j-1])
  BY <1>3 DEF IsMeans
<1>5. j # 0
  BY <1>3, <1>4
<1>6. e[j-1] = g[j-1]
  BY <1>2, <1>3, <1>5
<1> QED BY <1>3, <1>4, <1>5, <1>6

LEMMA MeansStep ==
  ASSUME NEW stmts, NEW b, NEW m \in Nat \ {0},
         NEW e, IsMeans(stmts, b, m-1, e), NEW g, IsMeans(stmts, b, m, g)
  PROVE  g[m] = After(stmts[m], e[m-1])
<1>1. m \in Nat /\ m-1 \in Nat /\ m-1 <= m /\ m \in 0 .. m /\ m-1 \in 0 .. m-1 /\ m # 0
  OBVIOUS
<1>2. e[m-1] = g[m-1]
  BY <1>1, MeansAgree
<1>3. g[m] = After(stmts[m], g[m-1])
  BY <1>1, IsMeansAt
<1> QED BY <1>2, <1>3

LEMMA MeansAtFirst == ASSUME k = 1 PROVE Means = Begin
<1> DEFINE e == CHOOSE e : IsMeans(prog.stmts, Begin, 0, e)
<1>1. IsMeans(prog.stmts, Begin, 0, e)
  BY MeansExists
<1>2. Means = e[0]
  BY MeansIs
<1> HIDE DEF e
<1> QED BY <1>1, <1>2 DEF IsMeans

LEMMA MeansNext ==
  ASSUME k \in Nat \ {0}, k' = k + 1, prog' = prog, Begin' = Begin
  PROVE  Means' = After(prog.stmts[k], Means)
<1> DEFINE e == CHOOSE x : IsMeans(prog.stmts, Begin, k-1, x)
           g == CHOOSE x : IsMeans(prog.stmts, Begin, k, x)
<1>1. IsMeans(prog.stmts, Begin, k-1, e) /\ IsMeans(prog.stmts, Begin, k, g)
  BY MeansExists
<1>2. Means = e[k-1]
  BY MeansIs
<1>3. Means' = g[k]
  <2>1. Means' = (CHOOSE x : IsMeans(prog.stmts, Begin, k-1, x))'[k'-1]
    BY DEF Means, IsMeans, After
  <2>2. k' - 1 = k
    OBVIOUS
  <2> QED BY <2>1, <2>2
<1> HIDE DEF e, g
<1> QED BY <1>1, <1>2, <1>3, MeansStep

-----------------------------------------------------------------------------
Fits(o) == Within(o.data, o.size - 1)

\* What a size may be.
Sizes == IF AllFit THEN 0 .. TSize ELSE Nat

ProgInv == /\ prog \in Programs
           /\ k \in Nat \ {0} /\ k <= Len(prog.stmts) + 1
           /\ pc # "end" => k \in DOMAIN prog.stmts
           /\ done \subseteq DOMAIN Ops

\* A vector that was never assigned has its own array; all fit in theirs.
VecInv == /\ vec \in [Vectors -> [data : Vectors \union {"t"}, size : Nat]]
          /\ \A v \in Vectors : Fits(vec[v])
          /\ \A v \in Vectors \ Assigned(k) : vec[v].data = v

\* The static object of an operator that was entered has a size.
ResInv == /\ res \in [Operators -> {None} \union Sizes]
          /\ \A i \in done : res[Ops[i].f] # None

OperandsReady(o) == {o.l.node, o.r.node} \subseteq done \union {0}

\* In a loop the operands are there, of one size, of which n are left.
LoopInv == /\ pos \in Sizes
           /\ n \in Nat
           /\ pc = "loop" => /\ op \in DOMAIN Ops
                             /\ OperandsReady(Ops[op])
                             /\ res[Ops[op].f] # None
                             /\ pos + n = Object(Ops[op].l).size
                             /\ pos + n = Object(Ops[op].r).size

\* The places of the arrays' elements.
PlacesInv == /\ DOMAIN arr = Vectors \union {"t"}
             /\ \A a \in DOMAIN arr : DOMAIN arr[a] \subseteq Nat

Inv == ProgInv /\ VecInv /\ ResInv /\ LoopInv /\ PlacesInv

-----------------------------------------------------------------------------
USE DslAssumption DEF None

\* A program's operators have the operands the assumption gives them.
LEMMA OpFacts ==
  ASSUME ProgInv, NEW i \in DOMAIN Ops
  PROVE  /\ pc # "end"
         /\ k \in DOMAIN prog.stmts
         /\ Ops = prog.stmts[k].ops
         /\ Ops[i] \in Operation
         /\ i \in Nat
         /\ Ops[i].l.node < i /\ Ops[i].r.node < i
         /\ Ops[i].l.node = 0 => Ops[i].l.vec \in Vectors
         /\ Ops[i].r.node = 0 => Ops[i].r.vec \in Vectors
         /\ Ops[i].f = "scale" => Ops[i].r = Ops[i].l
<1>1. pc # "end" /\ k \in DOMAIN prog.stmts /\ Ops = prog.stmts[k].ops
  BY DEF ProgInv, Ops
<1>2. prog \in Programs /\ prog.stmts \in Seq(Statement)
  BY DEF ProgInv
<1>3. prog.stmts[k] \in Statement
  BY <1>1, <1>2, ElementOfSeq, LenProperties
<1>4. Ops \in Seq(Operation)
  BY <1>1, <1>3 DEF Statement
<1>5. Ops[i] \in Operation /\ i \in Nat
  BY <1>4, ElementOfSeq, LenProperties
<1>6. /\ Ops[i].l.node < i /\ Ops[i].r.node < i
      /\ VecsOf(Ops[i]) \subseteq Vectors
      /\ Ops[i].f = "scale" => Ops[i].r = Ops[i].l
  BY <1>1, <1>2
<1> QED BY <1>1, <1>5, <1>6 DEF VecsOf

LEMMA SizesAre == /\ Sizes \subseteq Nat
                  /\ prog \in Programs => prog.size \in [Vectors -> Sizes]
                  /\ \A s \in Sizes : AllFit => s <= TSize
<1>1. CASE AllFit
  BY <1>1 DEF Sizes, AllFit
<1>2. CASE ~AllFit
  BY <1>2 DEF Sizes
<1> QED BY <1>1, <1>2

\* A size ends within t.
LEMMA SizesFit ==
  ASSUME NEW s \in Sizes
  PROVE  s \in Nat /\ Within("t", s - 1)
<1>1. s \in Nat /\ (AllFit => s <= TSize)
  BY SizesAre
<1>2. Last("t") = TSize - 1
  BY DEF Last
<1>3. AllFit => s - 1 <= Last("t")
  BY <1>1, <1>2
<1> QED BY <1>1, <1>3, Zenon DEF Within

\* An object that an operand refers to fits in its array.
LEMMA ObjectFits ==
  ASSUME Inv, NEW i \in DOMAIN Ops, OperandsReady(Ops[i]), NEW p \in {Ops[i].l, Ops[i].r}
  PROVE  /\ Object(p).data \in Vectors \union {"t"}
         /\ Object(p).size \in Sizes
         /\ Fits(Object(p))
<1>1. prog \in Programs /\ prog.size \in [Vectors -> Sizes] /\ Sizes \subseteq Nat
  BY SizesAre DEF Inv, ProgInv
<1>2. /\ Ops[i] \in Operation /\ p \in Operand /\ p.node \in Nat
      /\ p.node = 0 => p.vec \in Vectors
  BY OpFacts DEF Inv, Operation, Operand
<1>3. CASE p.node = 0
  <2>1. Object(p) = vec[p.vec] /\ p.vec \in Vectors
    BY <1>2, <1>3 DEF Object
  <2>2. /\ vec[p.vec].data \in Vectors \union {"t"}
        /\ vec[p.vec].size \in Nat
        /\ Fits(vec[p.vec])
    BY <2>1 DEF Inv, VecInv
  <2>3. vec[p.vec].size \in Sizes
    <3>1. CASE AllFit
      <4>1. \A a \in Vectors \union {"t"} : Last(a) \in Int /\ Last(a) <= TSize - 1
        BY <1>1, <3>1 DEF AllFit, Last
      <4> QED BY <2>2, <3>1, <4>1 DEF Fits, Within, Sizes
    <3>2. CASE ~AllFit
      BY <2>2, <3>2 DEF Sizes
    <3> QED BY <3>1, <3>2
  <2> QED BY <2>1, <2>2, <2>3
<1>4. CASE p.node # 0
  <2>1. Object(p) = [data |-> "t", size |-> res[Ops[p.node].f]]
    BY <1>4 DEF Object
  <2>2. p.node \in done
    BY <1>4 DEF OperandsReady
  <2>3. p.node \in DOMAIN Ops /\ Ops[p.node] \in Operation
    BY <2>2, OpFacts DEF Inv, ProgInv
  <2>4. res[Ops[p.node].f] \in Sizes
    BY <2>2, <2>3 DEF Inv, ResInv, Operation
  <2>5. Object(p).data = "t" /\ Object(p).size \in Sizes
    BY <2>1, <2>4
  <2>6. Fits(Object(p))
    BY <2>5, SizesFit, Zenon DEF Fits
  <2> QED BY <2>5, <2>6
<1> QED BY <1>3, <1>4

-----------------------------------------------------------------------------
LEMMA InitInv == Init => Inv
<1> SUFFICES ASSUME Init PROVE Inv
  OBVIOUS
<1> USE DEF Init
<1>1. prog \in Programs /\ prog.size \in [Vectors -> Sizes] /\ Sizes \subseteq Nat
  BY SizesAre
<1>2. ProgInv
  <2>1. prog.stmts \in Seq(Statement) /\ prog.stmts # <<>>
    OBVIOUS
  <2>2. 1 \in DOMAIN prog.stmts
    BY <2>1, EmptySeq, LenProperties
  <2>3. Len(prog.stmts) \in Nat
    BY <2>1, LenProperties
  <2> QED BY <2>2, <2>3 DEF ProgInv
<1>3. VecInv
  BY <1>1 DEF VecInv, Fits, Within, Last
<1>4. ResInv
  BY DEF ResInv
<1>5. LoopInv
  BY DEF LoopInv, Sizes
<1>6. PlacesInv
  BY <1>1 DEF PlacesInv
<1> QED BY <1>2, <1>3, <1>4, <1>5, <1>6 DEF Inv

LEMMA EnterInv ==
  ASSUME Inv, NEW i \in DOMAIN Ops, Enter(i)
  PROVE  Inv'
<1> DEFINE o == Ops[i]
           size == Object(o.l).size
<1>1. o \in Operation /\ (o.f = "scale" => o.r = o.l)
  BY OpFacts DEF Inv
<1>2. OperandsReady(o) /\ pc = "eval"
  BY DEF Enter, Ready, OperandsReady
<1>3. /\ size \in Sizes
      /\ Object(o.r).size \in Sizes
  BY <1>2, ObjectFits
<1>4. pc' \in {"loop", "abort"} /\ Ops' = Ops
  BY <1>2 DEF Enter, Ops
<1>5. ProgInv'
  BY <1>2, <1>4 DEF Inv, ProgInv, Enter
<1>6. VecInv' /\ Sizes' = Sizes
  BY DEF Inv, VecInv, Enter, Fits, Within, Last, Assigned, AllFit, Sizes
<1>7. /\ res' = [res EXCEPT ![o.f] = IF @ = None THEN size ELSE @]
      /\ op' = i /\ pos' = 0 /\ n' = size
      /\ pc' = IF SameSize(o) THEN "loop" ELSE "abort"
      /\ vec' = vec /\ done' = done
  BY DEF Enter
<1>8. o.f \in Operators
  BY <1>1 DEF Operation
<1>9. \A j \in DOMAIN Ops : Ops[j].f \in Operators
  BY OpFacts DEF Inv, Operation
<1>10. /\ res' \in [Operators -> {None} \union Sizes]
       /\ res'[o.f] # None
       /\ \A f \in Operators : res[f] # None => res'[f] = res[f]
  BY <1>3, <1>7, <1>8, SizesAre DEF Inv, ResInv
<1>11. ResInv'
  <2> SUFFICES ASSUME NEW j \in done' PROVE res'[Ops'[j].f] # None
    BY <1>6, <1>10 DEF ResInv
  <2>1. j \in done /\ j \in DOMAIN Ops
    BY <1>7 DEF Inv, ProgInv
  <2> QED BY <1>4, <1>9, <1>10, <2>1 DEF Inv, ResInv
<1>12. ASSUME NEW p \in {o.l, o.r} PROVE Object(p)' = Object(p)
  <2>1. CASE p.node = 0
    BY <1>7, <2>1 DEF Object
  <2>2. CASE p.node # 0
    <3>1. p.node \in done
      BY <1>2, <2>2 DEF OperandsReady
    <3>2. p.node \in DOMAIN Ops /\ res[Ops[p.node].f] # None
      BY <3>1 DEF Inv, ProgInv, ResInv
    <3>3. res'[Ops[p.node].f] = res[Ops[p.node].f]
      BY <3>2, <1>9, <1>10
    <3> QED BY <1>4, <2>2, <3>3 DEF Object
  <2> QED BY <2>1, <2>2
<1>13. LoopInv'
  <2>1. pos' \in Sizes' /\ n' \in Nat
    BY <1>3, <1>6, <1>7, SizesAre DEF Sizes
  <2>2. ASSUME pc' = "loop"
        PROVE  /\ op' \in DOMAIN Ops'
               /\ OperandsReady(Ops[op])'
               /\ res'[Ops'[op'].f] # None
               /\ pos' + n' = Object(Ops[op].l)'.size
               /\ pos' + n' = Object(Ops[op].r)'.size
    <3>1. Ops'[op'] = o
      BY <1>4, <1>7
    <3>2. Object(Ops[op].l)' = Object(o.l) /\ Object(Ops[op].r)' = Object(o.r)
      BY <3>1, <1>12 DEF Object
    <3>3. Object(o.r).size = size
      BY <2>2, <1>1, <1>7 DEF SameSize
    <3>4. OperandsReady(Ops[op])'
      BY <3>1, <1>2, <1>7 DEF OperandsReady
    <3>5. size \in Nat
      BY <1>3, SizesAre
    <3>6. pos' + n' = size
      BY <1>7, <3>5
    <3> QED BY <2>2, <1>4, <1>7, <1>8, <1>10, <3>1, <3>2, <3>3, <3>4, <3>6
  <2> QED BY <2>1, <2>2 DEF LoopInv
<1>14. PlacesInv'
  BY DEF Enter, Inv, PlacesInv
<1> QED BY <1>5, <1>6, <1>11, <1>13, <1>14 DEF Inv

LEMMA LoopStepInv ==
  ASSUME Inv, Loop
  PROVE  Inv'
<1>1. /\ pc = "loop" /\ pc' = pc /\ prog' = prog /\ k' = k /\ done' = done
      /\ vec' = vec /\ res' = res /\ op' = op
  BY DEF Loop
<1>2. Ops' = Ops
  BY <1>1 DEF Ops
<1>3. op \in DOMAIN Ops /\ OperandsReady(Ops[op]) /\ pos + n = Object(Ops[op].l).size
  BY <1>1 DEF Inv, LoopInv
<1>4. Object(Ops[op].l).size \in Sizes
  BY <1>3, ObjectFits
<1>5. PICK vl \in 1 .. VlMax : vl <= n /\ pos' = pos + vl /\ n' = n - vl
  BY DEF Loop, Strip
<1>6. pos' \in Sizes /\ n' \in Nat /\ pos' + n' = pos + n
  BY <1>3, <1>4, <1>5 DEF Inv, LoopInv, Sizes
<1>7. ProgInv' /\ VecInv' /\ ResInv' /\ Sizes' = Sizes
  BY <1>1, <1>2 DEF Inv, ProgInv, VecInv, ResInv, Fits, Within, Last, Assigned, AllFit, Sizes
<1>8. /\ Object(Ops[op].l)' = Object(Ops[op].l)
      /\ Object(Ops[op].r)' = Object(Ops[op].r)
      /\ OperandsReady(Ops[op])' = OperandsReady(Ops[op])
  BY <1>1, <1>2 DEF Object, OperandsReady
<1>9. LoopInv'
  BY <1>1, <1>2, <1>6, <1>7, <1>8 DEF Inv, LoopInv
<1>10. PlacesInv'
  <2>1. PICK w \in Strip :
            arr' = [a \in DOMAIN arr |-> [x \in DOMAIN arr[a] |->
                       IF FromResult(a, x) \in pos .. pos+w-1
                       THEN Computed(Ops[op], FromResult(a, x)) ELSE arr[a][x]]]
    BY DEF Loop
  <2> QED BY <2>1 DEF Inv, PlacesInv
<1> QED BY <1>7, <1>9, <1>10 DEF Inv

LEMMA ReturnInv ==
  ASSUME Inv, Return
  PROVE  Inv'
<1>1. /\ pc = "loop" /\ pc' = "eval" /\ done' = done \union {op}
      /\ UNCHANGED <<prog, k, arr, vec, res, op, pos, n>>
  BY DEF Return
<1>2. Ops' = Ops
  BY <1>1 DEF Ops
<1>3. op \in DOMAIN Ops /\ res[Ops[op].f] # None
  BY <1>1 DEF Inv, LoopInv
<1>4. ProgInv'
  BY <1>1, <1>2, <1>3 DEF Inv, ProgInv
<1>5. VecInv' /\ Sizes' = Sizes
  BY <1>1 DEF Inv, VecInv, Fits, Within, Last, Assigned, AllFit, Sizes
<1>6. ResInv'
  BY <1>1, <1>2, <1>3, <1>5 DEF Inv, ResInv
<1>7. LoopInv'
  BY <1>1, <1>5 DEF Inv, LoopInv
<1>8. PlacesInv'
  BY <1>1 DEF Inv, PlacesInv
<1> QED BY <1>4, <1>5, <1>6, <1>7, <1>8 DEF Inv

LEMMA AssignInv ==
  ASSUME Inv, Assign
  PROVE  Inv'
<1> DEFINE to == prog.stmts[k].to
           last == Len(Ops)
<1>1. /\ pc = "eval" /\ done = DOMAIN Ops /\ done' = {} /\ k' = k + 1
      /\ vec' = [vec EXCEPT ![to] = Object(N(last))]
      /\ pc' = IF k = Len(prog.stmts) THEN "end" ELSE "eval"
      /\ prog' = prog /\ res' = res /\ pos' = pos /\ n' = n
  BY DEF Assign
<1>2. /\ prog \in Programs /\ prog.stmts \in Seq(Statement)
      /\ k \in DOMAIN prog.stmts /\ Ops = prog.stmts[k].ops
  BY <1>1 DEF Inv, ProgInv, Ops
<1>3. prog.stmts[k] \in Statement /\ Len(prog.stmts) \in Nat /\ DOMAIN prog.stmts = 1 .. Len(prog.stmts)
  BY <1>2, ElementOfSeq, LenProperties
<1>4. to \in Vectors /\ Ops \in Seq(Operation) /\ Ops # <<>>
  BY <1>2, <1>3 DEF Statement
<1>5. last \in DOMAIN Ops /\ last \in Nat \ {0}
  BY <1>4, EmptySeq, LenProperties
<1>6. Ops[last].f \in Operators
  BY <1>5, OpFacts DEF Inv, Operation
<1>7. res[Ops[last].f] \in Sizes /\ Sizes' = Sizes /\ Sizes \subseteq Nat
  BY <1>1, <1>5, <1>6, SizesAre DEF Inv, ResInv, Sizes, AllFit
<1>8. Object(N(last)) = [data |-> "t", size |-> res[Ops[last].f]]
  BY <1>5 DEF Object, N
<1>9. ProgInv'
  <2>1. k' \in Nat \ {0}
    BY <1>1 DEF Inv, ProgInv
  <2>2. pc' # "end" => k' \in DOMAIN prog.stmts
    BY <1>1, <1>2, <1>3
  <2>3. k' <= Len(prog'.stmts) + 1
    BY <1>1, <1>2, <1>3
  <2> QED BY <1>1, <1>2, <2>1, <2>2, <2>3 DEF ProgInv
<1>10. VecInv'
  <2>1. vec' \in [Vectors -> [data : Vectors \union {"t"}, size : Nat]]
    <3>1. Object(N(last)) \in [data : Vectors \union {"t"}, size : Nat]
      <4>1. res[Ops[last].f] \in Nat
        BY <1>7
      <4> QED BY <1>8, <4>1
    <3> QED BY <1>1, <3>1 DEF Inv, VecInv
  <2>2. \A v \in Vectors : Fits(vec'[v])
    <3>1. Object(N(last)).data = "t" /\ Object(N(last)).size \in Sizes
      BY <1>7, <1>8
    <3>2. Fits(Object(N(last)))
      BY <3>1, SizesFit, Zenon DEF Fits
    <3>3. ASSUME NEW v \in Vectors PROVE vec'[v] \in {vec[v], Object(N(last))}
      BY <1>1 DEF Inv, VecInv
    <3>4. \A v \in Vectors : Fits(vec[v])
      BY DEF Inv, VecInv
    <3> QED BY <3>2, <3>3, <3>4
  <2>3. Assigned(k)' = Assigned(k) \union {to}
    BY <1>1, <1>2, <1>3 DEF Assigned, Inv, ProgInv
  <2>4. \A v \in Vectors \ Assigned(k)' : vec'[v].data = v
    BY <1>1, <2>3 DEF Inv, VecInv
  <2> QED BY <1>1, <2>1, <2>2, <2>4 DEF VecInv, Fits, Within, Last, AllFit
<1>11. ResInv'
  BY <1>1, <1>7 DEF Inv, ResInv
<1>12. LoopInv'
  BY <1>1, <1>7 DEF Inv, LoopInv
<1>13. PlacesInv'
  BY DEF Assign, Inv, PlacesInv
<1> QED BY <1>9, <1>10, <1>11, <1>12, <1>13 DEF Inv

LEMMA NextInv == Inv /\ [Next]_vars => Inv'
<1> SUFFICES ASSUME Inv, [Next]_vars PROVE Inv'
  OBVIOUS
<1>1. ASSUME NEW i \in DOMAIN Ops, Enter(i) PROVE Inv'
  BY <1>1, EnterInv
<1>2. CASE Loop
  BY <1>2, LoopStepInv
<1>3. CASE Return
  BY <1>3, ReturnInv
<1>4. CASE Assign
  BY <1>4, AssignInv
<1>5. CASE UNCHANGED vars
  <2>1. Ops' = Ops
    BY <1>5 DEF vars, Ops
  <2> QED BY <1>5, <2>1 DEF vars, Inv, ProgInv, VecInv, ResInv, LoopInv, PlacesInv, OperandsReady, Object, Fits, Within, Last, Assigned, AllFit, Sizes
<1> QED BY <1>1, <1>2, <1>3, <1>4, <1>5 DEF Next

\* No loop reads or writes outside the array of a vector, and none outside t
\* unless the program has a vector longer than t, although the size of a result
\* is that of the first call of its operator (vector-dsl.cpp:96, 119, 154): the
\* assertions suffice.
THEOREM LoopsStayInside == Spec => []InBounds
<1>1. Inv => InBounds
  <2> SUFFICES ASSUME Inv PROVE InBounds
    OBVIOUS
  <2>1. \A v \in Vectors : Within(vec[v].data, vec[v].size - 1)
    BY DEF Inv, VecInv, Fits
  <2>2. Within("t", pos - 1)
    BY SizesFit DEF Inv, LoopInv
  <2>3. pos \in Nat /\ n \in Nat
    BY SizesAre DEF Inv, LoopInv
  <2>4. ASSUME pc = "loop",
               NEW a \in {"t", Object(Ops[op].l).data, Object(Ops[op].r).data}
        PROVE  Within(a, pos + n - 1)
    <3>1. /\ op \in DOMAIN Ops /\ OperandsReady(Ops[op])
          /\ pos + n = Object(Ops[op].l).size
          /\ pos + n = Object(Ops[op].r).size
      BY <2>4 DEF Inv, LoopInv
    <3>2. PICK size : size = pos + n
      OBVIOUS
    <3>3. ASSUME NEW p \in {Ops[op].l, Ops[op].r}
          PROVE  size \in Sizes /\ Within(Object(p).data, size - 1)
      <4>1. Object(p).size = size
        BY <3>1, <3>2
      <4>2. Object(p).size \in Sizes /\ Fits(Object(p))
        BY <3>1, ObjectFits
      <4>3. Within(Object(p).data, Object(p).size - 1)
        BY <4>2, Zenon DEF Fits
      <4> QED BY <4>1, <4>2, <4>3, Zenon
    <3>4. size \in Sizes
      BY <3>3
    <3>5. Within("t", size - 1)
      BY <3>4, SizesFit, Zenon
    <3>6. Within(a, size - 1)
      BY <2>4, <3>3, <3>5, Zenon
    <3>7. size - 1 = pos + n - 1
      BY <3>2, <2>3
    <3> QED BY <3>6, <3>7, Zenon
  <2> QED BY <2>1, <2>2, <2>4 DEF InBounds
<1> QED BY <1>1, InitInv, NextInv, PTL DEF Spec

\* The elements of an array that a turn of the loop changes, while all fit in t.
LEMMA LoopWrites ==
  ASSUME Inv, AllFit, Loop
  PROVE  \E vl \in Strip :
            /\ pos' = pos + vl /\ n' = n - vl
            /\ arr' = [a \in DOMAIN arr |-> [x \in DOMAIN arr[a] |->
                          IF a = "t" /\ x \in pos .. pos+vl-1
                          THEN Computed(Ops[op], x) ELSE arr[a][x]]]
<1>1. PICK vl \in Strip :
          /\ pos' = pos + vl /\ n' = n - vl
          /\ arr' = [a \in DOMAIN arr |-> [x \in DOMAIN arr[a] |->
                        IF FromResult(a, x) \in pos .. pos+vl-1
                        THEN Computed(Ops[op], FromResult(a, x)) ELSE arr[a][x]]]
  BY DEF Loop
<1>2. vl \in Nat /\ pos \in Nat /\ n \in Nat /\ pos + vl <= TSize
  <2>1. /\ op \in DOMAIN Ops /\ OperandsReady(Ops[op])
        /\ pos + n = Object(Ops[op].l).size
    BY DEF Loop, Inv, LoopInv
  <2>2. pos + n \in 0 .. TSize /\ pos \in 0 .. TSize /\ n \in Nat
    BY <2>1, ObjectFits DEF Inv, LoopInv, Sizes
  <2> QED BY <2>2 DEF Strip
<1>3. ASSUME NEW a \in DOMAIN arr, NEW x \in DOMAIN arr[a]
      PROVE  FromResult(a, x) \in pos .. pos+vl-1 <=> a = "t" /\ x \in pos .. pos+vl-1
  <2>1. x \in Nat
    BY DEF Inv, PlacesInv
  <2>2. CASE a = "t"
    BY <2>2 DEF FromResult, ResultArray
  <2>3. CASE a # "t"
    <3>1. FromResult(a, x) \in {TSize + x, None}
      BY <2>3 DEF FromResult, ResultArray
    <3>2. TSize + x \notin pos .. pos+vl-1 /\ None \notin pos .. pos+vl-1
      BY <1>2, <2>1
    <3> QED BY <2>3, <3>1, <3>2
  <2> QED BY <2>2, <2>3
<1>4. ASSUME NEW a \in DOMAIN arr, NEW x \in DOMAIN arr[a]
      PROVE  (IF FromResult(a, x) \in pos .. pos+vl-1
              THEN Computed(Ops[op], FromResult(a, x)) ELSE arr[a][x])
           = (IF a = "t" /\ x \in pos .. pos+vl-1 THEN Computed(Ops[op], x) ELSE arr[a][x])
  <2>1. a = "t" => FromResult(a, x) = x
    BY DEF FromResult, ResultArray
  <2> QED BY <1>3, <2>1
<1> DEFINE to == [a \in DOMAIN arr |-> [x \in DOMAIN arr[a] |->
                     IF a = "t" /\ x \in pos .. pos+vl-1 THEN Computed(Ops[op], x) ELSE arr[a][x]]]
<1>5. arr' = to
  BY <1>1, <1>4, Zenon
<1> QED BY <1>1, <1>5

LEMMA LoopLeaves ==
  ASSUME Inv, AllFit, Loop, NEW v \in Vectors
  PROVE  DOMAIN arr'[v] = DOMAIN arr[v] /\ \A x \in DOMAIN arr[v] : arr'[v][x] = arr[v][x]
<1>1. PICK vl \in Strip :
          arr' = [a \in DOMAIN arr |-> [x \in DOMAIN arr[a] |->
                     IF a = "t" /\ x \in pos .. pos+vl-1
                     THEN Computed(Ops[op], x) ELSE arr[a][x]]]
  BY LoopWrites
<1>2. v \in DOMAIN arr /\ v # "t"
  BY DEF Inv, PlacesInv
<1> QED BY <1>1, <1>2

\* No operator changes a vector that was never assigned, in a program whose
\* vectors are no longer than t: results are in t alone (vector-dsl.cpp:95-178).
THEOREM OperandsStay == Spec => OperandsKept
<1> DEFINE Kept == AllFit => \A v \in Vectors \ Assigned(k) : k' = k => Value(v)' = Value(v)
<1>1. Inv /\ [Next]_vars => [Kept]_vars
  <2> SUFFICES ASSUME Inv, Next, AllFit, NEW v \in Vectors \ Assigned(k), k' = k
               PROVE  Value(v)' = Value(v)
    OBVIOUS
  <2>1. vec' = vec /\ vec[v].data = v /\ v # "t"
    BY DEF Inv, VecInv, ProgInv, Next, Enter, Loop, Return, Assign
  <2>2. DOMAIN arr'[v] = DOMAIN arr[v] /\ \A x \in DOMAIN arr[v] : arr'[v][x] = arr[v][x]
    <3>1. CASE Loop
      BY <3>1, LoopLeaves
    <3>2. arr' = arr \/ Loop
      BY DEF Next, Enter, Return, Assign
    <3> QED BY <3>1, <3>2
  <2>3. \A x : Element(v, x)' = Element(v, x)
    BY <2>1, <2>2 DEF Element
  <2> QED BY <2>1, <2>3 DEF Value
<1> QED BY <1>1, InitInv, NextInv, PTL DEF Spec, OperandsKept

-----------------------------------------------------------------------------
\* While every statement so far is a chain and the vectors have one size that
\* fits in t, t
\* holds the value of the last operator, the loop's own part of it apart.

Size == prog.size[prog.stmts[1].to]
T    == [x \in 0 .. Size-1 |-> arr["t"][x]]
LastTo == prog.stmts[k-1].to

Values == LET f[i \in 1 .. Len(Ops)] == Applied(Means, Ops[i], f) IN f

\* What t holds when the loop of operator i begins.
HasOld(i) == k > 1 \/ i > 1
Old(i)    == IF i = 1 THEN Means[LastTo] ELSE Values[i-1]

\* The vectors, and the results that have a size, have one size.
SizeInv == OneSize => /\ \A v \in Vectors : vec[v].size = Size
                      /\ \A f \in Operators : res[f] \in {None, Size}
                      /\ pc # "abort"
                      /\ pc = "loop" => pos + n = Size

\* The arrays keep their places; a vector that was assigned shares t.
ArrInv == /\ arr = [a \in Vectors \union {"t"} |-> arr[a]]
          /\ \A a \in Vectors \union {"t"} : arr[a] = [x \in 0 .. Last(a) |-> arr[a][x]]
          /\ \A v \in Assigned(k) : vec[v].data = "t"

InChains == OneSize /\ Chains

\* A vector that was never assigned means what its array holds.
MeansInv == InChains => /\ DOMAIN Means = Vectors
                        /\ \A v \in Vectors \ Assigned(k) : Means[v] = arr[v]

\* Between statements t holds the vector that was assigned last.
RestInv == InChains /\ k > 1 /\ done = {} /\ pc # "loop" => Means[LastTo] = T

\* Behind the place the loop has reached, t holds the value of the operator;
\* from there on, what it held when the loop began.
LoopAt(i) == /\ op = i
             /\ \A x \in 0 .. pos-1 : arr["t"][x] = Values[i][x]
             /\ HasOld(i) => /\ DOMAIN Old(i) = 0 .. Size-1
                             /\ \A x \in pos .. Size-1 : arr["t"][x] = Old(i)[x]

\* The operators of a chain return in their order.
RunInv == InChains /\ pc \in {"eval", "loop"} /\ Chain(k) =>
              \E m \in 0 .. Len(Ops) :
                  /\ done = 1 .. m
                  /\ pc = "eval" /\ m > 0 => Values[m] = T
                  /\ pc = "loop" => LoopAt(m+1)

CInv == AllFit /\ SizeInv /\ ArrInv /\ MeansInv /\ RestInv /\ RunInv

LEMMA OpsFacts ==
  ASSUME Inv, pc # "end"
  PROVE  /\ DOMAIN Ops = 1 .. Len(Ops) /\ Len(Ops) \in Nat \ {0}
         /\ k \in DOMAIN prog.stmts /\ Ops = prog.stmts[k].ops
         /\ DOMAIN prog.stmts = 1 .. Len(prog.stmts) /\ Len(prog.stmts) \in Nat
         /\ prog.stmts[k].to \in Vectors
<1>1. /\ prog \in Programs /\ prog.stmts \in Seq(Statement)
      /\ k \in DOMAIN prog.stmts /\ Ops = prog.stmts[k].ops
  BY DEF Inv, ProgInv, Ops
<1>2. /\ prog.stmts[k] \in Statement /\ Len(prog.stmts) \in Nat
      /\ DOMAIN prog.stmts = 1 .. Len(prog.stmts)
  BY <1>1, ElementOfSeq, LenProperties
<1>3. prog.stmts[k].to \in Vectors /\ Ops \in Seq(Operation) /\ Ops # <<>>
  BY <1>1, <1>2 DEF Statement
<1>4. DOMAIN Ops = 1 .. Len(Ops) /\ Len(Ops) \in Nat \ {0}
  BY <1>3, EmptySeq, LenProperties
<1> QED BY <1>1, <1>2, <1>3, <1>4

LEMMA ValuesAre ==
  ASSUME Inv, pc # "end"
  PROVE  /\ \A i \in DOMAIN Ops : Values[i] = Applied(Means, Ops[i], Values)
         /\ Meaning(Ops, Means) = Values[Len(Ops)]
<1>1. DOMAIN Ops = 1 .. Len(Ops) /\ Len(Ops) \in Nat
  BY OpsFacts
<1>2. Values = CHOOSE f : Evaluates(Ops, Means, Len(Ops), f)
  BY DEF Values, Evaluates
<1>3. \A i \in 1 .. Len(Ops) : /\ Ops[i].l.node \in Nat /\ Ops[i].l.node < i
                               /\ Ops[i].r.node \in Nat /\ Ops[i].r.node < i
  BY <1>1, OpFacts DEF Inv, Operation, Operand
<1>4. Evaluates(Ops, Means, Len(Ops), Values)
  <2>1. \E f : Evaluates(Ops, Means, Len(Ops), f)
    BY <1>1, <1>3, EvaluatesExists
  <2> QED BY <1>2, <2>1
<1>5. \A i \in DOMAIN Ops : Values[i] = Applied(Means, Ops[i], Values)
  <2>1. EachApplied(Ops, Means, Len(Ops), Values)
    BY <1>4, EvaluatesAt
  <2> QED BY <1>1, <2>1 DEF EachApplied
<1>6. Meaning(Ops, Means) = Values[Len(Ops)]
  BY <1>2, MeaningIs
<1> QED BY <1>5, <1>6

LEMMA SizeFacts ==
  ASSUME Inv, OneSize
  PROVE  /\ Size \in Sizes /\ Size \in Nat
         /\ \A v \in Vectors : prog.size[v] = Size /\ Last(v) = Size - 1
         /\ "t" \notin Vectors /\ Last("t") = TSize - 1
<1>1. /\ prog \in Programs /\ prog.size \in [Vectors -> Sizes] /\ Sizes \subseteq Nat
      /\ prog.stmts \in Seq(Statement) /\ prog.stmts # <<>>
  BY SizesAre DEF Inv, ProgInv
<1>2. 1 \in DOMAIN prog.stmts
  BY <1>1, EmptySeq, LenProperties
<1>3. prog.stmts[1] \in Statement
  BY <1>1, <1>2, ElementOfSeq
<1>4. prog.stmts[1].to \in Vectors
  BY <1>3 DEF Statement
<1> QED BY <1>1, <1>4 DEF OneSize, Size, Last

\* Every operand of an operator that may run has that size.
LEMMA SameObjects ==
  ASSUME Inv, SizeInv, OneSize, NEW i \in DOMAIN Ops, OperandsReady(Ops[i]),
         NEW p \in {Ops[i].l, Ops[i].r}
  PROVE  Object(p).size = Size
<1>1. p.node \in Nat /\ (p.node = 0 => p.vec \in Vectors)
  BY OpFacts DEF Inv, Operation, Operand
<1>2. CASE p.node = 0
  BY <1>1, <1>2 DEF Object, SizeInv
<1>3. CASE p.node # 0
  <2>1. p.node \in done /\ p.node \in DOMAIN Ops
    BY <1>3 DEF OperandsReady, Inv, ProgInv
  <2>2. Ops[p.node].f \in Operators
    BY <2>1, OpFacts DEF Inv, Operation
  <2>3. res[Ops[p.node].f] # None
    BY <2>1 DEF Inv, ResInv
  <2>4. res[Ops[p.node].f] = Size
    BY <2>2, <2>3 DEF SizeInv
  <2> QED BY <1>3, <2>4 DEF Object
<1> QED BY <1>2, <1>3

\* The operands of operator i of a chain.
LEMMA ChainFacts ==
  ASSUME Inv, pc # "end", Chain(k), NEW i \in DOMAIN Ops, NEW p \in {Ops[i].l, Ops[i].r}
  PROVE  /\ p.node = 0 \/ (i > 1 /\ p.node = i-1)
         /\ p.node = 0 => p.vec \in Vectors
         /\ p.node = 0 /\ p.vec \in Assigned(k) => i = 1 /\ k > 1 /\ p.vec = LastTo
         /\ i > 1 => i-1 \in {Ops[i].l.node, Ops[i].r.node}
<1>1. Ops = prog.stmts[k].ops /\ i \in Nat /\ k \in Nat \ {0}
  BY OpFacts DEF Inv, ProgInv
<1>2. p.node \in Nat /\ p.node < i /\ (p.node = 0 => p.vec \in Vectors)
  BY OpFacts DEF Inv, Operation, Operand
<1>3. /\ i > 1 => /\ i-1 \in {Ops[i].l.node, Ops[i].r.node}
                  /\ {Ops[i].l.node, Ops[i].r.node} \subseteq {0, i-1}
      /\ \A v \in VecsOf(Ops[i]) : v \in Assigned(k) => i = 1 /\ v = LastTo
  BY <1>1 DEF Chain, LastTo
<1>4. p.node = 0 => p.vec \in VecsOf(Ops[i])
  BY DEF VecsOf
<1>5. k = 1 => Assigned(k) = {}
  BY DEF Assigned
<1>6. i \in Nat \ {0}
  BY <1>1, <1>2
<1>7. i <= 1 => i = 1 /\ p.node = 0
  BY <1>2, <1>6
<1> QED BY <1>1, <1>2, <1>3, <1>4, <1>5, <1>7

\* The elements that a turn of a loop reads are those of the value of the operand.
LEMMA OperandRight ==
  ASSUME Inv, CInv, InChains, Chain(k), pc = "loop", NEW i \in DOMAIN Ops, LoopAt(i),
         NEW p \in {Ops[i].l, Ops[i].r}
  PROVE  /\ DOMAIN Arg(Means, p, Values) = 0 .. Size-1
         /\ \A x \in pos .. Size-1 :
                Element(Object(p).data, x) = Arg(Means, p, Values)[x]
<1>1. /\ p.node = 0 \/ (i > 1 /\ p.node = i-1)
      /\ p.node = 0 => p.vec \in Vectors
      /\ p.node = 0 /\ p.vec \in Assigned(k) => i = 1 /\ k > 1 /\ p.vec = LastTo
  BY ChainFacts
<1>2. /\ Size \in 0 .. TSize /\ pos \in Nat
      /\ \A v \in Vectors : Last(v) = Size - 1
      /\ Last("t") = TSize - 1
  BY SizeFacts DEF InChains, CInv, Inv, LoopInv, Sizes
<1>3. /\ \A v \in Vectors : arr[v] = [x \in 0 .. Size-1 |-> arr[v][x]]
      /\ arr["t"] = [x \in 0 .. TSize-1 |-> arr["t"][x]]
  BY <1>2 DEF CInv, ArrInv
<1>4. \A x \in pos .. Size-1 : x \in DOMAIN arr["t"] /\ Element("t", x) = arr["t"][x]
  <2>1. DOMAIN arr["t"] = 0 .. TSize-1
    BY <1>3
  <2>2. \A x \in pos .. Size-1 : x \in 0 .. TSize-1
    BY <1>2
  <2> QED BY <2>1, <2>2 DEF Element
<1>5. CASE p.node = 0 /\ p.vec \notin Assigned(k)
  <2>1. Object(p).data = p.vec
    BY <1>1, <1>5 DEF Object, Inv, VecInv
  <2>2. Arg(Means, p, Values) = arr[p.vec]
    BY <1>1, <1>5 DEF Arg, CInv, MeansInv
  <2>3. DOMAIN arr[p.vec] = 0 .. Size-1
    BY <1>1, <1>3, <1>5
  <2>4. \A x \in pos .. Size-1 : x \in DOMAIN arr[p.vec]
    BY <1>2, <2>3
  <2> QED BY <2>1, <2>2, <2>3, <2>4 DEF Element
<1>6. CASE ~ (p.node = 0 /\ p.vec \notin Assigned(k))
  <2>1. HasOld(i) /\ Old(i) = Arg(Means, p, Values)
    BY <1>1, <1>6 DEF HasOld, Old, Arg
  <2>2. Object(p).data = "t"
    BY <1>1, <1>6 DEF Object, CInv, ArrInv
  <2>3. /\ DOMAIN Old(i) = 0 .. Size-1
        /\ \A x \in pos .. Size-1 : arr["t"][x] = Old(i)[x]
    BY <2>1 DEF LoopAt
  <2> QED BY <1>4, <2>1, <2>2, <2>3
<1> QED BY <1>5, <1>6

\* The value of an operator has the elements that its loop computes.
LEMMA ValueOfLoop ==
  ASSUME Inv, CInv, InChains, Chain(k), pc = "loop", NEW i \in DOMAIN Ops, LoopAt(i)
  PROVE  /\ Values[i] = [x \in 0 .. Size-1 |-> Values[i][x]]
         /\ \A x \in pos .. Size-1 : Values[i][x] = Computed(Ops[i], x)
<1> DEFINE o == Ops[i]
           b == Arg(Means, o.l, Values)
           c == Arg(Means, o.r, Values)
<1>1. /\ DOMAIN b = 0 .. Size-1
      /\ \A x \in pos .. Size-1 : Element(Object(o.l).data, x) = b[x]
      /\ \A x \in pos .. Size-1 : Element(Object(o.r).data, x) = c[x]
  BY OperandRight
<1>2. Values[i] = Applied(Means, o, Values)
  BY ValuesAre
<1>3. Applied(Means, o, Values) =
          [x \in DOMAIN b |-> CASE o.f = "scale" -> (o.by * b[x]) % WordMod
                                [] o.f = "mul"   -> (b[x] * c[x]) % WordMod
                                [] o.f = "add"   -> (b[x] + c[x]) % WordMod]
  BY DEF Applied
<1>4. pos \in Nat /\ Size \in Nat
  BY SizeFacts, SizesAre DEF InChains, Inv, LoopInv
<1> HIDE DEF b, c
<1>5. ASSUME NEW x \in pos .. Size-1 PROVE Values[i][x] = Computed(o, x)
  <2>1. x \in DOMAIN b
    BY <1>1, <1>4
  <2>2. /\ Element(Object(o.l).data, x) = b[x]
        /\ RightAt(o, x) = c[x]
    BY <1>1 DEF RightAt
  <2>3. Values[i][x] = CASE o.f = "scale" -> (o.by * b[x]) % WordMod
                         [] o.f = "mul"   -> (b[x] * c[x]) % WordMod
                         [] o.f = "add"   -> (b[x] + c[x]) % WordMod
    BY <1>2, <1>3, <2>1, Zenon
  <2> QED BY <2>2, <2>3, Zenon DEF Computed
<1>6. Values[i] = [x \in 0 .. Size-1 |-> Values[i][x]]
  BY <1>1, <1>2, <1>3
<1> QED BY <1>5, <1>6

-----------------------------------------------------------------------------
LEMMA InitChains == Init => SizeInv /\ (AllFit => CInv)
<1> SUFFICES ASSUME Init PROVE SizeInv /\ (AllFit => CInv)
  OBVIOUS
<1>1. Inv
  BY InitInv
<1>2. /\ prog \in Programs /\ prog.size \in [Vectors -> Nat]
      /\ k = 1 /\ done = {} /\ pc = "eval" /\ "t" \notin Vectors
      /\ vec = [v \in Vectors |-> [data |-> v, size |-> prog.size[v]]]
      /\ res = [f \in Operators |-> None]
  BY DEF Init
<1>3. PICK e \in Elements : arr = [a \in Vectors \union {"t"} |->
                                      IF a = "t" THEN [i \in 0 .. TSize-1 |-> i]
                                      ELSE [i \in 0 .. prog.size[a]-1 |-> e[a][i]]]
  BY DEF Init
<1>4. SizeInv
  BY <1>1, <1>2, SizeFacts DEF SizeInv
<1>5. Assigned(k) = {}
  BY <1>2 DEF Assigned
<1>6. ArrInv
  <2>1. arr = [a \in Vectors \union {"t"} |-> arr[a]]
    BY <1>3
  <2>2. arr["t"] = [x \in 0 .. Last("t") |-> arr["t"][x]]
    BY <1>3 DEF Last
  <2>3. ASSUME NEW a \in Vectors PROVE arr[a] = [x \in 0 .. Last(a) |-> arr[a][x]]
    BY <1>2, <1>3 DEF Last
  <2> QED BY <1>5, <2>1, <2>2, <2>3 DEF ArrInv
<1>7. MeansInv
  <2>1. Means = Begin
    BY <1>2, MeansAtFirst
  <2> QED BY <2>1 DEF MeansInv, Begin
<1>8. RestInv
  BY <1>2 DEF RestInv
<1>9. RunInv
  <2>1. Len(Ops) \in Nat
    BY <1>1, <1>2, OpsFacts
  <2>2. 0 \in 0 .. Len(Ops) /\ done = 1 .. 0
    BY <1>2, <2>1
  <2>3. pc # "loop" /\ ~ (0 > 0)
    BY <1>2
  <2> QED BY <2>2, <2>3 DEF RunInv
<1> QED BY <1>4, <1>6, <1>7, <1>8, <1>9 DEF CInv

\* No step gives a static object another size.
LEMMA SizeStep ==
  ASSUME Inv, SizeInv, [Next]_vars
  PROVE  SizeInv'
<1> SUFFICES ASSUME OneSize' PROVE SizeInv'
  BY DEF SizeInv
<1>1. prog' = prog /\ OneSize /\ Size' = Size
  BY DEF Next, Enter, Loop, Return, Assign, vars, OneSize, Size
<1>2. /\ \A v \in Vectors : vec[v].size = Size
      /\ \A f \in Operators : res[f] \in {None, Size}
      /\ pc # "abort"
      /\ pc = "loop" => pos + n = Size
  BY <1>1 DEF SizeInv
<1>3. Size \in Nat /\ res \in [Operators -> {None} \union Sizes]
  BY <1>1, SizeFacts DEF Inv, ResInv
<1>4. ASSUME NEW i \in DOMAIN Ops, Enter(i) PROVE SizeInv'
  <2> DEFINE o == Ops[i]
  <2>1. OperandsReady(o) /\ o.f \in Operators
    BY <1>4, OpFacts DEF Enter, Ready, OperandsReady, Inv, Operation
  <2>2. Object(o.l).size = Size /\ Object(o.r).size = Size
    BY <1>1, <2>1, SameObjects
  <2>3. /\ res' = [res EXCEPT ![o.f] = IF @ = None THEN Size ELSE @]
        /\ pos' = 0 /\ n' = Size /\ vec' = vec
        /\ pc' = "loop"
    BY <1>4, <2>2 DEF Enter, SameSize
  <2>4. \A f \in Operators : res'[f] \in {None, Size}
    BY <1>2, <1>3, <2>1, <2>3
  <2> QED BY <1>1, <1>2, <1>3, <2>3, <2>4 DEF SizeInv
<1>5. CASE Loop
  <2>1. n \in Nat /\ pos \in Nat
    BY SizesAre DEF Inv, LoopInv
  <2>2. pos' + n' = pos + n
    BY <1>5, <2>1 DEF Loop, Strip
  <2> QED BY <1>1, <1>2, <1>5, <2>2 DEF SizeInv, Loop
<1>6. CASE Return
  BY <1>1, <1>2, <1>6 DEF SizeInv, Return
<1>7. CASE Assign
  <2> DEFINE to == prog.stmts[k].to
  <2>1. /\ pc = "eval" /\ done = DOMAIN Ops
        /\ vec' = [vec EXCEPT ![to] = Object(N(Len(Ops)))]
        /\ pc' \in {"end", "eval"} /\ res' = res
    BY <1>7 DEF Assign
  <2>2. to \in Vectors /\ Len(Ops) \in DOMAIN Ops /\ Len(Ops) # 0
    BY <2>1, OpsFacts
  <2>3. Object(N(Len(Ops))) = [data |-> "t", size |-> res[Ops[Len(Ops)].f]]
    BY <2>2 DEF Object, N
  <2>4. Ops[Len(Ops)].f \in Operators /\ res[Ops[Len(Ops)].f] # None
    BY <2>1, <2>2, OpFacts DEF Inv, ResInv, Operation
  <2>5. Object(N(Len(Ops))).size = Size
    BY <1>2, <2>3, <2>4
  <2>6. vec \in [Vectors -> [data : Vectors \union {"t"}, size : Nat]]
    BY DEF Inv, VecInv
  <2> QED BY <1>1, <1>2, <2>1, <2>2, <2>5, <2>6 DEF SizeInv
<1>8. CASE UNCHANGED vars
  BY <1>1, <1>2, <1>8 DEF SizeInv, vars
<1> QED BY <1>4, <1>5, <1>6, <1>7, <1>8 DEF Next

\* What does not change as long as the statement is the same.
LEMMA Unmoved ==
  ASSUME Inv, CInv, prog' = prog, k' = k, vec' = vec, pc # "end", pc' # "end",
         \A v \in Vectors : arr'[v] = arr[v]
  PROVE  /\ Size' = Size /\ OneSize' = OneSize /\ Chains' = Chains /\ InChains' = InChains
         /\ Chain(k)' = Chain(k)
         /\ Ops' = Ops /\ Means' = Means /\ Values' = Values
         /\ LastTo' = LastTo /\ MeansInv'
         /\ \A i : Old(i)' = Old(i) /\ HasOld(i)' = HasOld(i)
<1>1. /\ Size' = Size /\ OneSize' = OneSize /\ Ops' = Ops /\ LastTo' = LastTo
      /\ Begin' = Begin /\ Assigned(k)' = Assigned(k)
  BY DEF Size, OneSize, Ops, LastTo, Begin, Assigned
<1>2. \A j : Chain(j)' = Chain(j)
  BY DEF Chain, Assigned
<1>3. Chains' = Chains /\ InChains' = InChains /\ Chain(k)' = Chain(k)
  BY <1>1, <1>2 DEF Chains, InChains, Chain, Assigned
<1>4. Means' = Means
  BY <1>1 DEF Means
<1>5. Values' = Values
  BY <1>1, <1>4 DEF Values
<1>6. \A i : Old(i)' = Old(i) /\ HasOld(i)' = HasOld(i)
  BY <1>1, <1>4, <1>5 DEF Old, HasOld
<1>7. MeansInv'
  BY <1>1, <1>3, <1>4 DEF CInv, MeansInv
<1> QED BY <1>1, <1>3, <1>4, <1>5, <1>6, <1>7

LEMMA AssignedVectors ==
  ASSUME Inv
  PROVE  Assigned(k) \subseteq Vectors
<1>1. /\ prog \in Programs /\ prog.stmts \in Seq(Statement)
      /\ k \in Nat \ {0} /\ k <= Len(prog.stmts) + 1
  BY DEF Inv, ProgInv
<1>2. Len(prog.stmts) \in Nat /\ \A i \in 1 .. k-1 : i \in 1 .. Len(prog.stmts)
  BY <1>1, LenProperties
<1>3. \A i \in 1 .. k-1 : prog.stmts[i] \in Statement
  BY <1>1, <1>2, ElementOfSeq
<1> QED BY <1>3 DEF Assigned, Statement

LEMMA ArrKept ==
  ASSUME ArrInv, prog' = prog, k' = k, vec' = vec, arr' = arr
  PROVE  ArrInv'
<1>1. Assigned(k)' = Assigned(k)
  BY DEF Assigned
<1>2. \A a : Last(a)' = Last(a)
  BY DEF Last
<1>3. \A a \in Vectors \union {"t"} : arr[a] = [x \in 0 .. Last(a)' |-> arr[a][x]]
  BY <1>2 DEF ArrInv
<1> QED BY <1>1, <1>3 DEF ArrInv

\* The operator that is entered is the next of the chain.
LEMMA EnterChains ==
  ASSUME Inv, CInv, NEW i \in DOMAIN Ops, Enter(i)
  PROVE  CInv'
<1> DEFINE o == Ops[i]
<1>1. /\ pc = "eval" /\ i \in DOMAIN Ops \ done /\ OperandsReady(o)
      /\ res' = [res EXCEPT ![o.f] = IF @ = None THEN Object(o.l).size ELSE @]
      /\ op' = i /\ pos' = 0 /\ n' = Object(o.l).size
      /\ pc' = IF SameSize(o) THEN "loop" ELSE "abort"
      /\ UNCHANGED <<prog, k, done, arr, vec>>
  BY DEF Enter, Ready, OperandsReady
<1>2. /\ Size' = Size /\ OneSize' = OneSize /\ InChains' = InChains
      /\ Chain(k)' = Chain(k)
      /\ Ops' = Ops /\ Means' = Means /\ Values' = Values
      /\ LastTo' = LastTo /\ MeansInv'
      /\ \A j : Old(j)' = Old(j) /\ HasOld(j)' = HasOld(j)
  BY <1>1, Unmoved
<1>3. OneSize => Object(o.l).size = Size /\ Object(o.r).size = Size /\ Size \in Nat
  BY <1>1, SameObjects, SizeFacts DEF CInv
<1>4. SizeInv'
  BY SizeStep DEF CInv, Next
<1>5. ArrInv'
  BY <1>1, ArrKept DEF CInv
<1>6. RestInv'
  <2>1. InChains => pc' = "loop"
    BY <1>1, <1>3 DEF SameSize, InChains
  <2> QED BY <1>2, <2>1 DEF RestInv
<1>7. RunInv'
  <2> SUFFICES ASSUME InChains, Chain(k), pc' = "loop"
               PROVE  \E m \in 0 .. Len(Ops) : done = 1 .. m /\ LoopAt(m+1)'
    BY <1>1, <1>2 DEF RunInv
  <2>1. PICK m \in 0 .. Len(Ops) : done = 1 .. m /\ (m > 0 => Values[m] = T)
    BY <1>1 DEF CInv, RunInv
  <2>2. Len(Ops) \in Nat /\ DOMAIN Ops = 1 .. Len(Ops)
    BY <1>1, OpsFacts
  <2>3. i = m + 1
    <3>1. i \in Nat /\ i > m
      BY <1>1, <2>1, <2>2
    <3>2. i > 1 => i-1 \in {o.l.node, o.r.node}
      BY <1>1, ChainFacts
    <3>3. i > 1 => i-1 \in 1 .. m
      BY <1>1, <2>1, <3>1, <3>2 DEF OperandsReady
    <3> QED BY <2>1, <3>1, <3>3
  <2>4. HasOld(i) => Old(i) = T
    <3>1. CASE i > 1
      BY <2>1, <2>3, <3>1 DEF Old
    <3>2. CASE i = 1
      <4>1. m = 0 /\ done = {}
        BY <2>1, <2>2, <2>3, <3>2
      <4>2. k > 1 => Means[LastTo] = T
        BY <1>1, <4>1 DEF CInv, RestInv
      <4> QED BY <3>2, <4>2 DEF Old, HasOld
    <3> QED BY <2>1, <2>2, <2>3, <3>1, <3>2
  <2>5. LoopAt(i)'
    <3>1. op' = i
      BY <1>1
    <3>2. \A x \in 0 .. pos'-1 : arr'["t"][x] = Values[i][x]
      BY <1>1
    <3>3. HasOld(i) => /\ DOMAIN Old(i) = 0 .. Size-1
                       /\ \A x \in pos' .. Size-1 : arr'["t"][x] = Old(i)[x]
      BY <1>1, <2>4 DEF T
    <3> QED BY <1>2, <3>1, <3>2, <3>3 DEF LoopAt
  <2> QED BY <2>1, <2>3, <2>5
<1>8. AllFit'
  BY <1>1 DEF CInv, AllFit
<1> QED BY <1>2, <1>4, <1>5, <1>6, <1>7, <1>8 DEF CInv

\* A turn of the loop overwrites what it has read.
LEMMA LoopChains ==
  ASSUME Inv, CInv, Loop
  PROVE  CInv'
<1>1. PICK vl \in Strip :
          /\ pos' = pos + vl /\ n' = n - vl
          /\ arr' = [a \in DOMAIN arr |-> [x \in DOMAIN arr[a] |->
                        IF a = "t" /\ x \in pos .. pos+vl-1
                        THEN Computed(Ops[op], x) ELSE arr[a][x]]]
  BY LoopWrites DEF CInv
<1>2. /\ pc = "loop" /\ pc' = pc
      /\ UNCHANGED <<prog, k, done, vec, res, op>>
  BY DEF Loop
<1>3. /\ vl \in Nat /\ vl >= 1 /\ vl <= n /\ pos \in Nat /\ n \in Nat /\ "t" \notin Vectors
  BY SizesAre DEF Strip, Inv, LoopInv
<1>4. ASSUME NEW v \in Vectors PROVE arr'[v] = arr[v]
  <2>1. arr[v] = [x \in 0 .. Last(v) |-> arr[v][x]]
    BY DEF CInv, ArrInv
  <2>2. DOMAIN arr[v] = 0 .. Last(v)
    BY <2>1
  <2>3. arr'[v] = [x \in 0 .. Last(v) |-> arr[v][x]]
    BY <1>1, <1>3, <2>2 DEF Inv, PlacesInv
  <2> QED BY <2>1, <2>3
<1>5. /\ Size' = Size /\ OneSize' = OneSize /\ InChains' = InChains
      /\ Chain(k)' = Chain(k)
      /\ Ops' = Ops /\ Means' = Means /\ Values' = Values
      /\ LastTo' = LastTo /\ MeansInv'
      /\ \A j : Old(j)' = Old(j) /\ HasOld(j)' = HasOld(j)
  BY <1>2, <1>4, Unmoved
<1>6. SizeInv'
  BY SizeStep DEF CInv, Next
<1>7. arr["t"] = [x \in 0 .. TSize-1 |-> arr["t"][x]]
  BY DEF CInv, ArrInv, Last
<1>8. arr'["t"] = [x \in 0 .. TSize-1 |-> IF x \in pos .. pos+vl-1
                                          THEN Computed(Ops[op], x) ELSE arr["t"][x]]
  <2>1. "t" \in DOMAIN arr /\ DOMAIN arr["t"] = 0 .. TSize-1
    BY <1>7 DEF CInv, ArrInv
  <2> QED BY <1>1, <2>1
<1>9. ArrInv'
  <2>1. arr' = [a \in Vectors \union {"t"} |-> arr'[a]]
    BY <1>1 DEF CInv, ArrInv
  <2>2. arr'["t"] = [x \in 0 .. Last("t") |-> arr'["t"][x]]
    BY <1>8 DEF Last
  <2>3. \A a \in Vectors : arr'[a] = [x \in 0 .. Last(a) |-> arr'[a][x]]
    BY <1>4 DEF CInv, ArrInv
  <2>4. \A a : Last(a)' = Last(a)
    BY <1>2 DEF Last
  <2>5. \A v \in Assigned(k)' : vec'[v].data = "t"
    BY <1>2 DEF CInv, ArrInv, Assigned
  <2>6. \A a \in Vectors \union {"t"} : arr'[a] = [x \in 0 .. Last(a)' |-> arr'[a][x]]
    BY <2>2, <2>3, <2>4
  <2> QED BY <2>1, <2>5, <2>6 DEF ArrInv
<1>10. RestInv'
  BY <1>2 DEF RestInv
<1>11. RunInv'
  <2> SUFFICES ASSUME InChains, Chain(k)
               PROVE  \E m \in 0 .. Len(Ops) : done = 1 .. m /\ LoopAt(m+1)'
    BY <1>2, <1>5 DEF RunInv
  <2>1. PICK m \in 0 .. Len(Ops) : done = 1 .. m /\ LoopAt(m+1)
    BY <1>2 DEF CInv, RunInv
  <2>2. op = m+1 /\ op \in DOMAIN Ops /\ LoopAt(op)
    BY <1>2, <2>1 DEF LoopAt, Inv, LoopInv
  <2>3. \A x \in pos .. Size-1 : Values[op][x] = Computed(Ops[op], x)
    BY <1>2, <2>2, ValueOfLoop
  <2>4. pos + n = Size /\ Size \in 0 .. TSize
    BY <1>2, SizeFacts DEF CInv, SizeInv, InChains, Sizes
  <2>5. ASSUME NEW x \in 0 .. pos'-1 PROVE arr'["t"][x] = Values[op][x]
    <3>1. x \in 0 .. TSize-1
      BY <1>1, <1>3, <2>4
    <3>2. CASE x < pos
      <4>1. arr'["t"][x] = arr["t"][x]
        BY <1>8, <3>1, <3>2, <1>3
      <4>2. x \in 0 .. pos-1
        BY <3>1, <3>2, <1>3
      <4> QED BY <2>2, <4>1, <4>2 DEF LoopAt
    <3>3. CASE ~ (x < pos)
      <4>1. x \in pos .. pos+vl-1 /\ x \in pos .. Size-1
        BY <1>1, <1>3, <2>4, <3>3
      <4>2. arr'["t"][x] = Computed(Ops[op], x)
        BY <1>8, <3>1, <4>1
      <4> QED BY <2>3, <4>1, <4>2
    <3> QED BY <3>2, <3>3
  <2>6. ASSUME HasOld(op)
        PROVE  /\ DOMAIN Old(op) = 0 .. Size-1
               /\ \A x \in pos' .. Size-1 : arr'["t"][x] = Old(op)[x]
    <3>1. /\ DOMAIN Old(op) = 0 .. Size-1
          /\ \A x \in pos .. Size-1 : arr["t"][x] = Old(op)[x]
      BY <2>2, <2>6 DEF LoopAt
    <3>2. ASSUME NEW x \in pos' .. Size-1 PROVE arr'["t"][x] = arr["t"][x] /\ x \in pos .. Size-1
      <4>1. x \in 0 .. TSize-1 /\ x \notin pos .. pos+vl-1 /\ x \in pos .. Size-1
        BY <1>1, <1>3, <2>4
      <4> QED BY <1>8, <4>1
    <3> QED BY <3>1, <3>2
  <2>7. LoopAt(m+1)'
    <3>1. op' = m+1
      BY <1>2, <2>2
    <3>2. \A x \in 0 .. pos'-1 : arr'["t"][x] = Values[m+1][x]
      BY <2>2, <2>5
    <3>3. HasOld(m+1) => /\ DOMAIN Old(m+1) = 0 .. Size-1
                         /\ \A x \in pos' .. Size-1 : arr'["t"][x] = Old(m+1)[x]
      BY <2>2, <2>6
    <3> QED BY <1>5, <3>1, <3>2, <3>3 DEF LoopAt
  <2> QED BY <2>1, <2>7
<1>12. AllFit'
  BY <1>2 DEF CInv, AllFit
<1> QED BY <1>5, <1>6, <1>9, <1>10, <1>11, <1>12 DEF CInv

\* A loop that is over has put the whole value into t.
LEMMA ReturnChains ==
  ASSUME Inv, CInv, Return
  PROVE  CInv'
<1>1. /\ pc = "loop" /\ n <= 0 /\ pc' = "eval" /\ done' = done \union {op}
      /\ UNCHANGED <<prog, k, arr, vec, res, op, pos, n>>
  BY DEF Return
<1>2. /\ Size' = Size /\ OneSize' = OneSize /\ InChains' = InChains
      /\ Chain(k)' = Chain(k)
      /\ Ops' = Ops /\ Means' = Means /\ Values' = Values /\ MeansInv'
  BY <1>1, Unmoved
<1>3. T' = T
  BY <1>1, <1>2 DEF T
<1>4. SizeInv'
  BY SizeStep DEF CInv, Next
<1>5. ArrInv'
  BY <1>1, ArrKept DEF CInv
<1>6. RestInv'
  BY <1>1 DEF RestInv
<1>7. RunInv'
  <2> SUFFICES ASSUME InChains, Chain(k)
               PROVE  \E m \in 0 .. Len(Ops) : done' = 1 .. m /\ (m > 0 => Values[m] = T)
    BY <1>1, <1>2, <1>3 DEF RunInv
  <2>1. PICK m \in 0 .. Len(Ops) : done = 1 .. m /\ LoopAt(m+1)
    BY <1>1 DEF CInv, RunInv
  <2>2. op = m+1 /\ op \in DOMAIN Ops /\ LoopAt(op)
    BY <1>1, <2>1 DEF LoopAt, Inv, LoopInv
  <2>3. Values[op] = [x \in 0 .. Size-1 |-> Values[op][x]]
    BY <1>1, <2>2, ValueOfLoop
  <2>4. pos = Size /\ Size \in Nat
    BY <1>1, SizeFacts, SizesAre DEF CInv, SizeInv, InChains, Inv, LoopInv
  <2>5. \A x \in 0 .. Size-1 : arr["t"][x] = Values[op][x]
    BY <2>2, <2>4 DEF LoopAt
  <2>6. Values[op] = T
    BY <2>3, <2>5 DEF T
  <2>7. done' = 1 .. op /\ op \in 0 .. Len(Ops)
    <3>1. DOMAIN Ops = 1 .. Len(Ops) /\ Len(Ops) \in Nat
      BY <1>1, OpsFacts
    <3> QED BY <1>1, <2>1, <2>2, <3>1
  <2> QED BY <2>6, <2>7
<1>8. AllFit'
  BY <1>1 DEF CInv, AllFit
<1> QED BY <1>2, <1>4, <1>5, <1>6, <1>7, <1>8 DEF CInv

\* The vector that is assigned has what t holds.
LEMMA AssignChains ==
  ASSUME Inv, CInv, Assign
  PROVE  CInv'
<1> DEFINE to == prog.stmts[k].to
<1>1. /\ pc = "eval" /\ done = DOMAIN Ops /\ done' = {} /\ k' = k + 1
      /\ vec' = [vec EXCEPT ![to] = Object(N(Len(Ops)))]
      /\ pc' \in {"end", "eval"}
      /\ prog' = prog /\ res' = res /\ arr' = arr
  BY DEF Assign
<1>2. /\ DOMAIN Ops = 1 .. Len(Ops) /\ Len(Ops) \in Nat \ {0}
      /\ Ops = prog.stmts[k].ops /\ to \in Vectors /\ k \in Nat \ {0}
  BY <1>1, OpsFacts DEF Inv, ProgInv
<1>3. Object(N(Len(Ops))) = [data |-> "t", size |-> res[Ops[Len(Ops)].f]]
  BY <1>2 DEF Object, N
<1>4. Size' = Size /\ OneSize' = OneSize /\ T' = T /\ LastTo' = to
  <2>1. k' - 1 = k
    BY <1>1, <1>2
  <2>2. Size' = Size /\ OneSize' = OneSize
    BY <1>1 DEF Size, OneSize
  <2>3. LastTo' = to
    BY <1>1, <2>1 DEF LastTo
  <2> QED BY <1>1, <2>2, <2>3 DEF T
<1>5. Chains' => Chains /\ Chain(k)
  <2>1. \A j : Chain(j)' = Chain(j)
    BY <1>1 DEF Chain, Assigned
  <2>2. k \in 1 .. k'-1 /\ \A j \in 1 .. k-1 : j \in 1 .. k'-1
    BY <1>1, <1>2
  <2> QED BY <2>1, <2>2 DEF Chains
<1>6. Assigned(k)' = Assigned(k) \union {to}
  <2>1. 1 .. k'-1 = (1 .. k-1) \union {k}
    BY <1>1, <1>2
  <2> QED BY <1>1, <2>1 DEF Assigned
<1>7. Means' = [Means EXCEPT ![to] = Values[Len(Ops)]]
  <2>1. Begin' = Begin
    BY <1>1 DEF Begin
  <2>2. Means' = After(prog.stmts[k], Means)
    BY <1>1, <1>2, <2>1, MeansNext
  <2>3. Meaning(prog.stmts[k].ops, Means) = Values[Len(Ops)]
    BY <1>1, <1>2, ValuesAre
  <2> QED BY <2>2, <2>3 DEF After
<1>8. SizeInv'
  BY SizeStep DEF CInv, Next
<1>9. ArrInv'
  <2>1. vec \in [Vectors -> [data : Vectors \union {"t"}, size : Nat]]
    BY DEF Inv, VecInv
  <2>2. \A v \in Assigned(k)' : v \in Vectors => vec'[v].data = "t"
    BY <1>1, <1>2, <1>3, <1>6, <2>1 DEF CInv, ArrInv
  <2>3. Assigned(k)' \subseteq Vectors
    BY <1>1, <1>2, <1>6, AssignedVectors
  <2>4. \A a : Last(a)' = Last(a)
    BY <1>1 DEF Last
  <2> QED BY <1>1, <2>2, <2>3, <2>4 DEF CInv, ArrInv
<1>10. MeansInv'
  BY <1>1, <1>2, <1>4, <1>5, <1>6, <1>7 DEF CInv, MeansInv, InChains
<1>11. RestInv'
  <2> SUFFICES ASSUME InChains' PROVE Means'[to] = T
    BY <1>4 DEF RestInv
  <2>1. InChains /\ Chain(k)
    BY <1>4, <1>5 DEF InChains
  <2>2. PICK m \in 0 .. Len(Ops) : done = 1 .. m /\ (m > 0 => Values[m] = T)
    BY <1>1, <2>1 DEF CInv, RunInv
  <2>3. m = Len(Ops)
    BY <1>1, <1>2, <2>2
  <2>4. DOMAIN Means = Vectors
    BY <2>1 DEF CInv, MeansInv
  <2> QED BY <1>2, <1>7, <2>2, <2>3, <2>4
<1>12. RunInv'
  <2>1. CASE pc' = "end"
    BY <2>1 DEF RunInv
  <2>2. CASE pc' = "eval"
    <3>1. /\ prog.stmts \in Seq(Statement) /\ Len(prog.stmts) \in Nat
          /\ k+1 \in 1 .. Len(prog.stmts)
      BY <1>1, <2>2, OpsFacts DEF Assign, Inv, ProgInv
    <3>2. Len(Ops)' \in Nat
      <4>1. prog.stmts[k+1] \in Statement
        BY <3>1, ElementOfSeq
      <4>2. Ops' = prog.stmts[k+1].ops
        BY <1>1, <2>2 DEF Ops
      <4> QED BY <4>1, <4>2, LenProperties DEF Statement
    <3>3. 0 \in 0 .. Len(Ops)' /\ done' = 1 .. 0
      BY <1>1, <3>2
    <3>4. pc' # "loop" /\ ~ (0 > 0)
      BY <2>2
    <3> QED BY <3>3, <3>4 DEF RunInv
  <2> QED BY <1>1, <2>1, <2>2
<1>13. AllFit'
  BY <1>1 DEF CInv, AllFit
<1> QED BY <1>8, <1>9, <1>10, <1>11, <1>12, <1>13 DEF CInv

LEMMA NextChains == Inv /\ CInv /\ [Next]_vars => CInv'
<1> SUFFICES ASSUME Inv, CInv, [Next]_vars PROVE CInv'
  OBVIOUS
<1>1. ASSUME NEW i \in DOMAIN Ops, Enter(i) PROVE CInv'
  BY <1>1, EnterChains
<1>2. CASE Loop
  BY <1>2, LoopChains
<1>3. CASE Return
  BY <1>3, ReturnChains
<1>4. CASE Assign
  BY <1>4, AssignChains
<1>5. CASE UNCHANGED vars
  <2> USE <1>5 DEF vars
  <2>1. /\ Size' = Size /\ OneSize' = OneSize /\ Ops' = Ops /\ LastTo' = LastTo
        /\ Begin' = Begin /\ Assigned(k)' = Assigned(k) /\ Chain(k)' = Chain(k)
    BY DEF Size, OneSize, Ops, LastTo, Begin, Assigned, Chain
  <2>2. InChains' = InChains
    BY <2>1 DEF InChains, Chains, Chain, Assigned
  <2>3. Means' = Means
    BY <2>1 DEF Means
  <2>4. Values' = Values /\ T' = T
    BY <2>1, <2>3 DEF Values, T
  <2>5. \A i : LoopAt(i)' = LoopAt(i)
    BY <2>1, <2>3, <2>4 DEF LoopAt, HasOld, Old
  <2>6. SizeInv'
    BY <2>1 DEF CInv, SizeInv
  <2>7. ArrInv'
    BY ArrKept DEF CInv
  <2>8. MeansInv' /\ RestInv'
    BY <2>1, <2>2, <2>3, <2>4 DEF CInv, MeansInv, RestInv
  <2>9. RunInv'
    BY <2>1, <2>2, <2>4, <2>5 DEF CInv, RunInv
  <2>10. AllFit'
    BY DEF CInv, AllFit
  <2> QED BY <2>6, <2>7, <2>8, <2>9, <2>10 DEF CInv
<1> QED BY <1>1, <1>2, <1>3, <1>4, <1>5 DEF Next

\* After chains of operators the vector that was assigned has the value its
\* expression means, for every program of vectors of one size that is no larger
\* than t and whatever vsetvl grants (vector-dsl.cpp:95-189); and no assertion
\* fails, however large that size is.
THEOREM ChainsMean == Spec => []ChainsRight
<1>1. Inv /\ SizeInv /\ (AllFit => CInv) => ChainsRight
  <2> SUFFICES ASSUME Inv, SizeInv, AllFit => CInv, OneSize
               PROVE  /\ pc # "abort"
                      /\ AllFit /\ done = {} /\ pc # "loop" /\ k > 1 /\ Chains
                             => Value(LastTo) = Means[LastTo]
    BY DEF ChainsRight, LastTo
  <2>1. pc # "abort"
    BY DEF SizeInv
  <2>2. ASSUME CInv, done = {}, pc # "loop", k > 1, Chains
        PROVE  Value(LastTo) = Means[LastTo]
    <3>1. Means[LastTo] = T
      BY <2>2 DEF CInv, RestInv, InChains
    <3>2. LastTo \in Assigned(k) /\ LastTo \in Vectors
      BY <2>2, AssignedVectors DEF Assigned, LastTo, Inv, ProgInv
    <3>3. vec[LastTo].data = "t" /\ vec[LastTo].size = Size
      BY <2>2, <3>2 DEF CInv, ArrInv, SizeInv
    <3>4. arr["t"] = [x \in 0 .. TSize-1 |-> arr["t"][x]] /\ Size \in 0 .. TSize
      BY <2>2, SizeFacts DEF CInv, ArrInv, Last, Sizes
    <3>5. \A x \in 0 .. Size-1 : Element("t", x) = arr["t"][x]
      BY <3>4 DEF Element
    <3> QED BY <3>1, <3>3, <3>5 DEF Value, T
  <2> QED BY <2>1, <2>2
<1> DEFINE J == Inv /\ SizeInv /\ (AllFit => CInv)
<1>2. Init => J
  BY InitInv, InitChains
<1>3. J /\ [Next]_vars => J'
  <2> SUFFICES ASSUME J, [Next]_vars PROVE J'
    OBVIOUS
  <2>1. AllFit' = AllFit
    BY DEF Next, Enter, Loop, Return, Assign, vars, AllFit
  <2> QED BY <2>1, NextInv, SizeStep, NextChains
<1>4. J => ChainsRight
  BY <1>1
<1> QED BY <1>2, <1>3, <1>4, PTL DEF Spec
=============================================================================
