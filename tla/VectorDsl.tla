----------------------------- MODULE VectorDsl -----------------------------
(***************************************************************************)
(* The vectors of exlbt/clang-tools/vector-dsl.cpp: a program of           *)
(* assignments whose right sides are made of *, + and a scalar *.  The     *)
(* result of every operator lies in one global array t; the object that    *)
(* refers to it is static, one for each operator, and keeps the size of    *)
(* the operator's first call.  An assignment copies the object, not the    *)
(* elements.                                                               *)
(***************************************************************************)
EXTENDS Integers, Sequences

CONSTANTS Programs,   \* the programs: sizes of the vectors, and statements
          Elements,   \* the contents the vectors may begin with
          Vectors,    \* their names; each begins with an array of its own
          TSize,      \* array_size(t)
          Behind,     \* the vector whose array lies directly behind t
          VlMax,      \* the most elements one vector instruction takes
          WordMod     \* uint32_t is a number below it

Operators == {"scale", "mul", "add"}
None == -1            \* the static object of an operator not yet called

\* The operands of an operator: vectors, or results of operators before it in
\* the same expression.  The last operator of a statement gives its value.
V(v) == [node |-> 0, vec |-> v]
N(i) == [node |-> i, vec |-> ""]
Stmt(to, ops) == [to |-> to, ops |-> ops]
Scale(l, by) == [f |-> "scale", l |-> l, r |-> l, by |-> by]
Op(f, l, r) == [f |-> f, l |-> l, r |-> r, by |-> 0]

Operand   == [node : Nat, vec : Vectors \union {""}]
Operation == [f : Operators, l : Operand, r : Operand, by : Nat]
Statement == [to : Vectors, ops : Seq(Operation) \ {<<>>}]

VecsOf(o) == {p.vec : p \in {q \in {o.l, o.r} : q.node = 0}}

\* An expression reads vectors and the results before it; a scalar * has one
\* operand.  Nothing compares the size of a vector with that of t.
ASSUME DslAssumption ==
    /\ TSize \in Nat /\ VlMax \in Nat \ {0} /\ WordMod \in Nat \ {0}
    /\ "t" \notin Vectors /\ Behind \in Vectors
    /\ \A p \in Programs :
           /\ p.size \in [Vectors -> Nat]
           /\ p.stmts \in Seq(Statement) /\ p.stmts # <<>>
           /\ \A j \in DOMAIN p.stmts : \A i \in DOMAIN p.stmts[j].ops :
                  LET o == p.stmts[j].ops[i]
                  IN /\ o.l.node < i /\ o.r.node < i
                     /\ VecsOf(o) \subseteq Vectors
                     /\ o.f = "scale" => o.r = o.l

VARIABLES prog,
          k,       \* the statement that is executed
          done,    \* the operators of it that have returned
          arr,     \* the elements of every array
          vec,     \* the array and the size of every vector
          res,     \* the size of each static result
          pc,      \* "eval", "loop" in an operator, "end" or "abort"
          op,      \* the operator whose loop runs,
          pos,     \* the place it has reached
          n        \* and the number of elements that are left

vars == <<prog, k, done, arr, vec, res, pc, op, pos, n>>

Ops == IF pc = "end" THEN <<>> ELSE prog.stmts[k].ops

\* The object an operand refers to.
Object(p) == IF p.node = 0 THEN vec[p.vec]
             ELSE [data |-> "t", size |-> res[Ops[p.node].f]]

-----------------------------------------------------------------------------
Init == /\ prog \in Programs
        /\ k = 1
        /\ done = {}
        /\ \E e \in Elements :
               arr = [a \in Vectors \union {"t"} |->
                         IF a = "t" THEN [i \in 0 .. TSize-1 |-> i]
                         ELSE [i \in 0 .. prog.size[a]-1 |-> e[a][i]]]
        /\ vec = [v \in Vectors |-> [data |-> v, size |-> prog.size[v]]]
        /\ res = [f \in Operators |-> None]
        /\ pc = "eval"
        /\ op = 0 /\ pos = 0 /\ n = 0

\* The operators whose operands are there; C++ leaves open which is next.
Ready == {i \in DOMAIN Ops \ done : {Ops[i].l.node, Ops[i].r.node} \subseteq done \union {0}}

\* (deviation) one size fits all
SameSizeAny(o) == TRUE
\* assert(size == arg.size)
SameSize(o) == o.f = "scale" \/ Object(o.l).size = Object(o.r).size

\* An operator is entered; its static object is made in its first call.
Enter(i) ==
    LET o == Ops[i] IN
    /\ pc = "eval" /\ i \in Ready
    /\ res' = [res EXCEPT ![o.f] = IF @ = None THEN Object(o.l).size ELSE @]
    /\ op' = i
    /\ pos' = 0
    /\ n' = Object(o.l).size
    /\ pc' = IF SameSize(o) THEN "loop" ELSE "abort"
    /\ UNCHANGED <<prog, k, done, arr, vec>>

\* vsetvl grants some of the elements that are left; the loop of scalars takes
\* them one at a time.
Strip == {vl \in 1 .. VlMax : vl <= n}

\* Behind the end of t are the elements of the next array, as far as they reach.
Element(a, i) == IF i \in DOMAIN arr[a] THEN arr[a][i]
                 ELSE IF a = "t" /\ i - TSize \in DOMAIN arr[Behind]
                      THEN arr[Behind][i - TSize] ELSE 0

\* (deviation) c is not advanced
RightStuck(o, i) == Element(Object(o.r).data, i - pos)
RightAt(o, i) == Element(Object(o.r).data, i)

Computed(o, i) ==
    LET b == Element(Object(o.l).data, i)
        c == RightAt(o, i)
    IN CASE o.f = "scale" -> (o.by * b) % WordMod
         [] o.f = "mul"   -> (b * c) % WordMod
         [] o.f = "add"   -> (b + c) % WordMod

\* (deviation) the left operand is overwritten
InPlace == Object(Ops[op].l).data
\* Where the static objects' elements are.
ResultArray == "t"

\* The place, counted from the results' beginning, at which element i of a lies.
FromResult(a, i) == CASE a = ResultArray -> i
                      [] a # ResultArray /\ a = Behind -> TSize + i
                      [] OTHER -> None

\* One turn of the loop, a = b op c for vl elements.
Loop == /\ pc = "loop" /\ n > 0
        /\ \E vl \in Strip :
               /\ arr' = [a \in DOMAIN arr |-> [i \in DOMAIN arr[a] |->
                             IF FromResult(a, i) \in pos .. pos+vl-1
                             THEN Computed(Ops[op], FromResult(a, i)) ELSE arr[a][i]]]
               /\ pos' = pos + vl
               /\ n' = n - vl
        /\ UNCHANGED <<prog, k, done, vec, res, pc, op>>

Return == /\ pc = "loop" /\ n <= 0
          /\ done' = done \union {op}
          /\ pc' = "eval"
          /\ UNCHANGED <<prog, k, arr, vec, res, op, pos, n>>

\* The copy assignment that the compiler makes.
Assign == /\ pc = "eval" /\ done = DOMAIN Ops
          /\ vec' = [vec EXCEPT ![prog.stmts[k].to] = Object(N(Len(Ops)))]
          /\ done' = {}
          /\ k' = k + 1
          /\ pc' = IF k = Len(prog.stmts) THEN "end" ELSE "eval"
          /\ UNCHANGED <<prog, arr, res, op, pos, n>>

Next == (\E i \in DOMAIN Ops : Enter(i)) \/ Loop \/ Return \/ Assign

Spec == Init /\ [][Next]_vars

-----------------------------------------------------------------------------
Value(v) == [i \in 0 .. vec[v].size-1 |-> Element(vec[v].data, i)]

\* What an expression means, if every vector holds what `env' says.
Meaning(ops, env) ==
    LET Of(p, f) == IF p.node = 0 THEN env[p.vec] ELSE f[p.node]
        f[i \in 1 .. Len(ops)] ==
            LET o == ops[i]
                b == Of(o.l, f)
                c == Of(o.r, f)
            IN [x \in DOMAIN b |-> CASE o.f = "scale" -> (o.by * b[x]) % WordMod
                                     [] o.f = "mul"   -> (b[x] * c[x]) % WordMod
                                     [] o.f = "add"   -> (b[x] + c[x]) % WordMod]
    IN f[Len(ops)]

\* What the vectors hold after the first j statements, each with a value of its
\* own; as long as no vector is read that shares t, they begin with their arrays.
Begin == [v \in Vectors |-> arr[v]]
Means == LET e[j \in 0 .. k-1] ==
                 IF j = 0 THEN Begin
                 ELSE [e[j-1] EXCEPT ![prog.stmts[j].to] = Meaning(prog.stmts[j].ops, e[j-1])]
         IN e[k-1]

Assigned(j) == {prog.stmts[i].to : i \in 1 .. j-1}

\* A chain of operators, each applied to the result of the one before it and to
\* a vector that was never assigned; the first may read the vector that was
\* assigned last.
Chain(j) ==
    LET ops == prog.stmts[j].ops IN
    /\ \A i \in DOMAIN ops : i > 1 => /\ i-1 \in {ops[i].l.node, ops[i].r.node}
                                      /\ {ops[i].l.node, ops[i].r.node} \subseteq {0, i-1}
    /\ \A i \in DOMAIN ops : \A v \in VecsOf(ops[i]) :
           v \in Assigned(j) => i = 1 /\ v = prog.stmts[j-1].to
Chains  == \A j \in 1 .. k-1 : Chain(j)
OneSize == \A u, v \in Vectors : prog.size[u] = prog.size[v]

\* No vector is longer than t.
AllFit  == \A v \in Vectors : prog.size[v] <= TSize

\* After a chain the vector assigned has the value the expression means, although
\* all results share one array and the loop overwrites it while it reads it,
\* whatever vsetvl grants (vector-dsl.cpp:95-189), if no vector is longer than t;
\* the size of the first call is the size of all if the vectors have one size,
\* and no assertion fails.
ChainsRight ==
    OneSize => /\ pc # "abort"
               /\ AllFit /\ done = {} /\ pc # "loop" /\ k > 1 /\ Chains
                      => LET v == prog.stmts[k-1].to IN Value(v) = Means[v]

\* No operator changes a vector that was never assigned, in any expression of a
\* program whose vectors are no longer than t; a longer one overwrites what lies
\* behind t.
OperandsKept ==
    [][AllFit => \A v \in Vectors \ Assigned(k) : k' = k => Value(v)' = Value(v)]_vars

\* However the sizes of the vectors and of the static objects differ, no loop
\* leaves the array of a vector, and none leaves t unless the program has a
\* vector longer than t: a stale size gets no further than an assertion
\* (vector-dsl.cpp:96, 119, 124, 154, 159).
Last(a) == (IF a = "t" THEN TSize ELSE prog.size[a]) - 1
Within(a, last) == last <= Last(a) \/ (a = "t" /\ ~AllFit)
InBounds == /\ \A v \in Vectors : Within(vec[v].data, vec[v].size - 1)
            /\ pc = "loop" =>
                   LET o == Ops[op] IN
                   \A a \in {"t", Object(o.l).data, Object(o.r).data} : Within(a, pos + n - 1)
            /\ Within("t", pos - 1)
=============================================================================
