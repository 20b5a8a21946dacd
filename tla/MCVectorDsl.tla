---------------------------- MODULE MCVectorDsl ----------------------------
(***************************************************************************)
(* The statements of main, and all expressions of up to three operators    *)
(* over three vectors, one or two in a row.                                *)
(***************************************************************************)
EXTENDS VectorDsl

MCVectors == {"A", "B", "C"}

\* main of vector-dsl.cpp, and a vector that is updated.
Main == << Stmt("A", <<Op("add", V("B"), V("C"))>>),
           Stmt("A", <<Op("mul", V("B"), V("C"))>>),
           Stmt("A", <<Scale(V("B"), 2)>>),
           Stmt("A", <<Scale(V("B"), 2), Op("add", N(1), V("C"))>>) >>
Update == << Stmt("A", <<Op("mul", V("B"), V("C"))>>),
             Stmt("A", <<Op("mul", V("A"), V("A")), Op("add", V("C"), N(1))>>),
             Stmt("A", <<Op("add", V("B"), V("A")), Scale(N(1), 3), Op("mul", V("C"), N(2))>>) >>

First == {Op(f, V(l), V(r)) : f \in {"mul", "add"}, l \in {"A", "B"}, r \in MCVectors}
             \union {Scale(V(l), 3) : l \in {"A", "B"}}
Second == {Op(f, p, q) : f \in {"mul", "add"}, p \in {N(1), V("B")}, q \in {N(1), V("A"), V("C")}}
Exprs == {<<o>> : o \in First} \union {<<o, q>> : o \in First, q \in Second}
            \union {<<o, Op("mul", V("C"), V("B")), Op("add", N(1), N(2))>> : o \in First}
\* Operators of other statements.
Others == {Op("add", V("A"), V("C")), Op("mul", V("B"), V("A")), Scale(V("A"), 2), Op("add", V("B"), V("B"))}

Uniform == [v \in MCVectors |-> 3]
Long    == [v \in MCVectors |-> 6]
\* A vector of four fills t, one of six is longer.
Mixed   == {[v \in MCVectors |-> IF v = "A" THEN a ELSE IF v = "B" THEN 2 ELSE c] : a \in {1, 4, 6}, c \in {2, 3}}

Prog(s, p) == [size |-> s, stmts |-> p]
MCPrograms == {Prog(s, p) : s \in {Uniform, Long}, p \in {Main, Update}}
                 \union {Prog(s, <<Stmt("A", e), Stmt(v, <<o>>)>>) :
                            s \in {Uniform, Long}, e \in Exprs, v \in {"A", "C"}, o \in Others}
                 \union {Prog(s, <<Stmt("A", <<p>>), Stmt("A", <<o, q>>)>>) :
                            s \in Mixed, p \in Others, o \in First, q \in Second}

\* Contents that tell the vectors and the places apart.
MCElements == {[v \in MCVectors |-> [i \in 0 .. 5 |-> CASE v = "A" -> i + 2 [] v = "B" -> 5 - i [] OTHER -> 3 * i]]}
=============================================================================
