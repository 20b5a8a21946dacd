------------------------------ MODULE Allocator ------------------------------
(***************************************************************************)
(* What a program expects of malloc, free and realloc: a set of blocks,    *)
(* each as long as the program asked and apart from all others, in which   *)
(* the program's data stays until it gives the block back.                 *)
(***************************************************************************)
EXTENDS Integers

VARIABLES blocks,   \* the program's blocks: their lengths by their addresses
          lost      \* bytes of blocks that no longer hold what they held

avars == <<blocks, lost>>

Extent(p) == p .. p + blocks[p] - 1

Apart == \A p, q \in DOMAIN blocks : p # q => Extent(p) \intersect Extent(q) = {}

\* The blocks but for those in S are not touched.
Others(S) == \A p \in DOMAIN blocks \ S : p \in DOMAIN blocks' /\ blocks'[p] = blocks[p]

AInit == blocks = << >> /\ lost = {}

Allocate == \E p \in DOMAIN blocks' : /\ p \notin DOMAIN blocks
                                      /\ DOMAIN blocks' = DOMAIN blocks \union {p}
                                      /\ Others({})

Release == \E p \in DOMAIN blocks : DOMAIN blocks' = DOMAIN blocks \ {p} /\ Others({p})

\* The block may move; what it holds moves along.
Resize == \E p \in DOMAIN blocks : \E q \in DOMAIN blocks' :
              /\ q = p \/ q \notin DOMAIN blocks
              /\ DOMAIN blocks' = (DOMAIN blocks \ {p}) \union {q}
              /\ Others({p})

ANext == (Allocate \/ Release \/ Resize) /\ Apart' /\ UNCHANGED lost

ASpec == AInit /\ [][ANext]_avars
=============================================================================
