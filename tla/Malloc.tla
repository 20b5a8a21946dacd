------------------------------- MODULE Malloc -------------------------------
(***************************************************************************)
(* malloc, free, realloc and calloc of the C library that the build        *)
(* scripts of exlbt/libc compile for Cpu0 (avr-libc, libc/stdlib).         *)
(*                                                                         *)
(* The heap is a row of chunks between __malloc_heap_start and __brkval.   *)
(* A chunk is named by the address of its header, a size_t; the program    *)
(* is given the address behind it.  A chunk that is not in use is on the   *)
(* list __flp, whose link lies where the program's data was.  The list is  *)
(* kept as the sequence of the chunks a walk from __flp meets, the size    *)
(* fields as a function from the chunks there are.                         *)
(***************************************************************************)
EXTENDS Integers, Sequences, SequencesExt

CONSTANTS W,           \* sizeof(size_t), and of a pointer
          SizeMod,     \* size_t and pointers are numbers below it
          HeapStart,   \* __malloc_heap_start
          Limits,      \* the ends of the heap a call may find: __malloc_heap_end, or
                       \* the stack pointer less __malloc_margin
          Lens,        \* the lengths the program asks malloc for,
          ReLens,      \* realloc for,
          Arrays       \* and calloc for: pairs of a number and a size

Null == 0

ASSUME HeapAssumption == /\ W \in Nat \ {0}
                         /\ SizeMod \in Nat
                         /\ HeapStart \in Nat
                         /\ HeapStart >= W
                         /\ Limits \subseteq 0 .. SizeMod-1
                         /\ HeapStart < SizeMod
                         /\ Lens \subseteq 0 .. SizeMod-1
                         /\ ReLens \subseteq 0 .. SizeMod-1
                         /\ Arrays \subseteq (0 .. SizeMod-1) \X (0 .. SizeMod-1)

VARIABLES brkval,   \* __brkval, Null before the first call
          flist,    \* the free list
          size,     \* the sz field of every chunk
          block,    \* the program's chunks, with the length it asked for
          good      \* the bytes that hold what the program has put there

vars == <<brkval, flist, size, block, good>>

FreeEntry == 2 * W      \* sizeof(struct __freelist)

\* What an operation works on; `wrote' are the headers and the links that it
\* writes in chunks it makes or frees.
Heap == [brk |-> brkval, list |-> flist, size |-> size, wrote |-> {}]

Bytes(a, n) == a + W .. a + W + n - 1
Header(a)   == a .. a + W - 1
End(h, a)   == a + W + h.size[a]
\* The links of the list: a chunk and the next one.
Links(h) == {<<h.list[i], IF i = Len(h.list) THEN Null ELSE h.list[i+1]>> : i \in DOMAIN h.list}

\* The bytes written on the way from heap h to heap g, with the links of chunks
\* that have another successor now.
Touched(h, g) == g.wrote \union UNION {Bytes(l[1], W) : l \in Links(g) \ Links(h)}

Without(f, x) == [y \in DOMAIN f \ {x} |-> f[y]]
With(f, x, v) == [y \in DOMAIN f \union {x} |-> IF y = x THEN v ELSE f[y]]

-----------------------------------------------------------------------------
\* free: the chunk is put in front of the first one on the list that is not
\* below it, and joined with the chunk above and the chunk below.
Place(h, a) == LET i == SelectInSeq(h.list, LAMBDA x : x >= a)
               IN IF i = 0 THEN Len(h.list) + 1 ELSE i

Inserted(h, a) == [h EXCEPT !.list = InsertAt(@, Place(h, a), a),
                            !.wrote = @ \union Bytes(a, W)]

\* Chunk a keeps n bytes, what is behind them becomes a chunk.
Cut(f, a, n) == With([f EXCEPT ![a] = n], a + W + n, f[a] - n - W)

\* Chunk b, which begins where a ends, becomes part of a.
Merged(f, a, b) == [Without(f, b) EXCEPT ![a] = @ + f[b] + W]

\* Entry i+1 of the list becomes part of entry i, if it begins at its end.
Adjacent(h, i) == i \in 1 .. Len(h.list)-1 /\ End(h, h.list[i]) = h.list[i+1]

\* (deviation) the header between the two is forgotten
JoinedShort(h, i) ==
    IF ~ Adjacent(h, i) THEN h
    ELSE [h EXCEPT !.list = RemoveAt(@, i+1),
                   !.size = [Without(@, h.list[i+1]) EXCEPT ![h.list[i]] = @ + h.size[h.list[i+1]]]]
JoinedAt(h, i) ==
    IF ~ Adjacent(h, i) THEN h
    ELSE [h EXCEPT !.list = RemoveAt(@, i+1), !.size = Merged(@, h.list[i], h.list[i+1])]

\* (deviation) the size is not counted from behind the header
LoweredShort(h) ==
    LET a == Last(h.list)
    IN IF a + h.size[a] # h.brk THEN h
       ELSE [h EXCEPT !.brk = a, !.list = Front(@), !.size = Without(@, a)]
\* The topmost chunk is taken off the heap if it is the last of the list.
Lowered(h) ==
    LET a == Last(h.list)
    IN IF End(h, a) # h.brk THEN h
       ELSE [h EXCEPT !.brk = a, !.list = Front(@), !.size = Without(@, a)]

\* (deviation) any new head of the list ends the call
FreedAtHead(h, a) ==
    LET k  == Place(h, a)
        up == JoinedAt(Inserted(h, a), k)
    IN IF k = 1 THEN up ELSE Lowered(JoinedAt(up, k-1))
\* A new head of the list is not compared with __brkval.
Freed(h, a) ==
    LET k  == Place(h, a)
        up == JoinedAt(Inserted(h, a), k)
    IN IF k = 1 /\ h.list # << >> THEN up ELSE Lowered(JoinedAt(up, k-1))

-----------------------------------------------------------------------------
Result(h, a) == [heap |-> h, at |-> a]

\* (deviation) short requests are not rounded up
AnyLen(len) == len
\* A chunk has room for a link.
AtLeastLink(len) == IF len < W THEN W ELSE len

Exact(h, n) == SelectInSeq(h.list, LAMBDA x : h.size[x] = n)

\* (deviation) only chunks with room for another entry are considered
LargerByEntry(h, n) == {i \in DOMAIN h.list : h.size[h.list[i]] >= n + FreeEntry}
\* The first of the smallest chunks that are larger than n.
Larger(h, n) == {i \in DOMAIN h.list : h.size[h.list[i]] > n}
Best(h, n) == CHOOSE i \in Larger(h, n) : \A j \in Larger(h, n) :
                  \/ h.size[h.list[i]] < h.size[h.list[j]]
                  \/ h.size[h.list[i]] = h.size[h.list[j]] /\ i <= j

Taken(h, i) == Result([h EXCEPT !.list = RemoveAt(@, i)], h.list[i])

\* The upper n bytes of entry i become a chunk of the program.
SplitOff(h, i, n) ==
    LET a == h.list[i]
        b == a + h.size[a] - n
    IN Result([h EXCEPT !.size = Cut(@, a, h.size[a] - n - W),
                        !.wrote = @ \union Header(b)], b)

\* The heap grows, if it then ends at or below the limit.
Break(h) == IF h.brk = Null THEN HeapStart ELSE h.brk

Fits(avail, n) == avail >= n /\ avail >= (n + W) % SizeMod

Grown(h, n, limit) ==
    LET b == Break(h)
    IN IF limit > b /\ Fits(limit - b, n)
       THEN Result([h EXCEPT !.brk = (b + n + W) % SizeMod,
                             !.size = With(@, b, n),
                             !.wrote = @ \union Header(b)], b)
       ELSE Result([h EXCEPT !.brk = b], Null)

Allocated(h, len, limit) ==
    LET n == AtLeastLink(len)
    IN IF Exact(h, n) # 0 THEN Taken(h, Exact(h, n))
       ELSE IF Larger(h, n) = {} THEN Grown(h, n, limit)
       ELSE LET i == Best(h, n)
            IN IF h.size[h.list[i]] - n < FreeEntry THEN Taken(h, i) ELSE SplitOff(h, i, n)

-----------------------------------------------------------------------------
\* realloc to a smaller length: the rest is freed if it has room for an entry.
Shrunk(h, a, len) ==
    IF h.size[a] <= FreeEntry \/ len > h.size[a] - FreeEntry THEN Result(h, a)
    ELSE LET b == a + W + len
         IN Result(Freed([h EXCEPT !.size = Cut(@, a, len),
                                   !.wrote = @ \union Header(b)], b), a)

\* (deviation) the size of the chunk above is not looked at
AboveOfAnySize(h, a, len) == SelectInSeq(h.list, LAMBDA x : x = End(h, a))
\* The free chunk that begins where this one ends, if it has room enough.
Above(h, a, len) ==
    SelectInSeq(h.list, LAMBDA x : x = End(h, a) /\ h.size[x] + W >= len - h.size[a])

\* realloc into entry i of the list, which is cut or used entirely.
GrownInto(h, a, len, i) ==
    LET c    == h.list[i]
        b    == a + W + len
        rest == h.size[c] - (len - h.size[a])
    IN Result(IF rest + W > FreeEntry
              THEN [h EXCEPT !.list = ReplaceAt(@, i, b),
                             !.size = Cut(Merged(@, a, c), a, len),
                             !.wrote = @ \union (b .. b + FreeEntry - 1)]
              ELSE [h EXCEPT !.list = RemoveAt(@, i),
                             !.size = Merged(@, a, c)], a)

Topmost(h, a, len) == h.brk = End(h, a) /\ \A i \in DOMAIN h.list : len > h.size[h.list[i]]

GrownOnTop(h, a, len, limit) ==
    LET new == (a + W + len) % SizeMod
    IN IF new < limit
       THEN Result([h EXCEPT !.brk = new, !.size = [@ EXCEPT ![a] = len]], a)
       ELSE Result(h, Null)

\* What the test at the beginning of realloc calls wrapped.
Wrapped(a, len) == (a + W + len) % SizeMod < a

Moves(h, a, len) == /\ ~ Wrapped(a, len)
                    /\ len > h.size[a]
                    /\ Above(h, a, len) = 0
                    /\ ~ Topmost(h, a, len)

\* realloc but for a move.
Resized(h, a, len, limit) ==
    IF Wrapped(a, len) THEN Result(h, Null)
    ELSE IF len <= h.size[a] THEN Shrunk(h, a, len)
    ELSE IF Above(h, a, len) # 0 THEN GrownInto(h, a, len, Above(h, a, len))
    ELSE GrownOnTop(h, a, len, limit)

-----------------------------------------------------------------------------
Init == /\ brkval = Null
        /\ flist = << >>
        /\ size = << >>
        /\ block = << >>
        /\ good = {}

Becomes(h) == brkval' = h.brk /\ flist' = h.list /\ size' = h.size

\* malloc, called for n bytes by a program that wants len and fills them.
Call(n, len, limit) ==
    LET r == Allocated(Heap, n, limit) IN
    /\ Becomes(r.heap)
    /\ IF r.at = Null
       THEN UNCHANGED <<block, good>>
       ELSE /\ block' = With(block, r.at, len)
            /\ good' = (good \ Touched(Heap, r.heap)) \union Bytes(r.at, len)

\* malloc(len), and what realloc(NULL, len) does.
Malloc(len, limit) == Call(len, len, limit)

\* The product is truncated; the memset stays in the block.
Calloc(nele, siz, limit) == Call((nele * siz) % SizeMod, nele * siz, limit)

\* free; free(NULL) does nothing.
Free(a) ==
    LET h == Freed(Heap, a) IN
    /\ Becomes(h)
    /\ block' = Without(block, a)
    /\ good' = (good \ Touched(Heap, h)) \ Bytes(a, block[a])

\* The program fills what is new; old data that it asks for is good only if
\* it stayed or was copied.
KeptLen(a, len) == IF len < block[a] THEN len ELSE block[a]
NewBytes(a, b, len) == Bytes(b, len) \ Bytes(b, KeptLen(a, len))

ReallocInPlace(a, len, limit) ==
    LET r == Resized(Heap, a, len, limit) IN
    /\ ~ Moves(Heap, a, len)
    /\ Becomes(r.heap)
    /\ IF r.at = Null
       THEN UNCHANGED <<block, good>>
       ELSE /\ block' = [block EXCEPT ![a] = len]
            /\ good' = ((good \ (Bytes(a, block[a]) \ Bytes(a, len))) \ Touched(Heap, r.heap))
                         \union NewBytes(a, a, len)

\* malloc, memcpy, free.
Copied(kept, a, b, n) == {x \in Bytes(b, n) : x - b + a \in kept}

ReallocMove(a, len, limit) ==
    LET r == Allocated(Heap, len, limit)
        b == r.at
        n == size[a]
        h == Freed([r.heap EXCEPT !.wrote = {}], a)
        kept == good \ Touched(Heap, r.heap)
        copy == (kept \ Bytes(b, n)) \union Copied(kept, a, b, n)
    IN /\ Moves(Heap, a, len)
       /\ IF b = Null
          THEN Becomes(r.heap) /\ UNCHANGED <<block, good>>
          ELSE /\ Becomes(h)
               /\ block' = With(Without(block, a), b, len)
               /\ good' = ((copy \ Touched(r.heap, h)) \ Bytes(a, block[a])) \union NewBytes(a, b, len)

Next == \E limit \in Limits :
            \/ \E len \in Lens : Malloc(len, limit)
            \/ \E p \in Arrays : Calloc(p[1], p[2], limit)
            \/ \E a \in DOMAIN block :
                   \/ Free(a)
                   \/ \E len \in ReLens : ReallocInPlace(a, len, limit) \/ ReallocMove(a, len, limit)

Spec == Init /\ [][Next]_vars

-----------------------------------------------------------------------------
Chunks == DOMAIN size
InUse  == DOMAIN block
OnList == {flist[i] : i \in DOMAIN flist}
Brk    == Break(Heap)

\* Every variable stays in its range, every block lies in a chunk with room for
\* it, and every chunk has room for the link of the free list (malloc.c:74-79).
TypeOK == /\ brkval \in {Null} \union (HeapStart .. SizeMod-1)
          /\ flist \in Seq(Chunks)
          /\ \A a \in Chunks : a \in HeapStart .. SizeMod-1 /\ size[a] \in W .. SizeMod-1
          /\ InUse \subseteq Chunks
          /\ \A a \in InUse : block[a] \in 0 .. size[a]

\* The chunks follow one another from the start of the heap to __brkval: no two
\* overlap, and no byte is lost to the heap by splitting, joining, growing or
\* giving back (the size arithmetic of malloc, free and realloc).
Tiled == /\ \A a \in Chunks : End(Heap, a) \in Chunks \union {Brk}
         /\ HeapStart \in Chunks \union {Brk}
         /\ \A a, b \in Chunks : a < b => End(Heap, a) <= b
         /\ \A a \in Chunks : End(Heap, a) <= Brk

\* A chunk is in use or on the list, once.  The list ascends, no two of its
\* chunks touch and the last does not touch __brkval: each call of free joins
\* all there is to join, however chunks were split and moved before (free).
Coalesced == /\ OnList = Chunks \ InUse
             /\ \A i, j \in DOMAIN flist : i < j => End(Heap, flist[i]) < flist[j]
             /\ \A i \in DOMAIN flist : End(Heap, flist[i]) # Brk

\* malloc fails only if no gap between the blocks in use, their headers and the
\* end of the heap has room for the block and a header.
FreeRange(x, n) == \A a \in InUse : x + n <= a \/ End(Heap, a) <= x
FailsOnlyWhenFull ==
    \A len \in Lens, limit \in Limits :
        Allocated(Heap, len, limit).at = Null =>
            ~ \E x \in HeapStart .. limit - W - AtLeastLink(len) :
                  FreeRange(x, W + AtLeastLink(len))

\* A program that has given back everything has the whole heap again.
AllGivenBack == InUse = {} => flist = << >> /\ Brk = HeapStart

\* malloc, free and realloc keep the promise of Allocator.
BlockBytes == UNION {Bytes(a, block[a]) : a \in InUse}
Promise == INSTANCE Allocator WITH
    blocks <- [p \in {a + W : a \in InUse} |-> block[p - W]],
    lost <- BlockBytes \ good
KeepsBlocks == Promise!ASpec

-----------------------------------------------------------------------------
\* malloc.c:74-79 "Our minimum chunk size is the size of a pointer [...]
\* otherwise we could not possibly fit a freelist entry into the chunk later".
RoomForLink == \A a \in Chunks : size[a] >= W
=============================================================================
