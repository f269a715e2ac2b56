------------------------------ MODULE Umalloc ------------------------------
(***************************************************************************)
(* The allocator of user programs (umalloc.c): one circular free list in   *)
(* the order of addresses.  Sizes and addresses are in units of a Header;  *)
(* `base` is at address 0, below the heap.  Headers are kept only while    *)
(* they belong to a block: `header` is a partial function.                 *)
(***************************************************************************)
EXTENDS Integers, FiniteSets, FiniteSetsExt, Functions, TLC

CONSTANTS
    MINCORE,    \* 4096 in morecore()
    Sizes,      \* nunits of the calls of malloc()
    HEAP,       \* bound: where the heap ends
    MaxLive     \* bound: blocks the program has at a time

NULL == -1
base == 0

VARIABLES
    header,     \* ptr and size, of free and allocated blocks
    freep,
    brk,        \* where the next sbrk() puts its memory
    live,       \* what the program has: address and size of its blocks
    own         \* units the program got from sbrk() itself

vars == <<header, freep, brk, live, own>>

Init == header = (base :> [ptr |-> NULL, size |-> 0]) /\ freep = NULL
        /\ brk = 1 /\ live = {} /\ own = {}

\* The k-th block after fp, and how many there are.
Nth(h, fp, k) == LET N[j \in Nat] == IF j = 0 THEN fp ELSE h[N[j - 1]].ptr IN N[k]
Length(h, fp) == Min({k \in 1..Cardinality(DOMAIN h) : Nth(h, fp, k) = fp})

-----------------------------------------------------------------------------
\* Where the loop of free() stops: b lies between p and the next block.
Between(h, p, b) ==
    \/ p < b /\ b < h[p].ptr
    \/ p >= h[p].ptr /\ (b > p \/ b < h[p].ptr)

Place(h, fp, b) ==
    LET k == Min({j \in 0..Length(h, fp) : Between(h, Nth(h, fp, j), b)}) IN Nth(h, fp, k)

\* Mutant: the block above is not joined.
Touches_Never(h, p, q) == FALSE

Touches(h, p, q) == p + h[p].size = q

Join(h, p, q) == Restrict([h EXCEPT ![p] = [ptr |-> h[q].ptr, size |-> @ .size + h[q].size]],
                          DOMAIN h \ {q})

\* free() of the block at b; the second component is the new freep.
Freed(h, fp, b) ==
    LET p == Place(h, fp, b)
        next == h[p].ptr
        up == IF Touches(h, b, next) THEN Join(h, b, next) ELSE [h EXCEPT ![b].ptr = next] IN
    [header |-> IF p + h[p].size = b THEN Join(up, p, b) ELSE [up EXCEPT ![p].ptr = b],
     freep |-> p]

Free ==
    \E x \in live :
      LET f == Freed(header, freep, x.at) IN
      /\ header' = f.header /\ freep' = f.freep
      /\ live' = live \ {x}
      /\ UNCHANGED <<brk, own>>

-----------------------------------------------------------------------------
\* The predecessors of the blocks malloc() looks at, from freep on.
Fits(h, fp, n) == {k \in 0..(Length(h, fp) - 1) : h[Nth(h, fp, k + 1)].size >= n}

\* Mutant: the rest of a block that is cut keeps the whole size.
Rest_Whole(size, n) == size

Rest(size, n) == size - n

\* The first block that fits: all of it, or its end.
Take(h, fp, n) ==
    LET prevp == Nth(h, fp, Min(Fits(h, fp, n)))
        p == h[prevp].ptr
        cut == p + h[p].size - n IN
    /\ freep' = prevp
    /\ IF h[p].size = n
       THEN /\ header' = [h EXCEPT ![prevp].ptr = h[p].ptr]
            /\ live' = live \cup {[at |-> p, size |-> n]}
       ELSE /\ header' = (cut :> [ptr |-> NULL, size |-> n])
                            @@ [h EXCEPT ![p].size = Rest(@, n)]
            /\ live' = live \cup {[at |-> cut, size |-> n]}

Morecore(h, fp, nu) == Freed((brk :> [ptr |-> NULL, size |-> nu]) @@ h, fp, brk)

\* The list is made by the first call; sbrk() may fail.
Malloc(n) ==
    LET first == freep = NULL
        h == IF first THEN [header EXCEPT ![base].ptr = base] ELSE header
        fp == IF first THEN base ELSE freep
        nu == Max({n, MINCORE})
        more == Morecore(h, fp, nu) IN
    /\ Cardinality(live) < MaxLive /\ UNCHANGED own
    /\ \/ Fits(h, fp, n) # {} /\ Take(h, fp, n) /\ UNCHANGED brk
       \/ /\ Fits(h, fp, n) = {} /\ brk + nu <= HEAP
          /\ Take(more.header, more.freep, n) /\ brk' = brk + nu
       \/ /\ Fits(h, fp, n) = {}
          /\ header' = h /\ freep' = fp /\ UNCHANGED <<brk, live>>

\* The program calls sbrk() itself: the heap has a gap there.
Sbrk ==
    /\ own = {} /\ brk < HEAP
    /\ own' = {brk} /\ brk' = brk + 1
    /\ UNCHANGED <<header, freep, live>>

Next == (\E n \in Sizes : Malloc(n)) \/ Free \/ Sbrk

Spec == Init /\ [][Next]_vars

-----------------------------------------------------------------------------
(* Properties *)

FreeBlocks == IF freep = NULL THEN {}
              ELSE {Nth(header, freep, k) : k \in 1..Length(header, freep)}
Extent(at, size) == at..(at + size - 1)
Extents == {Extent(b, header[b].size) : b \in FreeBlocks \ {base}}
             \cup {Extent(x.at, x.size) : x \in live}

\* Every unit of the heap is in exactly one block, free or the program's, of the
\* size it was allocated with; what the program got from sbrk() is in none.
HeapIsCovered ==
    /\ UNION Extents = (1..(brk - 1)) \ own
    /\ \A e, f \in Extents : e = f \/ e \cap f = {}
    /\ \A x \in live : header[x.at].size = x.size

\* The free list runs through the addresses in order, once round, and no two free
\* blocks touch: free() terminates, and memory does not crumble.
ListInOrder ==
    freep # NULL =>
      /\ Cardinality({b \in FreeBlocks : header[b].ptr <= b}) = 1
      /\ \A b, c \in FreeBlocks \ {base} : b + header[b].size # c
=============================================================================
