------------------------------- MODULE Malloc -------------------------------
(***************************************************************************)
(* malloc and free of umalloc.c.  Addresses and sizes are in units of a    *)
(* header; base, in the data segment, is below the heap.                   *)
(***************************************************************************)
EXTENDS Integers, FiniteSets

CONSTANTS
    Core,     \* units that morecore asks for at least: 4096
    HeapMax,  \* where sbrk fails
    Units     \* sizes asked for, with the header

base == 0

VARIABLES
    ptr, size,  \* the headers
    freep,      \* -1 before the first call
    brk,        \* the heap is 1 .. brk - 1
    owned       \* blocks the program has

heapVars == <<ptr, size, freep, brk, owned>>
Heap == [ptr |-> ptr, size |-> size, freep |-> freep]

-----------------------------------------------------------------------------
(* free(bp): the free block p after which bp belongs, and the joins.       *)
RECURSIVE After(_, _, _)
After(h, bp, p) ==
    IF (bp > p /\ bp < h.ptr[p]) \/ (p >= h.ptr[p] /\ (bp > p \/ bp < h.ptr[p])) THEN p
    ELSE After(h, bp, h.ptr[p])

JoinsUp(h, bp, p) == bp + h.size[bp] = h.ptr[p]

freed(h, bp) ==
    LET p == After(h, bp, h.freep)
        up == IF JoinsUp(h, bp, p)
              THEN [h EXCEPT !.size[bp] = @ + h.size[h.ptr[p]], !.ptr[bp] = h.ptr[h.ptr[p]]]
              ELSE [h EXCEPT !.ptr[bp] = h.ptr[p]]
        low == IF p + up.size[p] = bp
               THEN [up EXCEPT !.size[p] = @ + up.size[bp], !.ptr[p] = up.ptr[bp]]
               ELSE [up EXCEPT !.ptr[p] = bp]
    IN [low EXCEPT !.freep = p]

(* morecore(nu), when sbrk succeeds.                                       *)
Asked(nu) == IF nu < Core THEN Core ELSE nu
morecore(h, b, nu) == freed([h EXCEPT !.size[b] = Asked(nu)], b)

(* The walk of malloc: the block before the first that fits, or -1 when it *)
(* comes back to freep.                                                    *)
RECURSIVE Before(_, _, _)
Before(h, nu, prev) ==
    IF h.size[h.ptr[prev]] >= nu THEN prev
    ELSE IF h.ptr[prev] = h.freep THEN -1
    ELSE Before(h, nu, h.ptr[prev])

Split_low(h, p, nu) == p
Split(h, p, nu) == p + h.size[p] - nu

(* The tail end of the block, or all of it.                                *)
Taken(h, prev, nu) ==
    LET p == h.ptr[prev] IN
    IF h.size[p] = nu THEN [at |-> p, h |-> [h EXCEPT !.ptr[prev] = h.ptr[p], !.freep = prev]]
    ELSE [at |-> Split(h, p, nu),
          h |-> [h EXCEPT !.size[p] = @ - nu, !.size[p + h.size[p] - nu] = nu, !.freep = prev]]

Started == IF freep = -1 THEN [Heap EXCEPT !.ptr[base] = base, !.size[base] = 0, !.freep = base] ELSE Heap

(* The blocks on a list, base among them.  Words that are in no header     *)
(* are not told apart.                                                     *)
RECURSIVE Listed(_, _, _)
Listed(h, p, seen) == IF p \in seen THEN seen ELSE Listed(h, h.ptr[p], seen \cup {p})

Becomes(h, own) ==
    /\ ptr' = [a \in 0 .. HeapMax |-> IF a \in Listed(h, base, {}) THEN h.ptr[a] ELSE 0]
    /\ size' = [a \in 0 .. HeapMax |-> IF a \in Listed(h, base, {}) \cup own THEN h.size[a] ELSE 0]
    /\ freep' = h.freep
    /\ owned' = own

malloc(nu) ==
    LET h == Started prev == Before(h, nu, h.freep) IN
    \/ /\ prev # -1
       /\ Becomes(Taken(h, prev, nu).h, owned \cup {Taken(h, prev, nu).at})
       /\ UNCHANGED brk
    \/ /\ prev = -1 /\ brk + Asked(nu) <= HeapMax
       /\ LET g == morecore(h, brk, nu)
              got == Taken(g, Before(g, nu, g.freep), nu)
          IN Becomes(got.h, owned \cup {got.at})
       /\ brk' = brk + Asked(nu)
    \/ /\ prev = -1 /\ brk + Asked(nu) > HeapMax  \* returns 0
       /\ Becomes(h, owned)
       /\ UNCHANGED brk

free(bp) ==
    /\ bp \in owned
    /\ Becomes(freed(Heap, bp), owned \ {bp})
    /\ UNCHANGED brk

Init ==
    /\ ptr = [a \in 0 .. HeapMax |-> 0] /\ size = [a \in 0 .. HeapMax |-> 0]
    /\ freep = -1 /\ brk = 1 /\ owned = {}

Next == (\E nu \in Units : malloc(nu)) \/ (\E bp \in owned : free(bp))

Spec == Init /\ [][Next]_heapVars

-----------------------------------------------------------------------------
FreeBlocks == IF freep = -1 THEN {} ELSE Listed(Heap, base, {}) \ {base}
Span(b) == b .. b + size[b] - 1

(* Blocks the program has and blocks on the list cover the heap, each unit *)
(* once: none is lost, and none handed out twice.                          *)
Tiled ==
    /\ FreeBlocks \cap owned = {}
    /\ UNION {Span(b) : b \in FreeBlocks \cup owned} = 1 .. brk - 1
    /\ \A a, b \in FreeBlocks \cup owned : a # b => Span(a) \cap Span(b) = {}

(* Neighbours on the list are joined, so memory that is all freed can be   *)
(* had again in one piece.                                                 *)
Joined == \A a, b \in FreeBlocks : a + size[a] # b
=============================================================================
