-------------------------------- MODULE Heap --------------------------------
(***************************************************************************)
(* A program that calls src/lib/malloc.c: the public functions as actions, *)
(* in any order, with calls of sbrk by others between them ("it should be  *)
(* safe to intersperse mallocs with other sbrk calls").  The program fills *)
(* every block it gets with a pattern and expects to find it again.        *)
(***************************************************************************)
EXTENDS Malloc, FiniteSets

CONSTANTS
    Requests,      \* the sizes asked for
    Products,      \* the numbers and sizes of elements given to calloc
    Alignments,    \* given to memalign
    Tags,          \* what is stored in a block
    MaxBlocks,     \* bound: the blocks in use at a time
    ForeignSizes,  \* bound: what others take by sbrk
    Thresholds, Pads   \* the values mallopt may set, the defaults among them

(* A size that stays below half the word with all the headers, alignments  *)
(* and pages that may be added to it                                       *)
Modest(n) == \A pad \in Pads, a \in Alignments \cup {Page} : n + pad + a + 3 * Page + 16 <= Half

(* Sizes are modest, or so large that they are refused; between the two    *)
(* sbrk is asked for a negative amount and gives memory back, and within a *)
(* page of 2^32 pvalloc rounds a size up to zero.                          *)
ASSUME HeapAssumption ==
    /\ Requests \cup Products \cup Alignments \cup Tags \cup ForeignSizes
         \cup Thresholds \cup Pads \subseteq Nat
    /\ \A n \in Requests \cup {0} : (n >= Half /\ n + Page <= Word) \/ Modest(n)
    /\ \A n, e \in Products : n < Half /\ Modest(n * e)
    /\ \A a \in Alignments : a % 2 = 0
    /\ \A n \in ForeignSizes : n > 0 /\ n < Half

VARIABLES
    heap,   \* the memory and the variables of malloc.c
    live    \* what the program knows: from a block to its length and tag

vars == <<heap, live>>

Cell(t, i) == IF t = 0 THEN 0 ELSE -(16 * t + i)

Entry(n, t, who) == [len |-> n, tag |-> t, from |-> who]
Words(a) == a .. a + live[a].len - 1

(* The chunks of a heap, walked from the start of each region; what ends a *)
(* region is the top or a fence.                                           *)
Walk(h) ==
    LET from[a \in Nat] ==
            IF a < Start \/ a = h.top \/ a >= h.brk - 1 THEN {}
            ELSE IF Size(h, a) < MINSIZE THEN {a}
            ELSE {a} \cup from[a + Size(h, a)]
    IN UNION {from[r] : r \in ToSet(h.regions)}

Chunks(h) == {p \in Walk(h) : Size(h, p) >= MINSIZE}
Fences(h) == Walk(h) \ Chunks(h)
FreeChunks(h) == {p \in Chunks(h) : ~InUse(h, p)}

(* What may still be read: headers, the size at the end of a free chunk,   *)
(* the program's words, and what lies beyond the break.  Any other word is *)
(* of no interest.                                                         *)
Settled(h, known) ==
    LET kept == {p + 1 : p \in Walk(h) \cup {h.top}}
                  \cup {Next_(h, p) + 1 : p \in Fences(h)}
                  \cup {Next_(h, p) : p \in FreeChunks(h)}
                  \cup UNION {a .. a + known[a].len - 1 : a \in DOMAIN known}
    IN [h EXCEPT !.mem = [a \in DOMAIN @ |->
                            IF a \in kept \/ a >= h.brk THEN @[a] ELSE Stale]]

(* The program stores the pattern from word `from` of the block on, as far *)
(* as the block goes.                                                      *)
Fill(h, p, n, t, from) ==
    [h EXCEPT !.mem = [a \in DOMAIN @ |->
        LET i == a - (p + 1) IN
        IF i \in from .. n /\ i < Size(h, p) THEN Cell(t, i) ELSE @[a]]]

(* A call returned result: the new block is filled, or there is none. *)
Allocated(result, n, t) ==
    LET p == result.got
        known == [a \in DOMAIN live \cup {p + 2} |->
                    IF a = p + 2 THEN Entry(n, t, "malloc") ELSE live[a]]
    IN IF p = Null
       THEN heap' = Settled(result.heap, live) /\ UNCHANGED live
       ELSE /\ heap' = Settled(IF t = 0 THEN result.heap ELSE Fill(result.heap, p, n, t, 1),
                               known)
            /\ live' = known

MayAllocate == Cardinality(DOMAIN live) < MaxBlocks
Owned == {a \in DOMAIN live : live[a].from = "malloc"}

MemMallocInit ==
    /\ ~heap.ready
    /\ heap' = mem_malloc_init(heap)
    /\ UNCHANGED live

Malloc == MayAllocate /\ \E n \in Requests, t \in Tags : Allocated(malloc(heap, n), n, t)

Calloc ==
    /\ MayAllocate
    /\ \E n \in Products, e \in Products : Allocated(calloc(heap, n, e), n * e, 0)

Memalign ==
    /\ MayAllocate
    /\ \E n \in Requests, a \in Alignments, t \in Tags :
           Allocated(memalign(heap, a, n), n, t)

Valloc == MayAllocate /\ \E n \in Requests, t \in Tags : Allocated(valloc(heap, n), n, t)
Pvalloc == MayAllocate /\ \E n \in Requests, t \in Tags : Allocated(pvalloc(heap, n), n, t)

Free ==
    \E a \in Owned :
        LET rest == [b \in DOMAIN live \ {a} |-> live[b]] IN
        /\ heap' = Settled(free(heap, a - 2), rest)
        /\ live' = rest

Realloc ==
    \E a \in Owned, n \in Requests :
        LET result == realloc(heap, a - 2, n)
            p == result.got
            t == live[a].tag
            known == [b \in (DOMAIN live \ {a}) \cup {p + 2} |->
                        IF b = p + 2 THEN Entry(n, t, "malloc") ELSE live[b]]
        IN IF p = Null
           THEN heap' = Settled(result.heap, live) /\ UNCHANGED live
           ELSE /\ heap' = Settled(Fill(result.heap, p, n, t, live[a].len + 1), known)
                /\ live' = known

MallocTrim ==
    \E pad \in Pads : heap' = Settled(malloc_trim(heap, pad), live) /\ UNCHANGED live

Mallopt ==
    /\ \/ \E v \in Thresholds : heap' = [heap EXCEPT !.trim = v]
       \/ \E v \in Pads : heap' = [heap EXCEPT !.pad = v]
    /\ UNCHANGED live

(* Another user of the break takes n words and keeps something in them. *)
ForeignSbrk ==
    /\ MayAllocate /\ heap.ready
    /\ \E n \in ForeignSizes, t \in Tags :
           LET taken == sbrk(heap, n)
               a == taken.got
           IN /\ a # Failure
              /\ heap' = [taken.heap EXCEPT !.mem = [w \in DOMAIN @ |->
                             IF w \in a .. a + n - 1 THEN Cell(t, w - a + 1) ELSE @[w]]]
              /\ live' = [b \in DOMAIN live \cup {a} |->
                             IF b = a THEN Entry(n, t, "sbrk") ELSE live[b]]

Init ==
    /\ \E trim \in Thresholds, pad \in Pads :
           heap = [EmptyHeap EXCEPT !.trim = trim, !.pad = pad]
    /\ live = [a \in {} |-> Entry(0, 0, "malloc")]

Next ==
    \/ MemMallocInit \/ Malloc \/ Calloc \/ Memalign \/ Valloc \/ Pvalloc
    \/ Free \/ Realloc \/ MallocTrim \/ Mallopt \/ ForeignSbrk

Spec == Init /\ [][Next]_vars

-----------------------------------------------------------------------------
(* Properties *)

TypeOK ==
    /\ heap.brk \in {0} \cup Start .. End
    /\ heap.top \in {InitialTop} \cup Start .. End
    /\ DOMAIN heap.bins = 0 .. LastBin
    /\ \A a \in DOMAIN live : live[a].len \in Nat /\ live[a].tag \in Tags \cup {0}

(* "a chunk of at least n bytes": every block of the program is a chunk in *)
(* use that has room for what was asked, and malloc_usable_size says so.   *)
AtLeastAsked ==
    \A a \in Owned : a - 2 \in Chunks(heap)
                       /\ malloc_usable_size(heap, a - 2) >= live[a].len

(* No memory is lost: a chunk in use is a block of the program; every free *)
(* chunk is in exactly one bin, once.                                      *)
NothingLost ==
    LET places == {<<i, k>> : i \in DOMAIN heap.bins, k \in 1 .. End}
        filled == {ik \in places : ik[2] \in DOMAIN heap.bins[ik[1]]}
    IN /\ {p + 2 : p \in Chunks(heap) \ FreeChunks(heap)} = Owned
       /\ {heap.bins[ik[1]][ik[2]] : ik \in filled} = FreeChunks(heap)
       /\ Cardinality(filled) = Cardinality(FreeChunks(heap))

(* Boundary tags agree: a free chunk's size is at its end too, it touches  *)
(* neither the top nor another free chunk, and the top ends at the break   *)
(* or where another's memory begins.                                       *)
TagsAgree ==
    /\ \A p \in FreeChunks(heap) :
           /\ heap.mem[Next_(heap, p)] = Size(heap, p)
           /\ PrevInUse(heap, p) = 1
           /\ Next_(heap, p) # heap.top
    /\ heap.top # InitialTop =>
           /\ PrevInUse(heap, heap.top) = 1
           /\ Size(heap, heap.top) >= MINSIZE
           /\ Next_(heap, heap.top) <= heap.brk
           /\ Next_(heap, heap.top) % Page = 0

(* What malloc's search relies on: a chunk is in the bin of its size (or   *)
(* the last remainder), in size order, and its block is marked.            *)
Findable ==
    \A i \in 2 .. LastBin :
        LET bin == heap.bins[i] IN
        /\ bin # <<>> => BlockOf(i) \in heap.marked
        /\ \A k \in DOMAIN bin :
               /\ bin_index(Size(heap, bin[k])) = i
               /\ k > 1 => Size(heap, bin[k - 1]) >= Size(heap, bin[k])

(* The heap implements the abstract allocator: blocks are apart, and no    *)
(* call changes a word of a block it was not given.                        *)
Lengths == Requests \cup ForeignSizes \cup {n * e : n, e \in Products}
Contents == [a \in DOMAIN live |-> [i \in 1 .. live[a].len |-> heap.mem[a + i - 1]]]
Blocks == INSTANCE Allocator WITH
    Arena <- Start .. End - 1, Lengths <- Lengths, blocks <- Contents
IsAllocator == Blocks!Spec

(* No word belongs to two blocks, whoever got them. *)
BlocksApart == Blocks!BlocksApart
=============================================================================
