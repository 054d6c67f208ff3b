------------------------------- MODULE Malloc -------------------------------
(***************************************************************************)
(* The allocator of src/lib/malloc.c as operators from one state of the    *)
(* heap to the next: the break, chunks with boundary tags, bins, the top   *)
(* chunk and the last remainder.                                           *)
(*                                                                         *)
(* Addresses and sizes are in words of SIZE_SZ bytes.  A chunk p has the   *)
(* size of the chunk before it (if that is free) in word p, its own size   *)
(* and the use bit of the chunk before it in word p + 1 (Header), and the  *)
(* caller's words from p + 2 on, the last of them the first of the next    *)
(* chunk.  The circular lists of the bins are sequences, first to last;    *)
(* the links in the words of a free chunk are not kept (module List has    *)
(* them).  av_'s first entries make top start as a chunk of size zero.     *)
(***************************************************************************)
EXTENDS Integers, Sequences, SequencesExt

CONSTANTS
    Word,          \* 2^32 bytes, in words
    Start, End,    \* the memory given to mem_malloc_init
    Page,          \* malloc_getpagesize
    MaxSmall,      \* MAX_SMALLBIN_SIZE
    LargeWidth,    \* how far apart the bins of large chunks are
    LastBin        \* NAV - 1

ASSUME MallocAssumption ==
    /\ {Word, Start, End, Page, MaxSmall, LargeWidth, LastBin} \subseteq Nat \ {0}
    /\ Start + 8 <= End /\ End + Page < Word \div 2 /\ Word % 2 = 0
    /\ Page % 2 = 0 /\ Word % Page = 0 /\ MaxSmall % 2 = 0 /\ MaxSmall > 6
    /\ LastBin % 4 = 3 /\ MaxSmall \div 2 + 2 <= LastBin

MINSIZE == 4
ALIGNMENT == 2
BINBLOCKWIDTH == 4
Half == Word \div 2
Failure == -1      \* MORECORE_FAILURE
InitialTop == 0
Stale == -1        \* a word nobody will read before it is written
Null == 0

Signed(w) == IF w < Half THEN w ELSE w - Word
Even(w) == w - (w % 2)
PageUp(w) == ((w + Page - 1) - ((w + Page - 1) % Page)) % Word
Smaller(a, b) == IF a < b THEN a ELSE b

(* A slip: one word of overhead is enough for a block, two to round up. *)
request2sizeSlip(req) == IF req + 1 < MINSIZE THEN MINSIZE ELSE Even(req + 1)

(* A request with its overhead.  Near the half of the word the sum is      *)
(* negative as a long, and the smallest chunk is called enough.            *)
request2size(req) ==
    LET padded == (req + 2) % Word IN
    IF Signed(padded) < MINSIZE + 1 THEN MINSIZE ELSE Even(padded)

(* The words of the arena in the state before any call. *)
EmptyHeap ==
    [mem |-> [a \in Start .. End - 1 |-> Stale],
     ready |-> FALSE, brk |-> 0, based |-> FALSE, top |-> InitialTop,
     bins |-> [i \in 0 .. LastBin |-> <<>>], marked |-> {},
     trim |-> 0, pad |-> 0, regions |-> <<>>]

-----------------------------------------------------------------------------
(* Chunks *)

Header(size, prevInUse) == 2 * size + prevInUse
PrevInUse(h, p) == h.mem[p + 1] % 2
Size(h, p) == IF p = InitialTop THEN 0 ELSE h.mem[p + 1] \div 2
Next_(h, p) == p + Size(h, p)
InUse(h, p) == PrevInUse(h, Next_(h, p)) = 1

SetHead(h, p, size, prevInUse) == [h EXCEPT !.mem[p + 1] = Header(size, prevInUse)]
SetHeadSize(h, p, size) == SetHead(h, p, size, PrevInUse(h, p))
SetFoot(h, p, size) == [h EXCEPT !.mem[p + size] = size]
MarkInUse(h, p) == SetHead(h, p, Size(h, p), 1)    \* set_inuse of the chunk before p
ClearInUse(h, p) == SetHead(h, p, Size(h, p), 0)

(* MALLOC_COPY and MALLOC_ZERO go up word by word: a copy to a lower       *)
(* address may overlap what it copies.                                     *)
Copy(h, to, from, n) ==
    LET mem[k \in 0 .. n] ==
            IF k = 0 THEN h.mem
            ELSE [mem[k - 1] EXCEPT ![to + k - 1] = mem[k - 1][from + k - 1]]
    IN [h EXCEPT !.mem = mem[n]]
Zero(h, from, n) ==
    [h EXCEPT !.mem = [a \in DOMAIN h.mem |-> IF a \in from .. from + n - 1 THEN 0 ELSE @[a]]]

-----------------------------------------------------------------------------
(* Bins: bin 1 is the last remainder *)

bin_index(size) ==
    IF size < MaxSmall THEN size \div 2
    ELSE Smaller(MaxSmall \div 2 + (size - MaxSmall) \div LargeWidth, LastBin - 1)

IsSmallRequest(nb) == nb < MaxSmall - 2
BlockOf(idx) == idx \div BINBLOCKWIDTH

Without(bin, p) ==
    LET at == {k \in DOMAIN bin : bin[k] = p} IN
    IF at = {} THEN bin ELSE RemoveAt(bin, Min(at))

Unlink(h, p) == [h EXCEPT !.bins = [i \in 0 .. LastBin |-> Without(h.bins[i], p)]]

(* A slip: a large chunk always goes to the front. *)
FrontlinkUnsorted(h, p) ==
    LET idx == bin_index(Size(h, p)) IN
    [h EXCEPT !.bins[idx] = <<p>> \o @, !.marked = @ \cup {BlockOf(idx)}]

(* In size order, largest first, ahead of others of its size. *)
Place(h, bin, p) ==
    LET notLarger == {k \in DOMAIN bin : Size(h, bin[k]) <= Size(h, p)} IN
    IF Size(h, p) < MaxSmall THEN 1 ELSE Min(notLarger \cup {Len(bin) + 1})

(* The block of a large bin is marked only if the bin was empty. *)
Frontlink(h, p) ==
    LET idx == bin_index(Size(h, p))
        bin == h.bins[idx]
    IN [h EXCEPT !.bins[idx] = InsertAt(bin, Place(h, bin, p), p),
                 !.marked = IF Size(h, p) < MaxSmall \/ bin = <<>>
                            THEN @ \cup {BlockOf(idx)} ELSE @]

LinkLastRemainder(h, p) == [h EXCEPT !.bins[1] = <<p>>]
IsLastRemainder(h, p) == h.bins[1] = <<p>>

-----------------------------------------------------------------------------
(* The break *)

(* A slip: the end of the memory is forgotten. *)
InMemorySlip(new) == new >= Start

InMemory(new) == new >= Start /\ new <= End

(* What is given back is cleared, before the new break is looked at. *)
sbrk(h, increment) ==
    LET new == (h.brk + increment) % Word
        back == IF increment < Half THEN 0 ELSE Word - increment
        cleared == [h EXCEPT !.mem =
                       [a \in DOMAIN @ |-> IF (a - new) % Word < back THEN 0 ELSE @[a]]]
    IN IF InMemory(new) THEN [heap |-> [cleared EXCEPT !.brk = new], got |-> h.brk]
       ELSE [heap |-> cleared, got |-> Failure]

TrimExtra(topSize, pad) ==
    (((topSize - pad - MINSIZE + (Page - 1)) % Word) \div Page - 1) * Page

malloc_trim(h, pad) ==
    LET topSize == Size(h, h.top)
        extra == TrimExtra(topSize, pad) % Word
        back == sbrk(h, (Word - extra) % Word)
    IN IF Signed(extra) < Page \/ h.brk # h.top + topSize THEN h
       ELSE IF back.got # Failure THEN SetHead(back.heap, h.top, topSize - extra, 1)
       ELSE IF h.brk - h.top >= MINSIZE THEN SetHead(back.heap, h.top, h.brk - h.top, 1)
       ELSE back.heap

-----------------------------------------------------------------------------
(* free *)

(* The chunk joins the top, and a free chunk before it does. *)
FreeIntoTop(h, p) ==
    LET merged == IF PrevInUse(h, p) = 1 THEN p ELSE p - h.mem[p]
        size == Next_(h, h.top) - merged
        h1 == IF merged = p THEN h ELSE Unlink(h, merged)
        h2 == [SetHead(h1, merged, size, 1) EXCEPT !.top = merged]
    IN IF size >= h.trim THEN malloc_trim(h2, h.pad) ELSE h2

(* A slip: a free chunk after the freed one is left alone. *)
FreeIntoBinSlip(h, p) ==
    LET sz == Size(h, p) IN
    Frontlink(SetFoot(ClearInUse(h, p + sz), p, sz), p)

(* A slip: the chunk after it is joined and stays in its bin. *)
FreeKeepsNext(h, p) ==
    LET next == Next_(h, p)
        size == Size(h, p) + IF InUse(h, next) THEN 0 ELSE Size(h, next)
    IN Frontlink(SetFoot(SetHead(ClearInUse(h, next), p, size, PrevInUse(h, p)), p, size), p)

(* The chunk joins its free neighbours.  If one of them was the last       *)
(* remainder the whole stays it, otherwise it goes to its bin.             *)
FreeIntoBin(h, p) ==
    LET next == Next_(h, p)
        back == PrevInUse(h, p) = 0
        forth == ~InUse(h, next)
        first == IF back THEN p - h.mem[p] ELSE p
        size == (IF forth THEN Next_(h, next) ELSE next) - first
        keep == back /\ IsLastRemainder(h, first)
        move == ~keep /\ forth /\ IsLastRemainder(h, next)
        h1 == ClearInUse(h, next)
        h2 == IF back /\ ~keep THEN Unlink(h1, first) ELSE h1
        h3 == IF ~forth THEN h2
              ELSE IF move THEN LinkLastRemainder(h2, first) ELSE Unlink(h2, next)
        h4 == SetFoot(SetHead(h3, first, size, 1), first, size)
    IN IF keep \/ move THEN h4 ELSE Frontlink(h4, first)

free(h, p) == IF Next_(h, p) = h.top THEN FreeIntoTop(h, p) ELSE FreeIntoBin(h, p)

-----------------------------------------------------------------------------
(* malloc *)

(* The old top cannot be joined with the new one: two headers that look    *)
(* like chunks in use end it, and what is before them is freed.            *)
Fence(h, oldTop, oldSize) ==
    LET rest == Even(oldSize - 3)
        h1 == SetHeadSize(h, oldTop, rest)
        h2 == SetHead(SetHead(h1, oldTop + rest, 1, 1), oldTop + rest + 1, 1, 1)
    IN IF oldSize < MINSIZE THEN SetHead(h, h.top, 0, 1)   \* malloc will return null
       ELSE IF rest >= MINSIZE THEN free(h2, oldTop) ELSE h2

(* The second call of sbrk has brought the correction: the new top begins  *)
(* at new and ends with it.  Without it the memory of the first call stays *)
(* where it is.                                                            *)
EndRegion(h, new, correction, second) ==
    LET size == second.got - new + correction
        h1 == [second.heap EXCEPT !.top = new, !.regions = Append(@, new),
                                  !.mem[new + 1] = Header(size, 1)]
    IN IF second.got = Failure THEN second.heap
       ELSE IF h.top = InitialTop THEN h1
       ELSE Fence(h1, h.top, Size(h, h.top))

(* The memory at brk does not follow the top: it becomes the top, aligned  *)
(* and ended at a page boundary by a second call of sbrk.                  *)
NewRegion(h, brk, size) ==
    LET misalign == (brk + 2) % ALIGNMENT
        new == IF misalign > 0 THEN brk + ALIGNMENT - misalign ELSE brk
        correction == PageUp(new + size) - (brk + size)
    IN EndRegion(h, new, correction, sbrk([h EXCEPT !.based = TRUE], correction))

malloc_extend_top(h, nb) ==
    LET oldSize == Size(h, h.top)
        oldEnd == h.top + oldSize
        asked == (nb + h.pad + MINSIZE) % Word
        size == IF h.based THEN PageUp(asked) ELSE asked
        more == sbrk(h, size)
    IN IF more.got = Failure \/ (more.got < oldEnd /\ h.top # InitialTop) THEN more.heap
       ELSE IF more.got = oldEnd THEN SetHead(more.heap, h.top, size + oldSize, 1)
       ELSE NewRegion(more.heap, more.got, size)

(* The last chunk of a bin that is large enough *)
LastFit(h, bin, nb) ==
    LET fits == {k \in DOMAIN bin : Size(h, bin[k]) >= nb} IN
    IF fits = {} THEN Null ELSE bin[Max(fits)]

(* A chunk within MINSIZE of the size, last in its bin: for small requests *)
(* in two bins, for large ones in the one they share with other sizes.     *)
ExactFit(h, nb) ==
    LET idx == bin_index(nb)
        fit == LastFit(h, h.bins[idx], nb)
        small == h.bins[IF h.bins[idx] = <<>> THEN idx + 1 ELSE idx]
    IN IF IsSmallRequest(nb) THEN IF small = <<>> THEN Null ELSE Last(small)
       ELSE IF fit # Null /\ Size(h, fit) - nb < MINSIZE THEN fit
       ELSE Null

(* The first bin for the scan: past the bins just looked at, except a      *)
(* large one in which a chunk was too big.                                 *)
ScanFrom(h, nb) ==
    LET idx == bin_index(nb) IN
    IF IsSmallRequest(nb) THEN idx + 2
    ELSE IF \E k \in DOMAIN h.bins[idx] : Size(h, h.bins[idx][k]) >= nb THEN idx
    ELSE idx + 1

(* Take the chunk, or its first nb words: the rest is the last remainder.  *)
Carve(h, victim, nb) ==
    LET size == Size(h, victim)
        rest == victim + nb
        h1 == Unlink(h, victim)
        h2 == LinkLastRemainder(SetHead(h1, victim, nb, 1), rest)
    IN IF size - nb >= MINSIZE
       THEN SetFoot(SetHead(h2, rest, size - nb, 1), rest, size - nb)
       ELSE MarkInUse(h1, victim + size)

(* The chunks large enough in the bins of a block, from bin idx on: the    *)
(* first bin that has one, and of its chunks the last.                     *)
FitInBlock(h, nb, idx, b) ==
    LET bins == {i \in BINBLOCKWIDTH * b .. BINBLOCKWIDTH * b + 3 : i >= idx}
        full == {i \in bins : LastFit(h, h.bins[i], nb) # Null}
    IN IF full = {} THEN Null ELSE LastFit(h, h.bins[Min(full)], nb)

NothingBelow(h, idx, b) ==
    \A i \in BINBLOCKWIDTH * b .. BINBLOCKWIDTH * b + 3 : i < idx => h.bins[i] = <<>>

(* Marked blocks in order, from the one of bin idx on, until one has a     *)
(* chunk; those that have none are unmarked if no bin of theirs was        *)
(* skipped that has.                                                       *)
ScanBins(h, nb, idx) ==
    LET ahead == {b \in h.marked : b >= BlockOf(idx)}
        with == {b \in ahead : FitInBlock(h, nb, idx, b) # Null}
        seen == {b \in ahead : \A c \in with : b < c}
    IN [heap |-> [h EXCEPT !.marked = @ \ {b \in seen : NothingBelow(h, idx, b)}],
        victim |-> IF with = {} THEN Null
                   ELSE FitInBlock(h, nb, idx, Min(with))]

TakeTop(h, nb) ==
    LET rest == Size(h, h.top) - nb
        new == h.top + nb
    IN IF rest < MINSIZE THEN [heap |-> h, got |-> Null]
       ELSE [heap |-> [SetHead(SetHead(h, h.top, nb, 1), new, rest, 1) EXCEPT !.top = new],
             got |-> h.top]

FromTop(h, nb) ==
    TakeTop(IF Size(h, h.top) - nb < MINSIZE THEN malloc_extend_top(h, nb) ELSE h, nb)

(* A last remainder that is too small goes to its bin. *)
RetireRemainder(h) ==
    IF h.bins[1] = <<>> THEN h
    ELSE Frontlink([h EXCEPT !.bins[1] = <<>>], h.bins[1][1])

FromBinsOrTop(scan, nb) ==
    IF scan.victim # Null
    THEN [heap |-> Carve(scan.heap, scan.victim, nb), got |-> scan.victim]
    ELSE FromTop(scan.heap, nb)

Find(h, nb) ==
    LET exact == ExactFit(h, nb)
        last == h.bins[1]
    IN IF exact # Null
       THEN [heap |-> MarkInUse(Unlink(h, exact), Next_(h, exact)), got |-> exact]
       ELSE IF last # <<>> /\ Size(h, last[1]) >= nb
       THEN [heap |-> Carve(h, last[1], nb), got |-> last[1]]
       ELSE FromBinsOrTop(ScanBins(RetireRemainder(h), nb, ScanFrom(h, nb)), nb)

malloc(h, bytes) ==
    IF ~h.ready \/ bytes >= Half THEN [heap |-> h, got |-> Null]
    ELSE Find(h, request2size(bytes))

-----------------------------------------------------------------------------
(* realloc, memalign, calloc *)

(* A slip: what is split off is not freed. *)
SplitSlip(h, p, newsize, nb) ==
    IF newsize - nb >= MINSIZE
    THEN MarkInUse(SetHead(SetHeadSize(h, p, nb), p + nb, newsize - nb, 1), p + newsize)
    ELSE MarkInUse(SetHeadSize(h, p, newsize), p + newsize)

(* p has newsize words of which nb are wanted: the rest is freed. *)
Split(h, p, newsize, nb) ==
    LET rest == p + nb
        h1 == SetHead(SetHeadSize(h, p, nb), rest, newsize - nb, 1)
    IN IF newsize - nb >= MINSIZE
       THEN free(MarkInUse(h1, p + newsize), rest)
       ELSE MarkInUse(SetHeadSize(h, p, newsize), p + newsize)

(* The chunk at p with the top after it: the top now begins nb words on. *)
IntoTop(h, p, nb) ==
    LET end == Next_(h, h.top) IN
    [SetHead(SetHeadSize(h, p, nb), p + nb, end - (p + nb), 1) EXCEPT !.top = p + nb]

ShiftBack(h, prev, p) == Copy(Unlink(h, prev), prev + 2, p + 2, Size(h, p) - 1)

(* A new block, the words copied, the old block freed -- or, when the new  *)
(* block follows the old one, both together.                               *)
MoveTo(new, p, nb) ==
    LET size == Size(new.heap, p) IN
    IF new.got = Null THEN new
    ELSE IF new.got = p + size
    THEN [heap |-> Split(new.heap, p, size + Size(new.heap, new.got), nb), got |-> p]
    ELSE [heap |-> free(Copy(new.heap, new.got + 2, p + 2, size - 1), p), got |-> new.got]

realloc(h, p, bytes) ==
    LET nb == request2size(bytes)
        size == Size(h, p)
        next == p + size
        atTop == next = h.top
        room == IF atTop \/ ~InUse(h, next) THEN Size(h, next) ELSE 0
        forth == room > 0 /\ ~atTop
        back == PrevInUse(h, p) = 0
        prev == p - h.mem[p]
        behind == size + h.mem[p]
        Got(heap, q) == [heap |-> heap, got |-> q]
    IN IF bytes >= Half THEN Got(h, Null)
       ELSE IF size >= nb THEN Got(Split(h, p, size, nb), p)
       ELSE IF atTop /\ room + size >= nb + MINSIZE THEN Got(IntoTop(h, p, nb), p)
       ELSE IF forth /\ room + size >= nb
       THEN Got(Split(Unlink(h, next), p, room + size, nb), p)
       ELSE IF back /\ atTop /\ room + behind >= nb + MINSIZE
       THEN Got(IntoTop(ShiftBack(h, prev, p), prev, nb), prev)
       ELSE IF back /\ forth /\ room + behind >= nb
       THEN Got(Split(ShiftBack(Unlink(h, next), prev, p), prev, room + behind, nb), prev)
       ELSE IF back /\ behind >= nb
       THEN Got(Split(ShiftBack(h, prev, p), prev, behind, nb), prev)
       ELSE MoveTo(malloc(h, bytes), p, nb)

(* The words before the first aligned place that leaves room for a chunk   *)
(* are freed, and then the words after the request.                        *)
FreeLeader(m, alignment) ==
    LET p == m.got
        up == ((p + 2 + alignment - 1) \div alignment) * alignment - 2
        new == IF up - p < MINSIZE THEN up + alignment ELSE up
        size == Size(m.heap, p) - (new - p)
        h1 == SetHeadSize(SetHead(m.heap, new, size, 1), p, new - p)
    IN IF (p + 2) % alignment = 0 THEN m
       ELSE [heap |-> free(MarkInUse(h1, new + size), p), got |-> new]

FreeSpare(m, nb) ==
    LET p == m.got
        spare == Size(m.heap, p) - nb
        h1 == SetHeadSize(SetHead(m.heap, p + nb, spare, 1), p, nb)
    IN IF spare >= MINSIZE THEN [heap |-> free(h1, p + nb), got |-> p] ELSE m

Align(m, alignment, nb) == IF m.got = Null THEN m ELSE FreeSpare(FreeLeader(m, alignment), nb)

memalign(h, align, bytes) ==
    LET alignment == IF align < MINSIZE THEN MINSIZE ELSE align
        nb == request2size(bytes)
    IN IF bytes >= Half THEN [heap |-> h, got |-> Null]
       ELSE IF align <= ALIGNMENT THEN malloc(h, bytes)
       ELSE Align(malloc(h, (nb + alignment + MINSIZE) % Word), alignment, nb)

valloc(h, bytes) == memalign(h, Page, bytes)
pvalloc(h, bytes) == memalign(h, Page, PageUp(bytes % Word))

(* A slip: a chunk cut from the old top and fresh memory is not cleared. *)
ClearedSlip(h, p, size) == IF p = h.top /\ size > Size(h, h.top) THEN 1 ELSE size

(* How much of a chunk has to be cleared: not what the break has just      *)
(* brought, which is clear.  h is the heap before the allocation.          *)
Cleared(h, p, size) == IF p = h.top /\ size > Size(h, h.top) THEN Size(h, h.top) ELSE size

(* A negative n is refused after the block has been allocated. *)
ClearNew(h, new, n) ==
    LET words == Cleared(h, new.got, Size(new.heap, new.got)) - 1 IN
    IF n >= Half \/ new.got = Null THEN [heap |-> new.heap, got |-> Null]
    ELSE [heap |-> Zero(new.heap, new.got + 2, words), got |-> new.got]

calloc(h, n, elem) == ClearNew(h, malloc(h, (n * elem) % Word), n)

malloc_usable_size(h, p) == IF InUse(h, p) THEN Size(h, p) - 1 ELSE 0

mem_malloc_init(h) ==
    [Zero(h, Start, End - Start) EXCEPT !.ready = TRUE, !.brk = Start]
=============================================================================
