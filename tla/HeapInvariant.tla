--------------------------- MODULE HeapInvariant ---------------------------
(***************************************************************************)
(* The inductive invariant of the heap, HeapInv, and what its proof needs  *)
(* to say: how chunks lie in the memory, what their tags hold, what the    *)
(* bins hold, and how each step of malloc.c changes the three.  The        *)
(* invariant names what the code never keeps in one place: the chunks C,   *)
(* the stops S that end a region, the size z of each, which chunks are     *)
(* free, and the words F that other users of the break have.               *)
(***************************************************************************)
EXTENDS Heap

-----------------------------------------------------------------------------
(* The layout of a heap *)

TopAt(top) == IF top = InitialTop THEN {} ELSE {top}
Pieces(C, S, top) == C \cup S \cup TopAt(top)

(* The first word after a piece; of a stop, after the header behind it. *)
Beyond(S, z, x) == IF x \in S THEN x + z[x] + 2 ELSE x + z[x]

IsChunk(z, x) == z[x] >= MINSIZE /\ z[x] % 2 = 0 /\ x % 2 = 0

(* Chunks C, stops S and the top of sizes z lie side by side in the memory *)
(* below the break and off the words F of others; each is the first of a   *)
(* region or follows a chunk.                                              *)
Laid(C, S, z, top, brk, heads, F) ==
    /\ brk \in Start .. End /\ z \in [Nat -> Nat] /\ top \in Nat
    /\ Pieces(C, S, top) \subseteq Start .. End
    /\ C \cap S = {} /\ top \notin C \cup S
    /\ \A x \in C \cup TopAt(top) : IsChunk(z, x)
    /\ \A x \in S : z[x] \in 1 .. 2
    /\ \A x, y \in Pieces(C, S, top) : x < y => Beyond(S, z, x) <= y
    /\ \A x \in Pieces(C, S, top) : Beyond(S, z, x) <= brk
    /\ \A c \in C : c + z[c] \in Pieces(C, S, top)
    /\ \A w \in F : /\ w \in Start .. brk - 1
                    /\ \A x \in Pieces(C, S, top) : w < x \/ w >= Beyond(S, z, x)
    /\ heads \subseteq Pieces(C, S, top)
    /\ \A c \in C : c + z[c] \notin heads
    /\ \A x \in Pieces(C, S, top) : x \in heads \/ \E c \in C : c + z[c] = x
    /\ top # InitialTop => (top + z[top]) % Page = 0

-----------------------------------------------------------------------------
(* Bins *)

(* In a bin of sizes: the chunks that belong there, the largest first. *)
InOrder(bin, z, i) ==
    \A k \in DOMAIN bin : /\ bin_index(z[bin[k]]) = i
                          /\ k > 1 => z[bin[k - 1]] >= z[bin[k]]

IsBin(bin, T) == bin \in Seq(T)
Run(bin, n, T) == n \in Nat /\ bin \in [1 .. n -> T]
Once(bin) == \A k, l \in DOMAIN bin : bin[k] = bin[l] => k = l
In(f, bin) == \E k \in DOMAIN bin : bin[k] = f

(* Every free chunk is in one bin, at one place. *)
Binned(bins, marked, z, idle) ==
    /\ bins = [i \in 0 .. LastBin |-> bins[i]] /\ marked \subseteq 0 .. BlockOf(LastBin)
    /\ \A i \in 0 .. LastBin : IsBin(bins[i], idle) /\ Once(bins[i])
    /\ \A f \in idle : \E i \in 0 .. LastBin : In(f, bins[i])
    /\ \A i, j \in 0 .. LastBin : \A f \in idle : In(f, bins[i]) /\ In(f, bins[j]) => i = j
    /\ bins[0] = <<>> /\ (bins[1] = <<>> \/ \E f \in idle : bins[1] = <<f>>)
    /\ \A i \in 2 .. LastBin : /\ InOrder(bins[i], z, i)
                               /\ bins[i] # <<>> => BlockOf(i) \in marked

(* A sequence without one of its places *)
Gap(bin, n, m) == [j \in 1 .. n - 1 |-> IF j < m THEN bin[j] ELSE bin[j + 1]]

Unlinked(b, p) == [i \in 0 .. LastBin |-> Without(b[i], p)]

NatSizes(z, idle) == \A f \in idle : z[f] \in Nat
RemainderWithout(b2, bins, p) ==
    /\ bins[1] # <<p>> => b2[1] = bins[1]
    /\ bins[1] = <<p>> => b2[1] = <<>>

(* A place for a chunk in a bin *)
Room(bin, n, m, p) == [j \in 1 .. n + 1 |-> IF j < m THEN bin[j] ELSE IF j = m THEN p ELSE bin[j - 1]]

-----------------------------------------------------------------------------
(* The parts of a heap and of its bins that an operation leaves alone *)

IsHeap(h) ==
    h = [mem |-> h.mem, ready |-> h.ready, brk |-> h.brk, based |-> h.based, top |-> h.top,
         bins |-> h.bins, marked |-> h.marked, trim |-> h.trim, pad |-> h.pad,
         regions |-> h.regions]

(* k differs from h in its memory, its bins and its top at most. *)
Settings(k, h) ==
    /\ IsHeap(k) /\ k.ready = h.ready /\ k.brk = h.brk /\ k.based = h.based
    /\ k.trim = h.trim /\ k.pad = h.pad /\ k.regions = h.regions

(* What Frontlink and Unlink need to know of sizes *)
Sizes(h, z, idle) ==
    \A f \in idle : /\ z[f] \in Nat /\ z[f] >= MINSIZE /\ z[f] % 2 = 0
                    /\ Size(h, f) = z[f]

(* k differs from h in its bins at most. *)
Linked(k, h) == Settings(k, h) /\ k.mem = h.mem /\ k.top = h.top

-----------------------------------------------------------------------------
(* The tags: sizes and use bits *)

(* The use bit in a header: is the piece before it not free? *)
Bit(z, idle, x) == IF \E f \in idle : f + z[f] = x THEN 0 ELSE 1

(* Every piece has its size in its header, except those of L, and the use  *)
(* bit of what is before it, except those of M; a free chunk has its size  *)
(* at its end as well, and a stop ends with the header of a chunk in use.  *)
Tagged(m, C, S, z, top, idle, L, M) ==
    /\ m \in [Start .. End - 1 -> Int]
    /\ \A x \in Pieces(C, S, top) \ L : m[x + 1] \div 2 = z[x]
    /\ \A x \in Pieces(C, S, top) \ M : m[x + 1] % 2 = Bit(z, idle, x)
    /\ \A f \in idle : m[f + z[f]] = z[f]
    /\ \A s \in S : m[s + z[s] + 1] % 2 = 1

(* v is written at w, and nothing else. *)
WordStored(m2, m, w, v) == m2 = [m EXCEPT ![w] = v]
OnlyWord(m2, m, w, v) == m2[w] = v /\ \A a : a # w => m2[a] = m[a]

TagWords(C, S, z, top, idle) ==
    {x + 1 : x \in Pieces(C, S, top)} \cup {f + z[f] : f \in idle} \cup {s + z[s] + 1 : s \in S}

(* All tags are right, or all but those of p. *)
AllTags(m, C, S, z, top, idle) == Tagged(m, C, S, z, top, idle, {}, {})
TagsBut(m, C, S, z, top, idle, p) == Tagged(m, C, S, z, top, idle, {p}, {p + z[p]})

SameBits(z2, z, idle) == \A x : Bit(z2, idle, x) = Bit(z, idle, x)

(* z2 is z but for p and q; D with t has no piece but q that is new. *)
IsCut(C, S, z, top, idle, p, q, n, r, D, t, z2) ==
    /\ p \notin idle \cup S /\ q \notin C \cup S
    /\ Pieces(D, S, t) \subseteq Pieces(C, S, top) \cup {q}
    /\ z2 = [z EXCEPT ![p] = n, ![q] = r]

(* Free chunks touch neither each other nor the top. *)
Merged(z, top, idle) == \A f \in idle : f + z[f] \notin idle /\ f + z[f] # top

(* A heap whose tags are right, and one in which those of a chunk p in use *)
(* are yet to be written                                                   *)
Whole(m, C, S, z, top, brk, heads, F, idle) ==
    /\ Laid(C, S, z, top, brk, heads, F) /\ idle \in SUBSET C /\ Merged(z, top, idle)
    /\ AllTags(m, C, S, z, top, idle)

Pending(m, C, S, z, top, brk, heads, F, idle, p) ==
    /\ Laid(C, S, z, top, brk, heads, F) /\ idle \in SUBSET C /\ Merged(z, top, idle)
    /\ TagsBut(m, C, S, z, top, idle, p) /\ p \in C \ idle /\ p + z[p] \notin idle

(* C2, z2, free2 are C, z, idle with what is free after p joined to it. *)
JoinForth(m, C, S, z, top, idle, p, C2, z2, free2) ==
    LET next == p + z[p] IN
    /\ C2 \ free2 = C \ idle /\ free2 = idle \ {next}
    /\ \A x \in (C2 \ {p}) \cup S : z2[x] = z[x]
    /\ \A x : Bit(z2, free2, x) = 0 => Bit(z, idle, x) = 0
    /\ p + z2[p] = IF next \in idle THEN next + z[next] ELSE next
    /\ next \in idle => p + z2[p] # top /\ m[p + z2[p] + 1] % 2 = 0

(* The same with f, which is free before p, joined to p *)
JoinBack(m, C, S, z, idle, p, f, C2, z2, free2) ==
    /\ C2 \ free2 = ((C \ idle) \ {p}) \cup {f} /\ free2 = idle \ {f}
    /\ \A x \in (C2 \ {f}) \cup S : z2[x] = z[x]
    /\ Bit(z2, free2, f) = 1 /\ m[p] = z[f] /\ f + z2[f] = p + z[p]

(* The joined chunk becomes free. *)
FreedMem(m, z, p) == [[m EXCEPT ![p + 1] = Header(z[p], 1)] EXCEPT ![p + z[p]] = z[p]]

(* What the primitives do to the parts of a heap *)
Rewritten(k, h, m) ==
    /\ Settings(k, h) /\ k.mem = m
    /\ k.bins = h.bins /\ k.marked = h.marked /\ k.top = h.top

Relinked(k, h, b) == Linked(k, h) /\ k.marked = h.marked /\ k.bins = b

-----------------------------------------------------------------------------
(* A heap between two calls *)

Good(h, C, S, z, idle, F) ==
    /\ IsHeap(h) /\ h.ready /\ h.trim \in Nat /\ h.pad \in Pads /\ IsBin(h.regions, Nat)
    /\ h.top # InitialTop => h.based
    /\ Whole(h.mem, C, S, z, h.top, h.brk, ToSet(h.regions), F, idle)
    /\ Binned(h.bins, h.marked, z, idle)

(* A heap in which the chunks U are in use, of sizes s.                     *)
Sound(h, U, s, F) ==
    \E C, S, z, idle : /\ Good(h, C, S, z, idle, F)
                       /\ C \ idle = U /\ \A x \in U : z[x] = s[x]

(* The chunks FreeIntoBin joins to p: first is the first word of them.     *)
JoinAround(m, C, S, z, top, idle, p, first, C2, z2, free2) ==
    LET next == p + z[p] IN
    /\ first = IF Bit(z, idle, p) = 0 THEN p - m[p] ELSE p
    /\ free2 = idle \ {next, first}
    /\ C2 \ (free2 \cup {first}) = (C \ idle) \ {p}
    /\ \A x \in (C2 \ {first}) \cup S : z2[x] = z[x]
    /\ first + z2[first] = IF next \in idle THEN next + z[next] ELSE next
    /\ next \in idle => m[first + z2[first] + 1] % 2 = 0
    /\ Bit(z2, free2, first) = 1 /\ first <= p
    /\ IF Bit(z, idle, p) = 0 THEN first \in idle /\ first + z[first] = p ELSE first \notin idle
    /\ first + z2[first] = top => next = top

-----------------------------------------------------------------------------
(* The break *)

(* k differs from h in its memory and in its break. *)
Moved(k, h, m, b) ==
    /\ IsHeap(k) /\ k.mem = m /\ k.brk = b
    /\ k.ready = h.ready /\ k.based = h.based /\ k.top = h.top
    /\ k.bins = h.bins /\ k.marked = h.marked
    /\ k.trim = h.trim /\ k.pad = h.pad /\ k.regions = h.regions

Below(m, new, brk) == [a \in DOMAIN m |-> IF a >= new /\ a < brk THEN 0 ELSE m[a]]

-----------------------------------------------------------------------------
(* malloc *)

(* The first words of a free chunk are taken, and the rest is free. *)
CarvedMem(m, z, p, nb) ==
    LET m1 == [m EXCEPT ![p + 1] = Header(nb, 1)]
        m2 == [m1 EXCEPT ![p + nb + 1] = Header(z[p] - nb, 1)]
    IN [m2 EXCEPT ![p + nb + (z[p] - nb)] = z[p] - nb]

CarvedSizes(z, p, nb) == [z EXCEPT ![p] = nb, ![p + nb] = z[p] - nb]

(* What an allocation of a chunk of size nb may give: no chunk, or one of  *)
(* that size at least that was not in use.                                 *)
Given(r, U, s, F, nb) ==
    \E t : /\ Sound(r.heap, U \cup {r.got}, t, F) /\ r.got \notin U /\ r.got # Null
           /\ t[r.got] >= nb /\ \A x \in U : t[x] = s[x]

Got(r, U, s, F, nb) == Given(r, U, s, F, nb) \/ (r.got = Null /\ Sound(r.heap, U, s, F))

(* What a search of some bins finds: nothing, or a free chunk that fits *)
Fits(f, z, idle, nb) == f \in idle /\ f # Null /\ z[f] >= nb

TopCutMem(m, z, top, nb) ==
    [[m EXCEPT ![top + 1] = Header(nb, 1)] EXCEPT ![top + nb + 1] = Header(z[top] - nb, 1)]

Cuttable(z, top, nb) ==
    top # InitialTop /\ nb \in Nat /\ nb >= MINSIZE /\ nb % 2 = 0 /\ z[top] - nb >= MINSIZE

TopCut(z, z2, C, S, top, q, nb) ==
    /\ q = top + nb /\ z2[top] = nb /\ z2[q] = z[top] - nb
    /\ \A x \in C \cup S : z2[x] = z[x]

SizesKept(z2, z, C) == \A x \in C : z2[x] = z[x]

(* Where a new region goes *)
IsPlace(new, n, brk) ==
    /\ new \in Nat /\ brk <= new /\ new % 2 = 0 /\ n \in Nat /\ n >= MINSIZE /\ n % 2 = 0
    /\ new + n <= End /\ (new + n) % Page = 0

(* The old top ends a region: it becomes a stop. *)
Stopped(m, m2, C, S, z, top, idle, n) ==
    /\ m2 \in [Start .. End - 1 -> Int]
    /\ \A a \in TagWords(C, S, z, top, idle) : a # top + 1 => m2[a] = m[a]
    /\ m2[top + 1] = Header(n, 1) /\ m2[top + n + 1] % 2 = 1
    /\ n \in 1 .. 2 /\ n + 2 <= z[top] /\ top # InitialTop

(* What Fence writes besides the header of the new top *)
Fenced(M, m, top, rest, new, n) ==
    /\ M \in [Start .. End - 1 -> Int] /\ M[new + 1] = Header(n, 1)
    /\ M[top + rest + 1] = Header(1, 1) /\ M[top + rest + 2] = Header(1, 1)
    /\ rest # 0 => M[top + 1] = Header(rest, 1)
    /\ \A a \in Start .. End - 1 :
           a \notin {new + 1, top + 1, top + rest + 1, top + rest + 2} => M[a] = m[a]

(* What was the top is a chunk, unless it is too small. *)
FenceChunks(C2, C, z, top) == C2 = IF z[top] - 4 >= MINSIZE THEN C \cup {top} ELSE C

TopFenced(M, m, z, top, new, n) == top # InitialTop /\ Fenced(M, m, top, z[top] - 4, new, n)

Ended(M, C, z, top, new, n, heads, F, idle) ==
    \E C2, S2, z2 : /\ Whole(M, C2, S2, z2, new, new + n, heads \cup {new}, F, idle)
                    /\ SizesKept(z2, z, C)
                    /\ FenceChunks(C2, C, z, top)

(* k has another break than h, and knows of one base at least. *)
Broken(k, h, b) ==
    /\ IsHeap(k) /\ k.mem = h.mem /\ k.brk = b /\ k.ready = h.ready /\ (h.based => k.based)
    /\ k.top = h.top /\ k.bins = h.bins /\ k.marked = h.marked
    /\ k.trim = h.trim /\ k.pad = h.pad /\ k.regions = h.regions

(* The top and the regions are others. *)
Started(k, h, new, m) ==
    /\ IsHeap(k) /\ k.mem = m /\ k.brk = h.brk /\ k.ready = h.ready /\ k.based = h.based
    /\ k.top = new /\ k.bins = h.bins /\ k.marked = h.marked
    /\ k.trim = h.trim /\ k.pad = h.pad /\ k.regions = Append(h.regions, new)

FenceMem(m, top, rest) ==
    LET m1 == [m EXCEPT ![top + 1] = Header(rest, 1)]
        m2 == [m1 EXCEPT ![top + rest + 1] = Header(1, 1)]
    IN [m2 EXCEPT ![top + rest + 1 + 1] = Header(1, 1)]

FenceHeap(h, top, rest) ==
    SetHead(SetHead(SetHead(h, top, rest, 1), top + rest, 1, 1), top + rest + 1, 1, 1)

(* A size that leaves room for the overhead below half of the word *)
Askable(nb) ==
    /\ nb \in Nat /\ nb >= MINSIZE /\ nb % 2 = 0
    /\ \A pad \in Pads : nb + pad + 2 * Page + MINSIZE <= Half

AskedSize(h, nb) ==
    LET asked == (nb + h.pad + MINSIZE) % Word IN IF h.based THEN PageUp(asked) ELSE asked

(* A request the code refuses, or one that leaves room for its overhead *)
Asking(bytes) == bytes \in Nat /\ (bytes < Half => Askable(request2size(bytes)))

-----------------------------------------------------------------------------
(* realloc *)

(* m2 is m with the headers of the pieces in N written. *)
HeadsWritten(m2, m, C, S, z, top, idle, N) ==
    /\ m2 \in [Start .. End - 1 -> Int] /\ N \subseteq Pieces(C, S, top)
    /\ \A x \in N : m2[x + 1] = Header(z[x], Bit(z, idle, x))
    /\ \A a \in Start .. End - 1 : (\A x \in N : a # x + 1) => m2[a] = m[a]

(* A heap in which a chunk p in use has its size and the bit after it yet  *)
(* to be written; what is free after it is not joined to it yet or is.     *)
Loose(m, C, S, z, top, brk, heads, F, idle, p) ==
    /\ Laid(C, S, z, top, brk, heads, F) /\ idle \in SUBSET C /\ Merged(z, top, idle)
    /\ TagsBut(m, C, S, z, top, idle, p) /\ p \in C \ idle

Held(h, C, S, z, idle, F, p) ==
    /\ IsHeap(h) /\ h.ready /\ h.trim \in Nat /\ h.pad \in Pads /\ IsBin(h.regions, Nat)
    /\ h.top # InitialTop => h.based
    /\ Loose(h.mem, C, S, z, h.top, h.brk, ToSet(h.regions), F, idle, p)
    /\ Binned(h.bins, h.marked, z, idle)

(* The headers of a chunk cut in two, written in some order *)
CutMem(m2, m, z, idle, p, nb) ==
    /\ m2 \in [Start .. End - 1 -> Int]
    /\ m2[p + 1] = Header(nb, Bit(z, idle, p))
    /\ m2[p + nb + 1] = Header(z[p] - nb, 1)
    /\ m2[p + z[p] + 1] = Header(z[p + z[p]], 1)
    /\ \A a \in Start .. End - 1 : a \notin {p + 1, p + nb + 1, p + z[p] + 1} => m2[a] = m[a]

IsRest(z, p, nb) == nb \in Nat /\ nb >= MINSIZE /\ nb % 2 = 0 /\ z[p] - nb >= MINSIZE

IsCarved(C, z, idle, p, nb) ==
    LET z2 == CarvedSizes(z, p, nb) IN
    /\ p + nb \notin C /\ p \in C \ idle /\ idle \in SUBSET C
    /\ z2[p] = nb /\ z2[p + nb] = z[p] - nb
    /\ \A x \in C \ {p} : z2[x] = z[x]

Holding(h, U, s, F, p, n) ==
    \E C, S, z, fr : /\ Held(h, C, S, z, fr, F, p)
                     /\ C \ fr = U /\ z[p] = n /\ \A x \in U \ {p} : z[x] = s[x]

(* The headers of a chunk before the top and of the top after it moved *)
TopMoved(m2, m, z, top, idle, p, nb) ==
    /\ p + z[p] = top
    /\ nb \in Nat /\ nb >= MINSIZE /\ nb % 2 = 0 /\ (z[p] + z[top]) - nb >= MINSIZE
    /\ m2 \in [Start .. End - 1 -> Int]
    /\ m2[p + 1] = Header(nb, Bit(z, idle, p))
    /\ m2[p + nb + 1] = Header((z[p] + z[top]) - nb, 1)
    /\ \A a \in Start .. End - 1 : a # p + 1 /\ a # p + nb + 1 => m2[a] = m[a]

IsTopped(m2, C, S, z, brk, heads, F, idle, p, nb) ==
    \E z2 : /\ Whole(m2, C, S, z2, p + nb, brk, heads, F, idle)
            /\ z2[p] = nb /\ SizesKept(z2, z, C \ {p})

(* A chunk in use with the free chunk after it *)
Extended(C2, z2, fr2, C, z, fr, p) ==
    /\ C2 \ fr2 = C \ fr /\ fr2 = fr \ {p + z[p]} /\ z2[p] = z[p] + z[p + z[p]]
    /\ p + z2[p] \notin fr2 /\ \A x \in C2 \ {p} : z2[x] = z[x]

(* What MALLOC_COPY leaves when no word is written before it is read *)
Copied(m, to, from, n) ==
    [a \in Start .. End - 1 |-> IF a \in to .. to + n - 1 THEN m[(a - to) + from] ELSE m[a]]

MayCopy(to, from, n) ==
    /\ to \in Nat /\ from \in Nat /\ n \in Nat /\ (to < from \/ to >= from + n)
    /\ Start <= to /\ to + n <= End /\ Start <= from /\ from + n <= End

Regot(r, U, s, F, p, nb) ==
    Given(r, U \ {p}, s, F, nb) \/ (r.got = Null /\ Sound(r.heap, U, s, F))

NbOk(nb) == nb \in Nat /\ nb >= MINSIZE /\ nb % 2 = 0

-----------------------------------------------------------------------------
(* memalign *)

(* The sizes that may be asked for *)
Asks(n) == n \in Nat /\ \A pad \in Pads : n + pad + 2 * Page + 8 <= Half

GivenIn(r, U, s, F, nb, C, S, z, fr) ==
    /\ Good(r.heap, C, S, z, fr, F) /\ C \ fr = U \cup {r.got} /\ r.got \notin U
    /\ r.got # Null /\ z[r.got] >= nb /\ \A x \in U : z[x] = s[x]

(* The sizes and alignments that may be asked for *)
MayAlign(n, a) ==
    /\ n \in Nat /\ a \in Nat /\ a % 2 = 0
    /\ \A pad \in Pads : n + a + pad + 2 * Page + 16 <= Half

-----------------------------------------------------------------------------
(* The walk over the chunks finds all of them *)

Past(h, a) == a < Start \/ a = h.top \/ a >= h.brk - 1

WalkFrom(h, f, a) ==
    IF Past(h, a) THEN {} ELSE IF Size(h, a) < MINSIZE THEN {a} ELSE {a} \cup f[a + Size(h, a)]

IsWalk(h, f) == f = [a \in Nat |-> WalkFrom(h, f, a)]

Goes(h, a) == ~Past(h, a) /\ ~(Size(h, a) < MINSIZE)
Closed(h, X) == \A x \in X : Goes(h, x) => x + Size(h, x) \in X
Reach(h, a) == {b \in Nat : \A X \in SUBSET Nat : Closed(h, X) /\ a \in X => b \in X}

-----------------------------------------------------------------------------
(* The program's blocks *)

OwnedIn(l) == {a \in DOMAIN l : l[a].from = "malloc"}
ForeignIn(l) == {a \in DOMAIN l : l[a].from = "sbrk"}
Used(l) == {a - 2 : a \in OwnedIn(l)}
Taken(l) == UNION {a .. a + l[a].len - 1 : a \in ForeignIn(l)}

Entries(l) ==
    \A a \in DOMAIN l : /\ a \in Nat /\ l[a].len \in Nat /\ l[a].tag \in Tags \cup {0}
                        /\ l[a].from \in {"malloc", "sbrk"}
                        /\ l[a].from = "malloc" => a - 2 \in Nat
                        /\ l[a].from = "sbrk" => l[a].len > 0

ForeignApart(l) ==
    \A a, b \in ForeignIn(l) :
        a # b => (a .. a + l[a].len - 1) \cap (b .. b + l[b].len - 1) = {}

(* Every block of the program is a chunk in use with room for it. *)
Fitting(h, l) ==
    \E s : Sound(h, Used(l), s, Taken(l)) /\ \A p \in Used(l) : l[p + 2].len + 1 <= s[p]

Unready(h) ==
    /\ IsHeap(h) /\ h.ready = FALSE /\ h.based = FALSE /\ h.brk = 0 /\ h.top = InitialTop
    /\ h.regions = <<>> /\ h.bins = [i \in 0 .. LastBin |-> <<>>] /\ h.marked = {}
    /\ h.mem \in [Start .. End - 1 -> Int] /\ h.trim \in Nat /\ h.pad \in Pads

(* The inductive invariant *)
HeapInv(h, l) ==
    IF h.ready THEN Entries(l) /\ ForeignApart(l) /\ Fitting(h, l)
    ELSE Unready(h) /\ DOMAIN l = {}

Put(l, p, n, t) ==
    [a \in DOMAIN l \cup {p + 2} |-> IF a = p + 2 THEN Entry(n, t, "malloc") ELSE l[a]]
Taking(l, a) == [b \in DOMAIN l \ {a} |-> l[b]]

IsPut(k, l, p, n) ==
    /\ Entries(k) /\ (ForeignApart(l) => ForeignApart(k))
    /\ Used(k) = Used(l) \cup {p} /\ Taken(k) = Taken(l) /\ k[p + 2].len = n
    /\ \A q \in Used(l) : k[q + 2].len = l[q + 2].len

IsTaking(k, l, a) ==
    /\ Entries(k) /\ (ForeignApart(l) => ForeignApart(k))
    /\ Used(k) = Used(l) \ {a - 2} /\ Taken(k) = Taken(l) /\ a - 2 \in Used(l)
    /\ \A q \in Used(k) : k[q + 2].len = l[q + 2].len

Roomy(l, s) == \A p \in Used(l) : l[p + 2].len + 1 <= s[p]

Stored(h, r, n) ==
    \/ h = r.heap
    \/ \E t \in Nat, from \in Nat \ {0} : h = Fill(r.heap, r.got, n, t, from)

(* A result is what the caller may get. *)
Serves(h, l, r, nb) ==
    /\ \A s : Sound(h, Used(l), s, Taken(l)) => Got(r, Used(l), s, Taken(l), nb)
    /\ ~h.ready => r.heap = h /\ r.got = Null

-----------------------------------------------------------------------------
(* What the public functions return *)

Fine(h, l, r, n) == \E nb \in Nat : n + 1 <= nb /\ Serves(h, l, r, nb)

(* k differs from h in the thresholds at most. *)
Retuned(k, h) ==
    /\ IsHeap(k) /\ k.mem = h.mem /\ k.ready = h.ready /\ k.brk = h.brk /\ k.based = h.based
    /\ k.top = h.top /\ k.bins = h.bins /\ k.marked = h.marked /\ k.regions = h.regions
    /\ k.trim \in Nat /\ k.pad \in Pads

(* A block of n words at a that is taken by another user of the break *)
Lent(l, a, n, t) ==
    [b \in DOMAIN l \cup {a} |-> IF b = a THEN Entry(n, t, "sbrk") ELSE l[b]]

IsLent(k, l, a, n) ==
    /\ Entries(k) /\ (ForeignApart(l) => ForeignApart(k))
    /\ Used(k) = Used(l) /\ Taken(k) = Taken(l) \cup a .. a + n - 1
    /\ \A q \in Used(l) : k[q + 2].len = l[q + 2].len

(* The memory with the n words from a on stored *)
Kept(m, a, n, t) ==
    [w \in DOMAIN m |-> IF w \in a .. a + n - 1 THEN Cell(t, w - a + 1) ELSE m[w]]

IsKept(m2, m, a, n) ==
    /\ m2 \in [Start .. End - 1 -> Int]
    /\ \A w \in Start .. End - 1 : w \notin a .. a + n - 1 => m2[w] = m[w]

(* The heap that mem_malloc_init leaves has no chunk yet. *)
Blank(k, h) ==
    /\ IsHeap(k) /\ k.mem \in [Start .. End - 1 -> Int] /\ k.ready = TRUE /\ k.brk = Start
    /\ k.based = FALSE /\ k.top = InitialTop /\ k.regions = <<>>
    /\ k.bins = [i \in 0 .. LastBin |-> <<>>] /\ k.marked = {}
    /\ k.trim = h.trim /\ k.pad = h.pad

Readied(k, g, v, b) ==
    /\ IsHeap(k) /\ k.mem = g.mem /\ k.ready = v /\ k.brk = b /\ k.based = g.based
    /\ k.top = g.top /\ k.bins = g.bins /\ k.marked = g.marked
    /\ k.trim = g.trim /\ k.pad = g.pad /\ k.regions = g.regions

-----------------------------------------------------------------------------
(* Every call keeps the invariant, and what follows from it *)

FilledPlaces(bins) ==
    {ik \in {<<i, k>> : i \in DOMAIN bins, k \in 1 .. End} : ik[2] \in DOMAIN bins[ik[1]]}
=============================================================================
