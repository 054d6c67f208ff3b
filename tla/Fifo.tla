-------------------------------- MODULE Fifo --------------------------------
(***************************************************************************)
(* The ring buffer of src/lib/fifo.c: fifo_in, fifo_out and fifo_reset on  *)
(* a buffer of Count elements, one call after another.                     *)
(*                                                                         *)
(* An element is one value: offsets and lengths, which the code multiplies *)
(* by esize for memcpy, are in elements, as is the buffer.  A null source  *)
(* means that the caller has stored, or will store, the elements at        *)
(* fifo_iaddr itself; a null destination drops them.                       *)
(***************************************************************************)
EXTENDS Integers, Sequences

CONSTANTS
    Count,    \* fifo->count
    Values,   \* what an element may be
    Word      \* 2^32 for the program, the modulus of its u32 arithmetic

(* "take a warning, (fifo->out + cnt) could overflow": not up to here. *)
ASSUME FifoAssumption ==
    /\ Count \in Nat \ {0}
    /\ Word \in Nat
    /\ 2 * Count <= Word
    /\ Values # {}

VARIABLES
    data, in, out, unused,   \* the fifo
    moved, ret               \* what the last call took from src or stored at
                             \* des, and what it returned

ring == <<data, in, out, unused>>
vars == <<ring, moved, ret>>

Cells == 0 .. Count - 1

Least(a, b) == IF a <= b THEN a ELSE b

fifo_unused == unused
fifo_cached == (Count - unused) % Word

(* A slip: the part that wraps around starts at the first element again. *)
CopiedInSlip(src, off) ==
    LET l == Least(Len(src), Count - off) IN
    [k \in Cells |-> CASE k < Len(src) - l -> src[k + 1]
                       [] k >= Len(src) - l /\ k >= off /\ k < off + l
                            -> src[k - off + 1]
                       [] OTHER -> data[k]]

(* __fifo_in: to the end of the buffer, and the rest from its start. *)
CopiedIn(src, off) ==
    LET l == Least(Len(src), Count - off) IN
    [k \in Cells |-> CASE k < Len(src) - l -> src[l + k + 1]
                       [] k >= Len(src) - l /\ k >= off /\ k < off + l
                            -> src[k - off + 1]
                       [] OTHER -> data[k]]

(* __fifo_out *)
CopiedOut(len, off) ==
    LET l == Least(len, Count - off) IN
    [k \in 1 .. len |-> IF k <= l THEN data[off + k - 1] ELSE data[k - l - 1]]

(* A slip: an index may be one past the end. *)
AdvanceSlip(index, cnt) ==
    IF index + cnt > Count THEN index + cnt - Count ELSE index + cnt

(* (index + cnt) % fifo->count *)
Advance(index, cnt) == ((index + cnt) % Word) % Count

(* A slip: the request is not cut to what fits. *)
AcceptedSlip(cnt) == cnt

(* How much of a request fits, or is there. *)
Accepted(cnt) == Least(cnt, fifo_unused)
Available(cnt) == Least(cnt, fifo_cached)

(* fifo_in with a source *)
FifoIn(src) ==
    LET cnt == Accepted(Len(src)) IN
    /\ data' = CopiedIn(SubSeq(src, 1, cnt), in)
    /\ in' = Advance(in, cnt)
    /\ unused' = (unused - cnt) % Word
    /\ ret' = cnt
    /\ moved' = SubSeq(src, 1, cnt)
    /\ UNCHANGED out

(* fifo_in without: the elements are whatever the caller stored. *)
FifoInPlace(n) ==
    LET cnt == Accepted(n) IN
    /\ in' = Advance(in, cnt)
    /\ unused' = (unused - cnt) % Word
    /\ ret' = cnt
    /\ moved' = <<>>
    /\ UNCHANGED <<data, out>>

(* The caller stores an element at fifo_iaddr, where there is room. *)
StoreInPlace(v) ==
    /\ fifo_unused > 0
    /\ data' = [data EXCEPT ![in] = v]
    /\ UNCHANGED <<in, out, unused, moved, ret>>

(* fifo_out; wanted: the destination is not null. *)
FifoOut(n, wanted) ==
    LET cnt == Available(n) IN
    /\ moved' = IF wanted THEN CopiedOut(cnt, out) ELSE <<>>
    /\ out' = Advance(out, cnt)
    /\ unused' = (unused + cnt) % Word
    /\ ret' = cnt
    /\ UNCHANGED <<data, in>>

FifoReset ==
    /\ unused' = Count /\ in' = 0 /\ out' = 0
    /\ moved' = <<>> /\ ret' = 0
    /\ UNCHANGED data

(* fifo_init: the buffer is the caller's, with anything in it. *)
Init ==
    /\ data \in [Cells -> Values]
    /\ unused = Count /\ in = 0 /\ out = 0
    /\ moved = <<>> /\ ret = 0

(* Requests of up to one more than the buffer holds. *)
Requested == 0 .. Count + 1

Next ==
    \/ \E n \in Requested : \E src \in [1 .. n -> Values] : FifoIn(src)
    \/ \E n \in Requested : FifoInPlace(n)
    \/ \E v \in Values : StoreInPlace(v)
    \/ \E n \in Requested, wanted \in BOOLEAN : FifoOut(n, wanted)
    \/ FifoReset

Spec == Init /\ [][Next]_vars

-----------------------------------------------------------------------------
(* Properties *)

(* The indices, the count and the elements stay in range. *)
TypeOK ==
    /\ data \in [Cells -> Values]
    /\ in \in Cells /\ out \in Cells
    /\ unused \in 0 .. Count
    /\ ret \in 0 .. Count

(* The three fields that say how full the fifo is agree: the write index   *)
(* is as many elements past the read index as the count of unused elements *)
(* leaves, after any sequence of calls.                                    *)
Accounting == in = (out + (Count - unused)) % Count

(* The fifo is a bounded queue: the elements held are the ones from the    *)
(* read index on, around the end of the buffer.                            *)
Held == [k \in 1 .. Count - unused |-> data[(out + k - 1) % Count]]

Queue == INSTANCE BoundedQueue WITH Capacity <- Count, queue <- Held

IsQueue == Queue!Spec
=============================================================================
