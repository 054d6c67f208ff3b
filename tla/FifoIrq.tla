------------------------------- MODULE FifoIrq -------------------------------
(***************************************************************************)
(* The ring buffer of src/lib/fifo.c shared with an interrupt handler: the *)
(* program calls fifo_in and the handler fifo_out, or the other way round. *)
(* Nothing masks interrupts, so the handler's whole call may come between  *)
(* any two accesses the program's call makes; the program never runs       *)
(* within the handler.                                                     *)
(***************************************************************************)
EXTENDS Fifo

VARIABLES
    side,   \* which call the program makes, "in" or "out"; fixed
    pc,     \* where the call is
    src,    \* the elements given to fifo_in
    cnt,    \* its local cnt
    tmp     \* fifo->unused in a register, between its load and its store

ivars == <<vars, side, pc, src, cnt, tmp>>
local == <<side, pc, src, cnt, tmp>>

-----------------------------------------------------------------------------
(* The program *)

(* unused = fifo_unused(fifo), or cached = fifo_cached(fifo), and the cut. *)
Enter ==
    /\ pc = "idle"
    /\ \E n \in 1 .. Count :
          IF side = "in"
          THEN /\ src' \in [1 .. n -> Values]
               /\ cnt' = Accepted(n)
          ELSE cnt' = Available(n) /\ UNCHANGED src
    /\ pc' = "copy"
    /\ UNCHANGED <<vars, side, tmp>>

Copy ==
    /\ pc = "copy"
    /\ IF side = "in"
       THEN /\ moved' = SubSeq(src, 1, cnt)
            /\ data' = CopiedIn(moved', in)
       ELSE moved' = CopiedOut(cnt, out) /\ UNCHANGED data
    /\ pc' = "index"
    /\ UNCHANGED <<in, out, unused, ret, side, src, cnt, tmp>>

Index ==
    /\ pc = "index"
    /\ IF side = "in" THEN in' = Advance(in, cnt) /\ UNCHANGED out
                      ELSE out' = Advance(out, cnt) /\ UNCHANGED in
    /\ pc' = "load"
    /\ UNCHANGED <<data, unused, moved, ret, side, src, cnt, tmp>>

(* fifo->unused -= cnt, or += cnt: the load. *)
LoadUnused ==
    /\ pc = "load"
    /\ tmp' = unused
    /\ pc' = "store"
    /\ UNCHANGED <<vars, side, src, cnt>>

(* And the store. *)
StoreUnused ==
    /\ pc = "store"
    /\ unused' = (IF side = "in" THEN tmp - cnt ELSE tmp + cnt) % Word
    /\ ret' = cnt
    /\ pc' = "idle"
    /\ UNCHANGED <<data, in, out, moved, side, src, cnt, tmp>>

(* The handler's call, from its first access to its last. *)
Irq ==
    /\ IF side = "in" THEN \E n \in 1 .. Count : FifoOut(n, TRUE)
       ELSE \E n \in 1 .. Count : \E s \in [1 .. n -> Values] : FifoIn(s)
    /\ UNCHANGED local

-----------------------------------------------------------------------------

IrqInit ==
    /\ Init
    /\ side \in {"in", "out"}
    /\ pc = "idle" /\ src = <<>> /\ cnt = 0 /\ tmp = 0

IrqNext == Enter \/ Copy \/ Index \/ LoadUnused \/ StoreUnused \/ Irq

IrqSpec == IrqInit /\ [][IrqNext]_ivars

-----------------------------------------------------------------------------
(* Properties *)

(* Whatever the handler comes in between, the fields stay in range: the    *)
(* count of unused elements never falls below zero and never passes Count, *)
(* so no copy leaves the buffer, even after the count has gone wrong.      *)
StaysInBuffer ==
    /\ in \in Cells /\ out \in Cells
    /\ unused \in 0 .. Count
    /\ cnt \in 0 .. Count

(* "a spinlock could be a waste of the system, but it makes this routine   *)
(* could be called in irq": between calls the fields agree.  It does not   *)
(* hold: a call that comes between the load and the store of unused is     *)
(* not counted.                                                            *)
AgreesBetweenCalls == pc = "idle" => Accounting
=============================================================================
