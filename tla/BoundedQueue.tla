---------------------------- MODULE BoundedQueue ----------------------------
(***************************************************************************)
(* What a fifo of fixed capacity promises: elements come out in the order  *)
(* they went in, none twice and none lost; what does not fit is refused    *)
(* and what is not there is not given, and both are told to the caller.    *)
(***************************************************************************)
EXTENDS Naturals, Sequences

CONSTANTS Values, Capacity

VARIABLES
    queue,   \* the elements held, oldest first
    moved,   \* the elements put in or handed out by the last call
    ret      \* what the last call returned

vars == <<queue, moved, ret>>

Batches == UNION {[1 .. n -> Values] : n \in 0 .. Capacity + 1}

Least(a, b) == IF a <= b THEN a ELSE b

Init == queue = <<>> /\ moved = <<>> /\ ret = 0

Put == \E s \in Batches :
    LET n == Least(Len(s), Capacity - Len(queue)) IN
    /\ queue' = queue \o SubSeq(s, 1, n)
    /\ moved' \in {SubSeq(s, 1, n), <<>>}      \* <<>>: stored in place
    /\ ret' = n

Get == \E cnt \in 0 .. Capacity + 1 :
    LET n == Least(cnt, Len(queue)) IN
    /\ queue' = SubSeq(queue, n + 1, Len(queue))
    /\ moved' \in {SubSeq(queue, 1, n), <<>>}    \* <<>>: the caller wants none
    /\ ret' = n

Clear == queue' = <<>> /\ moved' = <<>> /\ ret' = 0

Next == Put \/ Get \/ Clear

Spec == Init /\ [][Next]_vars
=============================================================================
