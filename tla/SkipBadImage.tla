---------------------------- MODULE SkipBadImage ----------------------------
(***************************************************************************)
(* What loading a boot image from NAND flash promises, with no blocks, no  *)
(* offsets and no bad-block scan: the image is the usable pages of the     *)
(* chip at and after the page it starts at, in address order; the loader   *)
(* delivers them one after the other, never one twice and never one out of *)
(* order, and returns only when it has delivered as many as were asked.    *)
(*                                                                         *)
(* A skip-bad writer stored the image the same way, so a loader that       *)
(* keeps this promise hands over the image that was written.               *)
(***************************************************************************)
EXTENDS Naturals, Sequences

VARIABLES
    usable,    \* the pages of the chip that hold data (fixed)
    start,     \* the first page of the image (fixed)
    want,      \* how many pages the caller asked for (fixed)
    delivered, \* the pages stored in memory so far, in order
    returned   \* has the load returned?

vars == <<usable, start, want, delivered, returned>>

(* Page p is the first usable page at or after q. *)
FirstFrom(q, p) ==
    /\ p \in usable
    /\ p >= q
    /\ \A r \in usable : r >= q => r >= p

(* Page p is the one the image continues with. *)
NextPage(p) ==
    IF delivered = <<>> THEN FirstFrom(start, p)
                        ELSE FirstFrom(delivered[Len(delivered)] + 1, p)

Init ==
    /\ delivered = <<>>
    /\ returned = FALSE

Deliver ==
    /\ ~returned
    /\ \E p \in usable :
          /\ NextPage(p)
          /\ delivered' = Append(delivered, p)
    /\ UNCHANGED <<usable, start, want, returned>>

Return ==
    /\ ~returned
    /\ Len(delivered) >= want
    /\ returned' = TRUE
    /\ UNCHANGED <<usable, start, want, delivered>>

Next == Deliver \/ Return

Spec == Init /\ [][Next]_vars
=============================================================================
