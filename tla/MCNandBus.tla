------------------------------ MODULE MCNandBus ------------------------------
(***************************************************************************)
(* Instances of NandBus for TLC: a small-page chip and a large-page chip   *)
(* of four blocks of two pages.  An address cycle carries one of two       *)
(* values and the chips have eight pages, so a page needs three cycles.    *)
(***************************************************************************)
EXTENDS NandBus

MCRequests == {[ofs |-> 0, size |-> 3], [ofs |-> 4, size |-> 5],
               [ofs |-> 6, size |-> 2], [ofs |-> 8, size |-> 4]}

(* Marks in the first pages of blocks. *)
MCMarkSets == SUBSET {0, 2, 4, 6}

(* The same for a chip with pages of four bytes. *)
MCLargeRequests == {[ofs |-> 0, size |-> 8], [ofs |-> 8, size |-> 9]}
=============================================================================
