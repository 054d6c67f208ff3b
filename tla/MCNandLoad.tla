----------------------------- MODULE MCNandLoad -----------------------------
(***************************************************************************)
(* Instances of NandLoad for TLC: a chip of four blocks of two two-byte    *)
(* pages, every set of marks, every page-aligned request that fits.        *)
(***************************************************************************)
EXTENDS NandLoad

MCWriteSize == 2
MCEraseSize == 4
MCNBlocks == 4
MCWord == 32

ChipBytes == MCNBlocks * MCEraseSize

(* Every request within the chip that starts at a page and asks for data. *)
MCRequests ==
    {r \in [ofs : {0, 2, 4, 6, 8, 12}, size : 1 .. 9] :
        r.ofs + r.size <= ChipBytes}

(* Requests for nothing, and requests whose end is past the end of u32. *)
MCOddRequests ==
    {[ofs |-> o, size |-> s] : o \in {0, 4, 6, 16, 28}, s \in {0, 1, 4, 8}}

MCAllRequests == MCRequests \cup MCOddRequests

(* Marks in any pages of the chip. *)
MCMarkSets == SUBSET (0 .. 7)
=============================================================================
