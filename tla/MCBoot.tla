------------------------------- MODULE MCBoot -------------------------------
(***************************************************************************)
(* Instances of Boot for TLC: chips of every revision and fuse the code    *)
(* tells apart, from a cold and a warm reset.  The bytes of the power chip *)
(* are a control bit and two bits of voltage, enough for the four voltages *)
(* to differ.                                                              *)
(***************************************************************************)
EXTENDS Boot, TLC

MCFlag == 4
MCBytes == 0 .. 7
MCRegs == {1, 2, 3}
MCRegInit == {[r \in MCRegs |-> 5]}
MCOpSel == ("1_1_3" :> 0) @@ ("1_2_0" :> 1) @@ ("1_2_6" :> 2) @@ ("1_3_2_5" :> 3)

MCLeftovers == {0, 7}

NotFused == \h1FFF
Chips == {[rev |-> 0, fuse |-> NotFused], [rev |-> 1, fuse |-> AM335X_ZCZ.f1000],
          [rev |-> 2, fuse |-> AM335X_ZCZ.f1000], [rev |-> 2, fuse |-> AM335X_ZCZ.f800],
          [rev |-> 3, fuse |-> AM335X_ZCE.f600], [rev |-> 3, fuse |-> NotFused]}

MCBoards == {[rev |-> c.rev, fuse |-> c.fuse, warm |-> w] : c \in Chips, w \in BOOLEAN}

Clean == [timely |-> TRUE, faults |-> {}]
Faulty == [timely |-> TRUE, faults |-> {"nack"}]
MCClean == {Clean}
MCBuses == {Clean, Faulty}
=============================================================================
