-------------------------------- MODULE MCI2c --------------------------------
(* Instances of I2cClient for TLC: a slave of two registers, short polls.  *)
EXTENDS I2cClient

MCRegs == {1, 2}
MCBytes == 0 .. 2
MCRegInit == {[r \in MCRegs |-> 0]}

(* Single writes, and two writes in one transfer. *)
MCWrites == {<<Write(<<r, v>>)>> : r \in MCRegs, v \in {0, 1}}
              \cup {<<Write(<<1, 2>>), Write(<<2, 1>>)>>}

(* What __outb and __inb transfer. *)
MCReads == {<<Write(<<r>>), Read(0)>> : r \in MCRegs}
MCMixed == {<<Write(<<2, 1>>)>>} \cup MCReads

(* A bus whose status is up to date, and one that is late and has every fault. *)
Prompt == [timely |-> TRUE, faults |-> {"nack", "lost"}]
Late == [timely |-> FALSE, faults |-> {"nack", "late_nack", "lost"}]
MCEnvironments == {Prompt, Late}
MCTransfers(e) == IF e.timely THEN MCWrites ELSE MCMixed
=============================================================================
