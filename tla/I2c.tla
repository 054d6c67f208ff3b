--------------------------------- MODULE I2c ---------------------------------
(***************************************************************************)
(* The I2C adapter of src/boot/i2c.c: i2c_transfer, omap_i2c_xfer,         *)
(* __xfer_msg and check_error, with the controller and one slave.          *)
(*                                                                         *)
(* The controller and the slave are external.  The controller runs beside  *)
(* the processor: it takes the message programmed, asks for or brings its  *)
(* bytes one by one, and records what happened in status bits that stay    *)
(* set until the processor clears them.  A message programmed while        *)
(* another is still on the wire waits for it; one programmed while the     *)
(* other is stuck for want of a byte takes its place.  The slave keeps     *)
(* registers: a message of two bytes writes one, a message of one byte     *)
(* chooses the register the next read begins at.                           *)
(***************************************************************************)
EXTENDS Integers, Sequences

CONSTANTS
    Regs,         \* the slave's registers
    Bytes,        \* the values of a byte
    RegInit,      \* the values the registers may have at first
    Retries,      \* adap->retries, 2
    Timeout,      \* I2C_TIMEOUT, 1000
    Environments  \* the buses it may be on

ASSUME I2cAssumption ==
    /\ Regs \subseteq Bytes
    /\ RegInit \subseteq [Regs -> Bytes]
    /\ Retries \in Nat \ {0}
    /\ Timeout \in Nat \ {0}
    /\ Environments \subseteq
          [timely : BOOLEAN, faults : SUBSET {"nack", "late_nack", "lost"}]

VARIABLES
    env,       \* fixed: is the status up to date whenever it is looked at,
               \* and which faults may the bus have
    pc,        \* where i2c_transfer is
    msgs,      \* the messages of the transfer
    msg, idx,    \* the message and the byte it is at
    timeout,   \* polls left in check_error
    tries,     \* retries left in i2c_transfer
    rval,      \* the result of the transfer
    flagRD,    \* priv->flags & I2C_M_RD
    stat,      \* controller: the status bits
    cur, pend, \* controller: the message on the wire, the one behind it
    fifo,      \* controller: the bytes received
    regs, ptr  \* slave: its registers, and the one a read begins at

cpu == <<pc, msgs, msg, idx, timeout, tries, rval, flagRD>>
ctrl == <<stat, cur, pend, fifo>>
slave == <<regs, ptr>>
i2cvars == <<env, cpu, ctrl, slave>>

(* A message: its direction and its bytes, for a read the ones its buffer  *)
(* holds before it.                                                        *)
Write(bs) == [rd |-> FALSE, buf |-> bs]
Read(b) == [rd |-> TRUE, buf |-> <<b>>]

(* What tps65910.c transfers: __outb writes a register and its value, and  *)
(* __inb chooses a register and reads it.                                  *)
Message == [rd : BOOLEAN, buf : {bs \in Seq(Bytes) : Len(bs) \in {1, 2}}]

Free == [run |-> FALSE, rd |-> FALSE, left |-> 0, sent |-> <<>>]

-----------------------------------------------------------------------------
(* The controller and the slave *)

Asking == cur.run /\ ~cur.rd /\ cur.left > 0

(* The controller holds the bus until the processor gives it a byte. *)
Stuck == Asking /\ "XRDY" \in stat

(* The processor programs a message: the bytes received before are         *)
(* cleared, and the controller starts, or will.                            *)
StartMessage(m) ==
    LET new == [run |-> TRUE, rd |-> m.rd, left |-> Len(m.buf), sent |-> <<>>]
    IN  /\ fifo' = <<>>
        /\ IF cur.run /\ ~Stuck
           THEN pend' = new /\ cur' = cur
           ELSE cur' = new /\ pend' = Free

AskByte ==
    /\ Asking /\ "XRDY" \notin stat
    /\ stat' = stat \cup {"XRDY"}
    /\ UNCHANGED <<env, cpu, cur, pend, fifo, slave>>

BringByte ==
    /\ cur.run /\ cur.rd /\ cur.left > 0
    /\ fifo' = Append(fifo, regs[ptr])
    /\ cur' = [cur EXCEPT !.left = @ - 1]
    /\ stat' = stat \cup {"RRDY"}
    /\ UNCHANGED <<env, cpu, pend, slave>>

(* The message has ended: the slave has it, and the one behind it starts.  *)
EndMessage ==
    /\ cur.run /\ cur.left = 0
    /\ stat' = stat \cup {"ARDY"}
    /\ cur' = pend
    /\ pend' = Free
    /\ ptr' = IF ~cur.rd /\ cur.sent[1] \in Regs THEN cur.sent[1] ELSE ptr
    /\ regs' = IF ~cur.rd /\ Len(cur.sent) = 2 /\ cur.sent[1] \in Regs
               THEN [regs EXCEPT ![cur.sent[1]] = cur.sent[2]] ELSE regs
    /\ UNCHANGED <<env, cpu, fifo>>

(* The slave does not acknowledge its address, or the last byte.  The      *)
(* controller gives the message up.                                        *)
Refuse ==
    /\ cur.run
    /\ \/ "nack" \in env.faults /\ cur.sent = <<>> /\ cur.left > 0 /\ fifo = <<>>
       \/ "late_nack" \in env.faults /\ ~cur.rd /\ cur.left = 0
    /\ stat' = (stat \cup {"NACK"}) \ {"XRDY"}
    /\ cur' = pend
    /\ pend' = Free
    /\ UNCHANGED <<env, cpu, fifo, slave>>

(* Another master, or noise: arbitration is lost before the first byte. *)
LoseBus ==
    /\ "lost" \in env.faults
    /\ cur.run /\ cur.sent = <<>> /\ cur.left > 0 /\ fifo = <<>>
    /\ stat' = (stat \cup {"AL"}) \ {"XRDY"}
    /\ cur' = pend
    /\ pend' = Free
    /\ UNCHANGED <<env, cpu, fifo, slave>>

Bus == AskByte \/ BringByte \/ EndMessage

(* There is something the controller does without the processor. *)
BusBusy == cur.run /\ ~Stuck

-----------------------------------------------------------------------------
(* The processor *)

(* i2c_transfer(adap, ms, num) is called. *)
BeginTransfer(ms) ==
    /\ pc = "idle"
    /\ pc' = "bb"
    /\ msgs' = ms
    /\ tries' = Retries - 1
    /\ UNCHANGED <<env, msg, idx, timeout, rval, flagRD, ctrl, slave>>

(* __wait_for_bb: a thousand milliseconds are longer than any message      *)
(* takes; if the bus is still held then, its result 1 is not an error.     *)
WaitBus ==
    /\ pc = "bb"
    /\ ~BusBusy
    /\ pc' = "msg"
    /\ msg' = 1
    /\ UNCHANGED <<env, msgs, idx, timeout, tries, rval, flagRD, ctrl, slave>>

(* __xfer_msg up to its loop.  priv->flags is set for a read and never     *)
(* cleared.                                                                *)
Program ==
    /\ pc = "msg" /\ msg <= Len(msgs)
    /\ StartMessage(msgs[msg])
    /\ flagRD' = (flagRD \/ msgs[msg].rd)
    /\ idx' = 1
    /\ timeout' = Timeout
    /\ pc' = "poll"
    /\ UNCHANGED <<env, msgs, msg, tries, rval, stat, slave>>

(* The bits check_error waits for. *)
Flags == {"ARDY", "NACK", "AL"} \cup (IF flagRD THEN {"RRDY"} ELSE {"XRDY"})

(* A slip: nothing is hidden. *)
MaskedNone == {}

(* The bits check_error takes out of the status it read. *)
Masked == IF flagRD THEN {"XRDY"} ELSE {"RRDY"}

(* Two hundred microseconds have passed; in time, the controller has     *)
(* done by now what it can do on its own.                                  *)
Looking == pc = "poll" /\ (env.timely => ~BusBusy)

PollAgain ==
    /\ Looking
    /\ stat \cap Flags = {}
    /\ timeout > 0
    /\ timeout' = timeout - 1
    /\ UNCHANGED <<env, pc, msgs, msg, idx, tries, rval, flagRD, ctrl, slave>>

(* The poll loop has ended, with these bits left to act on. *)
Seen == stat \ Masked
LoopEnds == Looking /\ (stat \cap Flags # {} \/ timeout = 0)

(* __xfer_msg returns -1 and so does omap_i2c_xfer; the status is cleared. *)
Fail ==
    /\ stat' = {}
    /\ rval' = -1
    /\ pc' = "end"

(* Arbitration was lost: the controller is reset. *)
ArbitrationLost ==
    /\ LoopEnds /\ "AL" \in Seen
    /\ pc' = "reset"
    /\ cur' = Free /\ pend' = Free /\ fifo' = <<>>
    /\ UNCHANGED <<env, msgs, msg, idx, timeout, tries, rval, flagRD, stat, slave>>

(* __i2c_reset has seen the reset done, omap_i2c_init has run. *)
ResetDone ==
    /\ pc = "reset"
    /\ Fail
    /\ UNCHANGED <<env, msgs, msg, idx, timeout, tries, flagRD, cur, pend, fifo, slave>>

NotAcknowledged ==
    /\ LoopEnds /\ "AL" \notin Seen /\ "NACK" \in Seen
    /\ Fail
    /\ UNCHANGED <<env, msgs, msg, idx, timeout, tries, flagRD, cur, pend, fifo, slave>>

(* timeout <= 0: also when the bit came with the last poll. *)
TimedOut ==
    /\ LoopEnds /\ Seen \cap {"AL", "NACK"} = {} /\ timeout = 0
    /\ Fail
    /\ UNCHANGED <<env, msgs, msg, idx, timeout, tries, flagRD, cur, pend, fifo, slave>>

(* Slips: a byte too many; a byte too few. *)
NextByteTooMany ==
    /\ idx' = idx + 1
    /\ timeout' = Timeout
    /\ IF idx <= Len(msgs[msg].buf) THEN pc' = "poll" /\ msg' = msg
                                  ELSE pc' = "msg" /\ msg' = msg + 1

NextByteTooFew ==
    /\ idx' = idx + 1
    /\ timeout' = Timeout
    /\ IF idx + 1 < Len(msgs[msg].buf) THEN pc' = "poll" /\ msg' = msg
                                     ELSE pc' = "msg" /\ msg' = msg + 1

(* The loop of __xfer_msg goes on to the next byte, or the next message. *)
NextByte ==
    /\ idx' = idx + 1
    /\ timeout' = Timeout
    /\ IF idx < Len(msgs[msg].buf) THEN pc' = "poll" /\ msg' = msg
                                 ELSE pc' = "msg" /\ msg' = msg + 1

Clear == LoopEnds /\ Seen \cap {"AL", "NACK"} = {} /\ timeout > 0

(* RRDY: the byte is read and the bit cleared. *)
ReceiveByte ==
    /\ Clear /\ "RRDY" \in Seen
    /\ \E b \in Bytes :
          /\ fifo # <<>> => b = Head(fifo)
          /\ msgs' = [msgs EXCEPT ![msg].buf[idx] = b]
    /\ fifo' = IF fifo = <<>> THEN fifo ELSE Tail(fifo)
    /\ stat' = stat \ {"RRDY"}
    /\ NextByte
    /\ UNCHANGED <<env, tries, rval, flagRD, cur, pend, slave>>

(* XRDY: the byte is written, to the message on the wire, and the bit      *)
(* cleared.                                                                *)
SendByte ==
    /\ Clear /\ "RRDY" \notin Seen /\ "XRDY" \in Seen
    /\ cur' = IF Asking
              THEN [cur EXCEPT !.left = @ - 1, !.sent = Append(@, msgs[msg].buf[idx])]
              ELSE cur
    /\ stat' = stat \ {"XRDY"}
    /\ NextByte
    /\ UNCHANGED <<env, msgs, tries, rval, flagRD, pend, fifo, slave>>

(* Neither, ARDY alone: the byte is passed over. *)
PassByte ==
    /\ Clear /\ Seen \cap {"RRDY", "XRDY"} = {}
    /\ NextByte
    /\ UNCHANGED <<env, msgs, tries, rval, flagRD, ctrl, slave>>

(* All messages are through. *)
Succeed ==
    /\ pc = "msg" /\ msg > Len(msgs)
    /\ rval' = Len(msgs)
    /\ pc' = "end"
    /\ UNCHANGED <<env, msgs, msg, idx, timeout, tries, flagRD, ctrl, slave>>

(* A slip: the retries are not counted. *)
EndXferForever ==
    /\ pc = "end"
    /\ ~BusBusy
    /\ IF rval > 0 \/ tries = 0
       THEN pc' = "return"
       ELSE pc' = "bb"
    /\ UNCHANGED <<env, msgs, msg, idx, timeout, tries, rval, flagRD, ctrl, slave>>

(* The second __wait_for_bb, and the loop of i2c_transfer. *)
EndXfer ==
    /\ pc = "end"
    /\ ~BusBusy
    /\ IF rval > 0 \/ tries = 0
       THEN pc' = "return" /\ tries' = tries
       ELSE pc' = "bb" /\ tries' = tries - 1
    /\ UNCHANGED <<env, msgs, msg, idx, timeout, rval, flagRD, ctrl, slave>>

Cpu == WaitBus \/ Program \/ PollAgain \/ ArbitrationLost \/ ResetDone
         \/ NotAcknowledged \/ TimedOut \/ ReceiveByte \/ SendByte \/ PassByte
         \/ Succeed \/ EndXfer

I2cInit ==
    /\ env \in Environments
    /\ pc = "idle" /\ msgs = <<>> /\ msg = 1 /\ idx = 1 /\ timeout = 0
    /\ tries = 0 /\ rval = 0 /\ flagRD = FALSE
    /\ stat = {} /\ cur = Free /\ pend = Free /\ fifo = <<>>
    /\ regs \in RegInit /\ ptr \in Regs
=============================================================================
