-------------------------- MODULE I2cClient_proofs --------------------------
(***************************************************************************)
(* Proofs about the I2C adapter, for every bus, every number of polls and  *)
(* retries and every client: its variables stay in range, until the first  *)
(* read a transfer of writes that reports success has reached the slave,   *)
(* and after it nothing more is written.                                   *)
(***************************************************************************)
EXTENDS I2cClient, I2c_proofs

-----------------------------------------------------------------------------
(* The inductive invariant *)

Types ==
    /\ TypeOK
    /\ env \in Environments
    /\ msg \in Nat \ {0} /\ idx \in Nat \ {0}
    /\ cur \in Transmission /\ pend \in Transmission /\ fifo \in Seq(Bytes)

Reading == \E k \in DOMAIN msgs : msgs[k].rd

(* A transfer that reads begins with one byte, the register. *)
Shape == Reading => Len(msgs) = 2 /\ ~msgs[1].rd /\ Len(msgs[1].buf) = 1

(* Nothing of a transfer is sent before its first message is programmed,   *)
(* unless the bus was idle or stuck, which the first message ends.         *)
FreshStart == pc = "msg" /\ msg = 1 => ~BusBusy \/ cur.sent = <<>>

(* Up to the first read at most the byte that chooses the register is on   *)
(* the wire.                                                               *)
BeforeRead ==
    Reading /\ ~flagRD =>
        /\ pc = "poll" => msg = 1 /\ idx = 1 /\ cur.sent = <<>>
        /\ pc = "msg" => msg = 1 \/ (msg = 2 /\ Len(cur.sent) <= 1)

(* Once it has been programmed, no write on the wire has its second byte.  *)
AfterRead == flagRD => Len(cur.sent) <= 1

Inv ==
    /\ Types /\ Shape
    /\ pend.sent = <<>>
    /\ FreshStart /\ BeforeRead /\ AfterRead

-----------------------------------------------------------------------------
(* Types *)

LEMMA TypesAre == Types <=> AdapterTypes
  BY DEF Types, TypeOK, AdapterTypes

LEMMA TypesInit == Init => Types
  BY AdapterInit, TypesAre DEF Init

LEMMA ClientTypes ==
    ASSUME Types, Begin \/ End
    PROVE  Types'
<1> USE DEF Types
<1>1. CASE Begin
  <2>1. PICK ms \in Transfers(env) : BeginTransfer(ms)
    BY <1>1 DEF Begin
  <2>2. ms \in Seq(Message)
    BY TransferAssumption
  <2>3. QED
    BY <2>1, <2>2, Constants DEF BeginTransfer, ctrl, slave, TypeOK
<1>2. CASE End
  BY <1>2 DEF End, ctrl, slave, TypeOK
<1>3. QED
  BY <1>1, <1>2

LEMMA TypesStep == Types /\ [Next]_vars => Types'
<1> SUFFICES ASSUME Types, [Next]_vars PROVE Types'
  OBVIOUS
<1>1. CASE UNCHANGED vars
  BY <1>1 DEF vars, i2cvars, cpu, ctrl, slave, Types, TypeOK
<1>2. CASE Cpu \/ Bus \/ Refuse \/ LoseBus
  <2>1. AdapterTypes'
    BY <1>2, TypesAre, BusTypes, CpuTypes
  <2>2. QED
    BY <2>1 DEF Types, TypeOK, AdapterTypes
<1>3. CASE Begin \/ End
  BY <1>3, ClientTypes
<1>4. QED
  BY <1>1, <1>2, <1>3 DEF Next

(* The adapter's locals, its flag, the status and the slave's registers    *)
(* stay in range, whatever the bus does and whatever is transferred; a     *)
(* byte polled for is a byte of a message of the transfer.                 *)
THEOREM AdapterTypeCorrect == Spec => []TypeOK
<1>1. Types => TypeOK
  BY DEF Types
<1>2. QED
  BY <1>1, TypesInit, TypesStep, PTL DEF Spec

-----------------------------------------------------------------------------
(* What is on the wire *)

LEMMA InvInit == Init => Inv
<1>1. Init => Types
  BY TypesInit
<1>2. Init => Shape /\ pend.sent = <<>> /\ FreshStart /\ BeforeRead /\ AfterRead
  BY DEF Init, I2cInit, Shape, Reading, Free, FreshStart, BeforeRead, AfterRead
<1>3. QED
  BY <1>1, <1>2 DEF Inv

(* The client hands over a transfer of the assumed shape. *)
LEMMA ClientInv ==
    ASSUME Inv, Begin \/ End
    PROVE  Shape' /\ pend'.sent = <<>> /\ FreshStart' /\ BeforeRead' /\ AfterRead'
<1>1. /\ pc' \in {"bb", "idle"} /\ UNCHANGED <<flagRD, cur, pend>>
  BY DEF Begin, End, BeginTransfer, ctrl
<1>2. Shape'
  <2>1. CASE Begin
    <3>1. PICK ms \in Transfers(env) : msgs' = ms
      BY <2>1 DEF Begin, BeginTransfer
    <3>2. QED
      BY <3>1, TransferAssumption DEF Shape, Reading, Inv, Types
  <2>2. CASE End
    BY <2>2 DEF End, Shape, Reading, Inv
  <2>3. QED
    BY <2>1, <2>2
<1>3. QED
  BY <1>1, <1>2 DEF Inv, FreshStart, BeforeRead, AfterRead

(* The controller puts no byte into a message; the one that comes after it *)
(* has none yet.                                                           *)
LEMMA BusInv ==
    ASSUME Inv, Bus \/ Refuse \/ LoseBus
    PROVE  Shape' /\ pend'.sent = <<>> /\ FreshStart' /\ BeforeRead' /\ AfterRead'
<1>0. UNCHANGED cpu
  BY DEF Bus, AskByte, BringByte, EndMessage, Refuse, LoseBus
<1>1. UNCHANGED <<pc, msg, idx, flagRD>> /\ Shape' /\ Reading' = Reading
  BY <1>0 DEF cpu, Inv, Shape, Reading
<1>2. CASE AskByte \/ BringByte
  <2>1. cur'.sent = cur.sent /\ pend' = pend
    BY <1>2 DEF AskByte, BringByte, Inv, Types, Transmission
  <2>2. BusBusy
    BY <1>2 DEF AskByte, BringByte, Asking, Stuck, BusBusy
  <2>3. QED
    BY <1>1, <2>1, <2>2 DEF Inv, FreshStart, BeforeRead, AfterRead
<1>3. CASE EndMessage \/ Refuse \/ LoseBus
  <2>1. cur'.sent = <<>> /\ pend'.sent = <<>>
    BY <1>3 DEF EndMessage, Refuse, LoseBus, Inv, Free
  <2>2. QED
    BY <1>1, <2>1 DEF Inv, FreshStart, BeforeRead, AfterRead
<1>4. QED
  BY <1>2, <1>3 DEF Bus

(* A message is programmed: the wire gets a fresh one, or keeps one whose  *)
(* bytes AfterRead and BeforeRead count.                                   *)
LEMMA ProgramInv ==
    ASSUME Inv, Program
    PROVE  Shape' /\ pend'.sent = <<>> /\ FreshStart' /\ BeforeRead' /\ AfterRead'
<1>1. /\ pc = "msg" /\ msg \in DOMAIN msgs /\ pc' = "poll" /\ idx' = 1
      /\ UNCHANGED <<msgs, msg>> /\ flagRD' = (flagRD \/ msgs[msg].rd)
  BY DEF Program, Inv, Types, TypeOK
<1>2. pend'.sent = <<>> /\ (cur'.sent = <<>> \/ (cur' = cur /\ BusBusy))
  BY DEF Program, StartMessage, BusBusy, Free, Inv
<1>3. Shape' /\ Reading' = Reading
  BY <1>1 DEF Inv, Shape, Reading
<1>4. Reading /\ ~flagRD => (msg = 1 /\ cur'.sent = <<>>) \/ (msg = 2 /\ Len(cur'.sent) <= 1)
  BY <1>1, <1>2 DEF Inv, BeforeRead, FreshStart
<1>5. AfterRead'
  <2>1. CASE flagRD
    BY <2>1, <1>2 DEF AfterRead, Inv
  <2>2. CASE ~flagRD /\ msgs[msg].rd
    BY <2>2, <1>1, <1>4 DEF AfterRead, Reading
  <2>3. CASE ~flagRD /\ ~msgs[msg].rd
    BY <2>3, <1>1 DEF AfterRead
  <2>4. QED
    BY <2>1, <2>2, <2>3
<1>6. BeforeRead'
  <2>1. Reading /\ msg = 2 => msgs[2].rd
    BY DEF Reading, Shape, Inv, Types, TypeOK
  <2>2. QED
    BY <2>1, <1>1, <1>3, <1>4 DEF BeforeRead
<1>7. QED
  BY <1>1, <1>2, <1>3, <1>5, <1>6 DEF FreshStart

(* A byte is read, written or passed over.  Before the first read only the *)
(* byte of the register is written, and the next message is the read.      *)
LEMMA ByteInv ==
    ASSUME Inv, ReceiveByte \/ SendByte \/ PassByte
    PROVE  Shape' /\ pend'.sent = <<>> /\ FreshStart' /\ BeforeRead' /\ AfterRead'
<1>1. /\ pc = "poll" /\ NextByte /\ pend' = pend /\ flagRD' = flagRD
      /\ msgs \in Seq(Message) /\ msg \in DOMAIN msgs /\ idx \in DOMAIN msgs[msg].buf
  BY DEF ReceiveByte, SendByte, PassByte, Clear, LoopEnds, Looking, ctrl, Inv, Types, TypeOK
<1>2. /\ DOMAIN msgs' = DOMAIN msgs /\ Len(msgs') = Len(msgs)
      /\ \A k \in DOMAIN msgs : /\ msgs'[k].rd = msgs[k].rd
                               /\ Len(msgs'[k].buf) = Len(msgs[k].buf)
  <2>1. CASE ReceiveByte
    <3>1. PICK b \in Bytes : msgs' = [msgs EXCEPT ![msg].buf[idx] = b]
      BY <2>1 DEF ReceiveByte
    <3>2. QED
      BY <3>1, <1>1, PutByte
  <2>2. CASE SendByte \/ PassByte
    BY <2>2 DEF SendByte, PassByte
  <2>3. QED
    BY <2>1, <2>2
<1>3. Reading' = Reading /\ Shape'
  <2>1. Reading' = Reading
    BY <1>2 DEF Reading
  <2>2. Len(msgs) = 2 => 1 \in DOMAIN msgs
    BY <1>1
  <2>3. QED
    BY <2>1, <2>2, <1>2 DEF Inv, Shape
<1>4. pc' = "msg" => msg' = msg + 1 /\ msg' # 1
  BY <1>1 DEF NextByte, Inv, Types
<1>5. FreshStart'
  BY <1>4 DEF FreshStart
<1>6. flagRD => cur'.sent = cur.sent
  BY DEF ReceiveByte, SendByte, PassByte, Seen, Masked, ctrl
<1>7. cur.sent = <<>> => Len(cur'.sent) <= 1
  <2> DEFINE b == msgs[msg].buf[idx]
  <2>1. cur \in Transmission
    BY DEF Inv, Types
  <2>2. cur'.sent \in {cur.sent, Append(cur.sent, b)}
    <3> HIDE DEF b
    <3>1. [cur EXCEPT !.left = @ - 1, !.sent = Append(@, b)].sent = Append(cur.sent, b)
      BY <2>1 DEF Transmission
    <3>2. cur' \in {cur, [cur EXCEPT !.left = @ - 1, !.sent = Append(@, b)]}
      BY DEF ReceiveByte, SendByte, PassByte, ctrl, b
    <3>3. QED
      BY <3>1, <3>2
  <2> HIDE DEF b
  <2>3. Append(<<>>, b) = <<b>>
    OBVIOUS
  <2>4. Len(<<b>>) = 1 /\ Len(<<>>) = 0
    OBVIOUS
  <2>5. cur.sent = <<>> => cur'.sent = <<>> \/ cur'.sent = <<b>>
    BY <2>2, <2>3
  <2> DEFINE sent == cur'.sent
  <2>6. sent = <<>> \/ sent = <<b>> => Len(sent) <= 1
    <3> HIDE DEF sent
    <3>1. QED
      BY <2>4
  <2>7. QED
    BY <2>5, <2>6
<1>8. BeforeRead'
  <2>1. SUFFICES ASSUME Reading, ~flagRD
                 PROVE  pc' = "msg" /\ msg' = 2 /\ Len(cur'.sent) <= 1
    BY <1>1, <1>3 DEF BeforeRead
  <2>2. msg = 1 /\ idx = 1 /\ cur.sent = <<>> /\ Len(msgs[1].buf) = 1
    BY <1>1, <2>1 DEF Inv, BeforeRead, Shape
  <2>3. QED
    BY <2>2, <1>1, <1>7 DEF NextByte
<1>9. AfterRead'
  BY <1>1, <1>6 DEF AfterRead, Inv
<1>10. QED
  BY <1>1, <1>3, <1>5, <1>8, <1>9 DEF Inv

LEMMA InvStep == Inv /\ [Next]_vars => Inv'
<1> SUFFICES ASSUME Inv, [Next]_vars
             PROVE  Shape' /\ pend'.sent = <<>> /\ FreshStart' /\ BeforeRead' /\ AfterRead'
  BY TypesStep DEF Inv
<1>1. CASE UNCHANGED vars
  BY <1>1 DEF vars, i2cvars, cpu, ctrl, Inv, Shape, Reading, FreshStart, BeforeRead,
              AfterRead, BusBusy, Stuck, Asking
<1>2. CASE Begin \/ End
  BY <1>2, ClientInv
<1>3. CASE Bus \/ Refuse \/ LoseBus
  BY <1>3, BusInv
<1>4. CASE Cpu
  <2>1. CASE Program
    BY <2>1, ProgramInv
  <2>2. CASE ReceiveByte \/ SendByte \/ PassByte
    BY <2>2, ByteInv
  <2>3. CASE WaitBus
    BY <2>3 DEF WaitBus, ctrl, Inv, Shape, Reading, FreshStart, BeforeRead, AfterRead,
                BusBusy, Stuck, Asking
  <2>4. CASE PollAgain
    BY <2>4 DEF PollAgain, Looking, ctrl, Inv, Shape, Reading, FreshStart, BeforeRead,
                AfterRead
  <2>5. CASE ArbitrationLost
    BY <2>5 DEF ArbitrationLost, Free, Inv, Shape, Reading, FreshStart, BeforeRead, AfterRead
  <2>6. CASE ResetDone \/ NotAcknowledged \/ TimedOut
    BY <2>6 DEF ResetDone, NotAcknowledged, TimedOut, Fail, Inv, Shape, Reading, FreshStart,
                BeforeRead, AfterRead
  <2>7. CASE Succeed \/ EndXfer
    BY <2>7 DEF Succeed, EndXfer, ctrl, Inv, Shape, Reading, FreshStart, BeforeRead, AfterRead
  <2>8. QED
    BY <1>4, <2>1, <2>2, <2>3, <2>4, <2>5, <2>6, <2>7 DEF Cpu
<1>5. QED
  BY <1>1, <1>2, <1>3, <1>4 DEF Next

(* Once the adapter has programmed a read it hands no further byte to the  *)
(* controller and changes no register of the slave: priv->flags, never     *)
(* cleared, hides XRDY for good.  So for every client that writes, or      *)
(* reads as tps65910.c does, and on every bus.                             *)
THEOREM NothingAfterRead == Spec => ReadEndsWrites
<1> DEFINE Quiet == flagRD => regs' = regs /\ cur'.sent \in {cur.sent, pend.sent, <<>>}
<1>1. Inv /\ [Next]_vars => [Quiet]_vars
  <2> SUFFICES ASSUME Inv, Next, flagRD
               PROVE  regs' = regs /\ cur'.sent \in {cur.sent, pend.sent, <<>>}
    OBVIOUS
  <2>1. CASE Begin \/ End
    BY <2>1 DEF Begin, End, BeginTransfer, ctrl, slave
  <2>2. CASE AskByte \/ BringByte
    BY <2>2 DEF AskByte, BringByte, slave, Inv, Types, Transmission
  <2>3. CASE EndMessage
    BY <2>3 DEF EndMessage, Inv, AfterRead
  <2>4. CASE Refuse \/ LoseBus
    BY <2>4 DEF Refuse, LoseBus, slave
  <2>5. CASE Program
    BY <2>5 DEF Program, StartMessage, slave
  <2>6. CASE ReceiveByte \/ SendByte \/ PassByte
    BY <2>6 DEF ReceiveByte, SendByte, PassByte, Seen, Masked, ctrl, slave
  <2>7. CASE ArbitrationLost
    BY <2>7 DEF ArbitrationLost, Free, slave
  <2>8. CASE WaitBus \/ PollAgain \/ ResetDone \/ NotAcknowledged \/ TimedOut
               \/ Succeed \/ EndXfer
    BY <2>8 DEF WaitBus, PollAgain, ResetDone, NotAcknowledged, TimedOut, Succeed,
                EndXfer, ctrl, slave
  <2>9. QED
    BY <2>1, <2>2, <2>3, <2>4, <2>5, <2>6, <2>7, <2>8 DEF Next, Bus, Cpu
<1>2. Spec => []Inv
  BY InvInit, InvStep, PTL DEF Spec
<1>3. QED
  BY <1>1, <1>2, PTL DEF Spec, ReadEndsWrites

-----------------------------------------------------------------------------
(* The writes of a transfer that succeeds reach the slave *)

(* Registers rs hold the first n of the messages ms: each register written *)
(* by them holds what was written to it last.                              *)
Delivered(ms, rs, n) ==
    \A k \in 1 .. n :
        Len(ms[k].buf) = 2 /\ ms[k].buf[1] \in Regs =>
            \/ \E l \in k + 1 .. n : ms[l].buf[1] = ms[k].buf[1] /\ Len(ms[l].buf) = 2
            \/ rs[ms[k].buf[1]] = ms[k].buf[2]

(* The message c on the wire is the k-th, and has got its first n bytes;   *)
(* the slave has the ones before it.                                       *)
OnWire(c, ms, rs, k, n) ==
    /\ c.run /\ ~c.rd /\ c.left = Len(ms[k].buf) - n
    /\ Len(c.sent) = n /\ \A j \in 1 .. n : c.sent[j] = ms[k].buf[j]
    /\ Delivered(ms, rs, k - 1)

(* The k-th message has all its bytes: it is still on the wire, or the     *)
(* slave has it.                                                           *)
Complete(c, ms, rs, k) ==
    \/ OnWire(c, ms, rs, k, Len(ms[k].buf))
    \/ ~c.run /\ Delivered(ms, rs, k)

(* Between two messages nothing waits behind the one on the wire, and when *)
(* the first is programmed the wire is idle or stuck with an old one.      *)
BetweenMessages ==
    /\ msg <= Len(msgs) + 1 /\ pend = Free
    /\ msg = 1 => (cur.run => Stuck)
    /\ msg # 1 => Complete(cur, msgs, regs, msg - 1)

(* At a byte, its message is on the wire with the bytes before it, or      *)
(* waits behind the last one, or was given up and the status says so.      *)
AtByte ==
    \/ /\ pend.run /\ ~pend.rd /\ pend.left = Len(msgs[msg].buf) /\ pend.sent = <<>>
       /\ idx = 1 /\ msg # 1
       /\ OnWire(cur, msgs, regs, msg - 1, Len(msgs[msg - 1].buf))
    \/ pend = Free /\ OnWire(cur, msgs, regs, msg, idx - 1)
    \/ pend = Free /\ ~cur.run /\ stat \cap {"NACK", "AL"} # {}

(* A message waits only behind one that has all its bytes; and a transfer  *)
(* that has succeeded has them all through.                                *)
Sending ==
    /\ pend # Free => cur.run /\ ~cur.rd /\ cur.left = 0
    /\ pc = "msg" => BetweenMessages
    /\ pc = "poll" => AtByte
    /\ pc = "end" /\ rval > 0 =>
          pend = Free /\ msgs # <<>> /\ Complete(cur, msgs, regs, Len(msgs))
    /\ pc = "return" /\ rval > 0 => ~cur.run /\ Delivered(msgs, regs, Len(msgs))

SendInv == Dependable /\ ~flagRD => Sending

(* One message more has reached the slave. *)
LEMMA OneMore ==
    ASSUME NEW ms \in Seq(Message), NEW rs \in [Regs -> Bytes], NEW k \in DOMAIN ms,
           Delivered(ms, rs, k - 1), NEW new \in [Regs -> Bytes],
           new = IF Len(ms[k].buf) = 2 /\ ms[k].buf[1] \in Regs
                 THEN [rs EXCEPT ![ms[k].buf[1]] = ms[k].buf[2]] ELSE rs
    PROVE  Delivered(ms, new, k)
<1>0. k \in Nat /\ k \in 1 .. k
  OBVIOUS
<1> DEFINE r(i) == ms[i].buf[1]
           v(i) == ms[i].buf[2]
           Two(i) == Len(ms[i].buf) = 2
<1> SUFFICES ASSUME NEW i \in 1 .. k, Two(i), r(i) \in Regs
             PROVE  \/ \E l \in i + 1 .. k : r(l) = r(i) /\ Two(l)
                    \/ new[r(i)] = v(i)
  BY DEF Delivered
<1>2. CASE i = k
  BY <1>2
<1>3. CASE i # k /\ Two(k) /\ r(k) = r(i)
  <2>1. k \in i + 1 .. k
    BY <1>0, <1>3
  <2>2. QED
    BY <1>3, <2>1
<1>4. CASE i # k /\ ~(Two(k) /\ r(k) = r(i))
  <2>1. i \in 1 .. k - 1
    BY <1>0, <1>4
  <2>2. \/ \E l \in i + 1 .. k - 1 : r(l) = r(i) /\ Two(l)
        \/ rs[r(i)] = v(i)
    BY <2>1 DEF Delivered
  <2>3. i + 1 .. k - 1 \subseteq i + 1 .. k
    BY <1>0
  <2>4. new[r(i)] = rs[r(i)]
    BY <1>4
  <2>5. QED
    BY <2>2, <2>3, <2>4
<1>5. QED
  BY <1>2, <1>3, <1>4

(* Buffers of the messages of a transfer. *)
LEMMA Buffers ==
    ASSUME Types
    PROVE  /\ msgs \in Seq(Message) /\ Len(msgs) \in Nat /\ DOMAIN msgs = 1 .. Len(msgs)
           /\ \A k \in DOMAIN msgs : /\ msgs[k].buf \in Seq(Bytes)
                                    /\ Len(msgs[k].buf) \in {1, 2} /\ msgs[k].rd \in BOOLEAN
                                    /\ DOMAIN msgs[k].buf = 1 .. Len(msgs[k].buf)
<1>1. msgs \in Seq(Message)
  BY DEF Types, TypeOK
<1>2. ASSUME NEW m \in Message
      PROVE  m.buf \in Seq(Bytes) /\ Len(m.buf) \in {1, 2} /\ m.rd \in BOOLEAN
             /\ DOMAIN m.buf = 1 .. Len(m.buf)
  <2>1. m.buf \in Seq(Bytes) /\ Len(m.buf) \in {1, 2} /\ m.rd \in BOOLEAN
    BY DEF Message
  <2>2. QED
    BY <2>1
<1>3. \A k \in DOMAIN msgs : msgs[k] \in Message
  BY <1>1
<1>4. Len(msgs) \in Nat /\ DOMAIN msgs = 1 .. Len(msgs)
  BY <1>1
<1>5. QED
  BY <1>1, <1>2, <1>3, <1>4

(* When the processor looks, the controller has done what it can: it asks  *)
(* for the byte the processor is at, or has given the message up.          *)
LEMMA AtLook ==
    ASSUME Types, Sending, Dependable, Looking
    PROVE  /\ pend = Free
           /\ \/ OnWire(cur, msgs, regs, msg, idx - 1) /\ Asking /\ "XRDY" \in stat
              \/ stat \cap {"NACK", "AL"} # {}
<1>0. pc = "poll" /\ AtByte /\ (cur.run => Stuck)
  BY DEF Looking, Dependable, BusBusy, Sending
<1>1. cur.run => Asking /\ "XRDY" \in stat /\ cur.left # 0
  BY <1>0 DEF Stuck, Asking, Types, Transmission
<1>2. ~(msg # 1 /\ OnWire(cur, msgs, regs, msg - 1, Len(msgs[msg - 1].buf)))
  <2> SUFFICES ASSUME msg # 1, OnWire(cur, msgs, regs, msg - 1, Len(msgs[msg - 1].buf))
               PROVE  FALSE
    OBVIOUS
  <2>1. msg \in DOMAIN msgs /\ msg \in Nat \ {0}
    BY <1>0 DEF Types, TypeOK
  <2>2. msg - 1 \in DOMAIN msgs
    BY <2>1, Buffers
  <2>3. Len(msgs[msg - 1].buf) \in Nat
    BY <2>2, Buffers
  <2>4. cur.run /\ cur.left = 0
    BY <2>3 DEF OnWire
  <2>5. QED
    BY <1>1, <2>4
<1>3. QED
  BY <1>0, <1>1, <1>2 DEF AtByte, OnWire

(* At first nothing is on the wire. *)
LEMMA SendInit == Init => SendInv
  BY DEF Init, I2cInit, SendInv, Sending

(* A message that ends with all its bytes has reached the slave. *)
LEMMA EndDelivers ==
    ASSUME Types, EndMessage, NEW k \in DOMAIN msgs,
           OnWire(cur, msgs, regs, k, Len(msgs[k].buf))
    PROVE  Delivered(msgs, regs', k)
<1>1. /\ msgs \in Seq(Message) /\ regs \in [Regs -> Bytes]
      /\ msgs[k].buf \in Seq(Bytes) /\ Len(msgs[k].buf) \in {1, 2}
  BY Buffers DEF Types, TypeOK
<1>2. /\ ~cur.rd /\ Len(cur.sent) = Len(msgs[k].buf) /\ cur.sent[1] = msgs[k].buf[1]
      /\ (Len(cur.sent) = 2 => cur.sent[2] = msgs[k].buf[2])
      /\ Delivered(msgs, regs, k - 1)
  BY <1>1 DEF OnWire
<1>3. regs' = IF Len(msgs[k].buf) = 2 /\ msgs[k].buf[1] \in Regs
              THEN [regs EXCEPT ![msgs[k].buf[1]] = msgs[k].buf[2]] ELSE regs
  BY <1>1, <1>2 DEF EndMessage
<1>4. regs' \in [Regs -> Bytes]
  BY <1>1, <1>3
<1>5. QED
  BY <1>1, <1>2, <1>3, <1>4, OneMore

(* What the controller does on its own keeps it. *)
LEMMA BusSend ==
    ASSUME Types, Sending, Dependable, Bus \/ Refuse \/ LoseBus
    PROVE  Sending'
<1>0. /\ UNCHANGED <<pc, msgs, msg, idx, rval>>
      /\ cur.left \in Nat /\ ~Free.run
  BY DEF Types, Transmission, Free, Bus, AskByte, BringByte, EndMessage, Refuse, LoseBus, cpu
<1>full. ASSUME NEW k \in DOMAIN msgs
         PROVE  OnWire(cur, msgs, regs, k, Len(msgs[k].buf)) => cur.left = 0
  <2>1. Len(msgs[k].buf) \in Nat
    BY Buffers
  <2>2. QED
    BY <2>1 DEF OnWire
<1>at. pc = "poll" =>
         /\ msg \in DOMAIN msgs /\ idx \in 1 .. Len(msgs[msg].buf) /\ idx \in Nat
         /\ Len(msgs[msg].buf) \in Nat /\ (msg # 1 => msg - 1 \in DOMAIN msgs)
  <2>1. pc = "poll" => msg \in DOMAIN msgs /\ idx \in DOMAIN msgs[msg].buf
    BY DEF Types, TypeOK
  <2>2. QED
    BY <2>1, Buffers
<1>btw. pc = "msg" /\ msg # 1 /\ msg <= Len(msgs) + 1 => msg - 1 \in DOMAIN msgs
  BY Buffers DEF Types
<1>end. msgs # <<>> => Len(msgs) \in DOMAIN msgs
  BY Buffers
<1>part. pc = "poll" /\ OnWire(cur, msgs, regs, msg, idx - 1) => cur.left > 0
  BY <1>at DEF OnWire
<1>1. CASE AskByte
  <2>1. UNCHANGED <<cur, pend, regs>> /\ stat \subseteq stat' /\ (Stuck => Stuck')
    BY <1>1 DEF AskByte, slave, Stuck, Asking
  <2>2. BetweenMessages => BetweenMessages'
    BY <1>0, <2>1 DEF BetweenMessages
  <2>3. AtByte => AtByte'
    BY <1>0, <2>1 DEF AtByte
  <2>4. QED
    BY <1>0, <2>1, <2>2, <2>3 DEF Sending
<1>2. CASE BringByte
  <2>1. cur.run /\ cur.rd /\ cur.left > 0 /\ pend' = pend
    BY <1>2 DEF BringByte
  <2>2. pend = Free
    BY <2>1 DEF Sending
  <2>3. \A ms, rs, k, n : ~OnWire(cur, ms, rs, k, n)
    BY <2>1 DEF OnWire
  <2>4. ~Stuck
    BY <2>1 DEF Stuck, Asking
  <2>5. pc # "msg"
    BY <2>1, <2>3, <2>4 DEF Sending, BetweenMessages, Complete
  <2>6. pc # "poll"
    BY <2>1, <2>3 DEF Sending, AtByte
  <2>7. ~(pc \in {"end", "return"} /\ rval > 0)
    BY <2>1, <2>3 DEF Sending, Complete
  <2>8. QED
    BY <1>0, <2>1, <2>2, <2>5, <2>6, <2>7 DEF Sending
<1>3. CASE EndMessage
  <2>1. cur.run /\ cur.left = 0 /\ cur' = pend /\ pend' = Free
    BY <1>3 DEF EndMessage
  <2>2. ~Stuck
    BY <2>1 DEF Stuck, Asking
  <2>3. \A k \in DOMAIN msgs :
           Complete(cur, msgs, regs, k) => Delivered(msgs, regs', k)
    BY <1>3, <2>1, EndDelivers DEF Complete
  <2>4. pc = "msg" => BetweenMessages'
    <3> SUFFICES ASSUME pc = "msg" PROVE BetweenMessages'
      OBVIOUS
    <3>1. BetweenMessages
      BY DEF Sending
    <3>2. pend = Free /\ msg # 1 /\ Complete(cur, msgs, regs, msg - 1)
      BY <2>1, <2>2, <3>1 DEF BetweenMessages
    <3>3. Delivered(msgs, regs', msg - 1)
      BY <1>btw, <2>3, <3>1, <3>2 DEF BetweenMessages
    <3>4. Complete(cur', msgs', regs', msg' - 1)
      BY <1>0, <2>1, <3>2, <3>3 DEF Complete
    <3>5. QED
      BY <1>0, <2>1, <3>1, <3>2, <3>4 DEF BetweenMessages
  <2>5. pc = "poll" => AtByte'
    <3> SUFFICES ASSUME pc = "poll" PROVE AtByte'
      OBVIOUS
    <3>1. /\ pend.run /\ ~pend.rd /\ pend.left = Len(msgs[msg].buf) /\ pend.sent = <<>>
          /\ idx = 1 /\ msg # 1
          /\ OnWire(cur, msgs, regs, msg - 1, Len(msgs[msg - 1].buf))
      BY <1>part, <2>1 DEF Sending, AtByte
    <3>2. Delivered(msgs, regs', msg - 1)
      BY <1>at, <2>3, <3>1 DEF Complete
    <3>3. OnWire(cur', msgs, regs', msg, 0)
      BY <1>at, <2>1, <3>1, <3>2 DEF OnWire
    <3>4. OnWire(cur', msgs', regs', msg', idx' - 1)
      BY <1>0, <3>1, <3>3
    <3>5. QED
      BY <2>1, <3>4 DEF AtByte
  <2>6. pc = "end" /\ rval > 0 => msgs # <<>> /\ ~cur'.run /\ Delivered(msgs, regs', Len(msgs))
    BY <1>0, <1>end, <2>1, <2>3 DEF Sending
  <2>7. ~(pc = "return" /\ rval > 0)
    BY <2>1 DEF Sending
  <2>8. QED
    BY <1>0, <2>1, <2>4, <2>5, <2>6, <2>7 DEF Sending, Complete
<1>4. CASE Refuse \/ LoseBus
  <2>1. /\ cur.run /\ cur.left > 0 /\ cur' = pend /\ pend' = Free /\ regs' = regs
        /\ stat' \cap {"NACK", "AL"} # {}
    BY <1>4 DEF Refuse, LoseBus, Dependable, slave
  <2>2. pend = Free
    BY <2>1 DEF Sending
  <2>3. \A k \in DOMAIN msgs : ~Complete(cur, msgs, regs, k)
    BY <1>full, <2>1 DEF Complete
  <2>4. pc = "msg" => BetweenMessages'
    <3>1. pc = "msg" => BetweenMessages /\ msg = 1
      BY <1>btw, <2>3 DEF Sending, BetweenMessages
    <3>2. QED
      BY <1>0, <2>1, <2>2, <3>1 DEF BetweenMessages
  <2>5. pc = "poll" => AtByte'
    BY <1>0, <2>1, <2>2 DEF AtByte
  <2>6. ~(pc = "end" /\ rval > 0)
    BY <1>end, <2>3 DEF Sending
  <2>7. ~(pc = "return" /\ rval > 0)
    BY <2>1 DEF Sending
  <2>8. QED
    BY <1>0, <2>1, <2>2, <2>4, <2>5, <2>6, <2>7 DEF Sending
<1>5. QED
  BY <1>1, <1>2, <1>3, <1>4 DEF Bus

(* A message programmed goes on the wire, or waits behind one that has all *)
(* its bytes.                                                              *)
LEMMA ProgramSend ==
    ASSUME Types, Sending, Dependable, Program, ~flagRD'
    PROVE  Sending'
<1> DEFINE new == [run |-> TRUE, rd |-> msgs[msg].rd, left |-> Len(msgs[msg].buf),
                   sent |-> <<>>]
<1>0. /\ pc' = "poll" /\ idx' = 1 /\ msgs' = msgs /\ msg' = msg /\ regs' = regs
      /\ ~msgs[msg].rd /\ msg \in DOMAIN msgs /\ Len(msgs[msg].buf) \in Nat \ {0}
      /\ msg \in Nat \ {0}
  <2>1. msg \in Nat \ {0} /\ msg <= Len(msgs)
    BY DEF Program, Types
  <2>2. msg \in DOMAIN msgs
    BY <2>1, Buffers
  <2>3. Len(msgs[msg].buf) \in Nat \ {0}
    <3>1. \A k \in DOMAIN msgs : Len(msgs[k].buf) \in {1, 2}
      BY Buffers
    <3>2. Len(msgs[msg].buf) \in {1, 2}
      BY <2>2, <3>1, Zenon
    <3>3. \A n \in {1, 2} : n \in Nat \ {0}
      OBVIOUS
    <3>4. QED
      BY <3>2, <3>3, Zenon
  <2>4. ~msgs[msg].rd
    BY Zenon DEF Program
  <2>5. pc' = "poll" /\ idx' = 1 /\ msgs' = msgs /\ msg' = msg /\ regs' = regs
    BY DEF Program, slave
  <2>6. QED
    BY <2>1, <2>2, <2>3, <2>4, <2>5
<1>1. BetweenMessages
  BY DEF Program, Sending
<1>2. new.run /\ ~new.rd /\ new.left = Len(msgs[msg].buf) /\ new.sent = <<>> /\ new # Free
  BY <1>0 DEF Free
<1>3. IF cur.run /\ ~Stuck THEN pend' = new /\ cur' = cur ELSE cur' = new /\ pend' = Free
  BY DEF Program, StartMessage
<1> HIDE DEF new
<1>4. CASE cur.run /\ ~Stuck
  <2>1. msg # 1 /\ OnWire(cur, msgs, regs, msg - 1, Len(msgs[msg - 1].buf))
    BY <1>1, <1>4 DEF BetweenMessages, Complete
  <2>2. msg - 1 \in DOMAIN msgs
    BY <1>0, <2>1, Buffers
  <2>3. cur.left = 0 /\ ~cur.rd
    <3>1. Len(msgs[msg - 1].buf) \in Nat
      BY <2>2, Buffers
    <3>2. QED
      BY <2>1, <3>1 DEF OnWire
  <2>4. pend' = new /\ cur' = cur
    BY <1>3, <1>4
  <2>5. AtByte'
    BY <1>0, <1>2, <2>1, <2>4 DEF AtByte
  <2>6. QED
    BY <1>0, <1>4, <2>3, <2>4, <2>5 DEF Sending
<1>5. CASE ~(cur.run /\ ~Stuck)
  <2>1. cur' = new /\ pend' = Free
    BY <1>3, <1>5
  <2>2. Delivered(msgs, regs, msg - 1)
    <3>1. CASE msg = 1
      BY <3>1 DEF Delivered
    <3>2. CASE msg # 1
      <4>1. Complete(cur, msgs, regs, msg - 1)
        BY <1>1, <3>2 DEF BetweenMessages
      <4>2. ~OnWire(cur, msgs, regs, msg - 1, Len(msgs[msg - 1].buf))
        <5>1. Len(msgs[msg - 1].buf) \in Nat
          BY <1>0, <3>2, Buffers
        <5>2. Stuck => cur.left > 0
          BY DEF Stuck, Asking
        <5>3. QED
          BY <1>5, <5>1, <5>2 DEF OnWire
      <4>3. QED
        BY <4>1, <4>2 DEF Complete
    <3>3. QED
      BY <3>1, <3>2
  <2>3. OnWire(cur', msgs, regs, msg, 0)
    BY <1>0, <1>2, <2>1, <2>2 DEF OnWire
  <2>4. AtByte'
    BY <1>0, <2>1, <2>3 DEF AtByte
  <2>5. QED
    BY <1>0, <2>1, <2>4 DEF Sending
<1>6. QED
  BY <1>4, <1>5

(* A byte sent is the byte the message is at. *)
LEMMA SendByteSend ==
    ASSUME Types, Sending, Dependable, ~flagRD, SendByte
    PROVE  Sending'
<1>0. /\ pc = "poll" /\ Looking /\ stat \cap {"NACK", "AL"} = {} /\ NextByte
      /\ msgs' = msgs /\ regs' = regs /\ pend' = pend
  BY DEF SendByte, Clear, LoopEnds, Looking, Seen, Masked, slave
<1>1. /\ pend = Free /\ Asking
      /\ OnWire(cur, msgs, regs, msg, idx - 1)
  BY <1>0, AtLook
<1>2. /\ msg \in DOMAIN msgs /\ msg \in Nat \ {0} /\ idx \in Nat \ {0}
      /\ idx \in 1 .. Len(msgs[msg].buf)
      /\ msgs[msg].buf \in Seq(Bytes) /\ Len(msgs[msg].buf) \in Nat
      /\ msg <= Len(msgs)
  <2>1. msg \in DOMAIN msgs /\ idx \in DOMAIN msgs[msg].buf
        /\ msg \in Nat \ {0} /\ idx \in Nat \ {0}
    BY <1>0 DEF Types, TypeOK
  <2>2. QED
    BY <2>1, Buffers
<1> DEFINE b == msgs[msg].buf[idx]
<1>3. cur.sent \in Seq(Bytes) /\ cur.left \in Nat /\ cur \in Transmission /\ b \in Bytes
  BY <1>2 DEF Types, Transmission
<1>4. /\ cur'.run = cur.run /\ cur'.rd = cur.rd /\ cur'.left = cur.left - 1
      /\ cur'.sent = Append(cur.sent, b)
  BY <1>1, <1>3 DEF SendByte, Transmission
<1>5. /\ Len(cur'.sent) = idx /\ cur'.sent[idx] = b
      /\ \A j \in 1 .. idx - 1 : cur'.sent[j] = cur.sent[j]
  <2>1. Len(cur.sent) = idx - 1
    BY <1>1 DEF OnWire
  <2>2. /\ Len(Append(cur.sent, b)) = Len(cur.sent) + 1
        /\ Append(cur.sent, b)[Len(cur.sent) + 1] = b
        /\ \A j \in 1 .. Len(cur.sent) : Append(cur.sent, b)[j] = cur.sent[j]
    BY <1>3, AppendProperties
  <2>3. Len(cur.sent) + 1 = idx
    BY <1>2, <2>1
  <2>4. QED
    BY <1>4, <2>1, <2>2, <2>3
<1>6. OnWire(cur', msgs, regs, msg, idx)
  <2>1. cur'.left = Len(msgs[msg].buf) - idx
    BY <1>1, <1>2, <1>4 DEF OnWire
  <2>2. ASSUME NEW j \in 1 .. idx PROVE cur'.sent[j] = msgs[msg].buf[j]
    <3>1. j = idx \/ j \in 1 .. idx - 1
      BY <1>2
    <3>2. QED
      BY <1>1, <1>5, <3>1 DEF OnWire
  <2>3. QED
    BY <1>1, <1>4, <1>5, <2>1, <2>2 DEF OnWire
<1>7. CASE idx < Len(msgs[msg].buf)
  <2>1. pc' = "poll" /\ msg' = msg /\ idx' - 1 = idx
    BY <1>0, <1>2, <1>7 DEF NextByte
  <2>2. AtByte'
    BY <1>0, <1>1, <1>6, <2>1 DEF AtByte
  <2>3. QED
    BY <1>0, <1>1, <2>1, <2>2 DEF Sending
<1>8. CASE ~(idx < Len(msgs[msg].buf))
  <2>1. pc' = "msg" /\ msg' = msg + 1 /\ idx = Len(msgs[msg].buf)
    BY <1>0, <1>2, <1>8 DEF NextByte
  <2>2. msg' # 1 /\ msg' - 1 = msg /\ msg' <= Len(msgs') + 1
    <3>1. Len(msgs) \in Nat
      BY Buffers
    <3>2. QED
      BY <1>0, <1>2, <2>1, <3>1
  <2>3. BetweenMessages'
    BY <1>0, <1>1, <1>6, <2>1, <2>2 DEF BetweenMessages, Complete
  <2>4. QED
    BY <1>0, <1>1, <2>1, <2>3 DEF Sending
<1>9. QED
  BY <1>7, <1>8

(* Every step of the processor keeps it. *)
LEMMA CpuSend ==
    ASSUME Types, Sending, Dependable, ~flagRD, ~flagRD', Cpu
    PROVE  Sending'
<1>0. /\ pend # Free => cur.run /\ ~cur.rd /\ cur.left = 0
      /\ pend # Free => BusBusy
  BY DEF Sending, BusBusy, Stuck, Asking
<1>1. CASE WaitBus
  <2>1. /\ pc' = "msg" /\ msg' = 1 /\ UNCHANGED <<msgs, stat, cur, pend>>
        /\ ~BusBusy
    BY <1>1 DEF WaitBus, ctrl
  <2>2. pend = Free /\ (cur.run => Stuck)
    BY <1>0, <2>1 DEF BusBusy
  <2>3. Len(msgs) \in Nat
    BY Buffers
  <2>4. BetweenMessages'
    BY <2>1, <2>2, <2>3 DEF BetweenMessages, Stuck, Asking
  <2>5. QED
    BY <2>1, <2>2, <2>4 DEF Sending
<1>2. CASE Program
  BY <1>2, ProgramSend
<1>3. CASE PollAgain
  <2>1. pc = "poll" /\ UNCHANGED <<pc, msgs, msg, idx, stat, cur, pend, regs>>
    BY <1>3 DEF PollAgain, Looking, ctrl, slave
  <2>2. AtByte'
    BY <2>1 DEF Sending, AtByte
  <2>3. QED
    BY <1>0, <2>1, <2>2 DEF Sending
<1>4. CASE ArbitrationLost
  <2>1. pc' = "reset" /\ pend' = Free
    BY <1>4 DEF ArbitrationLost
  <2>2. QED
    BY <2>1 DEF Sending
<1>5. CASE ResetDone \/ NotAcknowledged \/ TimedOut
  <2>1. pc' = "end" /\ ~(rval' > 0) /\ UNCHANGED <<cur, pend>>
    BY <1>5 DEF ResetDone, NotAcknowledged, TimedOut, Fail
  <2>2. QED
    BY <1>0, <2>1 DEF Sending
<1>6. CASE ReceiveByte
  BY <1>6 DEF ReceiveByte, Seen, Masked
<1>7. CASE SendByte
  BY <1>7, SendByteSend
<1>8. CASE PassByte
  <2>1. Looking /\ stat \cap {"NACK", "AL"} = {} /\ "XRDY" \notin stat
    BY <1>8 DEF PassByte, Clear, LoopEnds, Seen, Masked
  <2>2. QED
    BY <2>1, AtLook
<1>9. CASE Succeed
  <2>1. /\ pc = "msg" /\ msg > Len(msgs) /\ pc' = "end" /\ rval' = Len(msgs)
        /\ UNCHANGED <<msgs, msg, cur, pend, regs>>
    BY <1>9 DEF Succeed, ctrl, slave
  <2>2. BetweenMessages /\ Len(msgs) \in Nat /\ msg \in Nat
    BY <2>1, Buffers DEF Sending, Types
  <2>3. msg - 1 = Len(msgs) /\ pend = Free
    BY <2>1, <2>2 DEF BetweenMessages
  <2>4. rval' > 0 => msgs # <<>> /\ Complete(cur, msgs, regs, Len(msgs))
    <3>1. rval' > 0 => msg # 1 /\ msgs # <<>>
      BY <2>1, <2>2, <2>3
    <3>2. QED
      BY <2>2, <2>3, <3>1 DEF BetweenMessages
  <2>5. QED
    BY <2>1, <2>3, <2>4 DEF Sending
<1>10. CASE EndXfer
  <2>1. /\ pc = "end" /\ ~BusBusy /\ pc' \in {"return", "bb"}
        /\ UNCHANGED <<msgs, rval, cur, pend, regs>>
    BY <1>10 DEF EndXfer, ctrl, slave
  <2>2. ASSUME rval > 0
        PROVE  ~cur.run /\ Delivered(msgs, regs, Len(msgs))
    <3>1. msgs # <<>> /\ Complete(cur, msgs, regs, Len(msgs))
      BY <2>1, <2>2 DEF Sending
    <3>2. Len(msgs) \in DOMAIN msgs
      BY <3>1, Buffers
    <3>3. OnWire(cur, msgs, regs, Len(msgs), Len(msgs[Len(msgs)].buf)) => BusBusy
      <4>1. Len(msgs[Len(msgs)].buf) \in Nat
        BY <3>2, Buffers
      <4>2. QED
        BY <4>1 DEF OnWire, BusBusy, Stuck, Asking
    <3>4. QED
      BY <2>1, <3>1, <3>3 DEF Complete
  <2>3. QED
    BY <1>0, <2>1, <2>2 DEF Sending
<1>11. QED
  BY <1>1, <1>2, <1>3, <1>4, <1>5, <1>6, <1>7, <1>8, <1>9, <1>10 DEF Cpu

(* The bus stays what it is, and a read is never forgotten. *)
LEMMA ReadsStay == [Next]_vars => env' = env /\ (flagRD => flagRD')
<1> SUFFICES ASSUME [Next]_vars PROVE env' = env /\ (flagRD => flagRD')
  OBVIOUS
<1>1. CASE Begin \/ End
  BY <1>1 DEF Begin, BeginTransfer, End
<1>2. CASE Program
  <2>1. env' = env
    BY <1>2 DEF Program
  <2>2. flagRD => flagRD'
    BY <1>2, Zenon DEF Program
  <2>3. QED
    BY <2>1, <2>2
<1>3. CASE Cpu /\ ~Program
  BY <1>3 DEF Cpu, WaitBus, PollAgain, ArbitrationLost, ResetDone, NotAcknowledged,
              TimedOut, ReceiveByte, SendByte, PassByte, Succeed, EndXfer
<1>4. CASE Bus \/ Refuse \/ LoseBus
  BY <1>4 DEF Bus, AskByte, BringByte, EndMessage, Refuse, LoseBus, cpu
<1>5. CASE UNCHANGED vars
  BY <1>5 DEF vars, i2cvars, cpu
<1>6. QED
  BY <1>1, <1>2, <1>3, <1>4, <1>5 DEF Next

(* Every step keeps it. *)
LEMMA SendStep == Types /\ SendInv /\ [Next]_vars => SendInv'
<1> SUFFICES ASSUME Types, SendInv, [Next]_vars, Dependable', ~flagRD'
             PROVE  Sending'
  BY DEF SendInv
<1>1. env' = env /\ (flagRD => flagRD')
  BY ReadsStay
<1>2. Dependable /\ ~flagRD /\ Sending
  BY <1>1 DEF Dependable, SendInv
<1>3. CASE Begin \/ End
  <2>1. pc' \in {"bb", "idle"} /\ UNCHANGED <<cur, pend>>
    BY <1>3 DEF Begin, BeginTransfer, End, ctrl
  <2>2. QED
    BY <1>2, <2>1 DEF Sending
<1>4. CASE Cpu
  BY <1>2, <1>4, CpuSend
<1>5. CASE Bus \/ Refuse \/ LoseBus
  BY <1>2, <1>5, BusSend
<1>6. CASE UNCHANGED vars
  BY <1>2, <1>6 DEF vars, i2cvars, cpu, ctrl, slave, Sending, BetweenMessages, AtByte,
                    Stuck, Asking
<1>7. QED
  BY <1>3, <1>4, <1>5, <1>6 DEF Next

(* A transfer without a read is of registers and their values. *)
RegisterWrites ==
    (\A k \in DOMAIN msgs : ~msgs[k].rd) =>
        \A k \in DOMAIN msgs : Len(msgs[k].buf) = 2 /\ msgs[k].buf[1] \in Regs

(* Only a transfer that begins and a byte received change the messages,    *)
(* and no byte is received before the first read.                          *)
LEMMA MessagesKept ==
    ASSUME Types, ~flagRD, [Next]_vars
    PROVE  /\ Begin \/ msgs' = msgs
           /\ flagRD' => \E k \in DOMAIN msgs : msgs[k].rd
<1>1. CASE Begin
  BY <1>1 DEF Begin, BeginTransfer
<1>2. CASE Program
  <2>1. msgs' = msgs
    BY <1>2 DEF Program
  <2>2. flagRD' => msgs[msg].rd
    BY <1>2, Zenon DEF Program
  <2>3. msg \in DOMAIN msgs
    <3>1. msg \in Nat \ {0} /\ msg <= Len(msgs)
      BY <1>2 DEF Program, Types
    <3>2. QED
      BY <3>1, Buffers
  <2>4. QED
    BY <2>1, <2>2, <2>3
<1>3. CASE ReceiveByte
  BY <1>3 DEF ReceiveByte, Seen, Masked
<1>4. CASE WaitBus \/ PollAgain \/ ArbitrationLost \/ ResetDone \/ NotAcknowledged
              \/ TimedOut \/ SendByte \/ PassByte \/ Succeed \/ EndXfer
  BY <1>4 DEF WaitBus, PollAgain, ArbitrationLost, ResetDone, NotAcknowledged,
              TimedOut, SendByte, PassByte, Succeed, EndXfer
<1>5. CASE End \/ Bus \/ Refuse \/ LoseBus
  BY <1>5 DEF End, Bus, AskByte, BringByte, EndMessage, Refuse, LoseBus, cpu
<1>6. CASE UNCHANGED vars
  BY <1>6 DEF vars, i2cvars, cpu
<1>7. QED
  BY <1>1, <1>2, <1>3, <1>4, <1>5, <1>6 DEF Next, Cpu

(* The transfers the client may make. *)
LEMMA BeginsRight ==
    ASSUME Begin, env \in Environments
    PROVE  /\ RegisterWrites'
           /\ OnlyWrites /\ Dependable => \A k \in DOMAIN msgs' : ~msgs'[k].rd
<1>1. PICK ms \in Transfers(env) : msgs' = ms
  BY DEF Begin, BeginTransfer
<1>2. \/ \A k \in DOMAIN ms :
            ~ms[k].rd /\ Len(ms[k].buf) = 2 /\ ms[k].buf[1] \in Regs
      \/ Len(ms) = 2 /\ ms[2].rd /\ ms \in Seq(Message)
  BY TransferAssumption
<1>3. CASE Len(ms) = 2 /\ ms[2].rd /\ ms \in Seq(Message)
  <2>1. 2 \in DOMAIN ms
    BY <1>3
  <2>2. RegisterWrites'
    BY <1>1, <1>3, <2>1 DEF RegisterWrites
  <2>3. OnlyWrites /\ Dependable => FALSE
    BY <1>3, <2>1 DEF OnlyWrites, Dependable
  <2>4. QED
    BY <2>2, <2>3
<1>4. CASE \A k \in DOMAIN ms : ~ms[k].rd /\ Len(ms[k].buf) = 2 /\ ms[k].buf[1] \in Regs
  BY <1>1, <1>4 DEF RegisterWrites
<1>5. QED
  BY <1>2, <1>3, <1>4

LEMMA RegisterWritesStep ==
    Types /\ (~flagRD => RegisterWrites) /\ [Next]_vars => (~flagRD => RegisterWrites)'
<1> SUFFICES ASSUME Types, ~flagRD => RegisterWrites, [Next]_vars, ~flagRD'
             PROVE  RegisterWrites'
  OBVIOUS
<1>1. CASE Begin
  BY <1>1, BeginsRight DEF Types
<1>2. CASE ~Begin /\ ~flagRD
  BY <1>2, MessagesKept DEF RegisterWrites
<1>3. CASE ~Begin /\ flagRD
  BY <1>3, ReadsStay
<1>4. QED
  BY <1>1, <1>2, <1>3

LEMMA OnlyWritesStep ==
    ASSUME OnlyWrites
    PROVE  /\ Types /\ (Dependable => ~flagRD /\ ~Reading) /\ [Next]_vars
                 => (Dependable => ~flagRD /\ ~Reading)'
<1> SUFFICES ASSUME Types, Dependable => ~flagRD /\ ~Reading, [Next]_vars, Dependable'
             PROVE  ~flagRD' /\ ~Reading'
  OBVIOUS
<1>1. Dependable /\ ~flagRD /\ ~Reading /\ env \in Environments
  BY ReadsStay DEF Dependable, Types
<1>2. ~flagRD'
  BY <1>1, MessagesKept DEF Reading
<1>3. CASE Begin
  BY <1>1, <1>2, <1>3, BeginsRight DEF Reading
<1>4. CASE ~Begin
  BY <1>1, <1>2, <1>4, MessagesKept DEF Reading
<1>5. QED
  BY <1>2, <1>3, <1>4

(* With everything through, each register holds what was last sent to it. *)
LEMMA SentIsHeld == Types /\ SendInv /\ (~flagRD => RegisterWrites)
                       => (~flagRD => WritesReachSlave)
<1> SUFFICES ASSUME Types, SendInv, RegisterWrites, ~flagRD, Dependable, WritesSucceeded
             PROVE  \A k \in DOMAIN msgs :
                       \/ \E l \in k + 1 .. Len(msgs) : msgs[l].buf[1] = msgs[k].buf[1]
                       \/ regs[msgs[k].buf[1]] = msgs[k].buf[2]
  BY DEF WritesReachSlave
<1>1. Delivered(msgs, regs, Len(msgs))
  BY DEF SendInv, Sending, WritesSucceeded
<1>2. \A k \in DOMAIN msgs : Len(msgs[k].buf) = 2 /\ msgs[k].buf[1] \in Regs
  BY DEF RegisterWrites, WritesSucceeded
<1>3. DOMAIN msgs = 1 .. Len(msgs)
  BY Buffers
<1>4. QED
  BY <1>1, <1>2, <1>3 DEF Delivered

(* Until the first read, on every bus that can be relied on, with every    *)
(* number of polls and retries and with refused addresses and lost         *)
(* arbitration: when i2c_transfer reports a transfer of writes a success,  *)
(* each register holds what was last sent to it.                           *)
THEOREM WritesArrive == Spec => [](~flagRD => WritesReachSlave)
<1>1. Init => Types /\ SendInv /\ (~flagRD => RegisterWrites)
  BY TypesInit, SendInit DEF Init, I2cInit, RegisterWrites
<1>2. Types /\ SendInv /\ (~flagRD => RegisterWrites) /\ [Next]_vars
         => (Types /\ SendInv /\ (~flagRD => RegisterWrites))'
  BY TypesStep, SendStep, RegisterWritesStep
<1>3. QED
  BY <1>1, <1>2, SentIsHeld, PTL DEF Spec

(* And a client that never reads there has that for all its transfers.     *)
THEOREM WritersServed == OnlyWrites => (Spec => []WritesReachSlave)
<1> SUFFICES ASSUME OnlyWrites PROVE Spec => []WritesReachSlave
  OBVIOUS
<1>1. Init => Types /\ (Dependable => ~flagRD /\ ~Reading)
  BY TypesInit DEF Init, I2cInit, Reading
<1>2. Types /\ (Dependable => ~flagRD /\ ~Reading) /\ [Next]_vars
         => (Types /\ (Dependable => ~flagRD /\ ~Reading))'
  BY TypesStep, OnlyWritesStep
<1>3. (Dependable => ~flagRD /\ ~Reading) /\ (~flagRD => WritesReachSlave)
         => WritesReachSlave
  BY DEF WritesReachSlave
<1>4. QED
  BY <1>1, <1>2, <1>3, WritesArrive, PTL DEF Spec
====
