------------------------------ MODULE I2c_proofs ------------------------------
(***************************************************************************)
(* Lemmas about the I2C adapter by itself, for every bus and every number  *)
(* of polls and retries: each of its steps and of the controller's leaves  *)
(* its variables in range, whoever uses it.  And a theorem about the       *)
(* delay between two of its polls: udelay waits as long as it is asked to. *)
(***************************************************************************)
EXTENDS I2c, SequenceTheorems, WellFoundedInduction, TLAPS

Transmission == [run : BOOLEAN, rd : BOOLEAN, left : Nat, sent : Seq(Bytes)]

AdapterTypes ==
    /\ pc \in {"idle", "bb", "msg", "poll", "reset", "end", "return"}
    /\ msgs \in Seq(Message)
    /\ pc = "poll" => msg \in DOMAIN msgs /\ idx \in DOMAIN msgs[msg].buf
    /\ timeout \in 0 .. Timeout
    /\ tries \in 0 .. Retries - 1
    /\ rval \in {-1} \cup Nat
    /\ flagRD \in BOOLEAN
    /\ stat \subseteq {"ARDY", "XRDY", "RRDY", "NACK", "AL"}
    /\ regs \in [Regs -> Bytes] /\ ptr \in Regs
    /\ env \in Environments
    /\ msg \in Nat \ {0} /\ idx \in Nat \ {0}
    /\ cur \in Transmission /\ pend \in Transmission /\ fifo \in Seq(Bytes)

-----------------------------------------------------------------------------
(* Messages *)

LEMMA Constants ==
    /\ Regs \subseteq Bytes /\ RegInit \subseteq [Regs -> Bytes]
    /\ Retries \in Nat \ {0} /\ Timeout \in Nat \ {0}
  BY I2cAssumption

LEMMA FreeWire == Free \in Transmission
  BY DEF Free, Transmission

(* A byte moved leaves a message on the wire one. *)
LEMMA ByteOver ==
    ASSUME NEW c \in Transmission, c.left > 0, NEW s \in Seq(Bytes)
    PROVE  [c EXCEPT !.left = @ - 1, !.sent = s] \in Transmission
<1>1. c.left - 1 \in Nat
  BY DEF Transmission
<1> DEFINE n == c.left - 1
<1> HIDE DEF n
<1>2. n \in Nat
  BY <1>1 DEF n
<1>3. [c EXCEPT !.left = n, !.sent = s] \in Transmission
  BY <1>2 DEF Transmission
<1>4. QED
  BY <1>3 DEF n

(* A byte put into a message leaves its direction and its length. *)
LEMMA PutByte ==
    ASSUME NEW ms \in Seq(Message), NEW k \in DOMAIN ms, NEW i \in DOMAIN ms[k].buf,
           NEW b \in Bytes
    PROVE  LET new == [ms EXCEPT ![k].buf[i] = b] IN
           /\ new \in Seq(Message)
           /\ Len(new) = Len(ms) /\ DOMAIN new = DOMAIN ms
           /\ \A j \in DOMAIN ms : /\ new[j].rd = ms[j].rd
                                  /\ Len(new[j].buf) = Len(ms[j].buf)
                                  /\ DOMAIN new[j].buf = DOMAIN ms[j].buf
<1> DEFINE buf == [ms[k].buf EXCEPT ![i] = b]
           m == [ms[k] EXCEPT !.buf = buf]
           new == [ms EXCEPT ![k] = m]
<1>1. ms[k] \in Message
  OBVIOUS
<1>2. ms[k].buf \in Seq(Bytes) /\ Len(ms[k].buf) \in {1, 2}
  BY <1>1 DEF Message
<1>3. /\ buf \in Seq(Bytes) /\ Len(buf) = Len(ms[k].buf)
      /\ DOMAIN buf = DOMAIN ms[k].buf
  BY <1>2
<1>4. m \in Message /\ m.rd = ms[k].rd /\ m.buf = buf
  BY <1>1, <1>2, <1>3 DEF Message
<1>5. /\ new \in Seq(Message) /\ Len(new) = Len(ms) /\ DOMAIN new = DOMAIN ms
      /\ \A j \in DOMAIN ms : new[j] = IF j = k THEN m ELSE ms[j]
  <2> HIDE DEF m
  <2> QED
    BY <1>4
<1>6. \A j \in DOMAIN ms : /\ new[j].rd = ms[j].rd
                          /\ Len(new[j].buf) = Len(ms[j].buf)
                          /\ DOMAIN new[j].buf = DOMAIN ms[j].buf
  <2> HIDE DEF m, new, buf
  <2> QED
    BY <1>3, <1>4, <1>5
<1>7. QED
  BY <1>5, <1>6

-----------------------------------------------------------------------------
(* Types *)

LEMMA AdapterInit == I2cInit => AdapterTypes
<1> SUFFICES ASSUME I2cInit PROVE AdapterTypes
  OBVIOUS
<1> USE DEF I2cInit
<1>1. msgs \in Seq(Message) /\ fifo \in Seq(Bytes)
  OBVIOUS
<1>2. timeout \in 0 .. Timeout /\ tries \in 0 .. Retries - 1
  BY Constants
<1>3. regs \in [Regs -> Bytes]
  BY Constants
<1>4. ptr \in Regs /\ env \in Environments
  OBVIOUS
<1>5. /\ pc = "idle" /\ rval = 0 /\ flagRD = FALSE /\ stat = {}
      /\ msg = 1 /\ idx = 1 /\ cur = Free /\ pend = Free
  OBVIOUS
<1> HIDE DEF I2cInit
<1>6. cur \in Transmission /\ pend \in Transmission
  BY <1>5, FreeWire, Zenon
<1>7. rval \in {-1} \cup Nat /\ msg \in Nat \ {0} /\ idx \in Nat \ {0}
  BY <1>5
<1>8. pc # "poll" /\ flagRD \in BOOLEAN /\ stat \subseteq {"ARDY", "XRDY", "RRDY", "NACK", "AL"}
      /\ pc \in {"idle", "bb", "msg", "poll", "reset", "end", "return"}
  BY <1>5
<1>9. QED
  BY <1>1, <1>2, <1>3, <1>4, <1>6, <1>7, <1>8, Zenon DEF AdapterTypes

(* The next byte, or the next message. *)
LEMMA NextByteTypes ==
    ASSUME AdapterTypes, pc = "poll", NextByte,
           msgs' \in Seq(Message), DOMAIN msgs' = DOMAIN msgs,
           \A k \in DOMAIN msgs : DOMAIN msgs'[k].buf = DOMAIN msgs[k].buf
    PROVE  /\ pc' \in {"poll", "msg"} /\ timeout' \in 0 .. Timeout
           /\ msg' \in Nat \ {0} /\ idx' \in Nat \ {0}
           /\ pc' = "poll" => msg' \in DOMAIN msgs' /\ idx' \in DOMAIN msgs'[msg'].buf
<1>1. msgs \in Seq(Message) /\ msg \in DOMAIN msgs /\ idx \in DOMAIN msgs[msg].buf
  BY DEF AdapterTypes
<1>2. msgs[msg].buf \in Seq(Bytes)
  <2>1. msgs[msg] \in Message
    BY <1>1
  <2>2. QED
    BY <2>1 DEF Message
<1>3. DOMAIN msgs[msg].buf = 1 .. Len(msgs[msg].buf) /\ Len(msgs[msg].buf) \in Nat
  BY <1>2
<1>4. idx < Len(msgs[msg].buf) => idx + 1 \in DOMAIN msgs[msg].buf
  BY <1>1, <1>3 DEF AdapterTypes
<1>5. msg' \in Nat \ {0} /\ idx' \in Nat \ {0} /\ timeout' \in 0 .. Timeout
  BY Constants DEF NextByte, AdapterTypes
<1>6. QED
  BY <1>1, <1>4, <1>5 DEF NextByte

LEMMA BusTypes ==
    ASSUME AdapterTypes, Bus \/ Refuse \/ LoseBus
    PROVE  AdapterTypes'
<1> USE DEF AdapterTypes, cpu, slave
<1>1. CASE AskByte
  BY <1>1 DEF AskByte
<1>2. CASE BringByte
  <2>1. regs[ptr] \in Bytes
    OBVIOUS
  <2>2. fifo' \in Seq(Bytes)
    BY <1>2, <2>1 DEF BringByte
  <2>3. cur' \in Transmission
    <3>1. cur' = [cur EXCEPT !.left = cur.left - 1] /\ cur.left > 0
      BY <1>2 DEF BringByte
    <3>2. cur' = [cur EXCEPT !.left = @ - 1, !.sent = cur.sent]
      BY <3>1 DEF Transmission
    <3>3. cur.sent \in Seq(Bytes)
      BY DEF Transmission
    <3>4. cur \in Transmission
      OBVIOUS
    <3> HIDE DEF AdapterTypes
    <3>5. QED
      BY <3>1, <3>2, <3>3, <3>4, ByteOver, Zenon
  <2>4. QED
    BY <1>2, <2>2, <2>3 DEF BringByte
<1>3. CASE EndMessage
  <2>1. cur.sent \in Seq(Bytes)
    BY DEF Transmission
  <2>2. ptr' \in Regs
    BY <1>3 DEF EndMessage
  <2>3. regs' \in [Regs -> Bytes]
    BY <1>3, <2>1 DEF EndMessage
  <2>4. QED
    BY <1>3, <2>2, <2>3, FreeWire DEF EndMessage
<1>4. CASE Refuse
  BY <1>4, FreeWire DEF Refuse
<1>5. CASE LoseBus
  BY <1>5, FreeWire DEF LoseBus
<1>6. QED
  BY <1>1, <1>2, <1>3, <1>4, <1>5 DEF Bus

LEMMA StartTypes ==
    ASSUME NEW m \in Message, cur \in Transmission, StartMessage(m)
    PROVE  cur' \in Transmission /\ pend' \in Transmission /\ fifo' \in Seq(Bytes)
<1> DEFINE new == [run |-> TRUE, rd |-> m.rd, left |-> Len(m.buf), sent |-> <<>>]
<1>1. new \in Transmission
  BY DEF Message, Transmission
<1>2. fifo' = <<>> /\ cur' \in {cur, new} /\ pend' \in {Free, new}
  BY DEF StartMessage
<1>3. <<>> \in Seq(Bytes)
  OBVIOUS
<1> HIDE DEF new
<1>4. QED
  BY <1>1, <1>2, <1>3, FreeWire

(* What the three outcomes of a byte leave in range. *)
LEMMA ByteTypes ==
    ASSUME AdapterTypes, ReceiveByte \/ SendByte \/ PassByte
    PROVE  AdapterTypes'
<1>1. pc = "poll" /\ NextByte
  BY DEF ReceiveByte, SendByte, PassByte, Clear, LoopEnds, Looking
<1>2. /\ msgs \in Seq(Message) /\ msg \in DOMAIN msgs /\ idx \in DOMAIN msgs[msg].buf
      /\ cur \in Transmission /\ fifo \in Seq(Bytes)
  BY <1>1 DEF AdapterTypes
<1>3. /\ msgs' \in Seq(Message) /\ DOMAIN msgs' = DOMAIN msgs
      /\ \A k \in DOMAIN msgs : DOMAIN msgs'[k].buf = DOMAIN msgs[k].buf
  <2>1. CASE ReceiveByte
    <3>1. PICK b \in Bytes : msgs' = [msgs EXCEPT ![msg].buf[idx] = b]
      BY <2>1 DEF ReceiveByte
    <3>2. QED
      BY <3>1, <1>2, PutByte
  <2>2. CASE SendByte \/ PassByte
    BY <2>2, <1>2 DEF SendByte, PassByte
  <2>3. QED
    BY <2>1, <2>2
<1>4. /\ pc' \in {"poll", "msg"} /\ timeout' \in 0 .. Timeout
      /\ msg' \in Nat \ {0} /\ idx' \in Nat \ {0}
      /\ pc' = "poll" => msg' \in DOMAIN msgs' /\ idx' \in DOMAIN msgs'[msg'].buf
  BY <1>1, <1>3, NextByteTypes
<1>5. cur' \in Transmission /\ pend' = pend
  <2>1. CASE SendByte /\ Asking
    <3>1. msgs[msg].buf \in Seq(Bytes)
      <4>1. msgs[msg] \in Message
        BY <1>2
      <4>2. QED
        BY <4>1 DEF Message
    <3>2. msgs[msg].buf[idx] \in Bytes
      BY <3>1, <1>2
    <3>3. Append(cur.sent, msgs[msg].buf[idx]) \in Seq(Bytes)
      BY <3>2, <1>2 DEF Transmission
    <3>4. cur' = [cur EXCEPT !.left = @ - 1, !.sent = Append(cur.sent, msgs[msg].buf[idx])]
      BY <2>1, <1>2 DEF SendByte
    <3>5. cur.left > 0
      BY <2>1 DEF Asking
    <3>6. cur' \in Transmission
      BY <3>3, <3>4, <3>5, <1>2, ByteOver, Zenon
    <3>7. QED
      BY <3>6, <2>1 DEF SendByte
  <2>2. CASE ~(SendByte /\ Asking)
    BY <2>2, <1>2 DEF ReceiveByte, SendByte, PassByte, ctrl
  <2>3. QED
    BY <2>1, <2>2
<1>6. fifo' \in Seq(Bytes)
  <2>1. fifo # <<>> => Tail(fifo) \in Seq(Bytes)
    BY <1>2
  <2>2. fifo' \in {fifo} \/ (fifo # <<>> /\ fifo' = Tail(fifo))
    BY DEF ReceiveByte, SendByte, PassByte, ctrl
  <2>3. QED
    BY <2>1, <2>2, <1>2
<1>7. /\ UNCHANGED <<env, tries, rval, flagRD, regs, ptr>>
      /\ stat' \subseteq stat
  BY DEF ReceiveByte, SendByte, PassByte, slave, ctrl
<1>8. QED
  BY <1>3, <1>4, <1>5, <1>6, <1>7 DEF AdapterTypes

LEMMA CpuTypes ==
    ASSUME AdapterTypes, Cpu
    PROVE  AdapterTypes'
<1>1. CASE WaitBus
  BY <1>1 DEF WaitBus, AdapterTypes, ctrl, slave
<1>2. CASE Program
  <2>1. msg \in DOMAIN msgs /\ msgs \in Seq(Message) /\ msgs[msg] \in Message
    BY <1>2 DEF Program, AdapterTypes
  <2>2. cur' \in Transmission /\ pend' \in Transmission /\ fifo' \in Seq(Bytes)
    BY <1>2, <2>1, StartTypes DEF Program, AdapterTypes
  <2>3. 1 \in DOMAIN msgs[msg].buf
    BY <2>1 DEF Message
  <2>4. flagRD' \in BOOLEAN
    BY <1>2, <2>1 DEF Program, AdapterTypes, Message
  <2>5. /\ UNCHANGED <<env, msgs, msg, tries, rval, stat, regs, ptr>>
        /\ idx' = 1 /\ timeout' = Timeout /\ pc' = "poll"
    BY <1>2 DEF Program, slave
  <2>6. timeout' \in 0 .. Timeout
    BY <2>5, Constants
  <2>7. QED
    BY <2>1, <2>2, <2>3, <2>4, <2>5, <2>6 DEF AdapterTypes
<1>3. CASE PollAgain
  BY <1>3, Constants DEF PollAgain, AdapterTypes, ctrl, slave
<1>4. CASE ArbitrationLost
  BY <1>4, FreeWire DEF ArbitrationLost, AdapterTypes, slave
<1>5. CASE ResetDone \/ NotAcknowledged \/ TimedOut
  BY <1>5 DEF ResetDone, NotAcknowledged, TimedOut, Fail, AdapterTypes, slave
<1>6. CASE ReceiveByte \/ SendByte \/ PassByte
  BY <1>6, ByteTypes
<1>7. CASE Succeed
  BY <1>7 DEF Succeed, AdapterTypes, ctrl, slave
<1>8. CASE EndXfer
  BY <1>8, Constants DEF EndXfer, AdapterTypes, ctrl, slave
<1>9. QED
  BY <1>1, <1>2, <1>3, <1>4, <1>5, <1>6, <1>7, <1>8 DEF Cpu

(* A transfer that is handed over. *)
LEMMA BeginTypes ==
    ASSUME AdapterTypes, NEW ms \in Seq(Message), BeginTransfer(ms)
    PROVE  AdapterTypes'
  BY Constants DEF BeginTransfer, ctrl, slave, AdapterTypes

(* The messages keep their number and their lengths until the next         *)
(* transfer.                                                               *)
LEMMA ShapeKept ==
    ASSUME AdapterTypes, Cpu \/ Bus \/ Refuse \/ LoseBus
    PROVE  /\ Len(msgs') = Len(msgs) /\ DOMAIN msgs' = DOMAIN msgs
           /\ \A k \in DOMAIN msgs : /\ msgs'[k].rd = msgs[k].rd
                                     /\ Len(msgs'[k].buf) = Len(msgs[k].buf)
<1>1. CASE ReceiveByte
  <2>1. PICK b \in Bytes : msgs' = [msgs EXCEPT ![msg].buf[idx] = b]
    BY <1>1 DEF ReceiveByte
  <2>2. msgs \in Seq(Message) /\ msg \in DOMAIN msgs /\ idx \in DOMAIN msgs[msg].buf
    BY <1>1 DEF ReceiveByte, Clear, LoopEnds, Looking, AdapterTypes
  <2>3. QED
    BY <2>1, <2>2, PutByte
<1>2. CASE ~ReceiveByte
  <2>1. msgs' = msgs
    BY <1>2 DEF Cpu, Bus, WaitBus, Program, PollAgain, ArbitrationLost, ResetDone,
       NotAcknowledged, TimedOut, SendByte, PassByte, Succeed, EndXfer, AskByte, BringByte,
       EndMessage, Refuse, LoseBus, cpu
  <2>2. QED
    BY <2>1
<1>3. QED
  BY <1>1, <1>2

-----------------------------------------------------------------------------
(* The delay between two polls *)

Delay == INSTANCE Timer

(* What udelay knows between two readings. *)
Waits(word) == [tmo : Int, last : 0 .. word - 1, waited : Nat, latest : Nat]

(* It never believes to have waited longer than it has; and while no more  *)
(* than half a turn of the counter passes unseen, it knows how long.       *)
Behind(d, ticks, word) ==
    /\ d \in Waits(word) /\ d.tmo < word \div 2
    /\ d.tmo >= ticks - d.waited

Exact(d, ticks) ==
    /\ d.tmo = ticks - d.waited
    /\ d.tmo <= 0 => ticks = 0 \/ d.waited - d.latest < ticks

LEMMA Modulo ==
    ASSUME NEW a \in Nat, NEW d \in Nat \ {0}
    PROVE  a % d \in 0 .. d - 1 /\ a \div d \in Nat /\ a = d * (a \div d) + (a % d)
  OBVIOUS

LEMMA ModuloIs ==
    ASSUME NEW q \in Nat, NEW d \in Nat \ {0}, NEW r \in 0 .. d - 1
    PROVE  (q * d + r) % d = r
  OBVIOUS

LEMMA ModuloNegative ==
    ASSUME NEW d \in Nat \ {0}, NEW x \in Int, x < 0, x + d > 0
    PROVE  x % d = x + d
  OBVIOUS

LEMMA ModuloSmall ==
    ASSUME NEW d \in Nat \ {0}, NEW x \in 0 .. d - 1
    PROVE  x % d = x
  OBVIOUS

(* The ticks counted over the counter's wrap are those that passed, but    *)
(* for whole turns.                                                        *)
LEMMA ElapsedTicks ==
    ASSUME NEW word \in Nat \ {0}, NEW last \in 0 .. word - 1, NEW gap \in Nat
    PROVE  LET now == (last + gap) % word
               e == Delay!Elapsed(last, now, word)
           IN now \in 0 .. word - 1 /\ e \in 0 .. word - 1 /\ e <= gap /\ (gap < word => e = gap)
<1> DEFINE q == gap \div word
           r == gap % word
           now == (last + gap) % word
<1>1. q \in Nat /\ r \in 0 .. word - 1 /\ gap = word * q + r
  BY Modulo
<1>2. r <= gap /\ (gap < word => r = gap)
  <2>1. word * q \in Nat
    BY <1>1
  <2>2. gap < word => r = gap
    BY ModuloSmall
  <2> HIDE DEF q, r
  <2> QED
    BY <1>1, <2>1, <2>2
<1>3. now = IF last + r < word THEN last + r ELSE last + r - word
  <2> HIDE DEF q, r
  <2>1. CASE last + r < word
    <3>1. last + gap = q * word + (last + r) /\ last + r \in 0 .. word - 1
      BY <1>1, <2>1
    <3> QED
      BY <1>1, <2>1, <3>1, ModuloIs
  <2>2. CASE last + r >= word
    <3>1. last + gap = (q + 1) * word + (last + r - word) /\ last + r - word \in 0 .. word - 1
      BY <1>1, <2>2
    <3>2. q + 1 \in Nat
      BY <1>1
    <3>3. ((q + 1) * word + (last + r - word)) % word = last + r - word
      BY <3>1, <3>2, ModuloIs
    <3> QED
      BY <1>1, <2>2, <3>1, <3>3
  <2> QED
    BY <1>1, <2>1, <2>2
<1> HIDE DEF q, r, now
<1>4. Delay!Elapsed(last, now, word) = r /\ now \in 0 .. word - 1
  BY <1>1, <1>3 DEF Delay!Elapsed
<1> QED
  BY <1>1, <1>2, <1>4 DEF now

(* A difference that is too far below zero for a long comes out above it,  *)
(* never below what it was.                                                *)
LEMMA RestAsLong ==
    ASSUME NEW word \in Nat \ {0}, word % 2 = 0, NEW x \in Int,
           x < word \div 2, x + word > 0
    PROVE  /\ Delay!AsLong(x, word) \in Int
           /\ Delay!AsLong(x, word) >= x /\ Delay!AsLong(x, word) < word \div 2
           /\ x + (word \div 2) >= 0 => Delay!AsLong(x, word) = x
<1>1. word \div 2 \in Nat /\ word = 2 * (word \div 2)
  OBVIOUS
<1>2. CASE x >= 0
  <2>1. x % word = x
    BY <1>1, <1>2, ModuloSmall
  <2> QED
    BY <1>1, <1>2, <2>1 DEF Delay!AsLong
<1>3. CASE x < 0
  <2>1. x % word = x + word
    BY <1>3, ModuloNegative
  <2> QED
    BY <1>1, <1>3, <2>1 DEF Delay!AsLong
<1> QED
  BY <1>2, <1>3

LEMMA ReadingKeeps ==
    ASSUME NEW word \in Nat \ {0}, word % 2 = 0, NEW ticks \in Nat, NEW gap \in Nat,
           NEW d, Behind(d, ticks, word)
    PROVE  /\ Behind(Delay!Reading(d, gap, word), ticks, word)
           /\ Exact(d, ticks) /\ gap <= word \div 2 => Exact(Delay!Reading(d, gap, word), ticks)
<1> DEFINE now == (d.last + gap) % word
           e == Delay!Elapsed(d.last, now, word)
           x == d.tmo - e
           n == Delay!Reading(d, gap, word)
<1>1. /\ d.tmo \in Int /\ d.last \in 0 .. word - 1 /\ d.waited \in Nat
      /\ d.tmo < word \div 2 /\ d.tmo >= ticks - d.waited
  BY DEF Behind, Waits
<1>2. now \in 0 .. word - 1 /\ e \in 0 .. word - 1 /\ e <= gap /\ (gap < word => e = gap)
  BY <1>1, ElapsedTicks
<1>3. CASE d.tmo <= 0
  <2>1. n = d
    BY <1>3 DEF Delay!Reading
  <2> QED
    BY <2>1
<1>4. CASE d.tmo > 0
  <2>1. n = [tmo |-> Delay!AsLong(x, word), last |-> now, waited |-> d.waited + gap, latest |-> gap]
    BY <1>1, <1>4 DEF Delay!Reading
  <2>2. x \in Int /\ x < word \div 2 /\ x + word > 0
    BY <1>1, <1>2, <1>4
  <2>3. /\ Delay!AsLong(x, word) \in Int
        /\ Delay!AsLong(x, word) >= x /\ Delay!AsLong(x, word) < word \div 2
        /\ x + (word \div 2) >= 0 => Delay!AsLong(x, word) = x
    BY <2>2, RestAsLong
  <2> DEFINE y == Delay!AsLong(x, word)
  <2>4. x >= ticks - (d.waited + gap) /\ d.waited + gap \in Nat
    BY <1>1, <1>2
  <2>5. Behind(n, ticks, word)
    <3> HIDE DEF now, x, n
    <3> QED
      BY <1>2, <2>1, <2>2, <2>3, <2>4 DEF Behind, Waits
  <2>6. ASSUME Exact(d, ticks), gap <= word \div 2 PROVE Exact(n, ticks)
    <3>1. gap < word /\ d.tmo = ticks - d.waited
      BY <2>6 DEF Exact
    <3>2. x = ticks - (d.waited + gap) /\ x + (word \div 2) >= 0
      BY <1>1, <1>2, <1>4, <2>6, <3>1
    <3>3. d.waited < ticks
      BY <1>1, <1>4, <3>1
    <3> HIDE DEF now, x, n
    <3> QED
      BY <1>1, <2>1, <2>2, <2>3, <3>2, <3>3 DEF Exact
  <2> QED
    BY <2>5, <2>6
<1> QED
  BY <1>1, <1>3, <1>4

(* The least number of a set of numbers. *)
LEMMA Least ==
    ASSUME NEW B \in SUBSET Nat, B # {}
    PROVE  \E x \in B : \A y \in B : x <= y
<1>1. \E x \in B : \A y \in B : ~(<<y, x>> \in OpToRel(<, Nat))
  BY NatLessThanWellFounded, WFMin, Zenon
<1>2. \A x, y \in Nat : (<<y, x>> \in OpToRel(<, Nat)) <=> y < x
  <2>1. \A x, y \in Nat : (<<y, x>> \in {ss \in Nat \X Nat : ss[1] < ss[2]}) <=> y < x
    OBVIOUS
  <2> QED
    BY <2>1, Zenon DEF OpToRel
<1>3. \E x \in B : \A y \in B : ~(y < x)
  BY <1>1, <1>2, Zenon
<1> QED
  BY <1>3

(* g is what udelay knows after each of the first n readings. *)
Follows(g, begun, gaps, word, n) ==
    g = [k \in 0 .. n |-> IF k = 0 THEN begun ELSE Delay!Reading(g[k - 1], gaps[k], word)]

LEMMA ReadingsThere ==
    ASSUME NEW begun, NEW gaps, NEW word, NEW n \in Nat
    PROVE  \E g : Follows(g, begun, gaps, word, n)
<1> DEFINE B == {k \in Nat : ~\E g : Follows(g, begun, gaps, word, k)}
<1>1. SUFFICES ASSUME B # {} PROVE FALSE
  OBVIOUS
<1>2. PICK x \in B : \A y \in B : x <= y
  <2> HIDE DEF B
  <2>1. B \in SUBSET Nat
    BY DEF B
  <2> QED
    BY <1>1, <2>1, Least
<1>3. CASE x = 0
  <2> DEFINE g == [k \in 0 .. 0 |-> begun]
  <2>1. Follows(g, begun, gaps, word, 0)
    BY DEF Follows
  <2> QED
    BY <1>2, <1>3, <2>1
<1>4. CASE x # 0
  <2>1. x - 1 \in Nat /\ x - 1 \notin B /\ x \in Nat
    BY <1>2, <1>4
  <2>2. PICK f : Follows(f, begun, gaps, word, x - 1)
    BY <2>1
  <2> DEFINE g == [k \in 0 .. x |-> IF k \in 0 .. x - 1 THEN f[k]
                                    ELSE Delay!Reading(f[x - 1], gaps[x], word)]
             s(h, k) == IF k = 0 THEN begun ELSE Delay!Reading(h[k - 1], gaps[k], word)
  <2>3. \A k \in 0 .. x - 1 : f[k] = s(f, k)
    <3>1. f = [k \in 0 .. x - 1 |-> s(f, k)]
      BY <2>2 DEF Follows
    <3> HIDE DEF s
    <3> QED
      BY <3>1
  <2>4. ASSUME NEW k \in 0 .. x PROVE g[k] = s(g, k)
    <3>1. CASE k = 0
      <4>1. k \in 0 .. x - 1 /\ g[k] = f[k]
        BY <1>4, <2>1, <3>1
      <4>2. f[k] = begun
        BY <2>3, <3>1, <4>1
      <4> QED
        BY <3>1, <4>1, <4>2
    <3>2. CASE k # 0
      <4>1. k - 1 \in 0 .. x - 1 /\ k - 1 \in 0 .. x
        BY <2>1, <3>2
      <4>2. g[k - 1] = f[k - 1]
        BY <4>1
      <4>3. g[k] = Delay!Reading(f[k - 1], gaps[k], word)
        <5>1. CASE k = x
          <6>1. k \notin 0 .. x - 1
            BY <2>1, <5>1
          <6> QED
            BY <5>1, <6>1
        <5>2. CASE k # x
          <6>1. k \in 0 .. x - 1
            BY <2>1, <5>2
          <6>2. f[k] = Delay!Reading(f[k - 1], gaps[k], word)
            BY <2>3, <3>2, <6>1
          <6> QED
            BY <6>1, <6>2
        <5> QED
          BY <5>1, <5>2
      <4> HIDE DEF g
      <4> QED
        BY <3>2, <4>2, <4>3
    <3> QED
      BY <3>1, <3>2
  <2>5. g = [k \in 0 .. x |-> g[k]]
    OBVIOUS
  <2> HIDE DEF g
  <2>6. g = [k \in 0 .. x |-> s(g, k)]
    <3> HIDE DEF s
    <3> QED
      BY <2>4, <2>5
  <2>7. Follows(g, begun, gaps, word, x)
    BY <2>6 DEF Follows
  <2> QED
    BY <1>2, <2>7
<1> QED
  BY <1>3, <1>4

LEMMA ReadingsFollow ==
    ASSUME NEW tmo, NEW start, NEW gaps, NEW word, Len(gaps) \in Nat
    PROVE  Follows(Delay!Readings(tmo, start, gaps, word), Delay!Begun(tmo, start), gaps, word, Len(gaps))
<1> DEFINE d == Delay!Readings(tmo, start, gaps, word)
           b == Delay!Begun(tmo, start)
           n == Len(gaps)
<1>1. d = CHOOSE g : g = [k \in 0 .. n |-> IF k = 0 THEN b ELSE Delay!Reading(g[k - 1], gaps[k], word)]
  BY DEF Delay!Readings
<1>2. d = CHOOSE g : Follows(g, b, gaps, word, n)
  BY <1>1 DEF Follows
<1>3. \E g : Follows(g, b, gaps, word, n)
  BY ReadingsThere
<1> HIDE DEF d, b, n
<1>4. Follows(d, b, gaps, word, n)
  BY <1>2, <1>3
<1> QED
  BY <1>4 DEF d, b, n

(* udelay never returns early, whatever passes between two readings of the *)
(* counter and wherever it stands when the delay begins: when the rest is  *)
(* not positive any more, the ticks have passed.  And it returns with the  *)
(* first reading after them, if no two readings are more than half a turn  *)
(* of the counter apart.                                                   *)
THEOREM DelayPasses ==
    ASSUME NEW word \in Nat \ {0}, word % 2 = 0, NEW ticks \in Nat, ticks < word \div 2,
           NEW start \in 0 .. word - 1, NEW gaps \in Seq(Nat)
    PROVE  LET end == Delay!udelay(Delay!AsLong(ticks, word), start, gaps, word)
           IN /\ end.tmo <= 0 => end.waited >= ticks
              /\ (\A k \in 1 .. Len(gaps) : gaps[k] <= word \div 2) =>
                     IF end.tmo <= 0 THEN ticks = 0 \/ end.waited - end.latest < ticks
                                     ELSE end.waited < ticks
<1> DEFINE n == Len(gaps)
           t == Delay!AsLong(ticks, word)
           d == Delay!Readings(t, start, gaps, word)
           short == \A k \in 1 .. n : gaps[k] <= word \div 2
           Good(k) == Behind(d[k], ticks, word) /\ (short => Exact(d[k], ticks))
           B == {k \in 0 .. n : ~Good(k)}
<1>1. n \in Nat /\ \A k \in 1 .. n : gaps[k] \in Nat
  OBVIOUS
<1>2. word \div 2 \in Nat /\ word = 2 * (word \div 2)
  OBVIOUS
<1>3. t = ticks
  <2>1. ticks % word = ticks
    BY <1>2, ModuloSmall
  <2> QED
    BY <2>1 DEF Delay!AsLong
<1>4. \A k \in 0 .. n : d[k] = IF k = 0 THEN Delay!Begun(t, start)
                               ELSE Delay!Reading(d[k - 1], gaps[k], word)
  <2>1. Follows(d, Delay!Begun(t, start), gaps, word, n)
    BY <1>1, ReadingsFollow
  <2> HIDE DEF d, t, n
  <2> QED
    BY <2>1 DEF Follows
<1> HIDE DEF n, t, d, short
<1>5. Good(0)
  <2>1. d[0] = [tmo |-> ticks, last |-> start, waited |-> 0, latest |-> 0]
    BY <1>1, <1>3, <1>4 DEF Delay!Begun
  <2> QED
    BY <1>2, <2>1 DEF Behind, Exact, Waits
<1>6. ASSUME NEW k \in 1 .. n, Good(k - 1) PROVE Good(k)
  <2>1. d[k] = Delay!Reading(d[k - 1], gaps[k], word) /\ gaps[k] \in Nat
    BY <1>1, <1>4
  <2>2. /\ Behind(d[k], ticks, word)
        /\ Exact(d[k - 1], ticks) /\ gaps[k] <= word \div 2 => Exact(d[k], ticks)
    BY <1>6, <2>1, ReadingKeeps
  <2> QED
    BY <1>6, <2>2 DEF short
<1>7. B = {}
  <2> SUFFICES ASSUME B # {} PROVE FALSE
    OBVIOUS
  <2> HIDE DEF Good
  <2>1. B \in SUBSET Nat
    BY <1>1
  <2>2. PICK x \in B : \A y \in B : x <= y
    <3> HIDE DEF B
    <3> QED
      BY <2>1, Least
  <2>3. x \in 1 .. n /\ x - 1 \in 0 .. n /\ ~Good(x)
    BY <1>1, <1>5, <2>2
  <2>4. x - 1 \notin B
    BY <2>1, <2>2, <2>3
  <2> QED
    BY <1>6, <2>3, <2>4
<1>8. Good(n)
  BY <1>1, <1>7
<1>9. Delay!udelay(t, start, gaps, word) = d[n]
  BY DEF Delay!udelay, d, n
<1> DEFINE e == d[n]
<1>10. /\ e.tmo <= 0 => e.waited >= ticks
       /\ short => IF e.tmo <= 0 THEN ticks = 0 \/ e.waited - e.latest < ticks
                                 ELSE e.waited < ticks
  <2>1. e.tmo \in Int /\ e.waited \in Nat
    BY <1>8 DEF Behind, Waits
  <2> HIDE DEF e
  <2>2. e.tmo >= ticks - e.waited
    BY <1>8 DEF Behind, e
  <2>3. short => e.tmo = ticks - e.waited
                 /\ (e.tmo <= 0 => ticks = 0 \/ e.waited - e.latest < ticks)
    BY <1>8 DEF Exact, e
  <2> QED
    BY <2>1, <2>2, <2>3
<1> QED
  BY <1>9, <1>10 DEF t, n, short
=============================================================================
