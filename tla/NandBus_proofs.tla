---------------------------- MODULE NandBus_proofs ----------------------------
(***************************************************************************)
(* Proofs about the NAND driver on the bus, for every chip, request, set   *)
(* of marks and busy time: types, and, on the chips the driver works with, *)
(* that it never talks to a busy chip and that byte by byte it does what   *)
(* nand_load does with its calls in one step.                              *)
(***************************************************************************)
EXTENDS NandBus, SequenceTheorems, TLAPS

Loader == INSTANCE NandLoad_proofs WITH pc <- LoadPc

-----------------------------------------------------------------------------
(* Arithmetic and constants *)

(* Division with remainder of naturals. *)
LEMMA DivMod ==
    ASSUME NEW x \in Nat, NEW d \in Nat \ {0}
    PROVE  /\ x \div d \in Nat
           /\ x % d \in 0 .. d - 1
           /\ x = d * (x \div d) + (x % d)
  OBVIOUS

(* Quotient and remainder are unique. *)
LEMMA DivUnique ==
    ASSUME NEW q \in Nat, NEW d \in Nat \ {0}, NEW r \in 0 .. d - 1
    PROVE  (q * d + r) \div d = q /\ (q * d + r) % d = r
  OBVIOUS

(* Whole divisors do not change a remainder. *)
LEMMA ModSum ==
    ASSUME NEW m \in Nat, NEW d \in Nat \ {0}, NEW x \in Nat
    PROVE  (m * d + x) % d = x % d
  <1>1. PICK q \in Nat, r \in 0 .. d - 1 : q = x \div d /\ r = x % d
    BY DivMod
  <1>2. x = q * d + r
    BY <1>1, DivMod
  <1>3. m + q \in Nat /\ m * d + x = (m + q) * d + r
    BY <1>2
  <1>4. ((m + q) * d + r) % d = r
    BY <1>3, DivUnique
  <1> QED
    BY <1>1, <1>3, <1>4

(* A number out of its two last digits and what is above them. *)
LEMMA TwoDigits ==
    ASSUME NEW b \in Nat \ {0}, NEW s \in Nat, NEW d \in Nat, NEW c \in Nat
    PROVE  b * (b * s + d) + c = s * (b * b) + (d * b + c)
  <1>1. b * (b * s + d) = b * (b * s) + b * d
    <2> DEFINE x == b * s
    <2>1. x \in Nat
      OBVIOUS
    <2> HIDE DEF x
    <2>2. b * (x + d) = b * x + b * d
      BY <2>1
    <2> QED
      BY <2>2 DEF x
  <1>2. b * (b * s) = s * (b * b)
    OBVIOUS
  <1>3. b * d = d * b
    OBVIOUS
  <1>4. \A u, v, w \in Nat : (u + v) + w = u + (v + w)
    OBVIOUS
  <1>5. s * (b * b) \in Nat /\ d * b \in Nat
    OBVIOUS
  <1> QED
    BY <1>1, <1>2, <1>3, <1>4, <1>5

(* Dividing twice is dividing by the product. *)
LEMMA DivDiv ==
    ASSUME NEW p \in Nat, NEW b \in Nat \ {0}
    PROVE  p \div (b * b) = (p \div b) \div b
  <1>1. PICK q \in Nat, c \in 0 .. b - 1 : q = p \div b /\ p = b * q + c
    BY DivMod
  <1>2. PICK s \in Nat, d \in 0 .. b - 1 : s = q \div b /\ q = b * s + d
    BY DivMod
  <1>3. b * b \in Nat \ {0} /\ d * b + c \in 0 .. b * b - 1
    <2>1. d * b <= (b - 1) * b
      <3>1. d <= b - 1 /\ b - 1 - d \in Nat
        OBVIOUS
      <3>2. (b - 1 - d) * b \in Nat
        BY <3>1
      <3> QED
        BY <3>2
    <2>2. (b - 1) * b = b * b - b
      OBVIOUS
    <2>3. b * b \in Nat \ {0} /\ d * b \in Nat
      OBVIOUS
    <2> QED
      BY <2>1, <2>2, <2>3
  <1>4. p = s * (b * b) + (d * b + c)
    <2>1. d \in Nat /\ c \in Nat
      OBVIOUS
    <2>2. b * (b * s + d) + c = s * (b * b) + (d * b + c)
      BY <2>1, TwoDigits
    <2> QED
      BY <1>1, <1>2, <2>2, Zenon
  <1>5. p \div (b * b) = s
    BY <1>3, <1>4, DivUnique
  <1> QED
    BY <1>1, <1>2, <1>5

(* The bytes of a page address give it back, but for what is above them. *)
LEMMA Digits ==
    ASSUME NEW p \in Nat, NEW b \in Nat \ {0}
    PROVE  /\ p % b \in Nat /\ (p \div b) % b \in Nat /\ (p \div (b * b)) % b \in Nat
           /\ (p % b) + ((p \div b) % b) * b \in Nat
           /\ \E q \in Nat : p = q * (b * b) + ((p % b) + ((p \div b) % b) * b)
           /\ \E q \in Nat : p = q * (b * b * b)
                  + ((p % b) + ((p \div b) % b) * b + ((p \div (b * b)) % b) * b * b)
  <1>1. PICK q \in Nat, c \in 0 .. b - 1 : q = p \div b /\ c = p % b /\ p = b * q + c
    BY DivMod
  <1>2. PICK s \in Nat, d \in 0 .. b - 1 : s = q \div b /\ d = q % b /\ q = b * s + d
    BY DivMod
  <1>3. PICK t \in Nat, e \in 0 .. b - 1 : t = s \div b /\ e = s % b /\ s = b * t + e
    BY DivMod
  <1>4. p \div (b * b) = s
    BY <1>1, <1>2, DivDiv
  <1>5. d * b \in Nat /\ c + d * b \in Nat
    OBVIOUS
  <1>6. p = s * (b * b) + (c + d * b)
    <2>1. p = s * (b * b) + (d * b + c)
      <3>1. d \in Nat /\ c \in Nat
        OBVIOUS
      <3>2. b * (b * s + d) + c = s * (b * b) + (d * b + c)
        BY <3>1, TwoDigits
      <3> QED
        BY <1>1, <1>2, <3>2, Zenon
    <2>2. d * b + c = c + d * b
      BY <1>5
    <2> QED
      BY <2>1, <2>2
  <1>7. p = t * (b * b * b) + (c + d * b + e * b * b)
    <2> DEFINE bb == b * b
    <2>1. bb \in Nat \ {0} /\ b * b * b = b * bb /\ e * b * b = e * bb
      OBVIOUS
    <2>2. s * bb = (b * t + e) * bb
      BY <1>3
    <2> HIDE DEF bb
    <2>3. (b * t + e) * bb = t * (b * bb) + e * bb
      <3> DEFINE x == b * t
      <3>1. x \in Nat
        OBVIOUS
      <3>2. x * bb = t * (b * bb)
        BY <2>1
      <3> HIDE DEF x
      <3>3. (x + e) * bb = x * bb + e * bb
        BY <2>1, <3>1
      <3> QED
        BY <3>2, <3>3 DEF x
    <2>4. p = s * bb + (c + d * b)
      BY <1>6 DEF bb
    <2>5. t * (b * bb) \in Nat /\ e * bb \in Nat
      BY <2>1
    <2>6. \A u, v, w \in Nat : (u + v) + w = u + (w + v)
      OBVIOUS
    <2>7. p = t * (b * bb) + (c + d * b + e * bb)
      BY <1>5, <2>2, <2>3, <2>4, <2>5, <2>6
    <2> QED
      BY <2>1, <2>7
  <1>8. p % b = c /\ (p \div b) % b = d /\ (p \div (b * b)) % b = e
    BY <1>1, <1>2, <1>3, <1>4
  <1>9. \E q0 \in Nat : p = q0 * (b * b) + (c + d * b)
    BY <1>6
  <1>10. \E q0 \in Nat : p = q0 * (b * b * b) + (c + d * b + e * b * b)
    BY <1>7
  <1>11. c \in Nat /\ d \in Nat /\ e \in Nat
    OBVIOUS
  <1> QED
    BY <1>5, <1>8, <1>9, <1>10, <1>11, Zenon

(* The sizes, as numbers. *)
LEMMA Numbers ==
    /\ WriteSize \in Nat \ {0} /\ EraseSize \in Nat \ {0} /\ NBlocks \in Nat \ {0}
    /\ Word \in Nat \ {0} /\ PagesPerBlock \in Nat \ {0} /\ NPages \in Nat \ {0}
    /\ EraseSize = PagesPerBlock * WriteSize
    /\ Byte \in Nat \ {0} /\ ColByte \in Nat \ {0}
    /\ Retries \in Nat /\ MaxBusy \in Nat /\ Looks \in Nat \ {0}
    /\ ColCycles \in {1, 2} /\ RowCycles \in {2, 3}
    /\ MarkColumn \in Nat
  <1>1. /\ {WriteSize, EraseSize, NBlocks, Word, PagesPerBlock} \subseteq Nat \ {0}
        /\ EraseSize = PagesPerBlock * WriteSize
    BY ChipAssumption
  <1>2. NPages \in Nat \ {0}
    BY <1>1 DEF NPages
  <1>3. /\ Byte \in Nat \ {0} /\ ColByte \in Nat \ {0}
        /\ Retries \in Nat /\ MaxBusy \in Nat /\ Looks \in Nat \ {0}
    BY BusAssumption DEF Looks
  <1>4. ColCycles \in {1, 2} /\ RowCycles \in {2, 3}
    BY DEF ColCycles, RowCycles
  <1>5. MarkColumn \in Nat
    BY DEF MarkColumn, BadBlockPos
  <1> QED
    BY <1>1, <1>2, <1>3, <1>4, <1>5

-----------------------------------------------------------------------------
(* Types *)

(* What the driver writes to the ports. *)
Commands == {"RESET", "READID", "READOOB", "READ0"}
PortWrites == [port : {"cle"}, val : Commands] \cup [port : {"ale"}, val : Nat]

(* The command functions write commands and bytes. *)
LEMMA CommandTypes ==
    ASSUME NEW cmd \in Commands, NEW col \in Nat \cup {None}, NEW p \in Nat \cup {None}
    PROVE  /\ nand_command(cmd, col, p) \in Seq(PortWrites)
           /\ nand_command_lp(cmd, col, p) \in Seq(PortWrites)
  <1>1. \A c \in Commands : <<CLE(c)>> \in Seq(PortWrites)
    BY DEF CLE, PortWrites
  <1>2. \A v \in Nat : <<ALE(v)>> \in Seq(PortWrites) /\ ALE(v) \in PortWrites
    BY DEF ALE, PortWrites
  <1>3. ASSUME NEW q \in Nat
        PROVE  PageCycles(q) \in Seq(PortWrites)
    <2>1. q % Byte \in Nat /\ (q \div Byte) % Byte \in Nat
          /\ (q \div (Byte * Byte)) % Byte \in Nat
      <3>1. Byte * Byte \in Nat \ {0}
        BY Numbers
      <3> QED
        BY <3>1, Numbers, DivMod
    <2>2. <<LowCycle(q), MidCycle(q)>> \in Seq(PortWrites)
          /\ <<HighCycle(q)>> \in Seq(PortWrites)
      BY <1>2, <2>1 DEF LowCycle, MidCycle, HighCycle
    <2> QED
      BY <2>2, ConcatProperties, EmptySeq DEF PageCycles
  <1>4. \A v \in Nat : v % ColByte \in Nat /\ v \div ColByte \in Nat
    BY Numbers, DivMod
  <1>5. (IF col # None THEN <<ALE(col % ColByte)>> ELSE <<>>) \in Seq(PortWrites)
    BY <1>2, <1>4 DEF None
  <1>6. (IF p # None THEN PageCycles(p) ELSE <<>>) \in Seq(PortWrites)
    BY <1>3 DEF None
  <1>7. nand_command(cmd, col, p) \in Seq(PortWrites)
    <2>1. <<CLE(cmd)>> \in Seq(PortWrites)
      BY <1>1
    <2> QED
      BY <2>1, <1>5, <1>6, ConcatProperties DEF nand_command
  <1>8. nand_command_lp(cmd, col, p) \in Seq(PortWrites)
    <2> DEFINE c  == IF cmd = "READOOB" THEN col + WriteSize ELSE col
               cm == IF cmd = "READOOB" THEN "READ0" ELSE cmd
               first == <<CLE(cm)>>
               column == IF col # None THEN <<ALE(c % ColByte),
                                   ALE((c \div ColByte) % ColByte)>> ELSE <<>>
               row == IF p # None THEN PageCycles(p) ELSE <<>>
               start == IF cm = "READ0" THEN <<ALE(READSTART)>> ELSE <<>>
    <2>1. first \in Seq(PortWrites)
      BY <1>1 DEF Commands
    <2>2. column \in Seq(PortWrites)
      <3>1. CASE col \in Nat
        <4>1. c \in Nat
          BY <3>1, Numbers
        <4>2. c % ColByte \in Nat /\ (c \div ColByte) % ColByte \in Nat
          BY <1>4, <4>1
        <4> QED
          BY <1>2, <4>2
      <3> QED
        BY <3>1 DEF None
    <2>3. row \in Seq(PortWrites)
      BY <1>6
    <2>4. start \in Seq(PortWrites)
      BY <1>2 DEF READSTART
    <2>5. nand_command_lp(cmd, col, p) = ((first \o column) \o row) \o start
      BY DEF nand_command_lp
    <2> HIDE DEF first, column, row, start
    <2> QED
      BY <2>1, <2>2, <2>3, <2>4, <2>5, ConcatProperties
  <1> QED
    BY <1>7, <1>8

(* What TypeOK needs to be kept: the numbers behind a page address, and    *)
(* the bytes written and latched.                                          *)
TypeInv ==
    /\ TypeOK
    /\ req \in [ofs : 0 .. Word - 1, size : 0 .. Word - 1]
    /\ block \in 0 .. Word - 1 /\ lastblock \in 0 .. Word - 1 /\ ofs \in 0 .. Word - 1
    /\ out \in Seq(PortWrites)
    /\ addr \in Seq(Nat)
    /\ pc = "read" => page < PagesPerBlock

(* The bytes addresses select are bytes of the chip. *)
LEMMA SelectedType ==
    ASSUME NEW a \in Seq(Nat), Len(a) >= ColCycles + RowCycles
    PROVE  Selected(a) \in [area : {"none", "id", "main", "oob"},
                            page : 0 .. NPages - 1, col : Nat]
  <1>1. \A i \in 1 .. ColCycles + RowCycles : a[i] \in Nat
    BY Numbers
  <1>2. RowOf(a) \in 0 .. NPages - 1
    <2> DEFINE high == IF RowCycles = 3 THEN a[ColCycles + 3] * Byte * Byte ELSE 0
               row == a[ColCycles + 1] + a[ColCycles + 2] * Byte + high
    <2>1. high \in Nat
      BY <1>1, Numbers
    <2>2. a[ColCycles + 1] \in Nat /\ a[ColCycles + 2] * Byte \in Nat
      BY <1>1, Numbers
    <2>3. row \in Nat
      <3>1. \A x, y, z \in Nat : x + y + z \in Nat
        OBVIOUS
      <3> HIDE DEF high
      <3> QED
        BY <2>1, <2>2, <3>1, Zenon
    <2>4. RowOf(a) = row % NPages
      BY DEF RowOf
    <2> HIDE DEF row
    <2>5. row % NPages \in 0 .. NPages - 1
      BY <2>3, Numbers, DivMod
    <2> QED
      BY <2>4, <2>5
  <1>3. ColOf(a) \in Nat
    <2>1. a[1] \in Nat /\ (LargePage => a[2] \in Nat)
      BY <1>1, Numbers DEF ColCycles
    <2>2. LargePage => a[2] * ColByte \in Nat
      BY <2>1, Numbers
    <2> QED
      BY <2>1, <2>2 DEF ColOf
  <1>4. ColOf(a) >= WriteSize => ColOf(a) - WriteSize \in Nat
    BY <1>3, Numbers
  <1> QED
    BY <1>2, <1>3, <1>4 DEF Selected

(* nand_load on the bus starts as it does with its calls in one step. *)
LEMMA InitLoads == Init => Loader!Init /\ Loader!TypeOK
  <1> SUFFICES ASSUME Init PROVE Loader!Init /\ Loader!TypeOK
    OBVIOUS
  <1>1. LoadPc = "test"
    BY DEF Init, LoadPc
  <1>2. Loader!Init
    BY <1>1 DEF Init, Loader!Init, Loader!LoadArgs
  <1>3. Loader!Init => Loader!TypeOK
    BY Loader!InitTypes, ChipAssumption
       DEF NPages, PagesPerBlock, Loader!NPages, Loader!PagesPerBlock
  <1> QED
    BY <1>2, <1>3

(* The locals nand_load starts with are in range, and the chip is quiet. *)
LEMMA InitTypes == Init => TypeInv
  <1> SUFFICES ASSUME Init PROVE TypeInv
    OBVIOUS
  <1>1. /\ req \in [ofs : 0 .. Word - 1, size : 0 .. Word - 1]
        /\ block \in 0 .. Word - 1 /\ lastblock \in 0 .. Word - 1 /\ ofs \in 0 .. Word - 1
        /\ page \in 0 .. PagesPerBlock
    BY InitLoads DEF Loader!TypeOK, Loader!PagesPerBlock, PagesPerBlock
  <1>2. reg \in [area : {"none", "id", "main", "oob"}, page : 0 .. NPages - 1, col : Nat]
    BY Numbers DEF Init, Nothing
  <1>3. cmdfunc \in {"null", "nand_command"}
    BY BusAssumption DEF Init
  <1>4. image \in Seq(0 .. NPages - 1 \cup {Junk}) /\ out \in Seq(PortWrites) /\ addr \in Seq(Nat)
    BY DEF Init
  <1> QED
    BY <1>1, <1>2, <1>3, <1>4, Numbers DEF Init, TypeInv, TypeOK

(* What the chip may fetch. *)
Sources == [area : {"none", "id", "main", "oob"}, page : 0 .. NPages - 1, col : Nat]

(* The chip keeps its types when it takes a byte. *)
LEMMA TakeTypes ==
    ASSUME TypeInv
    PROVE  /\ \A c \in Commands : TakeCommand(c) =>
                  addr' \in Seq(Nat) /\ busy' \in 0 .. MaxBusy /\ reg' \in Sources
           /\ \A b \in Nat : TakeAddress(b) =>
                  addr' \in Seq(Nat) /\ busy' \in 0 .. MaxBusy /\ reg' \in Sources
  <1>1. addr \in Seq(Nat) /\ busy \in 0 .. MaxBusy /\ reg \in Sources
    BY DEF TypeInv, TypeOK, Sources
  <1>2. Nothing \in Sources
    BY Numbers DEF Nothing, Sources
  <1>id. [Nothing EXCEPT !.area = "id"] \in Sources
    BY Numbers DEF Nothing, Sources
  <1>3. ASSUME NEW c \in Commands, TakeCommand(c)
        PROVE  addr' \in Seq(Nat) /\ busy' \in 0 .. MaxBusy /\ reg' \in Sources
    <2>1. c # "READSTART"
      BY DEF Commands
    <2>2. CASE busy > 0 /\ c # "RESET"
      BY <1>1, <1>3, <2>2 DEF TakeCommand, chip
    <2>3. CASE ~(busy > 0 /\ c # "RESET") /\ c = "RESET"
      <3>1. addr' = <<>> /\ Fetch(Nothing)
        BY <1>3, <2>3 DEF TakeCommand
      <3>2. addr' \in Seq(Nat)
        BY <3>1, EmptySeq
      <3>3. busy' \in 0 .. MaxBusy /\ reg' = Nothing
        BY <3>1 DEF Fetch
      <3> QED
        BY <1>2, <3>2, <3>3
    <2>4. CASE ~(busy > 0 /\ c # "RESET") /\ c # "RESET"
      <3>1. addr' = <<>> /\ UNCHANGED <<busy, reg>>
        BY <1>3, <2>1, <2>4 DEF TakeCommand
      <3> QED
        BY <1>1, <3>1, EmptySeq
    <2> QED
      BY <2>2, <2>3, <2>4
  <1>4. ASSUME NEW b \in Nat, TakeAddress(b)
        PROVE  addr' \in Seq(Nat) /\ busy' \in 0 .. MaxBusy /\ reg' \in Sources
    <2> DEFINE a == Append(addr, b)
    <2>1. a \in Seq(Nat)
      BY <1>1
    <2>2. Len(a) = ColCycles + RowCycles => Selected(a) \in Sources
      <3>1. ColCycles + RowCycles \in Nat
        BY Numbers
      <3> HIDE DEF a
      <3> QED
        BY <2>1, <3>1, SelectedType DEF Sources
    <2> HIDE DEF a
    <2>3. CASE busy > 0
      BY <1>1, <1>4, <2>3 DEF TakeAddress, chip
    <2>4. CASE ~(busy > 0)
      BY <1>1, <1>id, <1>4, <2>1, <2>2, <2>4 DEF TakeAddress, Fetch, a
    <2> QED
      BY <2>3, <2>4
  <1> QED
    BY <1>3, <1>4

(* A call keeps the types. *)
LEMMA CallTypes ==
    ASSUME TypeInv, NEW cmd \in Commands,
           NEW col \in Nat \cup {None}, NEW p \in Nat \cup {None}, NEW next,
           Call(cmd, col, p, next)
    PROVE  /\ pc' \in {"wild", next}
           /\ out' \in Seq(PortWrites)
           /\ polls' \in 0 .. Looks
  <1>1. CASE cmdfunc = "null"
    BY <1>1 DEF Call, TypeInv, TypeOK
  <1>2. CASE cmdfunc # "null"
    <2>1. Looks \in 0 .. Looks
      BY Numbers
    <2> QED
      BY <1>2, <2>1, CommandTypes DEF Call
  <1> QED
    BY <1>1, <1>2

(* Every step keeps the types. *)
LEMMA NextTypes == TypeInv /\ [Next]_vars => TypeInv'
  <1> SUFFICES ASSUME TypeInv, [Next]_vars PROVE TypeInv'
    OBVIOUS
  <1>0. /\ TypeInv
        /\ req \in [ofs : 0 .. Word - 1, size : 0 .. Word - 1]
        /\ block \in 0 .. Word - 1 /\ lastblock \in 0 .. Word - 1 /\ ofs \in 0 .. Word - 1
        /\ out \in Seq(PortWrites) /\ addr \in Seq(Nat)
        /\ pc \in {"init", "reset", "readid", "test", "isbad", "pages", "read", "done", "wild"}
        /\ page \in 0 .. PagesPerBlock
        /\ image \in Seq(0 .. NPages - 1 \cup {Junk})
        /\ cmdfunc \in {"null", "nand_command", "nand_command_lp"}
        /\ polls \in 0 .. Looks /\ busy \in 0 .. MaxBusy /\ reg \in Sources
        /\ (pc = "read" => page < PagesPerBlock)
    BY DEF TypeInv, TypeOK, Sources
  <1> DEFINE Locals == /\ block' \in 0 .. Word - 1 /\ lastblock' \in 0 .. Word - 1
                       /\ ofs' \in 0 .. Word - 1 /\ page' \in 0 .. PagesPerBlock
                       /\ image' \in Seq(0 .. NPages - 1 \cup {Junk})
             Bus == /\ out' \in Seq(PortWrites) /\ addr' \in Seq(Nat)
                    /\ polls' \in 0 .. Looks /\ busy' \in 0 .. MaxBusy /\ reg' \in Sources
             Control == /\ pc' \in {"init", "reset", "readid", "test", "isbad", "pages",
                                    "read", "done", "wild"}
                        /\ cmdfunc' \in {"null", "nand_command", "nand_command_lp"}
             Reading == pc' = "read" => page' < PagesPerBlock
  <1> SUFFICES req' = req /\ Locals /\ Bus /\ Control /\ Reading
    BY <1>0 DEF TypeInv, TypeOK, Sources
  <1>1. CASE WritePort
    <2>1. Head(out) \in PortWrites /\ Tail(out) \in Seq(PortWrites)
      BY <1>0, <1>1 DEF WritePort
    <2>2. addr' \in Seq(Nat) /\ busy' \in 0 .. MaxBusy /\ reg' \in Sources
      <3>1. CASE Head(out).port = "cle"
        <4>1. Head(out).val \in Commands
          BY <2>1, <3>1 DEF PortWrites
        <4> QED
          BY <1>0, <1>1, <3>1, <4>1, TakeTypes DEF WritePort
      <3>2. CASE Head(out).port # "cle"
        <4>1. Head(out).val \in Nat
          BY <2>1, <3>2 DEF PortWrites
        <4> QED
          BY <1>0, <1>1, <3>2, <4>1, TakeTypes DEF WritePort
      <3> QED
        BY <3>1, <3>2
    <2> QED
      BY <1>0, <1>1, <2>1, <2>2 DEF WritePort, args, locals
  <1>2. CASE PollReady
    BY <1>0, <1>2, Numbers DEF PollReady, args, locals
  <1>3. CASE ResetChip
    <2>1. pc' \in {"wild", "reset"} /\ out' \in Seq(PortWrites) /\ polls' \in 0 .. Looks
      BY <1>0, <1>3, CallTypes DEF ResetChip, Commands
    <2> QED
      BY <1>0, <1>3, <2>1 DEF ResetChip, args, locals, chip
  <1>4. CASE ReadId
    <2>1. pc' \in {"wild", "readid"} /\ out' \in Seq(PortWrites) /\ polls' \in 0 .. Looks
      BY <1>0, <1>4, CallTypes DEF ReadId, Commands
    <2> QED
      BY <1>0, <1>4, <2>1 DEF ReadId, args, locals, chip
  <1>5. CASE Identify
    BY <1>0, <1>5 DEF Identify, args, locals, chip
  <1>6. CASE TestBlock
    <2>1. ofs \div WriteSize \in Nat
      <3>1. ofs \in Nat /\ WriteSize \in Nat \ {0}
        BY <1>0, Numbers
      <3> QED
        BY <3>1, DivMod
    <2>2. pc' \in {"wild", "isbad"} /\ out' \in Seq(PortWrites) /\ polls' \in 0 .. Looks
      BY <1>0, <1>6, <2>1, Numbers, CallTypes DEF TestBlock, Commands
    <2> QED
      BY <1>0, <1>6, <2>2 DEF TestBlock, args, locals, chip
  <1>7. NextBlock => block' \in 0 .. Word - 1 /\ ofs' \in 0 .. Word - 1
    <2>n. block \in Nat /\ ofs \in Nat /\ EraseSize \in Nat
      BY <1>0, Numbers
    <2>1. block + 1 \in Nat /\ ofs + EraseSize \in Nat
      BY <2>n
    <2>m. \A x \in Nat : x % Word \in 0 .. Word - 1
      BY Numbers, DivMod
    <2>2. (block + 1) % Word \in 0 .. Word - 1
      BY <2>1, <2>m, Zenon
    <2>3. (ofs + EraseSize) % Word \in 0 .. Word - 1
      BY <2>1, <2>m, Zenon
    <2> QED
      BY <2>2, <2>3 DEF NextBlock
  <1>8. CASE SkipBlock
    <2>1. (lastblock + 1) % Word \in 0 .. Word - 1
      BY <1>0, Numbers, DivMod
    <2> QED
      BY <1>0, <1>7, <1>8, <2>1 DEF SkipBlock, args, chip
  <1>9. CASE EnterBlock
    BY <1>0, <1>9 DEF EnterBlock, args, locals, chip
  <1>10. CASE FetchPage
    <2>1. page + block * PagesPerBlock \in Nat
      <3>1. block \in Nat /\ page \in Nat /\ PagesPerBlock \in Nat
        BY <1>0, Numbers
      <3> QED
        BY <3>1
    <2>2. pc' \in {"wild", "read"} /\ out' \in Seq(PortWrites) /\ polls' \in 0 .. Looks
      BY <1>0, <1>10, <2>1, Numbers, CallTypes DEF FetchPage, Commands
    <2>3. page < PagesPerBlock
      BY <1>10 DEF FetchPage
    <2> QED
      BY <1>0, <1>10, <2>2, <2>3 DEF FetchPage, args, locals, chip
  <1>11. CASE StorePage
    <2>1. page + 1 \in 0 .. PagesPerBlock
      BY <1>0, <1>11, Numbers DEF StorePage
    <2>2. (IF busy = 0 /\ reg.area = "main" /\ reg.col = 0 THEN reg.page ELSE Junk)
              \in 0 .. NPages - 1 \cup {Junk}
      BY <1>0 DEF Sources
    <2>3. image' \in Seq(0 .. NPages - 1 \cup {Junk})
      BY <1>0, <1>11, <2>2, AppendProperties DEF StorePage
    <2> QED
      BY <1>0, <1>11, <2>1, <2>3 DEF StorePage, args, chip
  <1>12. CASE LeaveBlock
    BY <1>0, <1>7, <1>12, Numbers DEF LeaveBlock, args, chip
  <1>13. CASE Return
    BY <1>0, <1>13 DEF Return, args, locals, chip
  <1>14. CASE UNCHANGED vars
    BY <1>0, <1>14 DEF vars, args, locals, chip
  <1> QED
    BY <1>1, <1>2, <1>3, <1>4, <1>5, <1>6, <1>8, <1>9, <1>10, <1>11, <1>12, <1>13, <1>14
       DEF Next, Driver

(* Whatever the chip, its table entry and its busy times, the driver's     *)
(* locals, the bytes it writes and what it reads stay in range.            *)
THEOREM BusTypeCorrect == Spec => []TypeOK
  <1>1. TypeInv => TypeOK
    BY DEF TypeInv
  <1> QED
    BY <1>1, InitTypes, NextTypes, PTL DEF Spec

-----------------------------------------------------------------------------
(* The driver never talks to a busy chip *)

(* The address cycles after which a small-page chip fetches. *)
Cycles == ColCycles + RowCycles

(* A command that still has all its bytes to come: it goes out first, only *)
(* addresses follow, and to a small-page chip exactly as many of them as   *)
(* it waits for.                                                           *)
WholeCommand(o) ==
    /\ Len(o) > 0 /\ o[1].port = "cle"
    /\ \A i \in 2 .. Len(o) : o[i].port = "ale"
    /\ o[1].val = "RESET" => Len(o) = 1
    /\ o[1].val \in {"READ0", "READOOB"} /\ ~LargePage => Len(o) = Cycles + 1

(* A command with only addresses to come: the one that makes a small-page  *)
(* chip fetch is the last.                                                 *)
RestOfCommand ==
    /\ \A i \in 1 .. Len(out) : out[i].port = "ale"
    /\ latch \in {"READ0", "READOOB"} /\ ~LargePage => Len(addr) + Len(out) = Cycles

(* While there are bytes to write the chip is ready, and afterwards it is  *)
(* busy for no longer than the driver will look.                           *)
BusyInv ==
    /\ out # <<>> => busy = 0 /\ polls = Looks /\ (WholeCommand(out) \/ RestOfCommand)
    /\ busy <= polls
    /\ pc \in {"init", "test", "pages"} => out = <<>> /\ polls = 0
    /\ cmdfunc = "nand_command_lp" => LargePage

(* What goes with a call: no address without a page to fetch. *)
Asks(cmd, col, p) ==
    /\ cmd \in Commands /\ col \in Nat \cup {None} /\ p \in Nat \cup {None}
    /\ cmd = "RESET" => col = None /\ p = None
    /\ cmd \in {"READ0", "READOOB"} => col # None /\ p # None

(* The row cycles, one by one. *)
LEMMA RowShape ==
    ASSUME NEW p \in Nat
    PROVE  /\ PageCycles(p) \in Seq(PortWrites)
           /\ \A i \in 1 .. Len(PageCycles(p)) : PageCycles(p)[i].port = "ale"
           /\ CyclesAgree => Len(PageCycles(p)) = RowCycles
  <1>1. p % Byte \in Nat /\ (p \div Byte) % Byte \in Nat
        /\ (p \div (Byte * Byte)) % Byte \in Nat
    <2>1. Byte * Byte \in Nat \ {0}
      BY Numbers
    <2> QED
      BY <2>1, Numbers, DivMod
  <1> DEFINE high == NBlocks * EraseSize > SizeLimit
  <1>2. \A v \in Nat : ALE(v) \in PortWrites /\ ALE(v).port = "ale"
    BY DEF ALE, PortWrites
  <1>3. /\ LowCycle(p) \in PortWrites /\ LowCycle(p).port = "ale"
        /\ MidCycle(p) \in PortWrites /\ MidCycle(p).port = "ale"
        /\ HighCycle(p) \in PortWrites /\ HighCycle(p).port = "ale"
    BY <1>1, <1>2 DEF LowCycle, MidCycle, HighCycle
  <1>4. CASE high
    <2> DEFINE two == <<LowCycle(p), MidCycle(p)>>
               one == <<HighCycle(p)>>
    <2>1. PageCycles(p) = two \o one
      BY <1>4 DEF PageCycles
    <2>2. CyclesAgree => RowCycles = 3
      BY <1>4 DEF CyclesAgree
    <2>3. two \in Seq(PortWrites) /\ Len(two) = 2 /\ \A i \in 1 .. 2 : two[i].port = "ale"
      BY <1>3
    <2>4. one \in Seq(PortWrites) /\ Len(one) = 1 /\ one[1].port = "ale"
      BY <1>3
    <2> HIDE DEF two, one
    <2>5. /\ two \o one \in Seq(PortWrites) /\ Len(two \o one) = 3
          /\ \A i \in 1 .. 3 : (two \o one)[i].port = "ale"
      BY <2>3, <2>4, ConcatProperties
    <2> QED
      BY <2>1, <2>2, <2>5
  <1>5. CASE ~high
    <2>1. PageCycles(p) = <<LowCycle(p), MidCycle(p)>>
      BY <1>5 DEF PageCycles
    <2>2. CyclesAgree => RowCycles = 2
      BY <1>5, Numbers DEF CyclesAgree
    <2> QED
      BY <1>3, <2>1, <2>2
  <1> QED
    BY <1>4, <1>5

(* A command, some addresses and no more: what both command functions      *)
(* write.                                                                  *)
LEMMA Whole ==
    ASSUME NEW c \in Commands, NEW a \in Seq(PortWrites),
           \A i \in 1 .. Len(a) : a[i].port = "ale",
           c = "RESET" => a = <<>>,
           c \in {"READ0", "READOOB"} /\ ~LargePage => Len(a) = Cycles
    PROVE  WholeCommand(<<CLE(c)>> \o a)
  <1> DEFINE o == <<CLE(c)>> \o a
  <1>1. CLE(c).port = "cle" /\ CLE(c).val = c
    BY DEF CLE
  <1>2. Len(o) = 1 + Len(a) /\ o[1] = CLE(c) /\ \A i \in 2 .. Len(o) : o[i] = a[i - 1]
    OBVIOUS
  <1>3. Cycles \in Nat
    BY Numbers DEF Cycles
  <1> HIDE DEF o
  <1>4. WholeCommand(o)
    BY <1>1, <1>2, <1>3 DEF WholeCommand
  <1> QED
    BY <1>4 DEF o

(* Both command functions write whole commands. *)
LEMMA CallsAreWhole ==
    ASSUME LargePage \/ CyclesAgree,
           NEW cmd, NEW col, NEW p, Asks(cmd, col, p)
    PROVE  /\ WholeCommand(nand_command(cmd, col, p))
           /\ LargePage => WholeCommand(nand_command_lp(cmd, col, p))
  <1>0. cmd \in Commands /\ col \in Nat \cup {None} /\ p \in Nat \cup {None}
    BY DEF Asks
  <1> DEFINE row == IF p # None THEN PageCycles(p) ELSE <<>>
             Addresses(s) == s \in Seq(PortWrites) /\ \A i \in 1 .. Len(s) : s[i].port = "ale"
  <1>1. Addresses(row) /\ (p = None => row = <<>>)
        /\ (p # None /\ ~LargePage => Len(row) = RowCycles)
    <2>1. CASE p = None
      BY <2>1
    <2>2. CASE p # None
      BY <1>0, <2>2, RowShape DEF None
    <2> QED
      BY <2>1, <2>2
  <1>2. \A v \in Nat : Addresses(<<ALE(v)>>) /\ \A w \in Nat : Addresses(<<ALE(v), ALE(w)>>)
    BY DEF ALE, PortWrites
  <1>3. \A s, t : Addresses(s) /\ Addresses(t) =>
           Addresses(s \o t) /\ Len(s \o t) = Len(s) + Len(t)
    <2> SUFFICES ASSUME NEW s, NEW t, Addresses(s), Addresses(t)
                 PROVE  Addresses(s \o t) /\ Len(s \o t) = Len(s) + Len(t)
      OBVIOUS
    <2>1. s \in Seq(PortWrites) /\ t \in Seq(PortWrites)
      OBVIOUS
    <2>2. s \o t \in Seq(PortWrites) /\ Len(s \o t) = Len(s) + Len(t)
          /\ \A i \in 1 .. Len(s \o t) :
                (s \o t)[i] = IF i <= Len(s) THEN s[i] ELSE t[i - Len(s)]
      BY <2>1, ConcatProperties
    <2>3. ASSUME NEW i \in 1 .. Len(s \o t) PROVE (s \o t)[i].port = "ale"
      <3>1. CASE i <= Len(s)
        <4>1. i \in 1 .. Len(s)
          BY <2>1, <2>2, <3>1
        <4> QED
          BY <2>2, <3>1, <4>1
      <3>2. CASE ~(i <= Len(s))
        <4>1. i - Len(s) \in 1 .. Len(t)
          BY <2>1, <2>2, <3>2
        <4> QED
          BY <2>2, <3>2, <4>1
      <3> QED
        BY <3>1, <3>2
    <2> QED
      BY <2>2, <2>3
  <1>4. \A v \in Nat : v % ColByte \in Nat /\ v \div ColByte \in Nat
    BY Numbers, DivMod
  <1>5. WholeCommand(nand_command(cmd, col, p))
    <2> DEFINE column == IF col # None THEN <<ALE(col % ColByte)>> ELSE <<>>
    <2>1. Addresses(column) /\ (col = None => column = <<>>) /\ (col # None => Len(column) = 1)
      <3>1. CASE col = None
        BY <3>1
      <3>2. CASE col # None
        <4>1. column = <<ALE(col % ColByte)>> /\ col % ColByte \in Nat
          BY <1>0, <1>4, <3>2
        <4> HIDE DEF column
        <4> QED
          BY <1>2, <3>2, <4>1
      <3> QED
        BY <3>1, <3>2
    <2> HIDE DEF column, row
    <2>2. Addresses(column \o row) /\ Len(column \o row) = Len(column) + Len(row)
      BY <1>1, <1>3, <2>1
    <2>3. cmd = "RESET" => column \o row = <<>>
      BY <1>1, <2>1 DEF Asks
    <2>4. cmd \in {"READ0", "READOOB"} /\ ~LargePage => Len(column \o row) = Cycles
      BY <1>1, <2>1, <2>2, Numbers DEF Asks, Cycles, ColCycles
    <2>5. WholeCommand(<<CLE(cmd)>> \o (column \o row))
      BY <1>0, <2>2, <2>3, <2>4, Whole
    <2>6. nand_command(cmd, col, p) = <<CLE(cmd)>> \o column \o row
      BY DEF nand_command, column, row
    <2>7. <<CLE(cmd)>> \in Seq(PortWrites) /\ column \in Seq(PortWrites)
          /\ row \in Seq(PortWrites)
      BY <1>0, <1>1, <2>1 DEF CLE, PortWrites
    <2>8. <<CLE(cmd)>> \o column \o row = <<CLE(cmd)>> \o (column \o row)
      BY <2>7, ConcatAssociative
    <2> QED
      BY <2>5, <2>6, <2>8, Zenon
  <1>6. ASSUME LargePage
        PROVE  WholeCommand(nand_command_lp(cmd, col, p))
    <2> DEFINE c  == IF cmd = "READOOB" THEN col + WriteSize ELSE col
               cm == IF cmd = "READOOB" THEN "READ0" ELSE cmd
               column == IF col # None THEN <<ALE(c % ColByte),
                                   ALE((c \div ColByte) % ColByte)>> ELSE <<>>
               start == IF cm = "READ0" THEN <<ALE(READSTART)>> ELSE <<>>
    <2>1. Addresses(column) /\ (col = None => column = <<>>)
      <3>1. CASE col = None
        BY <3>1
      <3>2. CASE col # None
        <4>1. c \in Nat
          BY <1>0, <3>2, Numbers
        <4>2. c % ColByte \in Nat /\ (c \div ColByte) % ColByte \in Nat
          BY <1>4, <4>1
        <4>3. column = <<ALE(c % ColByte), ALE((c \div ColByte) % ColByte)>>
          BY <3>2
        <4> HIDE DEF c, column
        <4> QED
          BY <1>2, <3>2, <4>2, <4>3
      <3> QED
        BY <3>1, <3>2
    <2>2. Addresses(start) /\ (cm # "READ0" => start = <<>>)
      BY <1>2 DEF READSTART
    <2>3. cm \in Commands /\ (cm = "RESET" => cmd = "RESET")
      BY <1>0 DEF Commands
    <2>4. nand_command_lp(cmd, col, p) = <<CLE(cm)>> \o column \o row \o start
      BY DEF nand_command_lp
    <2> HIDE DEF c, cm, column, row, start
    <2>5. Addresses(column \o row)
      BY <1>1, <1>3, <2>1
    <2>6. Addresses((column \o row) \o start)
      BY <1>3, <2>2, <2>5
    <2>7. cm = "RESET" => (column \o row) \o start = <<>>
      BY <1>1, <2>1, <2>2, <2>3 DEF Asks
    <2>8. WholeCommand(<<CLE(cm)>> \o ((column \o row) \o start))
      BY <1>6, <2>3, <2>6, <2>7, Whole
    <2>9. <<CLE(cm)>> \in Seq(PortWrites)
      BY <2>3 DEF CLE, PortWrites
    <2>10. column \in Seq(PortWrites) /\ row \in Seq(PortWrites) /\ start \in Seq(PortWrites)
      BY <1>1, <2>1, <2>2
    <2>11. <<CLE(cm)>> \o column \o row = <<CLE(cm)>> \o (column \o row)
      BY <2>9, <2>10, ConcatAssociative
    <2>12. (<<CLE(cm)>> \o (column \o row)) \o start = <<CLE(cm)>> \o ((column \o row) \o start)
      BY <2>5, <2>9, <2>10, ConcatAssociative
    <2> QED
      BY <2>4, <2>8, <2>11, <2>12, Zenon
  <1> QED
    BY <1>5, <1>6

(* Initially nothing is on its way. *)
LEMMA InitBusy == Init => BusyInv
  <1> SUFFICES ASSUME Init PROVE BusyInv
    OBVIOUS
  <1>1. cmdfunc # "nand_command_lp"
    BY BusAssumption DEF Init
  <1> QED
    BY <1>1 DEF Init, BusyInv

(* A byte written to a port. *)
LEMMA WritePortBusy ==
    ASSUME WaitedFor, LargePage \/ CyclesAgree, TypeInv, BusyInv, WritePort
    PROVE  BusyInv'
  <1>0. /\ out \in Seq(PortWrites) /\ addr \in Seq(Nat) /\ busy = 0 /\ polls = Looks
        /\ MaxBusy \in Nat /\ Looks \in Nat /\ MaxBusy <= Looks /\ out # <<>>
        /\ WholeCommand(out) \/ RestOfCommand
    BY Numbers DEF TypeInv, BusyInv, WritePort, WaitedFor
  <1>1. /\ out' = Tail(out) /\ out' \in Seq(PortWrites) /\ Len(out') = Len(out) - 1
        /\ Len(out) \in Nat /\ Len(out) > 0 /\ Head(out) = out[1] /\ out[1] \in PortWrites
        /\ \A i \in 1 .. Len(out') : out'[i] = out[i + 1]
        /\ polls' = Looks /\ pc' = pc /\ cmdfunc' = cmdfunc
    BY <1>0 DEF WritePort
  <1>2. Cycles \in Nat
    BY Numbers DEF Cycles
  <1>3. pc \notin {"init", "test", "pages"} /\ (cmdfunc' = "nand_command_lp" => LargePage)
    BY <1>0, <1>1, Numbers DEF BusyInv
  <1>4. SUFFICES /\ out' # <<>> => busy' = 0 /\ RestOfCommand'
                 /\ busy' \in 0 .. MaxBusy
    BY <1>0, <1>1, <1>3, <1>4 DEF BusyInv
  <1>5. CASE out[1].port = "cle"
    <2>1. WholeCommand(out)
      BY <1>0, <1>1, <1>5 DEF RestOfCommand
    <2>2. \A i \in 1 .. Len(out') : out'[i].port = "ale"
      BY <1>1, <2>1 DEF WholeCommand
    <2>3. out[1].val \in Commands
      BY <1>1, <1>5 DEF PortWrites
    <2>4. TakeCommand(out[1].val)
      BY <1>1, <1>5 DEF WritePort
    <2>5. addr' = <<>> /\ latch' = out[1].val
      BY <1>0, <2>4 DEF TakeCommand
    <2>6. CASE out[1].val = "RESET"
      <3>1. Len(out') = 0
        BY <1>1, <2>1, <2>6 DEF WholeCommand
      <3>2. Fetch(Nothing)
        BY <1>0, <2>4, <2>6 DEF TakeCommand
      <3> QED
        BY <1>1, <3>1, <3>2 DEF Fetch
    <2>7. CASE out[1].val # "RESET"
      <3>1. busy' = 0
        BY <1>0, <2>3, <2>4, <2>7 DEF TakeCommand, Commands
      <3>2. latch' \in {"READ0", "READOOB"} /\ ~LargePage => Len(addr') + Len(out') = Cycles
        <4>1. Len(addr') = 0
          BY <2>5
        <4>2. out[1].val \in {"READ0", "READOOB"} /\ ~LargePage => Len(out) = Cycles + 1
          BY <2>1 DEF WholeCommand
        <4>3. out[1].val \in {"READ0", "READOOB"} /\ ~LargePage => Len(out') = Cycles
          <5>1. Len(out') = Len(out) - 1
            BY <1>1
          <5> QED
            BY <1>2, <4>2, <5>1
        <4> QED
          BY <1>2, <2>5, <4>1, <4>3
      <3> QED
        BY <1>0, <2>2, <3>1, <3>2 DEF RestOfCommand
    <2> QED
      BY <2>6, <2>7
  <1>6. CASE out[1].port # "cle"
    <2>1. RestOfCommand
      BY <1>0, <1>6 DEF WholeCommand
    <2>2. TakeAddress(out[1].val)
      BY <1>1, <1>6 DEF WritePort
    <2>3. out[1].val \in Nat
      BY <1>1, <1>6 DEF PortWrites
    <2>4. addr' = Append(addr, out[1].val) /\ latch' = latch
      BY <1>0, <2>2 DEF TakeAddress
    <2>5. Len(addr') = Len(addr) + 1 /\ Len(addr) \in Nat
      BY <1>0, <2>3, <2>4
    <2>6. RestOfCommand'
      <3>1. \A i \in 1 .. Len(out') : out'[i].port = "ale"
        BY <1>1, <2>1 DEF RestOfCommand
      <3>2. latch' \in {"READ0", "READOOB"} /\ ~LargePage => Len(addr') + Len(out') = Cycles
        BY <1>1, <2>1, <2>4, <2>5 DEF RestOfCommand
      <3> QED
        BY <3>1, <3>2 DEF RestOfCommand
    <2>7. CASE latch \in {"READ0", "READOOB"} /\ ~LargePage /\ Len(addr') = Cycles
      <3>1. Len(out') = 0
        BY <1>1, <1>2, <2>6, <2>7, <2>4 DEF RestOfCommand
      <3>2. busy' \in 0 .. MaxBusy
        <4>1. TypeInv /\ out[1].val \in Nat
          BY <2>3
        <4> QED
          BY <2>2, <4>1, TakeTypes
      <3> QED
        BY <1>1, <3>1, <3>2
    <2>8. CASE ~(latch \in {"READ0", "READOOB"} /\ ~LargePage /\ Len(addr') = Cycles)
      <3>1. busy' = 0
        BY <1>0, <2>2, <2>4, <2>8 DEF TakeAddress, Cycles
      <3> QED
        BY <1>0, <2>6, <3>1
    <2> QED
      BY <2>7, <2>8
  <1> QED
    BY <1>5, <1>6

(* A call made when nothing is on its way. *)
LEMMA CallBusy ==
    ASSUME LargePage \/ CyclesAgree, TypeInv, BusyInv, Returned, UNCHANGED <<cmdfunc, chip>>,
           NEW cmd, NEW col, NEW p, NEW next, Asks(cmd, col, p),
           next \notin {"init", "test", "pages"},
           Call(cmd, col, p, next)
    PROVE  BusyInv'
  <1>0. out = <<>> /\ polls = 0 /\ busy = 0 /\ busy' = busy /\ cmdfunc' = cmdfunc
        /\ (cmdfunc = "nand_command_lp" => LargePage)
    BY DEF Returned, BusyInv, TypeInv, TypeOK, chip
  <1>1. CASE cmdfunc = "null"
    <2>1. pc' = "wild" /\ out' = out /\ polls' = polls
      BY <1>1 DEF Call
    <2> QED
      BY <1>0, <2>1 DEF BusyInv
  <1>2. CASE cmdfunc # "null"
    <2>1. WholeCommand(out')
      BY <1>0, <1>2, CallsAreWhole DEF Call
    <2>2. pc' = next /\ polls' = Looks
      BY <1>2 DEF Call
    <2>3. Looks \in Nat
      BY Numbers
    <2> QED
      BY <1>0, <2>1, <2>2, <2>3 DEF BusyInv
  <1> QED
    BY <1>1, <1>2

(* Every step keeps it. *)
LEMMA NextBusy ==
    ASSUME WaitedFor, LargePage \/ CyclesAgree
    PROVE  TypeInv /\ BusyInv /\ [Next]_vars => BusyInv'
  <1> SUFFICES ASSUME TypeInv, BusyInv, [Next]_vars PROVE BusyInv'
    OBVIOUS
  <1>0. /\ pc \in {"init", "test", "pages"} => Returned
        /\ Returned => busy = 0
    BY DEF BusyInv, Returned, TypeInv, TypeOK
  <1>1. CASE WritePort
    BY <1>1, WritePortBusy
  <1>2. CASE PollReady
    <2>1. /\ out' = <<>> /\ busy' <= polls' /\ pc' = pc /\ cmdfunc' = cmdfunc
          /\ polls > 0
      BY <1>2 DEF PollReady, BusyInv, TypeInv, TypeOK
    <2> QED
      BY <2>1 DEF BusyInv
  <1>3. CASE ResetChip
    <2>1. Asks("RESET", None, None)
      BY DEF Asks, Commands
    <2>2. Returned /\ UNCHANGED <<cmdfunc, chip>> /\ Call("RESET", None, None, "reset")
      BY <1>0, <1>3 DEF ResetChip
    <2> QED
      BY <2>1, <2>2, CallBusy
  <1>4. CASE ReadId
    <2>1. Asks("READID", 0, None)
      BY DEF Asks, Commands
    <2>2. Returned /\ UNCHANGED <<cmdfunc, chip>> /\ Call("READID", 0, None, "readid")
      BY <1>4 DEF ReadId
    <2> QED
      BY <2>1, <2>2, CallBusy
  <1>5. CASE Identify
    BY <1>0, <1>5 DEF Identify, Returned, BusyInv, chip
  <1>6. CASE TestBlock
    <2>1. ofs \div WriteSize \in Nat /\ MarkColumn \in Nat
      <3>1. ofs \in Nat /\ WriteSize \in Nat \ {0} /\ MarkColumn \in Nat
        BY Numbers DEF TypeInv
      <3> QED
        BY <3>1, DivMod
    <2>2. Asks("READOOB", MarkColumn, ofs \div WriteSize)
      BY <2>1 DEF Asks, Commands, None
    <2>3. /\ Returned /\ UNCHANGED <<cmdfunc, chip>>
          /\ Call("READOOB", MarkColumn, ofs \div WriteSize, "isbad")
      BY <1>0, <1>6 DEF TestBlock
    <2> QED
      BY <2>2, <2>3, CallBusy
  <1>7. CASE SkipBlock
    BY <1>7, <1>0 DEF SkipBlock, Returned, BusyInv, chip
  <1>8. CASE EnterBlock
    BY <1>8, <1>0 DEF EnterBlock, Returned, BusyInv, chip
  <1>9. CASE FetchPage
    <2>1. page + block * PagesPerBlock \in Nat
      <3>1. block \in Nat /\ page \in Nat /\ PagesPerBlock \in Nat
        BY Numbers DEF TypeInv, TypeOK
      <3> QED
        BY <3>1
    <2>2. Asks("READ0", 0, page + block * PagesPerBlock)
      BY <2>1 DEF Asks, Commands, None
    <2>3. /\ Returned /\ UNCHANGED <<cmdfunc, chip>>
          /\ Call("READ0", 0, page + block * PagesPerBlock, "read")
      BY <1>0, <1>9 DEF FetchPage
    <2> QED
      BY <2>2, <2>3, CallBusy
  <1>10. CASE StorePage
    BY <1>10, <1>0 DEF StorePage, Returned, BusyInv, chip
  <1>11. CASE LeaveBlock
    BY <1>11, <1>0 DEF LeaveBlock, Returned, BusyInv, chip
  <1>12. CASE Return
    BY <1>12, <1>0 DEF Return, Returned, BusyInv, chip, locals
  <1>13. CASE UNCHANGED vars
    BY <1>13 DEF vars, BusyInv, RestOfCommand, chip
  <1> QED
    BY <1>1, <1>2, <1>3, <1>4, <1>5, <1>6, <1>7, <1>8, <1>9, <1>10, <1>11, <1>12, <1>13
       DEF Next, Driver

(* On every chip, small-page or large-page, whose commands the retries     *)
(* outlast and whose row cycles nand_command counts right: no command but  *)
(* RESET meets a busy chip and no byte is read from one, whatever the      *)
(* order of bytes and polls.                                               *)
THEOREM ChipIsReady ==
    ASSUME WaitedFor, LargePage \/ CyclesAgree
    PROVE  Spec => []NeverTalksToBusy
  <1>1. TypeInv /\ BusyInv => NeverTalksToBusy
    BY DEF TypeInv, TypeOK, BusyInv, NeverTalksToBusy, Returned
  <1>2. TypeInv /\ BusyInv /\ [Next]_vars => (TypeInv /\ BusyInv)'
    BY NextTypes, NextBusy
  <1>3. Init => TypeInv /\ BusyInv
    BY InitTypes, InitBusy
  <1> QED
    BY <1>1, <1>2, <1>3, PTL DEF Spec

-----------------------------------------------------------------------------
(* On the small-page chip every byte read is the byte asked for *)

(* The i-th address byte of a command for column col of page p. *)
CycleOf(col, p, i) ==
    CASE i = 1 -> col % ColByte
      [] i = 2 -> p % Byte
      [] i = 3 -> (p \div Byte) % Byte
      [] OTHER -> (p \div (Byte * Byte)) % Byte

(* What the data register is to hold after it. *)
Wanted(cmd, col, p) ==
    [area |-> IF cmd = "READOOB" THEN "oob" ELSE "main", page |-> p % NPages, col |-> col]

(* Command and addresses are still to be written (o), or the command has   *)
(* been latched (l) with the first of its addresses (a) and the others are *)
(* to be written, or the data register (r) is filled.                      *)
RightBytes(o, a, l, r, cmd, col, p) ==
    \/ /\ Len(o) = Cycles + 1 /\ o[1] = CLE(cmd)
       /\ \A i \in 1 .. Cycles : o[i + 1] = ALE(CycleOf(col, p, i))
    \/ /\ l = cmd /\ o # <<>> /\ Len(a) + Len(o) = Cycles
       /\ \A i \in 1 .. Len(a) : a[i] = CycleOf(col, p, i)
       /\ \A i \in 1 .. Len(o) : o[i] = ALE(CycleOf(col, p, Len(a) + i))
    \/ o = <<>> /\ r = Wanted(cmd, col, p)

(* What the driver waits for is what it asked for. *)
AccessInv ==
    /\ cmdfunc = "nand_command" /\ pc # "wild"
    /\ pc = "isbad" =>
          /\ block <= lastblock
          /\ RightBytes(out, addr, latch, reg, "READOOB", MarkColumn, ofs \div WriteSize)
    /\ pc = "read" =>
          RightBytes(out, addr, latch, reg, "READ0", 0, page + block * PagesPerBlock)

(* What makes the chip a small-page chip, as facts. *)
LEMMA SmallPageFacts ==
    ASSUME SmallPageChip
    PROVE  /\ ~LargePage /\ Supplied = "nand_command" /\ WaitedFor /\ CyclesAgree
           /\ ColCycles = 1 /\ Cycles = 1 + RowCycles
           /\ MarkColumn \in Nat /\ MarkColumn < ColByte /\ MarkColumn \in MarkBytes
           /\ \E k \in Nat : RowSpan = k * NPages
  <1>1. RowSpan \in Nat
    BY Numbers DEF RowSpan
  <1>2. \E k \in Nat : RowSpan = k * NPages
    <2>1. PICK k \in Nat, r \in 0 .. NPages - 1 :
              k = RowSpan \div NPages /\ r = RowSpan % NPages /\ RowSpan = NPages * k + r
      BY <1>1, Numbers, DivMod
    <2>2. r = 0
      BY <2>1 DEF SmallPageChip
    <2>3. NPages * k + 0 = k * NPages
      BY Numbers
    <2> QED
      BY <2>1, <2>2, <2>3, Zenon
  <1> QED
    BY <1>2, Numbers DEF SmallPageChip, ColCycles, Cycles

(* The chip puts the page address together again. *)
LEMMA RowGivenBack ==
    ASSUME SmallPageChip, NEW a, NEW col \in Nat, col < ColByte, NEW p \in Nat,
           \A i \in 1 .. Cycles : a[i] = CycleOf(col, p, i)
    PROVE  RowOf(a) = p % NPages /\ ColOf(a) = col
  <1>0. /\ ~LargePage /\ ColCycles = 1 /\ Cycles = 1 + RowCycles /\ RowCycles \in {2, 3}
        /\ Byte \in Nat \ {0} /\ ColByte \in Nat \ {0} /\ NPages \in Nat \ {0}
    BY SmallPageFacts, Numbers
  <1>1. a[1] = col % ColByte /\ a[2] = p % Byte /\ a[3] = (p \div Byte) % Byte
        /\ (RowCycles = 3 => a[4] = (p \div (Byte * Byte)) % Byte)
    BY <1>0 DEF CycleOf
  <1>2. ColOf(a) = col
    <2>1. col % ColByte = col
      BY <1>0
    <2> QED
      BY <1>0, <1>1, <2>1 DEF ColOf
  <1> DEFINE row == a[2] + a[3] * Byte + (IF RowCycles = 3 THEN a[4] * Byte * Byte ELSE 0)
  <1>3. RowOf(a) = row % NPages
    BY <1>0 DEF RowOf
  <1>4. row \in Nat /\ \E q \in Nat : p = q * RowSpan + row
    <2>1. /\ p % Byte \in Nat /\ (p \div Byte) % Byte \in Nat
          /\ (p \div (Byte * Byte)) % Byte \in Nat
          /\ (p % Byte) + ((p \div Byte) % Byte) * Byte \in Nat
          /\ \E q \in Nat : p = q * (Byte * Byte) + ((p % Byte) + ((p \div Byte) % Byte) * Byte)
          /\ \E q \in Nat : p = q * (Byte * Byte * Byte)
                + ((p % Byte) + ((p \div Byte) % Byte) * Byte
                     + ((p \div (Byte * Byte)) % Byte) * Byte * Byte)
      BY <1>0, Digits
    <2>2. CASE RowCycles = 3
      <3>1. row = (p % Byte) + ((p \div Byte) % Byte) * Byte
                     + ((p \div (Byte * Byte)) % Byte) * Byte * Byte
        BY <1>1, <2>2
      <3>2. row \in Nat
        <4> DEFINE low == (p % Byte) + ((p \div Byte) % Byte) * Byte
                   top == (p \div (Byte * Byte)) % Byte
        <4>1. low \in Nat /\ top \in Nat
          BY <2>1
        <4>2. row = low + top * Byte * Byte
          BY <3>1
        <4> HIDE DEF row, low, top
        <4> QED
          BY <1>0, <4>1, <4>2
      <3>3. RowSpan = Byte * Byte * Byte
        BY <2>2 DEF RowSpan
      <3> HIDE DEF row
      <3> QED
        BY <2>1, <3>1, <3>2, <3>3
    <2>3. CASE RowCycles # 3
      <3>1. row = (p % Byte) + ((p \div Byte) % Byte) * Byte
        <4>1. row = a[2] + a[3] * Byte + 0
          BY <2>3
        <4>2. \A x \in Nat : x + 0 = x
          OBVIOUS
        <4> HIDE DEF row
        <4> QED
          BY <1>1, <2>1, <4>1, <4>2
      <3>2. RowSpan = Byte * Byte
        BY <2>3 DEF RowSpan
      <3> HIDE DEF row
      <3> QED
        BY <2>1, <3>1, <3>2
    <2> QED
      BY <2>2, <2>3
  <1> HIDE DEF row
  <1>5. row % NPages = p % NPages
    <2>1. PICK q \in Nat : p = q * RowSpan + row
      BY <1>4
    <2>2. PICK k \in Nat : RowSpan = k * NPages
      BY SmallPageFacts
    <2>3. q * RowSpan = (q * k) * NPages /\ q * k \in Nat
      BY <1>0, <2>2
    <2>4. ((q * k) * NPages + row) % NPages = row % NPages
      BY <1>0, <1>4, <2>3, ModSum
    <2> QED
      BY <2>1, <2>3, <2>4, Zenon
  <1> QED
    BY <1>2, <1>3, <1>5

(* nand_command writes the command and the address bytes. *)
LEMMA CommandBytes ==
    ASSUME SmallPageChip, NEW cmd \in Commands, NEW col \in Nat, NEW p \in Nat,
           NEW a, NEW l, NEW r
    PROVE  RightBytes(nand_command(cmd, col, p), a, l, r, cmd, col, p)
  <1>0. /\ Cycles = 1 + RowCycles /\ RowCycles \in {2, 3} /\ CyclesAgree
        /\ Byte \in Nat \ {0} /\ ColByte \in Nat \ {0}
    BY SmallPageFacts, Numbers
  <1> DEFINE o == nand_command(cmd, col, p)
             first == <<CLE(cmd)>>
             column == <<ALE(col % ColByte)>>
             row == PageCycles(p)
  <1>1. o = (first \o column) \o row
    <2>1. col # None /\ p # None
      BY DEF None
    <2> QED
      BY <2>1, Zenon DEF nand_command
  <1>2. /\ row \in Seq(PortWrites) /\ Len(row) = RowCycles
        /\ row[1] = ALE(CycleOf(col, p, 2)) /\ row[2] = ALE(CycleOf(col, p, 3))
        /\ (RowCycles = 3 => row[3] = ALE(CycleOf(col, p, 4)))
    <2> DEFINE two == <<LowCycle(p), MidCycle(p)>>
               one == <<HighCycle(p)>>
    <2>1. row \in Seq(PortWrites) /\ Len(row) = RowCycles
      BY <1>0, RowShape
    <2>2. /\ LowCycle(p) = ALE(CycleOf(col, p, 2)) /\ MidCycle(p) = ALE(CycleOf(col, p, 3))
          /\ HighCycle(p) = ALE(CycleOf(col, p, 4))
      BY DEF LowCycle, MidCycle, HighCycle, CycleOf
    <2>3. CASE RowCycles = 3
      <3>1. row = two \o one
        BY <1>0, <2>3 DEF PageCycles, CyclesAgree
      <3>2. /\ (two \o one)[1] = LowCycle(p) /\ (two \o one)[2] = MidCycle(p)
            /\ (two \o one)[3] = HighCycle(p)
        OBVIOUS
      <3> HIDE DEF row, two, one
      <3> QED
        BY <2>1, <2>2, <3>1, <3>2
    <2>4. CASE RowCycles # 3
      <3>1. row = two \o <<>>
        BY <1>0, <2>4 DEF PageCycles, CyclesAgree
      <3>2. (two \o <<>>)[1] = LowCycle(p) /\ (two \o <<>>)[2] = MidCycle(p)
        OBVIOUS
      <3> HIDE DEF row, two
      <3> QED
        BY <2>1, <2>2, <2>4, <3>1, <3>2
    <2> QED
      BY <2>3, <2>4
  <1>3. /\ first \in Seq(PortWrites) /\ Len(first) = 1 /\ first[1] = CLE(cmd)
        /\ column \in Seq(PortWrites) /\ Len(column) = 1
        /\ column[1] = ALE(CycleOf(col, p, 1))
    <2>1. col % ColByte \in Nat
      BY <1>0, DivMod
    <2> QED
      BY <2>1 DEF CLE, ALE, PortWrites, CycleOf
  <1> HIDE DEF o, first, column, row
  <1>4. /\ first \o column \in Seq(PortWrites) /\ Len(first \o column) = 2
        /\ (first \o column)[1] = first[1] /\ (first \o column)[2] = column[1]
    BY <1>3, ConcatProperties
  <1>5. /\ Len(o) = 2 + RowCycles /\ o[1] = first[1] /\ o[2] = column[1]
        /\ o[3] = row[1] /\ o[4] = row[2] /\ (RowCycles = 3 => o[5] = row[3])
    <2> DEFINE head == first \o column
    <2>1. head \in Seq(PortWrites) /\ Len(head) = 2 /\ row \in Seq(PortWrites)
          /\ Len(row) = RowCycles
      BY <1>2, <1>4
    <2> HIDE DEF head
    <2>2. /\ Len(head \o row) = Len(head) + Len(row)
          /\ \A i \in 1 .. Len(head) + Len(row) : (head \o row)[i] =
                IF i <= Len(head) THEN head[i] ELSE row[i - Len(head)]
      BY <2>1, ConcatProperties
    <2>3. /\ Len(head \o row) = 2 + RowCycles
          /\ (head \o row)[1] = head[1] /\ (head \o row)[2] = head[2]
          /\ (head \o row)[3] = row[1] /\ (head \o row)[4] = row[2]
          /\ (RowCycles = 3 => (head \o row)[5] = row[3])
      BY <1>0, <2>1, <2>2
    <2>4. o = head \o row /\ head[1] = first[1] /\ head[2] = column[1]
      BY <1>1, <1>4 DEF head
    <2> QED
      BY <2>3, <2>4
  <1>6. ASSUME NEW i \in 1 .. Cycles PROVE o[i + 1] = ALE(CycleOf(col, p, i))
    <2>1. i \in {1, 2, 3} \/ (i = 4 /\ RowCycles = 3)
      BY <1>0
    <2> QED
      BY <1>2, <1>3, <1>5, <2>1
  <1>7. Len(o) = Cycles + 1 /\ o[1] = CLE(cmd)
    BY <1>0, <1>3, <1>5
  <1>8. RightBytes(o, a, l, r, cmd, col, p)
    BY <1>6, <1>7 DEF RightBytes
  <1> QED
    BY <1>8 DEF o

(* A byte written to a port is the next one asked for, and the last one    *)
(* makes the chip fetch what is wanted.                                    *)
LEMMA WriteRight ==
    ASSUME SmallPageChip, TypeInv, BusyInv, WritePort,
           NEW cmd \in {"READOOB", "READ0"}, NEW col \in Nat, NEW p \in Nat,
           col < ColByte, cmd = "READ0" => col < WriteSize,
           RightBytes(out, addr, latch, reg, cmd, col, p)
    PROVE  RightBytes(out', addr', latch', reg', cmd, col, p)
  <1>0. /\ out \in Seq(PortWrites) /\ addr \in Seq(Nat) /\ busy = 0 /\ out # <<>>
        /\ Cycles \in Nat /\ Cycles > 0 /\ ~LargePage /\ Cycles = ColCycles + RowCycles
    BY SmallPageFacts, Numbers DEF TypeInv, BusyInv, WritePort, Cycles
  <1>1. /\ out' = Tail(out) /\ out' \in Seq(PortWrites) /\ Len(out') = Len(out) - 1
        /\ Len(out) \in Nat /\ Len(out) > 0 /\ Head(out) = out[1] /\ out[1] \in PortWrites
        /\ \A i \in 1 .. Len(out') : out'[i] = out[i + 1]
    BY <1>0 DEF WritePort
  <1>2. CASE /\ Len(out) = Cycles + 1 /\ out[1] = CLE(cmd)
             /\ \A i \in 1 .. Cycles : out[i + 1] = ALE(CycleOf(col, p, i))
    <2>1. TakeCommand(cmd)
      BY <1>1, <1>2 DEF WritePort, CLE
    <2>2. addr' = <<>> /\ latch' = cmd
      BY <1>0, <2>1 DEF TakeCommand
    <2>3. Len(out') = Cycles /\ \A i \in 1 .. Len(out') : out'[i] = ALE(CycleOf(col, p, i))
      BY <1>0, <1>1, <1>2
    <2>4. Len(addr') = 0 /\ out' # <<>>
      BY <1>0, <2>2, <2>3
    <2>5. \A i \in 1 .. Len(out') : Len(addr') + i = i
      BY <1>1, <2>4
    <2> QED
      BY <1>0, <2>2, <2>3, <2>4, <2>5 DEF RightBytes
  <1>3. CASE /\ latch = cmd /\ Len(addr) + Len(out) = Cycles
             /\ \A i \in 1 .. Len(addr) : addr[i] = CycleOf(col, p, i)
             /\ \A i \in 1 .. Len(out) : out[i] = ALE(CycleOf(col, p, Len(addr) + i))
    <2> DEFINE b == CycleOf(col, p, Len(addr) + 1)
    <2>1. out[1] = ALE(b)
      BY <1>1, <1>3
    <2>2. TakeAddress(b) /\ b \in Nat
      BY <1>1, <2>1 DEF WritePort, ALE, PortWrites
    <2>3. latch' = cmd /\ addr' = Append(addr, b)
      BY <1>0, <1>3, <2>2 DEF TakeAddress
    <2>4. Len(addr) \in Nat
      BY <1>0
    <2>5. /\ addr' \in Seq(Nat) /\ Len(addr') = Len(addr) + 1 /\ addr'[Len(addr) + 1] = b
          /\ \A i \in 1 .. Len(addr) : addr'[i] = addr[i]
      BY <1>0, <2>2, <2>3, AppendProperties
    <2>6. \A i \in 1 .. Len(addr') : addr'[i] = CycleOf(col, p, i)
      <3> SUFFICES ASSUME NEW i \in 1 .. Len(addr') PROVE addr'[i] = CycleOf(col, p, i)
        OBVIOUS
      <3>1. i \in 1 .. Len(addr) \/ i = Len(addr) + 1
        BY <2>4, <2>5
      <3> QED
        BY <1>3, <2>5, <3>1
    <2>7. Len(addr') + Len(out') = Cycles
      BY <1>1, <1>3, <2>4, <2>5
    <2>8. \A i \in 1 .. Len(out') : out'[i] = ALE(CycleOf(col, p, Len(addr') + i))
      <3> SUFFICES ASSUME NEW i \in 1 .. Len(out')
                   PROVE  out'[i] = ALE(CycleOf(col, p, Len(addr') + i))
        OBVIOUS
      <3>1. i + 1 \in 1 .. Len(out) /\ Len(addr) + (i + 1) = Len(addr') + i
        BY <1>1, <2>4, <2>5
      <3> QED
        BY <1>1, <1>3, <3>1
    <2>9. CASE out' # <<>>
      BY <2>3, <2>6, <2>7, <2>8, <2>9 DEF RightBytes
    <2>10. CASE out' = <<>>
      <3>1. Len(addr') = Cycles
        BY <1>0, <2>5, <2>7, <2>10
      <3>2. RowOf(addr') = p % NPages /\ ColOf(addr') = col
        BY <2>6, <3>1, RowGivenBack
      <3>3. reg' = Selected(addr')
        BY <1>0, <1>3, <2>2, <2>3, <3>1 DEF TakeAddress, Fetch
      <3>4. Selected(addr') = Wanted(cmd, col, p)
        <4> DEFINE a == addr'
        <4>1. RowOf(a) = p % NPages /\ ColOf(a) = col /\ latch = cmd
          BY <1>3, <3>2
        <4>2. cmd = "READ0" => ~(col >= WriteSize)
          BY Numbers
        <4> HIDE DEF a
        <4>3. Selected(a) = Wanted(cmd, col, p)
          BY <4>1, <4>2 DEF Selected, Wanted
        <4> QED
          BY <4>3 DEF a
      <3> QED
        BY <2>10, <3>3, <3>4 DEF RightBytes
    <2> QED
      BY <2>9, <2>10
  <1> QED
    BY <1>0, <1>2, <1>3 DEF RightBytes

(* Initially no access is under way. *)
LEMMA InitAccess == SmallPageChip /\ Init => AccessInv
  BY SmallPageFacts DEF Init, AccessInv

(* A call starts an access. *)
LEMMA CallAccess ==
    ASSUME SmallPageChip, AccessInv,
           NEW cmd \in Commands, NEW col \in Nat, NEW p \in Nat, NEW next,
           Call(cmd, col, p, next)
    PROVE  /\ pc' = next
           /\ RightBytes(out', addr', latch', reg', cmd, col, p)
  <1>1. pc' = next /\ out' = nand_command(cmd, col, p)
    BY DEF AccessInv, Call
  <1> QED
    BY <1>1, CommandBytes

(* Numbers that calls are made with. *)
LEMMA Addresses ==
    ASSUME TypeInv
    PROVE  /\ ofs \div WriteSize \in Nat
           /\ page + block * PagesPerBlock \in Nat
  <1>1. /\ ofs \in Nat /\ page \in Nat /\ block \in Nat
        /\ WriteSize \in Nat \ {0} /\ PagesPerBlock \in Nat
    BY Numbers DEF TypeInv, TypeOK
  <1> QED
    BY <1>1, DivMod

(* Every step keeps accesses right. *)
LEMMA NextAccess ==
    ASSUME SmallPageChip
    PROVE  TypeInv /\ BusyInv /\ AccessInv /\ [Next]_vars => AccessInv'
  <1> SUFFICES ASSUME TypeInv, BusyInv, AccessInv, [Next]_vars PROVE AccessInv'
    OBVIOUS
  <1>0. /\ cmdfunc = "nand_command" /\ pc # "wild" /\ ~LargePage
        /\ MarkColumn \in Nat /\ MarkColumn < ColByte /\ 0 \in Nat /\ 0 < ColByte
        /\ 0 < WriteSize
        /\ ofs \div WriteSize \in Nat /\ page + block * PagesPerBlock \in Nat
    BY SmallPageFacts, Numbers, Addresses DEF AccessInv
  <1>1. CASE WritePort
    <2>1. UNCHANGED <<pc, cmdfunc, block, lastblock, page, ofs>>
      BY <1>1 DEF WritePort, locals
    <2>2. pc = "isbad" =>
            RightBytes(out', addr', latch', reg', "READOOB", MarkColumn, ofs \div WriteSize)
      BY <1>0, <1>1, WriteRight DEF AccessInv
    <2>3. pc = "read" =>
            RightBytes(out', addr', latch', reg', "READ0", 0, page + block * PagesPerBlock)
      BY <1>0, <1>1, WriteRight DEF AccessInv
    <2> QED
      BY <2>1, <2>2, <2>3 DEF AccessInv
  <1>2. CASE PollReady
    BY <1>2 DEF PollReady, locals, AccessInv
  <1>3. CASE ResetChip
    <2>1. pc' = "reset" /\ cmdfunc' = cmdfunc
      BY <1>0, <1>3 DEF ResetChip, Call
    <2> QED
      BY <1>0, <2>1 DEF AccessInv
  <1>4. CASE ReadId
    <2>1. pc' = "readid" /\ cmdfunc' = cmdfunc
      BY <1>0, <1>4 DEF ReadId, Call
    <2> QED
      BY <1>0, <2>1 DEF AccessInv
  <1>5. CASE Identify
    BY <1>0, <1>5 DEF Identify, AccessInv
  <1>6. CASE TestBlock
    <2>1. /\ pc' = "isbad"
          /\ RightBytes(out', addr', latch', reg', "READOOB", MarkColumn, ofs \div WriteSize)
      BY <1>0, <1>6, CallAccess DEF TestBlock, Commands
    <2>2. block <= lastblock /\ UNCHANGED <<cmdfunc, block, lastblock, ofs>>
      BY <1>6 DEF TestBlock, locals
    <2> QED
      BY <1>0, <2>1, <2>2 DEF AccessInv
  <1>7. CASE SkipBlock
    BY <1>0, <1>7 DEF SkipBlock, AccessInv
  <1>8. CASE EnterBlock
    BY <1>0, <1>8 DEF EnterBlock, AccessInv
  <1>9. CASE FetchPage
    <2>1. /\ pc' = "read"
          /\ RightBytes(out', addr', latch', reg', "READ0", 0, page + block * PagesPerBlock)
      BY <1>0, <1>9, CallAccess DEF FetchPage, Commands
    <2>2. UNCHANGED <<cmdfunc, block, page>>
      BY <1>9 DEF FetchPage, locals
    <2> QED
      BY <1>0, <2>1, <2>2 DEF AccessInv
  <1>10. CASE StorePage
    BY <1>0, <1>10 DEF StorePage, AccessInv
  <1>11. CASE LeaveBlock
    BY <1>0, <1>11 DEF LeaveBlock, AccessInv
  <1>12. CASE Return
    BY <1>0, <1>12 DEF Return, AccessInv
  <1>13. CASE UNCHANGED vars
    BY <1>13 DEF vars, locals, chip, AccessInv
  <1> QED
    BY <1>1, <1>2, <1>3, <1>4, <1>5, <1>6, <1>7, <1>8, <1>9, <1>10, <1>11, <1>12, <1>13
       DEF Next, Driver

-----------------------------------------------------------------------------
(* Byte by byte, nand_load as in one step *)

(* The chip shows the mark of the page looked up. *)
LEMMA MarkIsRead ==
    ASSUME SmallPageChip, TypeInv, BusyInv, AccessInv, pc = "isbad", Returned,
           NEW v \in BOOLEAN, ReadsFF(v)
    PROVE  Loader!IsBad(ofs) <=> ~v
  <1>1. out = <<>> /\ busy = 0
    BY DEF Returned, BusyInv, TypeInv, TypeOK
  <1>2. Len(out) # Cycles + 1
    <2>1. Cycles \in Nat
      BY Numbers DEF Cycles
    <2>2. Len(out) = 0
      BY <1>1
    <2> QED
      BY <2>1, <2>2
  <1>3. reg = Wanted("READOOB", MarkColumn, ofs \div WriteSize)
    BY <1>1, <1>2 DEF AccessInv, RightBytes
  <1>4. reg.area = "oob" /\ reg.page = (ofs \div WriteSize) % NPages /\ reg.col = MarkColumn
    BY <1>3 DEF Wanted
  <1>5. v = SpareIsFF(reg)
    BY <1>1, <1>4 DEF ReadsFF
  <1>6. SpareIsFF(reg) <=> (ofs \div WriteSize) % NPages \notin marked
    BY <1>4, SmallPageFacts DEF SpareIsFF
  <1>7. Loader!IsBad(ofs) <=> (ofs \div WriteSize) % NPages \in marked
    BY DEF Loader!IsBad, Loader!NPages, NPages, Loader!PagesPerBlock, PagesPerBlock
  <1> QED
    BY <1>5, <1>6, <1>7

(* The page stored is the page asked for. *)
LEMMA PageIsRead ==
    ASSUME SmallPageChip, TypeInv, BusyInv, AccessInv, StorePage
    PROVE  image' = Append(image, Loader!PageAddr(block, page))
  <1>1. out = <<>> /\ busy = 0 /\ pc = "read"
    BY DEF StorePage, Returned, BusyInv, TypeInv, TypeOK
  <1>2. Len(out) # Cycles + 1
    <2>1. Cycles \in Nat
      BY Numbers DEF Cycles
    <2>2. Len(out) = 0
      BY <1>1
    <2> QED
      BY <2>1, <2>2
  <1>3. reg = Wanted("READ0", 0, page + block * PagesPerBlock)
    BY <1>1, <1>2 DEF AccessInv, RightBytes
  <1>4. reg.area = "main" /\ reg.col = 0 /\ reg.page = (page + block * PagesPerBlock) % NPages
    BY <1>3 DEF Wanted
  <1>5. image' = Append(image, reg.page)
    BY <1>1, <1>4 DEF StorePage
  <1>6. Loader!PageAddr(block, page) = (page + block * PagesPerBlock) % NPages
    BY DEF Loader!PageAddr, Loader!NPages, NPages, Loader!PagesPerBlock, PagesPerBlock
  <1> QED
    BY <1>4, <1>5, <1>6, Zenon

(* Every step is a step of nand_load with its calls in one step, or none.  *)
LEMMA StepLoads ==
    ASSUME SmallPageChip
    PROVE  TypeInv /\ BusyInv /\ AccessInv /\ AccessInv' /\ [Next]_vars
              => [Loader!Next]_(Loader!vars)
  <1> SUFFICES ASSUME TypeInv, BusyInv, AccessInv, AccessInv', [Next]_vars
               PROVE  [Loader!Next]_(Loader!vars)
    OBVIOUS
  <1>0. cmdfunc = "nand_command"
    BY DEF AccessInv
  <1> DEFINE Same == /\ req' = req /\ marked' = marked /\ LoadPc' = LoadPc /\ block' = block
                     /\ lastblock' = lastblock /\ page' = page /\ ofs' = ofs /\ image' = image
  <1>same. Same => [Loader!Next]_(Loader!vars)
    BY DEF Loader!vars
  <1>1. CASE WritePort
    BY <1>1, <1>same DEF WritePort, args, locals, LoadPc
  <1>2. CASE PollReady
    BY <1>2, <1>same DEF PollReady, args, locals, LoadPc
  <1>3. CASE ResetChip
    BY <1>0, <1>3, <1>same DEF ResetChip, Call, args, locals, LoadPc
  <1>4. CASE ReadId
    BY <1>0, <1>4, <1>same DEF ReadId, Call, args, locals, LoadPc
  <1>5. CASE Identify
    BY <1>5, <1>same DEF Identify, args, locals, LoadPc
  <1>6. CASE TestBlock
    BY <1>0, <1>6, <1>same DEF TestBlock, Call, args, locals, LoadPc
  <1>7. CASE SkipBlock
    <2>1. LoadPc = "test" /\ LoadPc' = "test" /\ block <= lastblock
      BY <1>7 DEF SkipBlock, LoadPc, AccessInv
    <2>2. Loader!IsBad(ofs)
      BY <1>7, MarkIsRead DEF SkipBlock
    <2>3. Loader!SkipBlock
      BY <1>7, <2>1, <2>2 DEF SkipBlock, NextBlock, args, Loader!SkipBlock, Loader!NextBlock
    <2> QED
      BY <2>3 DEF Loader!Next
  <1>8. CASE EnterBlock
    <2>1. LoadPc = "test" /\ LoadPc' = "pages" /\ block <= lastblock
      BY <1>8 DEF EnterBlock, LoadPc, AccessInv
    <2>2. ~Loader!IsBad(ofs)
      BY <1>8, MarkIsRead DEF EnterBlock
    <2>3. Loader!EnterBlock
      BY <1>8, <2>1, <2>2 DEF EnterBlock, args, locals, Loader!EnterBlock
    <2> QED
      BY <2>3 DEF Loader!Next
  <1>9. CASE FetchPage
    BY <1>0, <1>9, <1>same DEF FetchPage, Call, args, locals, LoadPc
  <1>10. CASE StorePage
    <2>1. LoadPc = "pages" /\ LoadPc' = "pages" /\ page < PagesPerBlock
      BY <1>10 DEF StorePage, LoadPc, TypeInv
    <2>2. image' = Append(image, Loader!PageAddr(block, page))
      BY <1>10, PageIsRead
    <2>3. Loader!ReadPage
      BY <1>10, <2>1, <2>2
         DEF StorePage, args, Loader!ReadPage, Loader!PagesPerBlock, PagesPerBlock
    <2> QED
      BY <2>3 DEF Loader!Next
  <1>11. CASE LeaveBlock
    <2>1. LoadPc = "pages" /\ LoadPc' = "test" /\ page >= PagesPerBlock
      BY <1>11 DEF LeaveBlock, LoadPc
    <2>2. Loader!LeaveBlock
      BY <1>11, <2>1 DEF LeaveBlock, NextBlock, args, Loader!LeaveBlock, Loader!NextBlock,
                         Loader!PagesPerBlock, PagesPerBlock
    <2> QED
      BY <2>2 DEF Loader!Next
  <1>12. CASE Return
    <2>1. LoadPc = "test" /\ LoadPc' = "done"
      BY <1>12 DEF Return, LoadPc
    <2>2. Loader!Return
      BY <1>12, <2>1 DEF Return, args, locals, Loader!Return
    <2> QED
      BY <2>2 DEF Loader!Next
  <1>13. CASE UNCHANGED vars
    BY <1>13, <1>same DEF vars, args, locals, LoadPc
  <1> QED
    BY <1>1, <1>2, <1>3, <1>4, <1>5, <1>6, <1>7, <1>8, <1>9, <1>10, <1>11, <1>12, <1>13
       DEF Next, Driver

(* On a small-page chip the driver on the bus implements nand_load with    *)
(* its calls in one step, but for its end: the mark judged is the mark of  *)
(* the page looked up and the page stored is the page asked for, whatever  *)
(* the order of bytes, address cycles and polls under them.                *)
THEOREM BusLoads == SmallPageChip => (Spec => Loader!Steps)
  <1> SUFFICES ASSUME SmallPageChip PROVE Spec => Loader!Steps
    OBVIOUS
  <1>0. WaitedFor /\ CyclesAgree
    BY SmallPageFacts
  <1>1. Init => TypeInv /\ BusyInv /\ AccessInv
    BY InitTypes, InitBusy, InitAccess
  <1>2. TypeInv /\ BusyInv /\ AccessInv /\ [Next]_vars
           => (TypeInv /\ BusyInv /\ AccessInv)'
    BY <1>0, NextTypes, NextBusy, NextAccess
  <1>3. (TypeInv /\ BusyInv /\ AccessInv) /\ (TypeInv /\ BusyInv /\ AccessInv)' /\ [Next]_vars
           => [Loader!Next]_(Loader!vars)
    BY StepLoads
  <1>4. Init => Loader!Init
    BY InitLoads
  <1> QED
    BY <1>1, <1>2, <1>3, <1>4, PTL DEF Spec, Loader!Steps

(* What nand_load does with its calls in one step it does byte by byte: on *)
(* a small-page chip the image of a load in scope is the one the abstract  *)
(* loader delivers, in order and without a page of a bad block.            *)
THEOREM BusDeliversImage == SmallPageChip => (Spec => Loader!DeliversImage)
  <1> SUFFICES ASSUME SmallPageChip PROVE Spec => Loader!DeliversImage
    OBVIOUS
  <1>1. Spec => Loader!Steps
    BY BusLoads
  <1>2. Loader!Steps => Loader!DeliversImage
    BY Loader!StepsLoadImage, ChipAssumption
       DEF NPages, PagesPerBlock, Loader!NPages, Loader!PagesPerBlock
  <1> QED
    BY <1>1, <1>2, PTL
===============================================================================
