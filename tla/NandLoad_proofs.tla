--------------------------- MODULE NandLoad_proofs ---------------------------
(***************************************************************************)
(* Proofs about nand_load, for every geometry, request and set of marks.   *)
(***************************************************************************)
EXTENDS NandLoad, FiniteSetTheorems, TLAPS

-----------------------------------------------------------------------------
(* Arithmetic *)

(* Division with remainder of naturals. *)
LEMMA DivMod ==
    ASSUME NEW x \in Nat, NEW d \in Nat \ {0}
    PROVE  /\ x \div d \in Nat
           /\ x % d \in 0 .. d - 1
           /\ x = d * (x \div d) + (x % d)
  OBVIOUS

(* A quotient is not above the dividend. *)
LEMMA DivLe ==
    ASSUME NEW x \in Nat, NEW d \in Nat \ {0}
    PROVE  x \div d <= x
  BY DivMod

(* Quotient and remainder are unique. *)
LEMMA DivUnique ==
    ASSUME NEW q \in Nat, NEW d \in Nat \ {0}, NEW r \in 0 .. d - 1
    PROVE  (q * d + r) \div d = q /\ (q * d + r) % d = r
  OBVIOUS

(* Multiplication keeps the order. *)
LEMMA MulMono ==
    ASSUME NEW a \in Nat, NEW b \in Nat, NEW c \in Nat, a <= b
    PROVE  a * c <= b * c
  OBVIOUS

(* A number below n whole divisors has a quotient below n. *)
LEMMA DivBelow ==
    ASSUME NEW x \in Nat, NEW d \in Nat \ {0}, NEW n \in Nat, x < n * d
    PROVE  x \div d < n
  <1>1. x = d * (x \div d) + (x % d) /\ x \div d \in Nat /\ x % d \in Nat
    BY DivMod
  <1>2. SUFFICES ASSUME x \div d >= n PROVE FALSE
    BY <1>1
  <1>3. n * d <= (x \div d) * d
    BY <1>1, <1>2, MulMono
  <1> QED
    BY <1>1, <1>3

-----------------------------------------------------------------------------
(* The geometry *)

(* The sizes of the chip, as numbers. *)
LEMMA Geometry ==
    /\ WriteSize \in Nat \ {0}
    /\ EraseSize \in Nat \ {0}
    /\ NBlocks \in Nat \ {0}
    /\ Word \in Nat \ {0}
    /\ PagesPerBlock \in Nat \ {0}
    /\ NPages \in Nat \ {0}
    /\ EraseSize = PagesPerBlock * WriteSize
    /\ NBlocks * EraseSize < Word
    /\ NBlocks < Word
  <1>1. 1 * NBlocks <= EraseSize * NBlocks
    BY GeometryAssumption, MulMono
  <1>2. NBlocks < Word
    BY <1>1, GeometryAssumption
  <1>3. NBlocks * PagesPerBlock \in Nat \ {0}
    BY GeometryAssumption
  <1> QED
    BY <1>2, <1>3, GeometryAssumption DEF NPages

(* A byte offset within a block lies in one of the block's pages. *)
LEMMA PageOfOffset ==
    ASSUME NEW x \in 0 .. EraseSize - 1
    PROVE  x \div WriteSize \in 0 .. PagesPerBlock - 1
  <1>1. x \in Nat /\ x < PagesPerBlock * WriteSize
    BY Geometry
  <1>2. x \div WriteSize < PagesPerBlock
    BY <1>1, Geometry, DivBelow
  <1>3. x \div WriteSize \in Nat
    BY <1>1, Geometry, DivMod
  <1> QED
    BY <1>2, <1>3, Geometry

(* Reduction modulo Word leaves a word. *)
LEMMA WordRange ==
    ASSUME NEW x \in Int
    PROVE  x % Word \in 0 .. Word - 1
  BY Geometry

(* Pages of the chip are not changed by the chip's address register. *)
LEMMA PageAddrExact ==
    ASSUME NEW b \in Blocks, NEW p \in 0 .. PagesPerBlock - 1
    PROVE  /\ PageAddr(b, p) = b * PagesPerBlock + p
           /\ b * PagesPerBlock + p \in 0 .. NPages - 1
           /\ b * PagesPerBlock + p \in BlockPages(b)
  <1>1. b \in Nat /\ b + 1 <= NBlocks /\ b + 1 \in Nat
    BY Geometry DEF Blocks
  <1>2. (b + 1) * PagesPerBlock <= NBlocks * PagesPerBlock
    BY <1>1, Geometry, MulMono
  <1>3. (b + 1) * PagesPerBlock = b * PagesPerBlock + PagesPerBlock
    BY <1>1, Geometry
  <1>4. b * PagesPerBlock + p \in 0 .. NPages - 1
    BY <1>1, <1>2, <1>3, Geometry DEF NPages
  <1>5. (b * PagesPerBlock + p) % NPages = b * PagesPerBlock + p
    BY <1>4, Geometry
  <1>6. p + b * PagesPerBlock = b * PagesPerBlock + p
    BY <1>1, Geometry
  <1>7. b * PagesPerBlock + p \in BlockPages(b)
    BY <1>1, <1>3, Geometry DEF BlockPages
  <1> QED
    BY <1>4, <1>5, <1>6, <1>7 DEF PageAddr

(* A page belongs to one block. *)
LEMMA BlockPagesDisjoint ==
    ASSUME NEW a \in Nat, NEW b \in Nat, NEW p \in BlockPages(a), p \in BlockPages(b)
    PROVE  a = b
  <1>1. a * PagesPerBlock <= p /\ p < (a + 1) * PagesPerBlock
    BY Geometry DEF BlockPages
  <1>2. b * PagesPerBlock <= p /\ p < (b + 1) * PagesPerBlock
    BY Geometry DEF BlockPages
  <1>3. p \in Nat
    BY Geometry DEF BlockPages
  <1>4. ASSUME a < b PROVE FALSE
    <2>1. (a + 1) * PagesPerBlock <= b * PagesPerBlock
      BY <1>4, Geometry, MulMono
    <2> QED
      BY <2>1, <1>1, <1>2, <1>3, Geometry
  <1>5. ASSUME b < a PROVE FALSE
    <2>1. (b + 1) * PagesPerBlock <= a * PagesPerBlock
      BY <1>5, Geometry, MulMono
    <2> QED
      BY <2>1, <1>1, <1>2, <1>3, Geometry
  <1> QED
    BY <1>4, <1>5

(* Good blocks are blocks, and usable pages are pages of the chip. *)
LEMMA UsableArePages ==
    UsablePages \subseteq 0 .. NPages - 1
  <1> SUFFICES ASSUME NEW b \in GoodBlocks, NEW p \in BlockPages(b)
               PROVE  p \in 0 .. NPages - 1
    BY DEF UsablePages
  <1>1. b \in Blocks /\ b \in Nat /\ b + 1 <= NBlocks
    BY Geometry DEF GoodBlocks, Blocks
  <1>2. (b + 1) * PagesPerBlock <= NBlocks * PagesPerBlock
    BY <1>1, Geometry, MulMono
  <1>3. 0 <= b * PagesPerBlock
    BY <1>1, Geometry
  <1> QED
    BY <1>1, <1>2, <1>3, Geometry DEF BlockPages, NPages

(* The locals nand_load starts with are in range. *)
LEMMA InitTypes ==
    Init => TypeOK
  <1> SUFFICES ASSUME Init PROVE TypeOK
    OBVIOUS
  <1>1. /\ req \in [ofs : 0 .. Word - 1, size : 0 .. Word - 1]
        /\ marked \in SUBSET (0 .. NPages - 1)
    BY RequestAssumption DEF Init
  <1>2. /\ req.ofs \in Nat /\ req.ofs < Word
        /\ (req.ofs + req.size - 1) \in Int
    BY <1>1, Geometry
  <1>3. /\ req.ofs % EraseSize \in 0 .. EraseSize - 1
        /\ req.ofs \div EraseSize \in Nat
        /\ req.ofs \div EraseSize <= req.ofs
    BY <1>2, Geometry, DivMod, DivLe
  <1>4. page \in 0 .. PagesPerBlock
    <2>1. (req.ofs % EraseSize) \div WriteSize \in 0 .. PagesPerBlock - 1
      BY <1>3, PageOfOffset
    <2>2. page = (req.ofs % EraseSize) \div WriteSize
      BY DEF Init, LoadArgs
    <2> QED
      BY <2>1, <2>2, Geometry
  <1>5. block \in 0 .. Word - 1
    BY <1>2, <1>3, Geometry DEF Init, LoadArgs
  <1>6. lastblock \in 0 .. Word - 1
    <2> DEFINE e == (req.ofs + req.size - 1) % Word
    <2>1. e \in Nat /\ e < Word
      BY <1>2, Geometry, WordRange
    <2> HIDE DEF e
    <2>2. e \div EraseSize \in Nat /\ e \div EraseSize <= e
      BY <2>1, Geometry, DivMod, DivLe
    <2> QED
      BY <2>1, <2>2, Geometry DEF Init, LoadArgs, e
  <1> QED
    BY <1>1, <1>2, <1>4, <1>5, <1>6, Geometry DEF Init, LoadArgs, TypeOK

(* Every step keeps the locals in range. *)
LEMMA NextTypes ==
    TypeOK /\ [Next]_vars => TypeOK'
  <1> SUFFICES ASSUME TypeOK, [Next]_vars PROVE TypeOK'
    OBVIOUS
  <1> USE DEF TypeOK
  <1>a. NextBlock => block' \in 0 .. Word - 1 /\ ofs' \in 0 .. Word - 1
    <2>1. block + 1 \in Int /\ ofs + EraseSize \in Int
      BY Geometry
    <2> QED
      BY <2>1, WordRange DEF NextBlock
  <1>1. CASE SkipBlock
    <2>1. lastblock + 1 \in Int
      BY Geometry
    <2>2. lastblock' \in 0 .. Word - 1
      BY <1>1, <2>1, WordRange DEF SkipBlock
    <2> QED
      BY <1>1, <1>a, <2>2 DEF SkipBlock
  <1>2. CASE EnterBlock
    BY <1>2 DEF EnterBlock
  <1>3. CASE ReadPage
    <2>1. PageAddr(block, page) \in 0 .. NPages - 1
      BY Geometry DEF PageAddr
    <2> QED
      BY <1>3, <2>1, Geometry DEF ReadPage
  <1>4. CASE LeaveBlock
    BY <1>4, <1>a, Geometry DEF LeaveBlock
  <1>5. CASE Return
    BY <1>5 DEF Return
  <1>6. CASE UNCHANGED vars
    BY <1>6 DEF vars
  <1> QED
    BY <1>1, <1>2, <1>3, <1>4, <1>5, <1>6 DEF Next

(* The locals of nand_load stay in range: the block and offset counters    *)
(* are words, the page counter never passes the end of a block, and only   *)
(* pages of the chip are stored.                                           *)
THEOREM TypeCorrect == Spec => []TypeOK
  BY InitTypes, NextTypes, PTL DEF Spec, Steps

-----------------------------------------------------------------------------
(* What a request in scope gives *)

(* The request in blocks and pages. *)
LEMMA ScopeFacts ==
    ASSUME TypeOK, InScope
    PROVE  /\ req.ofs \in Nat /\ req.size \in Nat \ {0}
           /\ FirstBlock \in Nat /\ LastBlock \in Nat
           /\ FirstBlock <= LastBlock /\ LastBlock < NBlocks
           /\ StartPage \in 0 .. PagesPerBlock - 1
           /\ req.ofs = FirstBlock * EraseSize + (req.ofs % EraseSize)
           /\ req.ofs % EraseSize = StartPage * WriteSize
           /\ req.ofs % EraseSize \in 0 .. EraseSize - 1
           /\ (req.ofs + req.size - 1) % Word = req.ofs + req.size - 1
           /\ req.ofs \div WriteSize = FirstBlock * PagesPerBlock + StartPage
           /\ PagesAsked <= BlocksAsked * PagesPerBlock - StartPage
           /\ PagesAsked \in Nat
  <1> DEFINE o == req.ofs % EraseSize
             e == req.ofs + req.size - 1
  <1>1. /\ req.ofs \in Nat /\ req.size \in Nat \ {0}
        /\ req.ofs % WriteSize = 0
        /\ req.ofs + req.size <= NBlocks * EraseSize
    BY Geometry DEF TypeOK, InScope
  <1>2. e \in Nat /\ e < NBlocks * EraseSize /\ e < Word /\ req.ofs <= e
    BY <1>1, Geometry
  <1>3. /\ FirstBlock \in Nat
        /\ o \in 0 .. EraseSize - 1
        /\ req.ofs = EraseSize * FirstBlock + o
    BY <1>1, Geometry, DivMod DEF FirstBlock
  <1>4. /\ LastBlock \in Nat
        /\ e % EraseSize \in 0 .. EraseSize - 1
        /\ e = EraseSize * LastBlock + (e % EraseSize)
    BY <1>2, Geometry, DivMod DEF LastBlock
  <1>5. LastBlock < NBlocks
    BY <1>2, Geometry, DivBelow DEF LastBlock
  <1>6. StartPage \in 0 .. PagesPerBlock - 1
    BY <1>3, PageOfOffset DEF StartPage
  <1>7. FirstBlock <= LastBlock
    <2>1. SUFFICES ASSUME LastBlock + 1 <= FirstBlock PROVE FALSE
      BY <1>3, <1>4
    <2>2. (LastBlock + 1) * EraseSize <= FirstBlock * EraseSize
      BY <2>1, <1>3, <1>4, Geometry, MulMono
    <2>3. (LastBlock + 1) * EraseSize = EraseSize * LastBlock + EraseSize
      BY <1>4, Geometry
    <2>4. FirstBlock * EraseSize = EraseSize * FirstBlock
      BY <1>3, Geometry
    <2>5. EraseSize * LastBlock \in Nat /\ EraseSize * FirstBlock \in Nat
      BY <1>3, <1>4, Geometry
    <2> HIDE DEF e
    <2> QED
      BY <2>2, <2>3, <2>4, <2>5, <1>2, <1>3, <1>4, Geometry
  <1>8. PICK k \in Nat : req.ofs = k * WriteSize
    <2>1. /\ req.ofs \div WriteSize \in Nat
          /\ req.ofs = WriteSize * (req.ofs \div WriteSize) + (req.ofs % WriteSize)
      BY <1>1, Geometry, DivMod
    <2> DEFINE q == req.ofs \div WriteSize
    <2>2. q \in Nat /\ req.ofs = WriteSize * q + 0
      BY <2>1, <1>1
    <2> HIDE DEF q
    <2>3. req.ofs = q * WriteSize
      BY <2>2, Geometry
    <2> QED
      BY <2>2, <2>3
  <1>9. /\ k >= FirstBlock * PagesPerBlock
        /\ o = (k - FirstBlock * PagesPerBlock) * WriteSize
    <2>1. EraseSize * FirstBlock = (FirstBlock * PagesPerBlock) * WriteSize
      BY <1>3, Geometry
    <2> DEFINE f == FirstBlock * PagesPerBlock
    <2>2. f \in Nat
      BY <1>3, Geometry
    <2> HIDE DEF f
    <2>3. k * WriteSize = f * WriteSize + o
      BY <1>8, <1>3, <2>1 DEF f
    <2>4. ASSUME k + 1 <= f PROVE FALSE
      <3>1. (k + 1) * WriteSize <= f * WriteSize
        BY <2>4, <2>2, <1>8, Geometry, MulMono
      <3>2. (k + 1) * WriteSize = k * WriteSize + WriteSize
        BY <1>8, Geometry
      <3>3. k * WriteSize \in Nat /\ f * WriteSize \in Nat
        BY <1>8, <2>2, Geometry
      <3> QED
        BY <3>1, <3>2, <3>3, <2>3, <1>3, Geometry
    <2>5. k >= f
      BY <2>4, <2>2, <1>8
    <2>6. (k - f) * WriteSize = k * WriteSize - f * WriteSize
      BY <2>2, <1>8, Geometry
    <2>7. k * WriteSize \in Nat /\ f * WriteSize \in Nat
      BY <1>8, <2>2, Geometry
    <2> QED
      BY <2>3, <2>5, <2>6, <2>7, <1>3 DEF f
  <1>10. k - FirstBlock * PagesPerBlock \in Nat
    BY <1>8, <1>9, <1>3, Geometry
  <1>11. StartPage = k - FirstBlock * PagesPerBlock
    <2> DEFINE q == k - FirstBlock * PagesPerBlock
    <2>1. q \in Nat /\ o = q * WriteSize
      BY <1>9, <1>10
    <2> HIDE DEF q
    <2>2. 0 \in 0 .. WriteSize - 1
      BY Geometry
    <2>3. (q * WriteSize + 0) \div WriteSize = q
      BY <2>1, <2>2, Geometry, DivUnique
    <2>4. q * WriteSize + 0 = o
      BY <2>1, Geometry
    <2> QED
      BY <2>3, <2>4 DEF StartPage, q
  <1>12. req.ofs \div WriteSize = k
    <2>1. (k * WriteSize + 0) \div WriteSize = k
      BY <1>8, Geometry, DivUnique
    <2>2. k * WriteSize + 0 = req.ofs
      BY <1>8, Geometry
    <2> QED
      BY <2>1, <2>2
  <1>13. o = StartPage * WriteSize
    BY <1>9, <1>11
  <1>14. req.ofs = FirstBlock * EraseSize + o
    BY <1>3, Geometry
  <1>15. req.ofs \div WriteSize = FirstBlock * PagesPerBlock + StartPage
    BY <1>8, <1>11, <1>12, <1>3, Geometry
  <1>16. e % Word = e
    BY <1>2, Geometry
  <1>17. PagesAsked \in Nat /\ PagesAsked <= BlocksAsked * PagesPerBlock - StartPage
    <2> DEFINE m == BlocksAsked * PagesPerBlock - StartPage
               s == req.size + WriteSize - 1
    <2>1. BlocksAsked \in Nat /\ BlocksAsked >= 1
      BY <1>3, <1>4, <1>7 DEF BlocksAsked
    <2>2. BlocksAsked * PagesPerBlock >= PagesPerBlock
      BY <2>1, Geometry, MulMono
    <2>3. m \in Nat
      BY <2>1, <2>2, <1>6, Geometry
    <2>4. m * WriteSize = BlocksAsked * EraseSize - o
      <3>1. m * WriteSize = (BlocksAsked * PagesPerBlock) * WriteSize
                              - StartPage * WriteSize
        BY <2>1, <1>6, Geometry
      <3>2. (BlocksAsked * PagesPerBlock) * WriteSize = BlocksAsked * EraseSize
        BY <2>1, Geometry
      <3> QED
        BY <3>1, <3>2, <1>13
    <2>5. BlocksAsked * EraseSize
              = EraseSize * LastBlock - EraseSize * FirstBlock + EraseSize
      BY <1>3, <1>4, Geometry DEF BlocksAsked
    <2>6. req.size <= m * WriteSize
      <3>1. EraseSize * LastBlock \in Nat /\ EraseSize * FirstBlock \in Nat
        BY <1>3, <1>4, Geometry
      <3>2. req.size = e - req.ofs + 1
        BY <1>1
      <3> HIDE DEF e, m
      <3> QED
        BY <3>1, <3>2, <2>4, <2>5, <1>1, <1>2, <1>3, <1>4, Geometry
    <2>7. s \in Nat /\ s < (m + 1) * WriteSize
      <3>1. (m + 1) * WriteSize = m * WriteSize + WriteSize
        BY <2>3, Geometry
      <3>2. m * WriteSize \in Nat
        BY <2>3, Geometry
      <3> HIDE DEF m
      <3> QED
        BY <3>1, <3>2, <2>6, <1>1, Geometry
    <2>8. s \div WriteSize < m + 1 /\ s \div WriteSize \in Nat
      <3> HIDE DEF m, s
      <3>1. m + 1 \in Nat
        BY <2>3
      <3> QED
        BY <3>1, <2>7, Geometry, DivBelow, DivMod
    <2> QED
      BY <2>3, <2>8 DEF PagesAsked
  <1> QED
    BY <1>1, <1>3, <1>4, <1>5, <1>6, <1>7, <1>13, <1>14, <1>15, <1>16, <1>17

(* The good blocks from b on are finitely many, at most the chip's rest. *)
LEMMA GoodFromBound ==
    ASSUME NEW b \in Nat
    PROVE  /\ IsFiniteSet(GoodFrom(b))
           /\ Cardinality(GoodFrom(b)) \in Nat
           /\ GoodFrom(b) # {} => Cardinality(GoodFrom(b)) <= NBlocks - b
  <1>1. GoodFrom(b) \subseteq b .. NBlocks - 1
    BY Geometry DEF GoodFrom, GoodBlocks, Blocks
  <1>2. /\ IsFiniteSet(b .. NBlocks - 1)
        /\ Cardinality(b .. NBlocks - 1)
              = IF b > NBlocks - 1 THEN 0 ELSE NBlocks - 1 - b + 1
    BY Geometry, FS_Interval
  <1>3. /\ IsFiniteSet(GoodFrom(b))
        /\ Cardinality(GoodFrom(b)) <= Cardinality(b .. NBlocks - 1)
    BY <1>1, <1>2, FS_Subset
  <1>4. Cardinality(GoodFrom(b)) \in Nat
    BY <1>3, FS_CardinalityType
  <1>5. ASSUME GoodFrom(b) # {} PROVE b <= NBlocks - 1
    BY <1>5, <1>1, Geometry
  <1> QED
    BY <1>2, <1>3, <1>4, <1>5, Geometry

(* Passing a block takes it, if good, from the good blocks ahead. *)
LEMMA GoodFromStep ==
    ASSUME NEW b \in Nat
    PROVE  /\ b \notin GoodBlocks => GoodFrom(b + 1) = GoodFrom(b)
           /\ b \in GoodBlocks =>
                Cardinality(GoodFrom(b + 1)) = Cardinality(GoodFrom(b)) - 1
  <1>1. GoodBlocks \subseteq Nat
    BY Geometry DEF GoodBlocks, Blocks
  <1>2. GoodFrom(b + 1) = GoodFrom(b) \ {b}
    <2>1. \A c \in GoodBlocks : c >= b + 1 <=> (c >= b /\ c # b)
      BY <1>1
    <2> QED
      BY <2>1 DEF GoodFrom
  <1>3. CASE b \notin GoodBlocks
    BY <1>2, <1>3 DEF GoodFrom
  <1>4. CASE b \in GoodBlocks
    <2>1. b \in GoodFrom(b)
      BY <1>4 DEF GoodFrom
    <2> QED
      BY <1>2, <1>4, <2>1, GoodFromBound, FS_RemoveElement
  <1> QED
    BY <1>3, <1>4

(* While the loop has turns left, the chip has the blocks for them. *)
LEMMA BudgetRange ==
    ASSUME TypeOK, Budget, block <= lastblock
    PROVE  /\ block \in Blocks
           /\ lastblock < NBlocks
           /\ block \notin GoodBlocks => lastblock + 1 < NBlocks
           /\ lastblock + 1 < Word
           /\ block + 1 < Word \/ block + 1 = NBlocks
           /\ block + 1 <= NBlocks
  <1>1. block \in Nat /\ lastblock \in Nat
    BY Geometry DEF TypeOK
  <1>2. Cardinality(GoodFrom(block)) >= lastblock - block + 1
    BY DEF Budget
  <1>3. Cardinality(GoodFrom(block)) \in Nat
    BY <1>1, GoodFromBound
  <1>4. GoodFrom(block) # {}
    BY <1>1, <1>2, <1>3, FS_EmptySet
  <1>5. Cardinality(GoodFrom(block)) <= NBlocks - block
    BY <1>1, <1>4, GoodFromBound
  <1>6. ASSUME block \notin GoodBlocks PROVE lastblock + 1 < NBlocks
    <2>1. GoodFrom(block + 1) = GoodFrom(block)
      BY <1>1, <1>6, GoodFromStep
    <2>2. Cardinality(GoodFrom(block + 1)) <= NBlocks - (block + 1)
      BY <1>1, <1>4, <2>1, GoodFromBound
    <2> QED
      BY <1>1, <1>2, <1>3, <2>1, <2>2, Geometry
  <1> QED
    BY <1>1, <1>2, <1>3, <1>5, <1>6, Geometry DEF Blocks

(* In scope, the mark looked up at ofs is the mark of block. *)
LEMMA MarkOfBlock ==
    ASSUME TypeOK, InScope, Budget, Cursor, block <= lastblock
    PROVE  IsBad(ofs) <=> block \notin GoodBlocks
  <1>1. block \in Blocks /\ block \in Nat /\ block < NBlocks
    BY BudgetRange, Geometry DEF Blocks
  <1>2. ofs = block * EraseSize + (req.ofs % EraseSize)
    BY <1>1 DEF Cursor
  <1>3. CASE marked = {}
    BY <1>1, <1>3 DEF IsBad, GoodBlocks
  <1>4. CASE req.ofs % EraseSize = 0
    <2> DEFINE q == block * PagesPerBlock
    <2>1. q \in Nat /\ block * EraseSize = q * WriteSize
      BY <1>1, Geometry
    <2>2. 0 \in 0 .. PagesPerBlock - 1 /\ 0 \in 0 .. WriteSize - 1
      BY Geometry
    <2>3. /\ q + 0 \in BlockPages(block)
          /\ q + 0 \in 0 .. NPages - 1
      BY <1>1, <2>2, PageAddrExact
    <2>4. ofs \div WriteSize = q
      <3> HIDE DEF q
      <3>1. (q * WriteSize + 0) \div WriteSize = q
        BY <2>1, <2>2, Geometry, DivUnique
      <3>2. ofs = q * WriteSize + 0
        BY <1>2, <1>4, <2>1, Geometry
      <3> QED
        BY <3>1, <3>2
    <2>5. q % NPages = q
      <3>1. q \in 0 .. NPages - 1
        BY <2>1, <2>3
      <3> HIDE DEF q
      <3> QED
        BY <3>1, Geometry
    <2>6. IsBad(ofs) <=> q \in marked
      BY <2>4, <2>5 DEF IsBad
    <2>7. q \in BlockPages(block)
      BY <2>1, <2>3
    <2>8. ASSUME q \in marked PROVE block \notin GoodBlocks
      BY <2>7, <2>8 DEF GoodBlocks
    <2>9. ASSUME block \notin GoodBlocks PROVE q \in marked
      BY <1>1, <2>9 DEF InScope, FactoryMarked
    <2> QED
      BY <2>6, <2>8, <2>9
  <1> QED
    BY <1>3, <1>4 DEF InScope

-----------------------------------------------------------------------------
(* The inductive invariant of a load in scope *)

(* A usable page at or after block b is a page of a good block from b on. *)
LEMMA UsableFrom ==
    ASSUME NEW b \in Nat, NEW p \in UsablePages, p >= b * PagesPerBlock
    PROVE  \E c \in GoodFrom(b) : p \in BlockPages(c)
  <1>1. PICK c \in GoodBlocks : p \in BlockPages(c)
    BY DEF UsablePages
  <1>2. c \in Nat
    BY Geometry DEF GoodBlocks, Blocks
  <1>3. p \in Nat /\ p < (c + 1) * PagesPerBlock
    BY <1>1, <1>2, Geometry DEF BlockPages
  <1>4. ASSUME c + 1 <= b PROVE FALSE
    <2>1. (c + 1) * PagesPerBlock <= b * PagesPerBlock
      BY <1>2, <1>4, Geometry, MulMono
    <2> QED
      BY <2>1, <1>2, <1>3, Geometry
  <1> QED
    BY <1>1, <1>2, <1>4 DEF GoodFrom

(* The page expected next is a number. *)
LEMMA ExpectedNat ==
    ASSUME TypeOK, InScope
    PROVE  Expected \in Nat
  <1>1. CASE image = <<>>
    <2>1. FirstBlock \in Nat /\ StartPage \in Nat
      BY ScopeFacts, Geometry
    <2>2. FirstBlock * PagesPerBlock + StartPage \in Nat
      BY <2>1, Geometry
    <2> QED
      BY <1>1, <2>2 DEF Expected
  <1>2. CASE image # <<>>
    <2>1. image \in Seq(0 .. NPages - 1)
      BY DEF TypeOK
    <2>2. Len(image) \in 1 .. Len(image)
      BY <1>2, <2>1
    <2>3. image[Len(image)] \in Nat
      BY <2>1, <2>2, Geometry
    <2> QED
      BY <1>2, <2>3 DEF Expected
  <1> QED
    BY <1>1, <1>2

(* The locals and what the request asks, as numbers. *)
LEMMA Numbers ==
    ASSUME TypeOK, InScope
    PROVE  /\ block \in Nat /\ lastblock \in Nat
           /\ page \in 0 .. PagesPerBlock /\ page \in Nat
           /\ BlocksAsked \in Nat /\ StartPage \in Nat
  <1>1. block \in Nat /\ lastblock \in Nat
    BY Geometry DEF TypeOK
  <1>2. page \in 0 .. PagesPerBlock /\ page \in Nat
    BY Geometry DEF TypeOK
  <1>3. StartPage \in Nat
    BY ScopeFacts, Geometry
  <1>4. BlocksAsked \in Nat
    <2>1. FirstBlock \in Nat /\ LastBlock \in Nat /\ FirstBlock <= LastBlock
      BY ScopeFacts
    <2> QED
      BY <2>1 DEF BlocksAsked
  <1> QED
    BY <1>1, <1>2, <1>3, <1>4

(* The request and the marks are fixed, and what is defined from them. *)
LEMMA FixedPart ==
    ASSUME UNCHANGED <<req, marked>>
    PROVE  /\ InScope' <=> InScope
           /\ UsablePages' = UsablePages
           /\ GoodBlocks' = GoodBlocks
           /\ BlocksAsked' = BlocksAsked
           /\ StartPage' = StartPage
           /\ FirstBlock' = FirstBlock
           /\ PagesAsked' = PagesAsked
           /\ \A b \in Nat : GoodFrom(b)' = GoodFrom(b)
  BY DEF InScope, FactoryMarked, UsablePages, GoodBlocks, GoodFrom,
         BlocksAsked, StartPage, FirstBlock, LastBlock, PagesAsked

(* The invariant holds when nand_load is entered. *)
LEMMA InitLoadInv ==
    Init /\ InScope => LoadInv
  <1> SUFFICES ASSUME Init, InScope PROVE LoadInv
    OBVIOUS
  <1>1. TypeOK
    BY InitTypes
  <1>2. /\ block = FirstBlock
        /\ lastblock = LastBlock
        /\ page = StartPage
        /\ ofs = req.ofs
        /\ pc = "test"
        /\ image = <<>>
    BY <1>1, ScopeFacts DEF Init, LoadArgs, FirstBlock, LastBlock, StartPage
  <1>3. lastblock - block + 1 = BlocksAsked
    BY <1>2 DEF BlocksAsked
  <1>4. Budget
    BY <1>2, <1>3 DEF Budget, InScope
  <1>5. StartPage # 0 => marked = {}
    <2>1. CASE req.ofs % EraseSize = 0
      <3>1. 0 \div WriteSize = 0
        BY Geometry
      <3> QED
        BY <2>1, <3>1 DEF StartPage
    <2> QED
      BY <2>1 DEF InScope
  <1>6. Cursor
    <2>1. /\ FirstBlock \in Nat /\ LastBlock \in Nat
          /\ FirstBlock <= LastBlock
          /\ StartPage \in 0 .. PagesPerBlock - 1
      BY <1>1, ScopeFacts
    <2>2. req.ofs = FirstBlock * EraseSize + (req.ofs % EraseSize)
      BY <1>1, ScopeFacts
    <2>3. block <= lastblock + 1 /\ block <= lastblock /\ page < PagesPerBlock
      BY <1>2, <2>1, Geometry
    <2> QED
      BY <1>2, <1>5, <2>2, <2>3 DEF Cursor
  <1>7. NoGap
    <2>1. Expected = block * PagesPerBlock + page
      BY <1>2 DEF Expected
    <2>2. Expected \in Nat
      BY <1>1, <2>1, Geometry DEF TypeOK
    <2> QED
      BY <2>1, <2>2 DEF NoGap
  <1>8. Stored
    <2>1. BlocksAsked - (lastblock - block + 1) = 0
      BY <1>1, <1>3, ScopeFacts DEF BlocksAsked
    <2>2. 0 * PagesPerBlock + page - StartPage = 0
      BY <1>1, <1>2, Geometry DEF TypeOK
    <2> QED
      BY <1>2, <2>1, <2>2 DEF Stored
  <1> QED
    BY <1>1, <1>4, <1>6, <1>7, <1>8 DEF LoadInv

(* ofs keeps up with block while blocks of the chip remain. *)
LEMMA OfsStep ==
    ASSUME TypeOK, InScope, Cursor, NextBlock, block + 1 < NBlocks
    PROVE  ofs' = (block + 1) * EraseSize + (req.ofs % EraseSize)
  <1> DEFINE o == req.ofs % EraseSize
  <1>0. block \in Nat
    BY Geometry DEF TypeOK
  <1>1. ofs = block * EraseSize + o /\ o \in 0 .. EraseSize - 1
    BY <1>0, ScopeFacts, Geometry DEF Cursor
  <1>2. (block + 2) * EraseSize <= NBlocks * EraseSize
    BY <1>0, Geometry, MulMono
  <1> HIDE DEF o
  <1>3. /\ (block + 2) * EraseSize = block * EraseSize + EraseSize + EraseSize
        /\ (block + 1) * EraseSize = block * EraseSize + EraseSize
        /\ block * EraseSize \in Nat
    BY <1>0, Geometry
  <1>4. ofs + EraseSize < Word /\ ofs + EraseSize \in Nat
    BY <1>1, <1>2, <1>3, Geometry
  <1>5. ofs' = ofs + EraseSize
    BY <1>4, Geometry DEF NextBlock
  <1>6. ofs + EraseSize = (block + 1) * EraseSize + o
    BY <1>1, <1>3, Geometry
  <1> QED
    BY <1>5, <1>6 DEF o

(* A skipped block takes no turn from the budget and no page from the      *)
(* image.                                                                  *)
LEMMA SkipBlockInv ==
    ASSUME LoadInv, SkipBlock
    PROVE  Budget' /\ Cursor' /\ NoGap' /\ Stored'
  <1>1. /\ TypeOK /\ InScope /\ Budget /\ Cursor /\ NoGap /\ Stored
        /\ pc = "test" /\ block <= lastblock
        /\ UNCHANGED <<req, marked>>
        /\ pc' = "test" /\ page' = page /\ image' = image
    BY DEF LoadInv, SkipBlock
  <1>2. block \notin GoodBlocks
    BY <1>1, MarkOfBlock DEF SkipBlock
  <1>3. /\ block \in Blocks /\ block \in Nat /\ lastblock \in Nat
        /\ lastblock + 1 < NBlocks /\ block + 1 <= NBlocks
        /\ block + 1 < Word /\ lastblock + 1 < Word
    BY <1>1, <1>2, BudgetRange, Geometry DEF TypeOK
  <1>4. block' = block + 1 /\ lastblock' = lastblock + 1
    BY <1>3, Geometry DEF SkipBlock, NextBlock
  <1>5. page = 0
    <2>1. marked # {}
      BY <1>2, <1>3 DEF GoodBlocks
    <2> QED
      BY <1>1, <2>1 DEF Cursor
  <1>6. Budget'
    <2>1. GoodFrom(block + 1) = GoodFrom(block)
      BY <1>2, <1>3, GoodFromStep
    <2>3. Cardinality(GoodFrom(block))' = Cardinality(GoodFrom(block))
      BY <1>1, <1>4, <2>1 DEF GoodFrom, GoodBlocks
    <2>4. Cardinality(GoodFrom(block)) >= lastblock - block + 1
      BY <1>1 DEF Budget
    <2>5. lastblock' - block' + 1 = lastblock - block + 1
      BY <1>3, <1>4
    <2> QED
      BY <2>3, <2>4, <2>5 DEF Budget
  <1>7. Cursor'
    <2>1. ASSUME block + 1 < NBlocks
          PROVE  ofs' = (block + 1) * EraseSize + (req.ofs % EraseSize)
      BY <1>1, <1>3, <2>1, OfsStep DEF SkipBlock
    <2>2. block' <= lastblock' + 1
      BY <1>1, <1>3, <1>4
    <2> QED
      BY <1>1, <1>4, <1>5, <2>1, <2>2, Geometry DEF Cursor
  <1>8. NoGap'
    <2>1. Expected' = Expected
      BY <1>1 DEF Expected, FirstBlock, StartPage
    <2>2. /\ Expected <= block * PagesPerBlock
          /\ \A p \in UsablePages : p >= Expected => p >= block * PagesPerBlock
      BY <1>1, <1>3, <1>5, Geometry DEF NoGap
    <2>3. ASSUME NEW p \in UsablePages, p >= block * PagesPerBlock
          PROVE  p >= (block + 1) * PagesPerBlock
      <3>1. PICK c \in GoodFrom(block) : p \in BlockPages(c)
        BY <1>3, <2>3, UsableFrom
      <3>2. c \in Nat /\ c >= block + 1
        BY <3>1, <1>2, <1>3, Geometry DEF GoodFrom, GoodBlocks, Blocks
      <3>3. (block + 1) * PagesPerBlock <= c * PagesPerBlock
        BY <1>3, <3>2, Geometry, MulMono
      <3>4. p \in Nat /\ p >= c * PagesPerBlock
        BY <3>1, <3>2, Geometry DEF BlockPages
      <3> QED
        BY <1>3, <3>2, <3>3, <3>4, Geometry
    <2>4. Expected <= (block + 1) * PagesPerBlock
      <3>1. Expected \in Nat
        BY <1>1, ExpectedNat
      <3>2. block * PagesPerBlock <= (block + 1) * PagesPerBlock
        BY <1>3, Geometry, MulMono
      <3> QED
        BY <2>2, <3>1, <3>2, <1>3, Geometry
    <2>5. (block + 1) * PagesPerBlock + 0 = (block + 1) * PagesPerBlock
      BY <1>3, Geometry
    <2> QED
      BY <1>1, <1>4, <1>5, <2>1, <2>2, <2>3, <2>4, <2>5, FixedPart DEF NoGap
  <1>9. Stored'
    <2>1. lastblock' - block' + 1 = lastblock - block + 1
      BY <1>3, <1>4
    <2> QED
      BY <1>1, <2>1, FixedPart DEF Stored
  <1> QED
    BY <1>6, <1>7, <1>8, <1>9

(* A page is read from the place the loop stands at. *)
LEMMA ReadPageInv ==
    ASSUME LoadInv, ReadPage
    PROVE  /\ Budget' /\ Cursor' /\ NoGap' /\ Stored'
           /\ PageAddr(block, page) = block * PagesPerBlock + page
           /\ PageAddr(block, page) \in UsablePages
  <1> DEFINE c == block * PagesPerBlock + page
  <1>1. /\ TypeOK /\ InScope /\ Budget /\ Cursor /\ NoGap /\ Stored
        /\ pc = "pages" /\ page < PagesPerBlock
        /\ UNCHANGED <<req, marked>>
        /\ pc' = "pages" /\ page' = page + 1
        /\ block' = block /\ lastblock' = lastblock /\ ofs' = ofs
    BY DEF LoadInv, ReadPage
  <1>2. block \in GoodBlocks /\ block <= lastblock
    BY <1>1 DEF Cursor
  <1>3. /\ block \in Blocks /\ block \in Nat /\ lastblock \in Nat
        /\ page \in 0 .. PagesPerBlock - 1 /\ page \in Nat
    BY <1>1, <1>2, BudgetRange, Geometry DEF TypeOK
  <1>4. PageAddr(block, page) = c /\ c \in BlockPages(block) /\ c \in Nat
    BY <1>3, PageAddrExact, Geometry
  <1>5. c \in UsablePages
    BY <1>2, <1>4 DEF UsablePages
  <1>6. image' = Append(image, c)
    BY <1>4 DEF ReadPage
  <1>7. image \in Seq(UsablePages)
    BY <1>1 DEF Stored
  <1> HIDE DEF c
  <1>8. /\ image' \in Seq(UsablePages)
        /\ Len(image') = Len(image) + 1
        /\ image' # <<>>
        /\ image'[Len(image')] = c
    BY <1>5, <1>6, <1>7
  <1>9. Budget'
    BY <1>1 DEF Budget, GoodFrom, GoodBlocks
  <1>10. Cursor'
    BY <1>1, FixedPart DEF Cursor
  <1>11. NoGap'
    <2>1. Expected' = c + 1
      BY <1>8 DEF Expected
    <2>2. block' * PagesPerBlock + page' = c + 1
      BY <1>1, <1>3, Geometry DEF c
    <2> QED
      BY <1>4, <2>1, <2>2 DEF NoGap
  <1>12. Stored'
    <2> DEFINE m == (BlocksAsked - (lastblock - block + 1)) * PagesPerBlock
    <2>1. m \in Int /\ StartPage \in Nat
      BY <1>1, <1>3, ScopeFacts, Geometry DEF BlocksAsked
    <2>2. m' = m
      BY <1>1, FixedPart
    <2> HIDE DEF m
    <2>3. Len(image) = m + page - StartPage
      BY <1>1 DEF Stored, m
    <2>4. Len(image') = m + page' - StartPage
      BY <2>1, <2>3, <1>1, <1>3, <1>8
    <2> QED
      BY <2>2, <2>4, <1>1, <1>8, FixedPart DEF Stored, m
  <1> QED
    BY <1>4, <1>5, <1>9, <1>10, <1>11, <1>12 DEF c

(* A block read to its end takes one turn from the budget. *)
LEMMA LeaveBlockInv ==
    ASSUME LoadInv, LeaveBlock
    PROVE  Budget' /\ Cursor' /\ NoGap' /\ Stored'
  <1>1. /\ TypeOK /\ InScope /\ Budget /\ Cursor /\ NoGap /\ Stored
        /\ pc = "pages" /\ page >= PagesPerBlock
        /\ UNCHANGED <<req, marked>>
        /\ pc' = "test" /\ page' = 0
        /\ lastblock' = lastblock /\ image' = image
        /\ NextBlock
    BY DEF LoadInv, LeaveBlock
  <1>2. block \in GoodBlocks /\ block <= lastblock
    BY <1>1 DEF Cursor
  <1>3. /\ block \in Blocks /\ block \in Nat /\ lastblock \in Nat
        /\ block + 1 <= NBlocks /\ block + 1 < Word
        /\ page = PagesPerBlock
    BY <1>1, <1>2, BudgetRange, Geometry DEF TypeOK
  <1>4. block' = block + 1
    BY <1>1, <1>3, Geometry DEF NextBlock
  <1>5. (block + 1) * PagesPerBlock + 0 = block * PagesPerBlock + page
    BY <1>3, Geometry
  <1>6. Budget'
    <2>1. Cardinality(GoodFrom(block + 1)) = Cardinality(GoodFrom(block)) - 1
      BY <1>2, <1>3, GoodFromStep
    <2>2. Cardinality(GoodFrom(block))' = Cardinality(GoodFrom(block + 1))
      BY <1>1, <1>4 DEF GoodFrom, GoodBlocks
    <2>3. Cardinality(GoodFrom(block)) >= lastblock - block + 1
      BY <1>1, <1>2 DEF Budget
    <2>4. Cardinality(GoodFrom(block)) \in Nat
      BY <1>3, GoodFromBound
    <2> QED
      BY <1>1, <1>3, <1>4, <2>1, <2>2, <2>3, <2>4 DEF Budget
  <1>7. Cursor'
    <2>1. ASSUME block + 1 < NBlocks
          PROVE  ofs' = (block + 1) * EraseSize + (req.ofs % EraseSize)
      BY <1>1, <2>1, OfsStep
    <2>2. block' <= lastblock' + 1
      BY <1>1, <1>2, <1>3, <1>4
    <2> QED
      BY <1>1, <1>4, <2>1, <2>2, Geometry DEF Cursor
  <1>8. NoGap'
    <2>1. Expected' = Expected
      BY <1>1 DEF Expected, FirstBlock, StartPage
    <2>2. block' * PagesPerBlock + page' = block * PagesPerBlock + page
      BY <1>1, <1>4, <1>5
    <2> QED
      BY <1>1, <2>1, <2>2, FixedPart DEF NoGap
  <1>9. Stored'
    <2> DEFINE d == BlocksAsked - (lastblock - block + 1)
    <2>1. d \in Int /\ StartPage \in Nat /\ BlocksAsked \in Int
      BY <1>1, <1>3, ScopeFacts DEF BlocksAsked
    <2>2. BlocksAsked - (lastblock - (block + 1) + 1) = d + 1
      BY <1>3, <2>1
    <2>3. (d + 1) * PagesPerBlock + 0 = d * PagesPerBlock + page
      <3> HIDE DEF d
      <3> QED
        BY <1>3, <2>1, Geometry
    <2>4. BlocksAsked' - (lastblock' - block' + 1) = d + 1
      BY <1>1, <1>4, <2>2, FixedPart
    <2>5. Len(image) = d * PagesPerBlock + page - StartPage
      BY <1>1 DEF Stored
    <2> HIDE DEF d
    <2>6. Len(image) = (d + 1) * PagesPerBlock + 0 - StartPage
      BY <2>1, <2>3, <2>5, <1>3, Geometry
    <2>7. /\ Len(image') = (d + 1) * PagesPerBlock + page' - StartPage'
          /\ image' \in Seq(UsablePages')
      BY <1>1, <2>6, FixedPart DEF Stored
    <2> QED
      BY <2>4, <2>7 DEF Stored
  <1> QED
    BY <1>6, <1>7, <1>8, <1>9

(* No step changes the request or the marks. *)
LEMMA Fixed ==
    [Next]_vars => UNCHANGED <<req, marked>>
  BY DEF Next, vars, SkipBlock, EnterBlock, ReadPage, LeaveBlock, Return

(* Every step of a load in scope keeps the invariant. *)
LEMMA NextLoadInv ==
    LoadInv /\ [Next]_vars => LoadInv'
  <1> SUFFICES ASSUME LoadInv, [Next]_vars PROVE LoadInv'
    OBVIOUS
  <1>1. TypeOK'
    BY NextTypes DEF LoadInv
  <1>2. UNCHANGED <<req, marked>>
    BY DEF Next, vars, SkipBlock, EnterBlock, ReadPage, LeaveBlock, Return
  <1>3. InScope'
    BY <1>2, FixedPart DEF LoadInv
  <1>4. Budget' /\ Cursor' /\ NoGap' /\ Stored'
    <2>1. CASE SkipBlock
      BY <2>1, SkipBlockInv
    <2>2. CASE EnterBlock
      <3>1. /\ TypeOK /\ InScope /\ Budget /\ Cursor /\ NoGap /\ Stored
            /\ block <= lastblock /\ ~IsBad(ofs) /\ pc' = "pages"
            /\ UNCHANGED <<req, marked, block, lastblock, page, ofs, image>>
        BY <2>2 DEF LoadInv, EnterBlock
      <3>2. block \in GoodBlocks
        BY <3>1, MarkOfBlock
      <3>3. Budget'
        BY <3>1 DEF Budget, GoodFrom, GoodBlocks
      <3>4. Cursor'
        BY <3>1, <3>2, FixedPart DEF Cursor
      <3>5. NoGap'
        BY <3>1, FixedPart DEF NoGap, Expected
      <3>6. Stored'
        BY <3>1, FixedPart DEF Stored
      <3> QED
        BY <3>3, <3>4, <3>5, <3>6
    <2>3. CASE ReadPage
      BY <2>3, ReadPageInv
    <2>4. CASE LeaveBlock
      BY <2>4, LeaveBlockInv
    <2>5. CASE Return
      <3>1. /\ TypeOK /\ InScope /\ Budget /\ Cursor /\ NoGap /\ Stored
            /\ block > lastblock /\ pc' = "done"
            /\ UNCHANGED <<req, marked, block, lastblock, page, ofs, image>>
        BY <2>5 DEF LoadInv, Return
      <3>2. Budget'
        BY <3>1 DEF Budget, GoodFrom, GoodBlocks
      <3>3. Cursor'
        <4>1. ~(block <= lastblock)
          BY <3>1, Numbers
        <4> QED
          BY <3>1, <4>1, FixedPart DEF Cursor
      <3>4. NoGap'
        BY <3>1, FixedPart DEF NoGap, Expected
      <3>5. Stored'
        BY <3>1, FixedPart DEF Stored
      <3> QED
        BY <3>2, <3>3, <3>4, <3>5
    <2>6. CASE UNCHANGED vars
      <3>1. UNCHANGED <<req, marked, pc, block, lastblock, page, ofs, image>>
        BY <2>6 DEF vars
      <3>2. Budget'
        BY <3>1 DEF LoadInv, Budget, GoodFrom, GoodBlocks
      <3>3. Cursor'
        BY <3>1, FixedPart DEF LoadInv, Cursor
      <3>4. NoGap'
        BY <3>1, FixedPart DEF LoadInv, NoGap, Expected
      <3>5. Stored'
        BY <3>1, FixedPart DEF LoadInv, Stored
      <3> QED
        BY <3>2, <3>3, <3>4, <3>5
    <2> QED
      BY <2>1, <2>2, <2>3, <2>4, <2>5, <2>6 DEF Next
  <1> QED
    BY <1>1, <1>3, <1>4 DEF LoadInv

-----------------------------------------------------------------------------
(* The theorems *)

(* A load in scope keeps the invariant, whatever the scheduling. *)
LEMMA StepsKeepInv == Steps => []ScopedLoadInv
  <1>1. Init => ScopedLoadInv
    BY InitLoadInv DEF ScopedLoadInv
  <1>2. ScopedLoadInv /\ [Next]_vars => ScopedLoadInv'
    <2> SUFFICES ASSUME ScopedLoadInv, [Next]_vars, InScope'
                 PROVE  LoadInv'
      BY DEF ScopedLoadInv
    <2>1. InScope
      BY Fixed, FixedPart
    <2> QED
      BY <2>1, NextLoadInv DEF ScopedLoadInv
  <1> QED
    BY <1>1, <1>2, PTL DEF Steps

(* A load in scope keeps its inductive invariant: the budget of good       *)
(* blocks, ofs in step with block, no usable page left behind, and exactly *)
(* the pages stored that the turns of the loop taken so far store.         *)
THEOREM LoadInvariant == Spec => []ScopedLoadInv
  BY StepsKeepInv, PTL DEF Spec

(* No page of a bad block reaches memory. *)
THEOREM NoBadPageLoaded == Spec => []NoBadPage
  <1>1. ScopedLoadInv => NoBadPage
    BY DEF ScopedLoadInv, LoadInv, Stored, NoBadPage
  <1> QED
    BY <1>1, LoadInvariant, PTL

(* The block read is the block whose mark was looked up, and it is good. *)
THEOREM ScanMatches == Spec => []ScanMatchesRead
  <1>1. ScopedLoadInv => ScanMatchesRead
    <2> SUFFICES ASSUME LoadInv, pc = "pages"
                 PROVE  ofs \div EraseSize = block /\ block \in GoodBlocks
      BY DEF ScopedLoadInv, ScanMatchesRead
    <2>1. TypeOK /\ InScope /\ Budget /\ Cursor
      BY DEF LoadInv
    <2>2. block <= lastblock /\ block \in GoodBlocks
      BY <2>1 DEF Cursor
    <2>3. block \in Nat /\ block < NBlocks
      BY <2>1, <2>2, BudgetRange, Geometry DEF Blocks
    <2> DEFINE o == req.ofs % EraseSize
    <2>4. ofs = block * EraseSize + o
      BY <2>1, <2>3 DEF Cursor
    <2>5. o \in 0 .. EraseSize - 1
      BY <2>1, ScopeFacts
    <2> HIDE DEF o
    <2>6. ofs \div EraseSize = block
      BY <2>3, <2>4, <2>5, Geometry, DivUnique
    <2> QED
      BY <2>2, <2>6
  <1> QED
    BY <1>1, LoadInvariant, PTL

(* What a load in scope stores never passes the blocks the request touches. *)
THEOREM StoresBounded == Spec => [](InScope => StoreBounded)
  <1>1. LoadInv => StoreBounded
    <2> SUFFICES ASSUME LoadInv PROVE StoreBounded
      OBVIOUS
    <2> DEFINE r == lastblock - block + 1
               b == BlocksAsked
    <2>1. TypeOK /\ InScope /\ Cursor /\ Stored
      BY DEF LoadInv
    <2>2. /\ r \in Nat /\ b \in Nat /\ page \in 0 .. PagesPerBlock
          /\ StartPage \in Nat
      BY <2>1, Numbers DEF Cursor
    <2>3. r = 0 => page = 0
      BY <2>1, Numbers DEF Cursor
    <2>4. Len(image) = (b - r) * PagesPerBlock + page - StartPage
      BY <2>1 DEF Stored
    <2>5. /\ ((req.ofs + req.size - 1) % Word) \div EraseSize = LastBlock
          /\ LastBlock - FirstBlock + 1 = b
      BY <2>1, ScopeFacts DEF LastBlock, BlocksAsked
    <2> HIDE DEF r, b
    <2>6. (b - r) * PagesPerBlock + page <= b * PagesPerBlock
      <3>1. (b - r) * PagesPerBlock = b * PagesPerBlock - r * PagesPerBlock
        BY <2>2, Geometry
      <3>2. page <= r * PagesPerBlock
        <4>1. CASE r = 0
          BY <4>1, <2>3, Geometry
        <4>2. CASE r >= 1
          <5>1. 1 * PagesPerBlock <= r * PagesPerBlock
            BY <4>2, <2>2, Geometry, MulMono
          <5> QED
            BY <5>1, <2>2, Geometry
        <4> QED
          BY <4>1, <4>2, <2>2
      <3>3. b * PagesPerBlock \in Nat /\ r * PagesPerBlock \in Nat
        BY <2>2, Geometry
      <3> QED
        BY <3>1, <3>2, <3>3, <2>2, Geometry
    <2>7. Len(image) <= b * PagesPerBlock - StartPage
      <3>1. (b - r) * PagesPerBlock \in Int /\ b * PagesPerBlock \in Int
        BY <2>2, Geometry
      <3> QED
        BY <3>1, <2>2, <2>4, <2>6, Geometry
    <2> QED
      BY <2>5, <2>7 DEF StoreBounded
  <1>2. ScopedLoadInv => (InScope => StoreBounded)
    BY <1>1 DEF ScopedLoadInv
  <1> QED
    BY <1>2, LoadInvariant, PTL

(* The steps of a load in scope are those of the abstract one. *)
LEMMA StepsLoadImage == Steps => DeliversImage
  <1>1. Init => Image!Init
    BY DEF Init, Image!Init
  <1>2. LoadInv /\ [Next]_vars => [Image!Next]_(Image!vars)
    <2> SUFFICES ASSUME LoadInv, [Next]_vars
                 PROVE  [Image!Next]_(Image!vars)
      OBVIOUS
    <2>1. /\ TypeOK /\ InScope /\ Cursor /\ NoGap /\ Stored
      BY DEF LoadInv
    <2>2. UNCHANGED <<req, marked>>
      BY DEF Next, vars, SkipBlock, EnterBlock, ReadPage, LeaveBlock, Return
    <2>3. UNCHANGED <<UsablePages, req.ofs \div WriteSize, PagesAsked>>
      BY <2>2, FixedPart
    <2>4. req.ofs \div WriteSize = FirstBlock * PagesPerBlock + StartPage
      BY <2>1, ScopeFacts
    <2>5. CASE ReadPage
      <3> DEFINE p == PageAddr(block, page)
      <3>1. p = block * PagesPerBlock + page /\ p \in UsablePages
        BY <2>5, ReadPageInv
      <3>2. Image!NextPage(p)
        BY <3>1, <2>1, <2>4 DEF Image!NextPage, Image!FirstFrom, NoGap, Expected
      <3>3. image' = Append(image, p) /\ pc = "pages" /\ pc' = "pages"
        BY <2>5 DEF ReadPage
      <3>4. Image!Deliver
        BY <3>1, <3>2, <3>3, <2>3 DEF Image!Deliver
      <3> QED
        BY <3>4 DEF Image!Next
    <2>6. CASE Return
      <3>1. /\ pc = "test" /\ pc' = "done" /\ block > lastblock
            /\ image' = image
        BY <2>6 DEF Return
      <3>2. /\ BlocksAsked \in Int /\ page \in Nat /\ StartPage \in Nat
            /\ block \in Nat /\ lastblock \in Nat
        BY <2>1, Numbers
      <3>3. lastblock - block + 1 = 0
        BY <3>1, <3>2, <2>1 DEF Cursor
      <3>4. Len(image) = (BlocksAsked - 0) * PagesPerBlock + page - StartPage
        BY <3>3, <2>1 DEF Stored
      <3>5. BlocksAsked * PagesPerBlock \in Int /\ BlocksAsked - 0 = BlocksAsked
        BY <3>2, Geometry
      <3>6. PagesAsked <= BlocksAsked * PagesPerBlock - StartPage /\ PagesAsked \in Nat
        BY <2>1, ScopeFacts
      <3>7. Len(image) >= PagesAsked
        BY <3>2, <3>4, <3>5, <3>6
      <3> QED
        BY <3>1, <3>7, <2>3 DEF Image!Next, Image!Return
    <2>7. CASE SkipBlock \/ EnterBlock \/ LeaveBlock \/ UNCHANGED vars
      <3>1. image' = image /\ ((pc' = "done") = (pc = "done"))
        BY <2>7 DEF SkipBlock, EnterBlock, LeaveBlock, vars
      <3> QED
        BY <3>1, <2>3 DEF Image!vars
    <2> QED
      BY <2>5, <2>6, <2>7 DEF Next
  <1>3. ScopedLoadInv /\ [Next]_vars => [InScope => Image!Next]_(Image!vars)
    BY <1>2 DEF ScopedLoadInv
  <1> QED
    BY <1>1, <1>3, StepsKeepInv, PTL DEF Steps, DeliversImage

(* A load in scope delivers the image: page after page in the order a      *)
(* skip-bad writer stored them, and all that were asked before it returns. *)
THEOREM LoadsImage == Spec => DeliversImage
  BY StepsLoadImage, PTL DEF Spec

-----------------------------------------------------------------------------
(* Requests out of scope: what bounds the stores of a load nobody checked. *)

(* The blocks the request touches: none if its end is before its start. *)
Asked == ((req.ofs + req.size - 1) % Word) \div EraseSize - FirstBlock + 1

(* A good block comes by at least once in NBlocks turns, so that all that  *)
(* were asked are found before the count of blocks leaves the word.        *)
CountFits == FirstBlock + Asked * NBlocks < Word

(* What the scan finds in its turn n: ofs wraps, and so does the chip. *)
LooksBad(n) == IsBad((req.ofs + n * EraseSize) % Word)

Turn == block - FirstBlock
Taken == Asked - (lastblock - block + 1)

(* Loads that store nothing: no block ever looks good, or none is asked. *)
NothingGood ==
    /\ \A n \in Nat : LooksBad(n)
    /\ image = <<>> /\ pc # "pages"
    /\ \E n \in Nat : ofs = (req.ofs + n * EraseSize) % Word

NothingAsked == image = <<>> /\ pc # "pages" /\ block > lastblock

(* The others: the bad blocks since the last good one, from turn m on, are *)
(* fewer than a chip has.                                                  *)
Counted ==
    /\ \E n \in Nat : ~LooksBad(n)
    /\ Turn \in Nat /\ ofs = (req.ofs + Turn * EraseSize) % Word
    /\ Taken \in 0 .. Asked
    /\ Taken = Asked => page = 0
    /\ Len(image) = Taken * PagesPerBlock + page - StartPage
    /\ pc = "pages" => block <= lastblock
    /\ \E m \in 0 .. Turn : m <= Taken * NBlocks /\ \A j \in m .. Turn - 1 : LooksBad(j)

BoundInv == TypeOK /\ (CountFits => NothingGood \/ NothingAsked \/ Counted)

(* The word holds a whole number of chips, as sizes of memories do. *)
WholeChips == Word % (NBlocks * EraseSize) = 0

LEMMA ModShift ==
    ASSUME NEW a \in Nat, NEW k \in Nat, NEW d \in Nat \ {0}
    PROVE  (a + k * d) % d = a % d
  <1>1. a \div d \in Nat /\ a % d \in 0 .. d - 1 /\ a = d * (a \div d) + (a % d)
    BY DivMod
  <1> DEFINE q == a \div d
             r == a % d
  <1>2. a + k * d = (q + k) * d + r
    BY <1>1
  <1>3. q + k \in Nat /\ r \in 0 .. d - 1
    BY <1>1
  <1> HIDE DEF q, r
  <1>4. ((q + k) * d + r) % d = r
    BY <1>3, DivUnique
  <1> QED
    BY <1>2, <1>4 DEF r

LEMMA ModPlus ==
    ASSUME NEW a \in Nat, NEW b \in Nat, NEW d \in Nat \ {0}
    PROVE  ((a % d) + b) % d = (a + b) % d
  <1> DEFINE q == a \div d
             r == a % d
  <1>1. q \in Nat /\ r \in Nat /\ a = d * q + r
    BY DivMod
  <1> HIDE DEF q, r
  <1>2. a + b = (r + b) + q * d /\ r + b \in Nat
    BY <1>1
  <1>3. ((r + b) + q * d) % d = (r + b) % d
    BY <1>1, <1>2, ModShift
  <1> QED
    BY <1>2, <1>3 DEF r

LEMMA DivPlus ==
    ASSUME NEW a \in Nat, NEW k \in Nat, NEW d \in Nat \ {0}
    PROVE  (a + k * d) \div d = (a \div d) + k
  <1> DEFINE q == a \div d
             r == a % d
  <1>1. q \in Nat /\ r \in 0 .. d - 1 /\ a = d * q + r
    BY DivMod
  <1> HIDE DEF q, r
  <1>2. a + k * d = (q + k) * d + r /\ q + k \in Nat
    BY <1>1
  <1>3. ((q + k) * d + r) \div d = q + k
    BY <1>1, <1>2, DivUnique
  <1> QED
    BY <1>2, <1>3 DEF q

(* A word of whole chips: an offset that wraps still names its page. *)
LEMMA PageOfWrapped ==
    ASSUME WholeChips, NEW x \in Nat
    PROVE  ((x % Word) \div WriteSize) % NPages = (x \div WriteSize) % NPages
  <1> DEFINE chip == NBlocks * EraseSize
             c == Word \div chip
             q == x \div Word
             r == x % Word
  <1>1. chip \in Nat \ {0} /\ chip = NPages * WriteSize
    BY Geometry DEF NPages
  <1>2. c \in Nat /\ Word = chip * c
    <2>1. Word % chip = 0
      BY DEF WholeChips
    <2> HIDE DEF chip
    <2>2. Word \in Nat
      BY Geometry
    <2>3. Word \div chip \in Nat /\ Word = chip * (Word \div chip) + (Word % chip)
      BY <1>1, <2>2, DivMod
    <2> QED
      BY <1>1, <2>1, <2>3
  <1>3. q \in Nat /\ r \in Nat /\ x = Word * q + r
    BY Geometry, DivMod
  <1> HIDE DEF chip, c, q, r
  <1>4. x = r + (q * c * NPages) * WriteSize /\ q * c * NPages \in Nat
    <2>1. Word * q = (q * c * NPages) * WriteSize
      BY <1>1, <1>2, <1>3, Geometry
    <2> QED
      BY <2>1, <1>2, <1>3, Geometry
  <1>5. x \div WriteSize = (r \div WriteSize) + (q * c) * NPages
    <2> DEFINE k == q * c * NPages
    <2>1. k \in Nat /\ x = r + k * WriteSize /\ k = (q * c) * NPages
      BY <1>4
    <2> HIDE DEF k
    <2>2. (r + k * WriteSize) \div WriteSize = (r \div WriteSize) + k
      BY <1>3, <2>1, Geometry, DivPlus
    <2> QED
      BY <2>1, <2>2
  <1>6. r \div WriteSize \in Nat /\ q * c \in Nat
    <2>1. r \div WriteSize \in Nat
      BY <1>3, Geometry, DivMod
    <2> QED
      BY <2>1, <1>2, <1>3
  <1>7. ((r \div WriteSize) + (q * c) * NPages) % NPages = (r \div WriteSize) % NPages
    BY <1>6, Geometry, ModShift
  <1> QED
    BY <1>5, <1>7 DEF r

(* What the scan sees comes around with the chip. *)
LEMMA ComesAround ==
    ASSUME WholeChips, req.ofs \in Nat, NEW n \in Nat, NEW k \in Nat
    PROVE  LooksBad(n + k * NBlocks) <=> LooksBad(n)
  <1> DEFINE x == req.ofs + n * EraseSize
             y == req.ofs + (n + k * NBlocks) * EraseSize
  <1>1. n * EraseSize \in Nat /\ k * NBlocks \in Nat /\ (n + k * NBlocks) * EraseSize \in Nat
    BY Geometry
  <1>2. x \in Nat /\ y \in Nat
    BY <1>1
  <1>3. y = x + (k * NPages) * WriteSize
    <2>1. (n + k * NBlocks) * EraseSize = n * EraseSize + (k * NBlocks) * (PagesPerBlock * WriteSize)
      BY Geometry
    <2>2. (k * NBlocks) * (PagesPerBlock * WriteSize) = (k * (NBlocks * PagesPerBlock)) * WriteSize
      BY Geometry
    <2> QED
      BY <2>1, <2>2, <1>1, Geometry DEF NPages
  <1> HIDE DEF x, y
  <1>4. y \div WriteSize = (x \div WriteSize) + k * NPages
    <2>1. k * NPages \in Nat
      BY Geometry
    <2> QED
      BY <1>2, <1>3, <2>1, Geometry, DivPlus
  <1>5. (y \div WriteSize) % NPages = (x \div WriteSize) % NPages
    <2>1. x \div WriteSize \in Nat
      BY <1>2, Geometry, DivMod
    <2> QED
      BY <1>4, <2>1, Geometry, ModShift
  <1>6. /\ ((x % Word) \div WriteSize) % NPages = (x \div WriteSize) % NPages
        /\ ((y % Word) \div WriteSize) % NPages = (y \div WriteSize) % NPages
    BY <1>2, PageOfWrapped
  <1> QED
    BY <1>5, <1>6 DEF LooksBad, IsBad, x, y

(* As many bad blocks in a row as a chip has are all there are. *)
LEMMA AllBad ==
    ASSUME WholeChips, req.ofs \in Nat, NEW m \in Nat,
           \A j \in m .. m + NBlocks - 1 : LooksBad(j), NEW n \in Nat
    PROVE  LooksBad(n)
  <1> DEFINE s == n + m * NBlocks
             k == (s - m) \div NBlocks
             j == m + ((s - m) % NBlocks)
  <1>1. s \in Nat /\ s - m \in Nat
    <2>1. m <= m * NBlocks /\ m * NBlocks \in Nat
      BY Geometry
    <2> QED
      BY <2>1
  <1>2. k \in Nat /\ j \in m .. m + NBlocks - 1 /\ s = j + k * NBlocks
    <2> DEFINE d == s - m
    <2>1. d \in Nat /\ NBlocks \in Nat \ {0}
      BY <1>1, Geometry
    <2> HIDE DEF d
    <2>2. d \div NBlocks \in Nat /\ d % NBlocks \in 0 .. NBlocks - 1
          /\ d = NBlocks * (d \div NBlocks) + (d % NBlocks)
      BY <2>1, DivMod
    <2>3. k = d \div NBlocks /\ j = m + (d % NBlocks) /\ s = d + m
      BY <1>1 DEF d
    <2> HIDE DEF k, j, s
    <2> QED
      BY <2>1, <2>2, <2>3
  <1> HIDE DEF s, k, j
  <1>3. LooksBad(j) /\ j \in Nat
    BY <1>2
  <1>4. LooksBad(s)
    BY <1>2, <1>3, ComesAround
  <1> QED
    BY <1>4, ComesAround DEF s

(* Before the blocks asked for are all found, another turn stays in the    *)
(* word, and not later than a chip after the last good block.              *)
LEMMA TurnsFit ==
    ASSUME WholeChips, TypeOK, CountFits, Counted, block <= lastblock
    PROVE  /\ Turn + 1 <= (Taken + 1) * NBlocks
           /\ block + 1 < Word /\ lastblock + 1 < Word
           /\ FirstBlock \in Nat /\ Asked \in Int /\ Taken + 1 <= Asked
           /\ Turn \in Nat /\ Taken \in Nat /\ req.ofs \in Nat
  <1>1. /\ req.ofs \in Nat /\ block \in Nat /\ lastblock \in Nat
        /\ (req.ofs + req.size - 1) % Word \in Nat
    BY Geometry DEF TypeOK
  <1>2. FirstBlock \in Nat /\ Asked \in Int
    <2>1. req.ofs \div EraseSize \in Nat /\ ((req.ofs + req.size - 1) % Word) \div EraseSize \in Nat
      BY <1>1, Geometry, DivMod
    <2> QED
      BY <2>1 DEF FirstBlock, Asked
  <1>3. Turn \in Nat /\ Taken \in Nat /\ Taken + 1 <= Asked
    BY <1>1, <1>2 DEF Counted, Taken
  <1>4. PICK m \in 0 .. Turn : m <= Taken * NBlocks /\ \A j \in m .. Turn - 1 : LooksBad(j)
    BY DEF Counted
  <1>5. Turn <= m + NBlocks - 1
    <2> SUFFICES ASSUME Turn >= m + NBlocks PROVE FALSE
      BY <1>3, <1>4, Geometry
    <2>1. \A j \in m .. m + NBlocks - 1 : LooksBad(j)
      BY <1>3, <1>4, Geometry
    <2>2. \A n \in Nat : LooksBad(n)
      BY <2>1, <1>1, <1>3, <1>4, AllBad
    <2> QED
      BY <2>2 DEF Counted
  <1> DEFINE t == Taken
             a == Asked
             p == t * NBlocks
             f == FirstBlock
  <1>6. p \in Nat /\ (t + 1) * NBlocks = p + NBlocks
    BY <1>3, Geometry
  <1>7. Turn + 1 <= p + NBlocks
    BY <1>3, <1>4, <1>5, <1>6, Geometry
  <1>8. a * NBlocks >= p + NBlocks + (a - t - 1)
    <2>1. (a - t - 1) * NBlocks >= a - t - 1
      BY <1>2, <1>3, Geometry
    <2>2. a * NBlocks = p + NBlocks + (a - t - 1) * NBlocks
      BY <1>2, <1>3, Geometry
    <2> QED
      BY <2>1, <2>2, <1>2, <1>3, <1>6, Geometry
  <1>9. block = f + Turn /\ lastblock = f + Turn + a - t - 1
    BY <1>1, <1>2 DEF Turn, Taken
  <1>10. f + a * NBlocks < Word /\ a * NBlocks \in Int
    BY <1>2, Geometry DEF CountFits
  <1> HIDE DEF t, a, p, f
  <1> QED
    <2>1. t \in Nat /\ a \in Int /\ f \in Nat /\ t + 1 <= a
      BY <1>2, <1>3 DEF t, a, f
    <2>2. block + 1 < Word /\ lastblock + 1 < Word
      BY <2>1, <1>3, <1>6, <1>7, <1>8, <1>9, <1>10, Geometry
    <2> QED
      BY <2>1, <2>2, <1>1, <1>2, <1>3, <1>6, <1>7 DEF t, a, f

LEMMA InWord ==
    ASSUME NEW x \in Nat, x < Word
    PROVE  x % Word = x
  <1>1. (0 * Word + x) % Word = x
    BY Geometry, DivUnique
  <1>2. 0 * Word + x = x
    BY Geometry
  <1> QED
    BY <1>1, <1>2

LEMMA BoundFixed ==
    ASSUME UNCHANGED <<req, marked>>
    PROVE  /\ Asked' = Asked /\ FirstBlock' = FirstBlock /\ StartPage' = StartPage
           /\ CountFits' <=> CountFits
           /\ \A n : LooksBad(n)' <=> LooksBad(n)
  BY DEF Asked, FirstBlock, StartPage, CountFits, LooksBad, IsBad

(* The offset of turn n + 1 is a block further than that of turn n. *)
LEMMA NextOffset ==
    ASSUME req.ofs \in Nat, NEW n \in Nat
    PROVE  (((req.ofs + n * EraseSize) % Word) + EraseSize) % Word
             = (req.ofs + (n + 1) * EraseSize) % Word
  <1> DEFINE x == req.ofs + n * EraseSize
  <1>1. x \in Nat /\ req.ofs + (n + 1) * EraseSize = x + EraseSize
    BY Geometry
  <1> HIDE DEF x
  <1>2. ((x % Word) + EraseSize) % Word = (x + EraseSize) % Word
    BY <1>1, Geometry, ModPlus
  <1> QED
    BY <1>1, <1>2 DEF x

LEMMA InitBound ==
    Init => BoundInv
  <1> SUFFICES ASSUME Init PROVE BoundInv
    OBVIOUS
  <1>1. TypeOK
    BY InitTypes
  <1>2. /\ req.ofs \in Nat /\ req.ofs < Word /\ block \in Nat /\ lastblock \in Nat
        /\ image = <<>> /\ pc = "test" /\ ofs = req.ofs
    BY <1>1, Geometry DEF Init, LoadArgs, TypeOK
  <1>3. /\ block = FirstBlock /\ page = StartPage /\ page \in Nat
        /\ Asked = lastblock - FirstBlock + 1
    BY <1>1 DEF Init, LoadArgs, FirstBlock, StartPage, Asked, TypeOK
  <1>4. Turn = 0 /\ Taken = 0 /\ Asked \in Int
    BY <1>2, <1>3 DEF Turn, Taken
  <1>5. ofs = (req.ofs + 0 * EraseSize) % Word
    <2>1. req.ofs % Word = req.ofs
      BY <1>2, Geometry
    <2> QED
      BY <2>1, <1>2, Geometry
  <1>6. CASE \A n \in Nat : LooksBad(n)
    BY <1>1, <1>2, <1>5, <1>6 DEF BoundInv, NothingGood
  <1>7. CASE Asked <= 0
    BY <1>1, <1>2, <1>3, <1>7 DEF BoundInv, NothingAsked
  <1>8. CASE (\E n \in Nat : ~LooksBad(n)) /\ Asked > 0
    <2>1. Len(image) = Taken * PagesPerBlock + page - StartPage
      <3>1. Len(image) = 0 /\ 0 * PagesPerBlock = 0
        BY <1>2, Geometry
      <3> QED
        BY <3>1, <1>3, <1>4
    <2>2. \E m \in 0 .. Turn : m <= Taken * NBlocks /\ \A j \in m .. Turn - 1 : LooksBad(j)
      <3>1. 0 \in 0 .. Turn /\ 0 <= Taken * NBlocks /\ 0 .. Turn - 1 = {}
        BY <1>4, Geometry
      <3> QED
        BY <3>1
    <2>3. Taken \in 0 .. Asked /\ Taken # Asked
      BY <1>4, <1>8
    <2> QED
      BY <1>1, <1>2, <1>4, <1>5, <1>8, <2>1, <2>2, <2>3 DEF BoundInv, Counted
  <1> QED
    BY <1>4, <1>6, <1>7, <1>8

LEMMA NothingGoodStep ==
    ASSUME TypeOK, NothingGood, Next, UNCHANGED <<req, marked>>
    PROVE  NothingGood'
  <1>1. req.ofs \in Nat
    BY Geometry DEF TypeOK
  <1>2. PICK n \in Nat : ofs = (req.ofs + n * EraseSize) % Word
    BY DEF NothingGood
  <1>3. IsBad(ofs) /\ image = <<>> /\ pc # "pages"
    BY <1>2 DEF NothingGood, LooksBad
  <1>4. \A k \in Nat : LooksBad(k)'
    BY BoundFixed DEF NothingGood
  <1>5. CASE SkipBlock
    <2>1. ofs' = (ofs + EraseSize) % Word /\ image' = <<>> /\ pc' # "pages"
      BY <1>3, <1>5 DEF SkipBlock, NextBlock
    <2>2. ofs' = (req.ofs + (n + 1) * EraseSize) % Word
      BY <1>1, <1>2, <2>1, NextOffset
    <2> QED
      BY <1>4, <2>1, <2>2 DEF NothingGood
  <1>6. CASE Return
    BY <1>2, <1>3, <1>4, <1>6 DEF Return, NothingGood
  <1> QED
    BY <1>3, <1>5, <1>6 DEF Next, EnterBlock, ReadPage, LeaveBlock

LEMMA CountedStep ==
    ASSUME WholeChips, TypeOK, CountFits, Counted, Next, UNCHANGED <<req, marked>>
    PROVE  Counted'
  <1>1. /\ Asked' = Asked /\ FirstBlock' = FirstBlock /\ StartPage' = StartPage
        /\ \A n \in Nat : LooksBad(n)' <=> LooksBad(n)
    BY BoundFixed
  <1>2. /\ block \in Nat /\ lastblock \in Nat /\ page \in 0 .. PagesPerBlock
        /\ image \in Seq(0 .. NPages - 1)
    BY Geometry DEF TypeOK
  <1>3. (\E n \in Nat : ~LooksBad(n))'
    BY <1>1 DEF Counted
  <1>4. PICK m \in 0 .. Turn : m <= Taken * NBlocks /\ \A j \in m .. Turn - 1 : LooksBad(j)
    BY DEF Counted
  <1>5. /\ Turn \in Nat /\ ofs = (req.ofs + Turn * EraseSize) % Word
        /\ Taken \in 0 .. Asked /\ (Taken = Asked => page = 0)
        /\ Len(image) = Taken * PagesPerBlock + page - StartPage
        /\ pc = "pages" => block <= lastblock
    BY DEF Counted
  <1>6. ASSUME block' = block, lastblock' = lastblock, ofs' = ofs
        PROVE  /\ Turn' = Turn /\ Taken' = Taken
               /\ (Turn \in Nat /\ ofs = (req.ofs + Turn * EraseSize) % Word)'
               /\ (\E k \in 0 .. Turn : k <= Taken * NBlocks /\ \A j \in k .. Turn - 1 : LooksBad(j))'
    <2>1. Turn' = Turn /\ Taken' = Taken
      BY <1>1, <1>6 DEF Turn, Taken
    <2>2. \A j \in m .. Turn - 1 : LooksBad(j)'
      BY <1>1, <1>4, <1>5
    <2> QED
      BY <1>4, <1>5, <1>6, <2>1, <2>2
  <1>7. CASE SkipBlock
    <2>1. /\ block <= lastblock /\ IsBad(ofs) /\ page' = page /\ image' = image /\ pc' = pc
          /\ lastblock' = (lastblock + 1) % Word
          /\ block' = (block + 1) % Word /\ ofs' = (ofs + EraseSize) % Word
      BY <1>7 DEF SkipBlock, NextBlock
    <2>2. /\ block + 1 < Word /\ lastblock + 1 < Word /\ FirstBlock \in Nat
          /\ req.ofs \in Nat /\ Taken \in Nat /\ Asked \in Int
      BY <2>1, TurnsFit
    <2>3. block' = block + 1 /\ lastblock' = lastblock + 1
      <3>1. (block + 1) % Word = block + 1 /\ (lastblock + 1) % Word = lastblock + 1
        BY <1>2, <2>2, InWord
      <3> QED
        BY <2>1, <3>1
    <2>4. Turn' = Turn + 1 /\ Taken' = Taken
      BY <1>1, <1>2, <2>2, <2>3 DEF Turn, Taken
    <2>5. ofs' = (req.ofs + (Turn + 1) * EraseSize) % Word
      BY <1>5, <2>1, <2>2, NextOffset
    <2>6. LooksBad(Turn)
      BY <1>5, <2>1 DEF LooksBad
    <2>7. \A j \in m .. Turn : LooksBad(j)'
      <3>1. \A j \in m .. Turn : LooksBad(j)
        BY <1>4, <1>5, <2>6
      <3> QED
        BY <1>1, <1>5, <3>1
    <2>8. (\E k \in 0 .. Turn : k <= Taken * NBlocks /\ \A j \in k .. Turn - 1 : LooksBad(j))'
      <3>1. m \in 0 .. Turn' /\ m <= Taken' * NBlocks /\ \A j \in m .. Turn' - 1 : LooksBad(j)'
        BY <1>4, <1>5, <2>4, <2>7
      <3> QED
        BY <3>1
    <2>9. pc' # "pages"
      BY <1>7 DEF SkipBlock
    <2> QED
      BY <1>1, <1>3, <1>5, <2>1, <2>4, <2>5, <2>8, <2>9 DEF Counted
  <1>8. CASE EnterBlock
    <2>1. /\ block' = block /\ lastblock' = lastblock /\ ofs' = ofs /\ page' = page
          /\ image' = image /\ block <= lastblock /\ req' = req
      BY <1>8 DEF EnterBlock
    <2> QED
      BY <1>1, <1>3, <1>5, <1>6, <2>1 DEF Counted
  <1>9. CASE ReadPage
    <2>1. /\ block' = block /\ lastblock' = lastblock /\ ofs' = ofs /\ page' = page + 1
          /\ block <= lastblock /\ pc' = pc /\ image' = Append(image, PageAddr(block, page))
      BY <1>5, <1>9 DEF ReadPage
    <2>2. Len(image') = Len(image) + 1
      BY <1>2, <2>1
    <2>3. Taken # Asked
      BY <2>1, TurnsFit
    <2>4. StartPage \in Int /\ Taken * PagesPerBlock \in Int
      <3>1. req.ofs \in Nat
        BY <2>1, TurnsFit
      <3>2. req.ofs % EraseSize \in 0 .. EraseSize - 1
        BY <3>1, Geometry, DivMod
      <3>3. StartPage \in Nat
        BY <3>2, PageOfOffset, Geometry DEF StartPage
      <3> QED
        BY <1>5, <3>3, Geometry
    <2>5. Len(image') = Taken * PagesPerBlock + page' - StartPage
      BY <1>2, <1>5, <2>1, <2>2, <2>4
    <2>6. Turn' = Turn /\ Taken' = Taken
      BY <1>6, <2>1
    <2> QED
      BY <1>1, <1>3, <1>5, <1>6, <2>1, <2>3, <2>5, <2>6 DEF Counted
  <1>10. CASE LeaveBlock
    <2>1. /\ block <= lastblock /\ page = PagesPerBlock /\ page' = 0 /\ image' = image
          /\ lastblock' = lastblock /\ pc' = "test"
          /\ block' = (block + 1) % Word /\ ofs' = (ofs + EraseSize) % Word
      BY <1>2, <1>5, <1>10, Geometry DEF LeaveBlock, NextBlock
    <2>2. /\ block + 1 < Word /\ FirstBlock \in Nat /\ Asked \in Int /\ Taken + 1 <= Asked
          /\ req.ofs \in Nat /\ Taken \in Nat /\ Turn + 1 <= (Taken + 1) * NBlocks
      BY <2>1, TurnsFit
    <2>3. block' = block + 1
      <3>1. (block + 1) % Word = block + 1
        BY <1>2, <2>2, InWord
      <3> QED
        BY <2>1, <3>1
    <2>4. Turn' = Turn + 1 /\ Taken' = Taken + 1
      BY <1>1, <1>2, <2>1, <2>2, <2>3 DEF Turn, Taken
    <2>5. ofs' = (req.ofs + (Turn + 1) * EraseSize) % Word
      BY <1>5, <2>1, <2>2, NextOffset
    <2>6. (\E k \in 0 .. Turn : k <= Taken * NBlocks /\ \A j \in k .. Turn - 1 : LooksBad(j))'
      <3>1. Turn + 1 \in 0 .. Turn' /\ Turn + 1 <= Taken' * NBlocks /\ (Turn + 1) .. Turn' - 1 = {}
        BY <1>5, <2>2, <2>4
      <3> QED
        BY <3>1
    <2>7. Len(image') = (Taken + 1) * PagesPerBlock + 0 - StartPage
      <3>1. (Taken + 1) * PagesPerBlock = Taken * PagesPerBlock + PagesPerBlock
        BY <2>2, Geometry
      <3>2. Taken * PagesPerBlock \in Int
        BY <2>2, Geometry
      <3>3. StartPage \in Int
        <4>1. req.ofs % EraseSize \in 0 .. EraseSize - 1
          BY <2>2, Geometry, DivMod
        <4> QED
          BY <4>1, PageOfOffset, Geometry DEF StartPage
      <3>4. Len(image') = Taken * PagesPerBlock + PagesPerBlock - StartPage
        BY <1>5, <2>1
      <3> QED
        BY <3>1, <3>2, <3>3, <3>4, Geometry
    <2> QED
      BY <1>1, <1>3, <1>5, <2>1, <2>2, <2>4, <2>5, <2>6, <2>7 DEF Counted
  <1>11. CASE Return
    <2>1. /\ block' = block /\ lastblock' = lastblock /\ ofs' = ofs /\ page' = page
          /\ image' = image /\ pc' = "done" /\ req' = req
      BY <1>11 DEF Return
    <2> QED
      BY <1>1, <1>3, <1>5, <1>6, <2>1 DEF Counted
  <1> QED
    BY <1>7, <1>8, <1>9, <1>10, <1>11 DEF Next

LEMMA NextBound ==
    ASSUME WholeChips
    PROVE  BoundInv /\ [Next]_vars => BoundInv'
  <1> SUFFICES ASSUME BoundInv, [Next]_vars PROVE BoundInv'
    OBVIOUS
  <1>1. TypeOK /\ TypeOK'
    BY NextTypes DEF BoundInv
  <1>2. UNCHANGED <<req, marked>>
    BY Fixed
  <1>3. SUFFICES ASSUME CountFits PROVE (NothingGood \/ NothingAsked \/ Counted)'
    BY <1>1, <1>2, BoundFixed DEF BoundInv
  <1>4. CASE UNCHANGED vars
    <2>1. /\ Asked' = Asked /\ FirstBlock' = FirstBlock /\ StartPage' = StartPage
          /\ \A n \in Nat : LooksBad(n)' <=> LooksBad(n)
      BY <1>2, BoundFixed
    <2>2. UNCHANGED <<req, marked, pc, block, lastblock, page, ofs, image>>
      BY <1>4 DEF vars
    <2>3. Turn' = Turn /\ Taken' = Taken
      BY <2>1, <2>2 DEF Turn, Taken
    <2>4. NothingGood => NothingGood'
      BY <2>1, <2>2 DEF NothingGood
    <2>5. NothingAsked => NothingAsked'
      BY <2>2 DEF NothingAsked
    <2>6. Counted => Counted'
      <3> SUFFICES ASSUME Counted PROVE Counted'
        OBVIOUS
      <3>1. PICK m \in 0 .. Turn : m <= Taken * NBlocks /\ \A j \in m .. Turn - 1 : LooksBad(j)
        BY DEF Counted
      <3>2. Turn \in Nat
        BY DEF Counted
      <3>3. \A j \in m .. Turn - 1 : LooksBad(j)'
        BY <2>1, <3>1, <3>2
      <3>4. (\E k \in 0 .. Turn : k <= Taken * NBlocks /\ \A j \in k .. Turn - 1 : LooksBad(j))'
        BY <2>3, <3>1, <3>3
      <3>5. (\E n \in Nat : ~LooksBad(n))'
        BY <2>1 DEF Counted
      <3> QED
        BY <2>1, <2>2, <2>3, <3>4, <3>5 DEF Counted
    <2> QED
      BY <1>3, <2>4, <2>5, <2>6 DEF BoundInv
  <1>5. CASE Next
    <2>1. CASE NothingGood
      BY <1>1, <1>2, <1>5, <2>1, NothingGoodStep
    <2>2. CASE NothingAsked
      <3>1. pc # "pages" /\ block > lastblock /\ image = <<>>
        BY <2>2 DEF NothingAsked
      <3>2. block \in Int /\ lastblock \in Int
        BY <1>1 DEF TypeOK
      <3>3. Return
        BY <1>5, <3>1, <3>2 DEF Next, SkipBlock, EnterBlock, ReadPage, LeaveBlock
      <3> QED
        BY <3>1, <3>3 DEF Return, NothingAsked
    <2>3. CASE Counted
      BY <1>1, <1>2, <1>3, <1>5, <2>3, CountedStep
    <2> QED
      BY <1>3, <2>1, <2>2, <2>3 DEF BoundInv
  <1> QED
    BY <1>4, <1>5

(* The memory any load writes is bounded by its request, in scope or not:  *)
(* marks anywhere, a start inside a block, an end past the chip or before  *)
(* the start, no good block at all.  What it takes is that the chip, gone  *)
(* through once for every block asked for, keeps the count of blocks in a  *)
(* word: nand_load has no other limit, and stores more when it leaves it.  *)
THEOREM StoresBoundedAnywhere ==
    ASSUME WholeChips
    PROVE  Spec => [](CountFits => StoreBounded)
  <1>1. BoundInv => (CountFits => StoreBounded)
    <2> SUFFICES ASSUME BoundInv, CountFits, image # <<>> PROVE StoreBounded
      BY DEF StoreBounded
    <2>1. TypeOK /\ Counted
      BY DEF BoundInv, NothingGood, NothingAsked
    <2> DEFINE t == Taken
               a == Asked
    <2>2. /\ t \in Nat /\ a \in Int /\ t <= a /\ page \in 0 .. PagesPerBlock
          /\ (t = a => page = 0)
          /\ Len(image) = t * PagesPerBlock + page - StartPage
      <3>1. req.ofs \in Nat /\ (req.ofs + req.size - 1) % Word \in Nat
        BY <2>1, Geometry DEF TypeOK
      <3>2. req.ofs \div EraseSize \in Nat /\ ((req.ofs + req.size - 1) % Word) \div EraseSize \in Nat
        BY <3>1, Geometry, DivMod
      <3>3. a \in Int
        BY <3>2 DEF Asked, FirstBlock
      <3> QED
        BY <2>1, <3>3 DEF Counted, TypeOK
    <2>3. StartPage \in Nat
      <3>1. req.ofs \in Nat
        BY <2>1, Geometry DEF TypeOK
      <3>2. req.ofs % EraseSize \in 0 .. EraseSize - 1
        BY <3>1, Geometry, DivMod
      <3> QED
        BY <3>2, PageOfOffset, Geometry DEF StartPage
    <2> HIDE DEF t, a
    <2>4. t * PagesPerBlock + page <= a * PagesPerBlock
      <3>1. CASE t = a
        BY <2>2, <3>1, Geometry
      <3>2. CASE t + 1 <= a
        <4>1. (t + 1) * PagesPerBlock <= a * PagesPerBlock
          BY <2>2, <3>2, Geometry, MulMono
        <4>2. (t + 1) * PagesPerBlock = t * PagesPerBlock + PagesPerBlock
          BY <2>2, Geometry
        <4> QED
          BY <2>2, <4>1, <4>2, Geometry
      <3> QED
        BY <2>2, <3>1, <3>2
    <2>5. Len(image) <= a * PagesPerBlock - StartPage
      BY <2>2, <2>3, <2>4, Geometry
    <2> QED
      BY <2>5 DEF StoreBounded, a, Asked
  <1>2. Init => BoundInv
    BY InitBound
  <1>3. BoundInv /\ [Next]_vars => BoundInv'
    BY NextBound
  <1> QED
    BY <1>1, <1>2, <1>3, PTL DEF Spec, Steps

=============================================================================
