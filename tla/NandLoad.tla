------------------------------ MODULE NandLoad ------------------------------
(***************************************************************************)
(* nand_load() of src/boot/nand.c: read an image from NAND flash into      *)
(* memory, leaving out the blocks that carry a bad-block mark.             *)
(*                                                                         *)
(* The chip is external: it has NBlocks blocks of EraseSize bytes, each of *)
(* EraseSize \div WriteSize pages, and a set of pages whose spare area     *)
(* holds a bad-block mark.  Its address register holds as many bits as the *)
(* chip has pages, so a page address is taken modulo the number of pages.  *)
(* The loader computes with unsigned 32-bit integers: Word stands for      *)
(* 2^32, so that overflow happens in a small instance too.                 *)
(*                                                                         *)
(* The three calls under nand_load, nand_block_isbad, nand_read_page and   *)
(* the command functions they use, succeed in one step here; what they do  *)
(* on the bus is the subject of module NandBus.                            *)
(***************************************************************************)
EXTENDS Integers, Sequences, FiniteSets

CONSTANTS
    WriteSize,    \* chip->writesize, bytes in a page
    EraseSize,    \* chip->erasesize, bytes in a block
    NBlocks,      \* blocks of the chip
    Word,         \* 2^32 for the program, the modulus of its u32 arithmetic
    Requests,     \* the (ofs, size) pairs nand_load may be called with
    MarkSets      \* the sets of marked pages a chip may come with

PagesPerBlock == EraseSize \div WriteSize
NPages == NBlocks * PagesPerBlock

ASSUME GeometryAssumption ==
    /\ WriteSize \in Nat \ {0}
    /\ EraseSize \in Nat \ {0}
    /\ NBlocks \in Nat \ {0}
    /\ Word \in Nat \ {0}
    /\ PagesPerBlock \in Nat \ {0}
    /\ EraseSize = PagesPerBlock * WriteSize
    /\ NBlocks * EraseSize < Word

ASSUME RequestAssumption ==
    /\ Requests \subseteq [ofs : 0 .. Word - 1, size : 0 .. Word - 1]
    /\ MarkSets \subseteq SUBSET (0 .. NPages - 1)

VARIABLES
    req,        \* the arguments of the call, fixed
    marked,     \* the pages with a bad-block mark, fixed
    pc,         \* "test" at the while, "pages" in the inner loop, "done"
    block, lastblock, page, ofs,   \* the locals of nand_load
    image       \* the flash pages stored at the destination, in order

vars == <<req, marked, pc, block, lastblock, page, ofs, image>>

-----------------------------------------------------------------------------

(* A slip: the block number where a page number is due. *)
IsBadSlip(b) == ((b \div EraseSize) % NPages) \in marked

(* omap_nand_block_bad: the mark is looked up in the page that holds byte  *)
(* b of the flash, wherever in its block that page is.                     *)
IsBad(b) == ((b \div WriteSize) % NPages) \in marked

(* nand_read_page: the chip page read for page p of block b. *)
PageAddr(b, p) == (p + b * PagesPerBlock) % NPages

LoadArgs(r) ==
    /\ block = r.ofs \div EraseSize
    /\ lastblock = ((r.ofs + r.size - 1) % Word) \div EraseSize
    /\ page = (r.ofs % EraseSize) \div WriteSize
    /\ ofs = r.ofs

Init ==
    /\ req \in Requests
    /\ marked \in MarkSets
    /\ LoadArgs(req)
    /\ pc = "test"
    /\ image = <<>>

(* A slip: ofs moves on by a page. *)
NextBlockSlip ==
    /\ block' = (block + 1) % Word
    /\ ofs' = (ofs + WriteSize) % Word

(* The end of the while body: block++; ofs += chip->erasesize. *)
NextBlock ==
    /\ block' = (block + 1) % Word
    /\ ofs' = (ofs + EraseSize) % Word

(* A slip: lastblock stays. *)
SkipBlockShort ==
    /\ pc = "test"
    /\ block <= lastblock
    /\ IsBad(ofs)
    /\ NextBlock
    /\ UNCHANGED <<req, marked, pc, lastblock, page, image>>

(* A slip: ofs stays. *)
SkipBlockStuck ==
    /\ pc = "test"
    /\ block <= lastblock
    /\ IsBad(ofs)
    /\ lastblock' = (lastblock + 1) % Word
    /\ block' = (block + 1) % Word
    /\ UNCHANGED <<req, marked, pc, page, ofs, image>>

(* The block is marked bad: one more block has to be looked at. *)
SkipBlock ==
    /\ pc = "test"
    /\ block <= lastblock
    /\ IsBad(ofs)
    /\ lastblock' = (lastblock + 1) % Word
    /\ NextBlock
    /\ UNCHANGED <<req, marked, pc, page, image>>

EnterBlock ==
    /\ pc = "test"
    /\ block <= lastblock
    /\ ~IsBad(ofs)
    /\ pc' = "pages"
    /\ UNCHANGED <<req, marked, block, lastblock, page, ofs, image>>

(* A slip: one page too many. *)
ReadPageSlip ==
    /\ pc = "pages"
    /\ page <= PagesPerBlock
    /\ image' = Append(image, PageAddr(block, page))
    /\ page' = page + 1
    /\ UNCHANGED <<req, marked, pc, block, lastblock, ofs>>

(* nand_read_page(chip, block, page, dst); dst += writesize; page++ *)
ReadPage ==
    /\ pc = "pages"
    /\ page < PagesPerBlock
    /\ image' = Append(image, PageAddr(block, page))
    /\ page' = page + 1
    /\ UNCHANGED <<req, marked, pc, block, lastblock, ofs>>

(* A slip: page is not reset. *)
LeaveBlockKeepsPage ==
    /\ pc = "pages"
    /\ page >= PagesPerBlock
    /\ NextBlock
    /\ pc' = "test"
    /\ UNCHANGED <<req, marked, lastblock, page, image>>

(* A slip: lastblock is moved for every block. *)
LeaveBlockExtends ==
    /\ pc = "pages"
    /\ page >= PagesPerBlock
    /\ page' = 0
    /\ NextBlock
    /\ lastblock' = (lastblock + 1) % Word
    /\ pc' = "test"
    /\ UNCHANGED <<req, marked, image>>

LeaveBlock ==
    /\ pc = "pages"
    /\ page >= PagesPerBlock
    /\ page' = 0
    /\ NextBlock
    /\ pc' = "test"
    /\ UNCHANGED <<req, marked, lastblock, image>>

Return ==
    /\ pc = "test"
    /\ block > lastblock
    /\ pc' = "done"
    /\ UNCHANGED <<req, marked, block, lastblock, page, ofs, image>>

Next == SkipBlock \/ EnterBlock \/ ReadPage \/ LeaveBlock \/ Return

Steps == Init /\ [][Next]_vars

(* nand_load runs to its end: nothing preempts it. *)
Spec == Steps /\ WF_vars(Next)

-----------------------------------------------------------------------------
(* The requests the loader is for. *)

Blocks == 0 .. NBlocks - 1

BlockPages(b) == b * PagesPerBlock .. (b + 1) * PagesPerBlock - 1

(* A block is bad when one of its pages carries a mark. *)
GoodBlocks == {b \in Blocks : BlockPages(b) \cap marked = {}}

UsablePages == UNION {BlockPages(b) : b \in GoodBlocks}

FirstBlock == req.ofs \div EraseSize
LastBlock == (req.ofs + req.size - 1) \div EraseSize

(* The blocks the image would fill on a chip without bad blocks. *)
BlocksAsked == LastBlock - FirstBlock + 1

(* The page of its block the image starts in. *)
StartPage == (req.ofs % EraseSize) \div WriteSize

(* The good blocks from block b on. *)
GoodFrom(b) == {c \in GoodBlocks : c >= b}

(* The pages that hold the image: size rounded up. *)
PagesAsked == (req.size + WriteSize - 1) \div WriteSize

(* The manufacturer marks a bad block in its first page. *)
FactoryMarked == \A b \in Blocks \ GoodBlocks : b * PagesPerBlock \in marked

(* The image starts on a block boundary (or no block is bad), lies within  *)
(* the chip, and the chip has enough good blocks from there on.            *)
InScope ==
    /\ FactoryMarked
    /\ req.ofs % WriteSize = 0
    /\ req.size > 0
    /\ req.ofs + req.size <= NBlocks * EraseSize
    /\ req.ofs % EraseSize = 0 \/ marked = {}
    /\ Cardinality(GoodFrom(FirstBlock)) >= BlocksAsked

-----------------------------------------------------------------------------
(* Properties *)

TypeOK ==
    /\ req \in [ofs : 0 .. Word - 1, size : 0 .. Word - 1]
    /\ marked \in SUBSET (0 .. NPages - 1)
    /\ pc \in {"test", "pages", "done"}
    /\ block \in 0 .. Word - 1
    /\ lastblock \in 0 .. Word - 1
    /\ page \in 0 .. PagesPerBlock
    /\ ofs \in 0 .. Word - 1
    /\ image \in Seq(0 .. NPages - 1)

(* The memory the load writes is bounded by the request: nand_load has no  *)
(* limit of its own on dst, it stores whole blocks and lengthens its loop  *)
(* for every bad block, yet it never stores more than the blocks the       *)
(* request touches, less the pages before ofs; but for a scan so long that *)
(* block itself wraps, which takes 2^32 turns.                             *)
StoreBounded ==
    \/ image = <<>>
    \/ Len(image) <= (((req.ofs + req.size - 1) % Word) \div EraseSize
                         - FirstBlock + 1) * PagesPerBlock - StartPage

(* "Skip bad blocks": no page of a bad block reaches memory. *)
NoBadPage == InScope => \A i \in 1 .. Len(image) : image[i] \in UsablePages

(* The scan and the read agree on where they are: when the inner loop      *)
(* reads block, the block whose mark was looked up is the same one, and    *)
(* the block exists.                                                       *)
ScanMatchesRead ==
    InScope /\ pc = "pages" => /\ ofs \div EraseSize = block
                               /\ block \in GoodBlocks

(* The load as the abstract image: it hands over the usable pages from the *)
(* start of the image on, in order, and returns with all that were asked.  *)
(* InScope never changes: this is the abstract specification for the loads *)
(* in scope, and allows the others anything.                               *)
Image == INSTANCE SkipBadImage WITH
    usable <- UsablePages, start <- req.ofs \div WriteSize,
    want <- PagesAsked, delivered <- image, returned <- (pc = "done")

DeliversImage == Image!Init /\ [][InScope => Image!Next]_(Image!vars)

(* The load returns on every chip that has a block without a mark, even    *)
(* when the image is cut short by the end of the chip.                     *)
Returns == (GoodBlocks # {}) ~> (pc = "done")

-----------------------------------------------------------------------------
(* Why the load in scope is right: the parts of its inductive invariant.   *)

(* There are good blocks left for every turn of the outer loop. *)
Budget ==
    block <= lastblock => Cardinality(GoodFrom(block)) >= lastblock - block + 1

(* Where the loop stands, and that ofs keeps up with block. *)
Cursor ==
    /\ block <= lastblock + 1
    /\ pc = "pages" => block <= lastblock /\ block \in GoodBlocks
    /\ pc # "pages" /\ page # 0 => marked = {} /\ block <= lastblock
    /\ pc = "test" => page < PagesPerBlock
    /\ pc = "done" => block > lastblock
    /\ block < NBlocks => ofs = block * EraseSize + (req.ofs % EraseSize)

(* The first page the image may continue with. *)
Expected == IF image = <<>> THEN FirstBlock * PagesPerBlock + StartPage
                            ELSE image[Len(image)] + 1

(* No usable page lies between what was stored and where the loop stands. *)
NoGap ==
    /\ Expected <= block * PagesPerBlock + page
    /\ \A p \in UsablePages :
          p >= Expected => p >= block * PagesPerBlock + page

(* What has been stored is what the turns of the loop taken so far store. *)
Stored ==
    /\ image \in Seq(UsablePages)
    /\ Len(image) = (BlocksAsked - (lastblock - block + 1)) * PagesPerBlock
                       + page - StartPage

LoadInv == TypeOK /\ InScope /\ Budget /\ Cursor /\ NoGap /\ Stored

(* A load in scope keeps all of them. *)
ScopedLoadInv == InScope => LoadInv
=============================================================================
