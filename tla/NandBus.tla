------------------------------- MODULE NandBus -------------------------------
(***************************************************************************)
(* The NAND driver of src/boot/nand.c down to the bus: nand_init asks the  *)
(* chip who it is, nand_load looks up bad-block marks and reads pages, and *)
(* both do it with command and address bytes written to the ports of the   *)
(* memory controller, followed by polls of the ready line.                 *)
(*                                                                         *)
(* The chip is external: a latch for the last command, the address bytes   *)
(* since, a ready line, and a data register it fills when it has been      *)
(* given a command and enough addresses.  What the data register holds is  *)
(* modelled by where it came from (an area, a page and a column), never by *)
(* the bytes themselves.  The chip is one of the table nand_flash_ids and  *)
(* eight bits wide, as NAND_DEVICE_WIDTH has it.                           *)
(***************************************************************************)
EXTENDS Integers, Sequences, FiniteSets

CONSTANTS
    WriteSize, EraseSize, NBlocks, Word, Requests, MarkSets, \* as in NandLoad
    SmallPage,   \* 512: a chip with larger pages is a large-page chip
    SizeLimit,   \* 32 << 20: above it the driver adds an address cycle
    Byte,        \* 256 in row addresses: the values of an address cycle
    ColByte,     \* 256 in column addresses
    MarkBytes,   \* the spare bytes of a marked page that are not 0xff
    Retries,     \* 100, the retries of nand_wait_ready
    MaxBusy,     \* for how many polls a command may keep the chip busy
    Supplied     \* chip->cmdfunc when omap_nand_init is called

PagesPerBlock == EraseSize \div WriteSize
NPages == NBlocks * PagesPerBlock
LargePage == WriteSize > SmallPage

(* The chip is a whole number of pages in a whole number of blocks, fewer  *)
(* bytes than the word counts; requests and marks are as in NandLoad.      *)
ASSUME ChipAssumption ==
    /\ {WriteSize, EraseSize, NBlocks, Word, PagesPerBlock} \subseteq Nat \ {0}
    /\ EraseSize = PagesPerBlock * WriteSize
    /\ NBlocks * EraseSize < Word
    /\ Requests \subseteq [ofs : 0 .. Word - 1, size : 0 .. Word - 1]
    /\ MarkSets \subseteq SUBSET (0 .. NPages - 1)

ASSUME BusAssumption ==
    /\ {SmallPage, SizeLimit, Retries, MaxBusy} \subseteq Nat
    /\ {Byte, ColByte} \subseteq Nat \ {0}
    /\ MarkBytes \subseteq Nat
    /\ Supplied \in {"null", "nand_command"}

VARIABLES
    req, marked,                   \* fixed: the request and the marks
    pc,                            \* where the driver is
    block, lastblock, page, ofs,   \* the locals of nand_load
    image,     \* where the bytes stored at the destination came from
    cmdfunc,   \* chip->cmdfunc
    out,       \* what the command function has still to write, in order
    polls,     \* how often nand_wait_ready will still look at the line
    latch,     \* chip: the last command it took
    addr,      \* chip: the address bytes since
    busy,      \* chip: for how many more looks its line says busy
    reg        \* chip: where the bytes in its data register come from

args == <<req, marked>>
locals == <<block, lastblock, page, ofs>>
chip == <<latch, addr, busy, reg>>
vars == <<args, locals, pc, image, cmdfunc, out, polls, chip>>

Nothing == [area |-> "none", page |-> 0, col |-> 0]

(* What a read of the data port gives when no page was fetched. *)
Junk == -1

-----------------------------------------------------------------------------
(* The chip *)

ColCycles == IF LargePage THEN 2 ELSE 1
RowCycles == IF NPages > Byte * Byte THEN 3 ELSE 2

RowOf(a) == (a[ColCycles + 1] + a[ColCycles + 2] * Byte
               + (IF RowCycles = 3 THEN a[ColCycles + 3] * Byte * Byte ELSE 0))
            % NPages
ColOf(a) == IF LargePage THEN a[1] + a[2] * ColByte ELSE a[1]

(* The bytes that addresses a select: spare bytes after READOOB, or past   *)
(* the end of the page.                                                    *)
Selected(a) ==
    LET c == ColOf(a) IN
    CASE latch = "READOOB" -> [area |-> "oob",  page |-> RowOf(a), col |-> c]
      [] latch # "READOOB" /\ c >= WriteSize ->
                 [area |-> "oob",  page |-> RowOf(a), col |-> c - WriteSize]
      [] OTHER -> [area |-> "main", page |-> RowOf(a), col |-> c]

(* The chip fetches bytes, and is busy for as long as it likes. *)
Fetch(source) == reg' = source /\ busy' \in 0 .. MaxBusy

(* A busy chip takes no command but RESET. *)
TakeCommand(c) ==
    IF busy > 0 /\ c # "RESET" THEN UNCHANGED chip
    ELSE /\ latch' = c
         /\ addr' = <<>>
         /\ CASE c = "RESET" -> Fetch(Nothing)
              [] c = "READSTART" /\ LargePage /\ latch = "READ0"
                     /\ Len(addr) >= ColCycles + RowCycles ->
                        Fetch(Selected(addr))
              [] OTHER -> UNCHANGED <<busy, reg>>

(* A small-page chip fetches on the last address cycle it needs, a         *)
(* large-page chip waits for READSTART.  Further cycles do nothing.        *)
TakeAddress(b) ==
    IF busy > 0 THEN UNCHANGED chip
    ELSE LET a == Append(addr, b) IN
         /\ addr' = a
         /\ latch' = latch
         /\ CASE latch = "READID" /\ Len(a) = 1 ->
                     reg' = [Nothing EXCEPT !.area = "id"] /\ busy' = busy
              [] latch \in {"READ0", "READOOB"} /\ ~LargePage
                     /\ Len(a) = ColCycles + RowCycles -> Fetch(Selected(a))
              [] OTHER -> UNCHANGED <<busy, reg>>

(* A spare byte is 0xff unless it belongs to the mark of its page. *)
SpareIsFF(r) == ~(r.page \in marked /\ r.col \in MarkBytes)

-----------------------------------------------------------------------------
(* The command functions: what they write to the ports, in order. *)

None == -1

CLE(c) == [port |-> "cle", val |-> c]
ALE(v) == [port |-> "ale", val |-> v]

READSTART == 48   \* NAND_CMD_READSTART, 0x30

(* page & 0xff, (page >> 8) & 0xff and (page >> 16) & 0xff *)
LowCycle(p) == ALE(p % Byte)
MidCycle(p) == ALE((p \div Byte) % Byte)
HighCycle(p) == ALE((p \div (Byte * Byte)) % Byte)

(* A slip: the third cycle only above four times the size. *)
PageCyclesSlip(p) ==
    <<LowCycle(p), MidCycle(p)>>
      \o (IF NBlocks * EraseSize > 4 * SizeLimit THEN <<HighCycle(p)>> ELSE <<>>)

(* The third cycle is for a chip of more than 32 MiB. *)
PageCycles(p) ==
    <<LowCycle(p), MidCycle(p)>>
      \o (IF NBlocks * EraseSize > SizeLimit THEN <<HighCycle(p)>> ELSE <<>>)

nand_command(cmd, col, p) ==
    <<CLE(cmd)>>
      \o (IF col # None THEN <<ALE(col % ColByte)>> ELSE <<>>)
      \o (IF p # None THEN PageCycles(p) ELSE <<>>)

(* READOOB becomes READ0 past the end of the page.  READSTART is written   *)
(* with ctrl as the address cycles left it, to the address port.           *)
nand_command_lp(cmd, col, p) ==
    LET c  == IF cmd = "READOOB" THEN col + WriteSize ELSE col
        cm == IF cmd = "READOOB" THEN "READ0" ELSE cmd
    IN  <<CLE(cm)>>
          \o (IF col # None THEN <<ALE(c % ColByte),
                                   ALE((c \div ColByte) % ColByte)>> ELSE <<>>)
          \o (IF p # None THEN PageCycles(p) ELSE <<>>)
          \o (IF cm = "READ0" THEN <<ALE(READSTART)>> ELSE <<>>)

(* A slip: the count is tested before it is used up. *)
LooksSlip == Retries

(* nand_wait_ready looks once, and once more for each retry. *)
Looks == Retries + 1

(* chip->cmdfunc(chip, cmd, col, p), to continue at next.  Through a null  *)
(* pointer the call leaves the program.                                    *)
Call(cmd, col, p, next) ==
    IF cmdfunc = "null"
    THEN pc' = "wild" /\ UNCHANGED <<out, polls>>
    ELSE /\ pc' = next
         /\ out' = IF cmdfunc = "nand_command_lp"
                   THEN nand_command_lp(cmd, col, p) ELSE nand_command(cmd, col, p)
         /\ polls' = Looks

(* nand_cmd_ctrl: the next byte goes to its port. *)
WritePort ==
    /\ out # <<>>
    /\ out' = Tail(out)
    /\ IF Head(out).port = "cle" THEN TakeCommand(Head(out).val)
                                 ELSE TakeAddress(Head(out).val)
    /\ UNCHANGED <<args, locals, pc, image, cmdfunc, polls>>

(* nand_wait_ready: look at the line; if it says busy wait and try again,  *)
(* until there are no retries left.                                        *)
PollReady ==
    /\ out = <<>> /\ polls > 0
    /\ IF busy = 0 THEN polls' = 0 /\ busy' = busy
                   ELSE polls' = polls - 1 /\ busy' = busy - 1
    /\ UNCHANGED <<args, locals, pc, image, cmdfunc, out, latch, addr, reg>>

(* The command function has returned. *)
Returned == out = <<>> /\ polls = 0

-----------------------------------------------------------------------------
(* nand_init *)

ResetChip ==
    /\ pc = "init"
    /\ Call("RESET", None, None, "reset")
    /\ UNCHANGED <<args, locals, image, cmdfunc, chip>>

ReadId ==
    /\ pc = "reset" /\ Returned
    /\ Call("READID", 0, None, "readid")
    /\ UNCHANGED <<args, locals, image, cmdfunc, chip>>

(* The ID read is looked up in nand_flash_ids; a large-page chip gets the  *)
(* other command function.                                                 *)
Identify ==
    /\ pc = "readid" /\ Returned
    /\ busy = 0 /\ reg.area = "id"
    /\ cmdfunc' = IF LargePage /\ cmdfunc = "nand_command"
                  THEN "nand_command_lp" ELSE cmdfunc
    /\ pc' = "test"
    /\ UNCHANGED <<args, locals, image, out, polls, chip>>

(* The position of the mark nand_init sets: NAND_LARGE_BADBLOCK_POS or     *)
(* NAND_SMALL_BADBLOCK_POS.                                                *)
BadBlockPos == IF LargePage THEN 0 ELSE 5

-----------------------------------------------------------------------------
(* nand_load, with omap_nand_block_bad and nand_read_page as calls *)

(* chip->badblockpos & 0xFE *)
MarkColumn == BadBlockPos - (BadBlockPos % 2)

TestBlock ==
    /\ pc = "test" /\ block <= lastblock
    /\ Call("READOOB", MarkColumn, ofs \div WriteSize, "isbad")
    /\ UNCHANGED <<args, locals, image, cmdfunc, chip>>

(* readb(chip->dat_port) != 0xff, or anything when no spare byte is there. *)
ReadsFF(v) ==
    IF busy = 0 /\ reg.area = "oob" THEN v = SpareIsFF(reg) ELSE TRUE

NextBlock ==
    /\ block' = (block + 1) % Word
    /\ ofs' = (ofs + EraseSize) % Word

SkipBlock ==
    /\ pc = "isbad" /\ Returned
    /\ ReadsFF(FALSE)
    /\ lastblock' = (lastblock + 1) % Word
    /\ NextBlock
    /\ pc' = "test"
    /\ UNCHANGED <<args, page, image, cmdfunc, out, polls, chip>>

EnterBlock ==
    /\ pc = "isbad" /\ Returned
    /\ ReadsFF(TRUE)
    /\ pc' = "pages"
    /\ UNCHANGED <<args, locals, image, cmdfunc, out, polls, chip>>

(* A slip: one page too many. *)
FetchPageSlip ==
    /\ pc = "pages" /\ page <= PagesPerBlock
    /\ Call("READ0", 0, page + block * PagesPerBlock, "read")
    /\ UNCHANGED <<args, locals, image, cmdfunc, chip>>

FetchPage ==
    /\ pc = "pages" /\ page < PagesPerBlock
    /\ Call("READ0", 0, page + block * PagesPerBlock, "read")
    /\ UNCHANGED <<args, locals, image, cmdfunc, chip>>

(* chip->read_buf: whatever the data register holds goes to memory. *)
StorePage ==
    /\ pc = "read" /\ Returned
    /\ image' = Append(image, IF busy = 0 /\ reg.area = "main" /\ reg.col = 0
                              THEN reg.page ELSE Junk)
    /\ page' = page + 1
    /\ pc' = "pages"
    /\ UNCHANGED <<args, block, lastblock, ofs, cmdfunc, out, polls, chip>>

LeaveBlock ==
    /\ pc = "pages" /\ page >= PagesPerBlock
    /\ page' = 0
    /\ NextBlock
    /\ pc' = "test"
    /\ UNCHANGED <<args, lastblock, image, cmdfunc, out, polls, chip>>

Return ==
    /\ pc = "test" /\ block > lastblock
    /\ pc' = "done"
    /\ UNCHANGED <<args, locals, image, cmdfunc, out, polls, chip>>

-----------------------------------------------------------------------------

Init ==
    /\ req \in Requests
    /\ marked \in MarkSets
    /\ block = req.ofs \div EraseSize
    /\ lastblock = ((req.ofs + req.size - 1) % Word) \div EraseSize
    /\ page = (req.ofs % EraseSize) \div WriteSize
    /\ ofs = req.ofs
    /\ image = <<>>
    /\ pc = "init" /\ cmdfunc = Supplied /\ out = <<>> /\ polls = 0
    /\ latch = "none" /\ addr = <<>> /\ busy = 0 /\ reg = Nothing

Driver == ResetChip \/ ReadId \/ Identify \/ TestBlock \/ SkipBlock
            \/ EnterBlock \/ FetchPage \/ StorePage \/ LeaveBlock \/ Return

Next == WritePort \/ PollReady \/ Driver

(* Nothing preempts the driver, and every poll loop is bounded. *)
Spec == Init /\ [][Next]_vars /\ WF_vars(Next)

-----------------------------------------------------------------------------
(* The chips the bus was written for. *)

(* The retries of nand_wait_ready outlast every command of the chip. *)
WaitedFor == MaxBusy <= Looks

(* nand_command writes as many row cycles as the chip takes: with pages of *)
(* 512 bytes, a chip has more than 65536 of them when it has more than     *)
(* 32 MiB.                                                                 *)
CyclesAgree == (NBlocks * EraseSize > SizeLimit) <=> (RowCycles = 3)

(* The page numbers that the row cycles tell apart. *)
RowSpan == IF RowCycles = 3 THEN Byte * Byte * Byte ELSE Byte * Byte

(* A small-page chip of a power of two pages, with its marks where the     *)
(* driver looks for them, driven by nand_command.                          *)
SmallPageChip ==
    /\ ~LargePage /\ Supplied = "nand_command"
    /\ WaitedFor /\ CyclesAgree
    /\ RowSpan % NPages = 0
    /\ MarkColumn \in MarkBytes /\ MarkColumn < ColByte

-----------------------------------------------------------------------------
(* Properties *)

TypeOK ==
    /\ pc \in {"init", "reset", "readid", "test", "isbad", "pages", "read",
               "done", "wild"}
    /\ page \in 0 .. PagesPerBlock
    /\ image \in Seq(0 .. NPages - 1 \cup {Junk})
    /\ cmdfunc \in {"null", "nand_command", "nand_command_lp"}
    /\ polls \in 0 .. Looks
    /\ busy \in 0 .. MaxBusy
    /\ reg \in [area : {"none", "id", "main", "oob"},
                page : 0 .. NPages - 1, col : Nat]

(* The driver waits long enough: no command but RESET meets a busy chip,   *)
(* and no byte is read from one.                                           *)
NeverTalksToBusy ==
    /\ out # <<>> /\ busy > 0 => Head(out) = CLE("RESET")
    /\ pc \in {"readid", "isbad", "read"} /\ Returned => busy = 0

(* nand_load over the bus is nand_load with its calls in one step: the     *)
(* mark judged is the mark of the page looked up, the page stored is the   *)
(* page asked for, whatever the order of bytes, address cycles and polls   *)
(* under them.                                                             *)
LoadPc == CASE pc \in {"init", "reset", "readid", "test", "isbad"} -> "test"
            [] pc \in {"pages", "read"} -> "pages"
            [] OTHER -> pc

Load == INSTANCE NandLoad WITH pc <- LoadPc

ImplementsLoad == Load!Spec

(* READSTART is an "extended command for large page devices": it starts    *)
(* the fetch of the page that nand_read_page then stores.                  *)
PagesAreFetched == \A i \in 1 .. Len(image) : image[i] # Junk
=============================================================================
