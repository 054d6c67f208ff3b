# miniboot in TLA+

miniboot is a boot loader for the TI AM335x, without an operating system: after
reset it sets up clocks, pins, DDR memory and voltages, loads an image from NAND
flash into memory and jumps to it. Beside the loader the repository has a small C
library (heap, ring buffer, console, formatting, strings, lists, checksums) for
programs built on it. This directory models the parts whose behaviour takes more
than one step to get right, checks them with TLC and proves the main results with
TLAPS.

Paths below are relative to the repository. A definition's comment names the
function it stands for; `PROJECT.json` gives its lines.

## The system

| Component | Code | State | Operations | What makes it correct |
|---|---|---|---|---|
| Boot sequence | `src/boot/main.c`, `start.S` | the order reached | `lowlevel_init`, `voltage_update` | every device is usable before it is used; voltage before frequency; the image is in memory before the jump |
| NAND loader | `src/boot/nand.c` | `block`, `lastblock`, `page`, `ofs`, `dst` | `nand_load` | the image arrives whole, in order, without pages of bad blocks; memory beyond it is bounded; it returns |
| NAND driver | `src/boot/nand.c`, `nand_ids.c` | the chip record, the chip's latches | `omap_nand_init`, `nand_init`, `nand_command(_lp)`, `nand_wait_ready`, `nand_read_page` | the chip is addressed as it expects, never while busy; the byte read is the one meant |
| I2C adapter | `src/boot/i2c.c` | `priv->flags`, controller registers | `i2c_transfer`, `omap_i2c_xfer`, `check_error` | success means the bytes got there; every transfer returns |
| Power chip | `src/boot/tps65910.c` | its registers | `tps65910_set_i2c_control`, `tps65910_voltage_update` | the voltages asked for are set, other bits kept |
| Clocks | `src/boot/clock.c`, `sys_info.c` | DPLL registers | `prcm_init`, `do_setup_dpll` | a DPLL is reprogrammed in bypass and locked after; dividers as asked |
| Timer | `src/boot/timer.c` | the counter | `timer_init`, `udelay` | a delay is not shorter than asked, also over the wrap |
| Memory controller | `src/boot/gpmc.c`, `ddr.c`, `mux.c` | registers | `gpmc_init`, `config_ddr` | registers written in order, the NAND's chip select found |
| Caches and MMU | `src/boot/cache.c`, `mm.S` | page table, cache lines | range operations, `__enable_cache` | every section mapped; nothing of a range left behind in the cache. That the loops touch nothing beyond their region is what the code says and does not do |
| Heap | `src/lib/malloc.c` | chunks, bins, `top`, the break | `malloc`, `free`, `realloc`, `memalign`, `calloc`, `malloc_trim`, `sbrk` | live blocks disjoint and large enough; free memory merged and found again |
| Ring buffer | `src/lib/fifo.c` | `in`, `out`, `unused`, the data | `fifo_in`, `fifo_out`, `fifo_reset` | a bounded queue; safe from an interrupt handler |
| Console, formatting | `src/lib/stdio.c`, `vsprintf.c` | the device table, one buffer | `printf`, `sprintf` | numbers converted exactly; the buffer not exceeded |
| Strings, lists, checksums | `src/lib/string.c`, `ssl.c`, `include/list.h` | none | `memmove`, `list_*`, `crc16`, `sha1` | as their definitions |

The components meet in a straight line of calls: `lowlevel_init` calls each in turn
and ignores what they return. What runs concurrently is hardware: PLLs lock and
modules start while the processor spins, the I2C controller moves bytes while it
sleeps between polls, the NAND chip is busy while the driver looks at its ready line,
and an interrupt handler of a program built on the library may call the ring buffer. Nothing is persisted by the program,
so there is no recovery after a crash; a reset starts over. The hard parts are the
status bits that stay set across messages and calls, polls that run out, results
nobody looks at, arithmetic at the edges (page, block, buffer, 32 bits), and the one
buffer shared with interrupts. `PROJECT.json` lists these hazards line by line, with
the properties that cover each.

## The modules

| Module | Stands for | Used by |
|---|---|---|
| `SkipBadImage`, `NandLoad`, `NandBus` | the load, abstract, as a loop, and byte by byte on the bus | runs `load`, `bus_small`, `bus_large` |
| `I2c`, `I2cClient`, `Tps65910` | the adapter, any user of it, the power chip driver | `i2c`, `Boot` |
| `Registers`, `Clock`, `Peripherals`, `Boot` | the register map, what is stored where, `lowlevel_init` | `boot`, `boot_voltage` |
| `BoundedQueue`, `Fifo`, `FifoIrq` | the ring buffer, abstract, call by call, interrupted | `fifo_*` |
| `Allocator`, `Malloc`, `Heap`, `HeapInvariant` | the heap, abstract, its functions, a program that calls it, its inductive invariant | `heap` |
| `Lists`, `List` | list operations on sequences and on pointers | `Library` |
| `Format`, `Strings`, `Checksum`, `Machine`, `Timer`, `Library` | functions without state and the loops of the assembler and the timer | `library`, `library_regions` |
| `..._proofs` | theorems | |
| `MC...` | values of the constants for TLC | |

### The load: `SkipBadImage`, `NandLoad`, `MCNandLoad`, `NandLoad_proofs`

`SkipBadImage` is the promise: the usable pages from the image's first page on, in
address order, none twice and none left out, and no return before there are enough.
It knows nothing of blocks or offsets.

`NandLoad` is the loop of `nand_load`, one action per turn: `SkipBlock` (a bad
block lengthens the loop), `EnterBlock`, `ReadPage`, `LeaveBlock`, `Return`. Its
variables are the function's locals, the request and the chip's marks, which are
fixed, and `image`, the chip pages stored at `dst` in order. The bad-block scan is
done as `omap_nand_block_bad` does it: in the page that holds the byte `ofs`.
Arithmetic is modulo `Word` (2^32), page addresses modulo the chip's number of
pages, as a chip with an address register does.

`Spec` takes any request. The claims about the image are for those the loader is for
(`InScope`; `SpecInScope` in the proofs):
page-aligned, not empty, within the chip, starting on a block boundary unless there
are no bad blocks, with enough good blocks from there on; and bad blocks marked in
their first page, as manufacturers do. The boot's own request (512 KiB, 32 KiB
long) is in scope on a chip with enough good blocks.

### The bus: `NandBus`, `MCNandBus`, `NandBus_proofs`

`NandBus` is the driver down to single port writes. A command function is the
sequence of bytes it writes (`nand_command`, `nand_command_lp`), written one per step
(`WritePort`, which is `nand_cmd_ctrl`) and followed by the bounded polls of
`nand_wait_ready` (`PollReady`). The chip is external: a command latch, address
bytes, a busy time of its choice, and a data register described by where its bytes
came from. It ignores what it is told while busy, fetches a small page with the last
address cycle and a large one with READSTART. `nand_init` is `ResetChip`, `ReadId`
and `Identify`; `nand_load` makes its two kinds of calls as `TestBlock` and
`FetchPage`.

`NandBus` implements `NandLoad` (`ImplementsLoad`, with `pc` as the only mapped
variable), hence `SkipBadImage` for requests in scope. The proofs say this of every chip the
bus was written for (`SmallPageChip`): small pages; commands that end within the polls
(`WaitedFor`); as many row cycles sent as the chip counts (`CyclesAgree`); a power of two of
pages; a spare area with a mark where the driver looks for it; and `cmdfunc` set, which as
shipped it is not.

`NandBus` assumes that the chip is in the table and 8 bits wide, as NAND_DEVICE_WIDTH has it. The
port set-up of `omap_nand_init` is in `Init`. `Supplied` is what `chip->cmdfunc` is
at first. `"null"` is the program as it stands: nothing in the repository sets it,
and the first call of `nand_init` leaves the program (`pc = "wild"`), which the proof of
`BusTypeCorrect` covers and no run is needed to see. `"nand_command"` is what `nand_init`
assumes, and the runs about the driver use that.

### The I2C bus: `I2c`, `I2cClient`, `MCI2c`, `I2c_proofs`, `I2cClient_proofs`

`I2c` is the adapter with the controller and one slave. The processor's actions
follow `i2c_transfer` (retries), `omap_i2c_xfer` (wait for the bus, messages, wait),
`__xfer_msg` (program, then one `check_error` per byte) and `check_error` (polls, then
one action per outcome: arbitration lost with a reset, not acknowledged, timed out,
byte received, byte sent, byte passed over because only ARDY was seen). The
controller's actions are external and interleave with all of it: `AskByte` (XRDY),
`BringByte` (RRDY), `EndMessage` (ARDY), `Refuse` (NACK), `LoseBus` (AL). Status bits stay
until the processor clears them.

Assumptions about the hardware, each the one kinder to the code: a message
programmed while another is on the wire waits for it; one programmed while the other
is stuck for want of a byte replaces it; `__wait_for_bb` outlasts any message that is
not stuck; a reset completes. The overrun and underflow bits are treated as AL is.
`Timely` says that the status is up to date at each look, as the comment "Absolutely
safe for status update at 100 kHz I2C" on the poll interval has it; without it a
look may come at any moment. `Faults` says what the bus may do: refuse an address
(`nack`), refuse the last byte (`late_nack`), lose arbitration (`lost`).

`I2cClient` makes any transfer after any other.

### The boot: `Registers`, `Clock`, `Peripherals`, `Tps65910`, `Boot`, `MCBoot`, `Boot_proofs`

`lowlevel_init` is one long sequence of statements: a store, an edit of a field or a bit,
a read of a register into a local, a wait, and two calls with a life of their own, the
fuse and the voltages. `Clock` and `Peripherals` have a definition for each function of
the code that returns the statements of that function, with the addresses and values the
code computes; `Boot` puts them in the order of `main.c`, executes them one by one
(`WriteRegister`, `EditField`, `EditBit`, `ReadMultiplier`, `WriteMultiplier`, `SpinEnds`,
`GetFrequency`, `UpdateVoltages`, `SelectChip`, `EightBits`) and lets the hardware move between any two of them.
A wait is a statement that is over when the hardware has answered; a poll that has not
is not a step.

The hardware is external: a PLL told to lock or to go to bypass does so in its own time
(`PllLocks`, `PllBypasses`), a module switched on becomes functional (`ModuleStarts`), the
calibration of the DDR pads ends (`VtpCalibrates`), the watchdog takes a write
(`WatchdogPosts`). A cold reset leaves everything off and a warm one everything running,
with multipliers, chip selects and a finished calibration of an earlier boot. The model
ends where `omap_nand_init` has found its chip select and calls `nand_init`; `NandBus` begins
there. Registers hold what was
last stored in them.

Addresses are numbers, since the code computes them from bases and gets some wrong: the
pads are addressed from the base of the clock registers, so that their stores land there
(`ReadyToLoad` says what that does), the divider of the DDR PLL is at address 0, and the
DDR data offset is added twice. The model has these stores where the code has them.

`Tps65910` has the register accesses of `voltage_update` over `I2c`: five times a read, an
edit and a write. A register is a control bit and a field; the buffer `__inb` reads into
starts with any value, as an uninitialised local does. `Boot` composes it, so that the
voltages are asked for on a real adapter in the middle of the boot and their failure is
followed by what the code does next.

### The ring buffer: `BoundedQueue`, `Fifo`, `FifoIrq`, `Fifo_proofs`

`BoundedQueue` is the promise. `Fifo` is the code, a call per action, with null
sources (the caller fills the buffer in place through `fifo_iaddr`) and null
destinations; elements stand for `esize` bytes. It implements the queue (`IsQueue`),
`moved` showing what a call took from its source or stored at its destination and
the elements held being those from `out` on around the end of the buffer. The
capacity is at most half of 2^32, the limit the comment on overflow warns of.

`FifoIrq` takes one call apart (look, copy, index, load of `unused`, store of
`unused`) and lets a handler make the opposite call, whole, between any two steps.
The compiler may not merge the look with the later load, since `memcpy` lies between.

### The heap: `Allocator`, `Malloc`, `Heap`, `MCHeap`, `HeapInvariant`, `Heap_proofs`

`Allocator` is the promise: `Acquire`, `Release` and `Resize` of blocks that lie in the
memory, share no word and keep what the caller stored in them.

`Malloc` is `malloc.c` as operators from one state of the heap to the next, on words
of `SIZE_SZ` bytes: the break, headers and boundary tags in the memory itself, the bins as
sequences, the marks of their blocks, the top, the last remainder. Each public function
is there with every path of it: the small and the large search, the split, the unsorted
remainder, the walk over marked blocks, `malloc_extend_top` with its two calls of `sbrk` and
its fences, the merge on `free` with both neighbours and with the top, all ways of
`realloc` to grow a block where it is, down or elsewhere, the trims of `memalign`. Sizes
wrap at `Word`. The links in the words of free chunks are abstracted by the sequences;
pointers of such lists are the business of `List`.

`Heap` is a program: it calls any function with any size and alignment of the cfg, fills
its blocks with patterns and gives them back in any order; another user takes memory
from `sbrk` between its calls, as the comment in `malloc.c` allows; `mallopt` sets threshold and
pad, and `mem_malloc_init` may come once. After each call the words nobody may read again are
set to one value (`Settled`), which keeps states that differ in remains alone from being
counted twice. It implements `Allocator` (`IsAllocator`).

### Lists and functions: `Lists`, `List`, `List_proofs`, `Format`, `Strings`, `Checksum`, `Machine`, `Timer`, `Library`

`List` has every operation and loop macro of `list.h`, `list` and `hlist`, on `next` and
`prev` (`pprev`) pointers with their poison values. It implements `Lists`, where a list is
a sequence (`ImplementsLists`): `Sequence` follows the links from a head, for at most as many
steps as there are entries and one more, so that a list that does not close is seen not to.
A loop is a state of its own: the body may leave its entry
alone, take it away or move it, and what the loop has visited is compared with what was in
the list when it began.

The others are functions. `Format` has the number conversions both ways and
`vsnprintf_internal` down to `printf`; texts are sequences of character codes. `Strings` has
`string.c` on a memory of bytes. `Checksum` has the three cyclic checks with their
tables. `Machine` has the loops of the assembler files: the cleared bss, with the
equality it ends at, the cache range operations, the invalidation by set and way, the page table. `Timer` has
`udelay`, the wait on a wrapping counter. `Library` composes all: a behaviour is either a use of lists or one
state that holds the input of one function, whose result the invariants compare with a
definition of what it should be: division and remainder, the reader of numbers against
the printer, copying as a function on memories, the remainder by the polynomial bit by
bit, the set of lines a range covers. Recursive operators are used in these modules only; `Timer`
has none, and `udelay` is proved about.

## The runs

| Run | Shows |
|---|---|
| `load` | any request, any set of marks: types, memory bounded (`StoreBounded`), `Returns` if a block is good; in scope the image whole and in order (`DeliversImage`), no page of a bad block (`NoBadPage`), scan and read at the same block (`ScanMatchesRead`), and the proofs' inductive invariant (`ScopedLoadInv`) |
| `bus_small` | small pages: never talks to a busy chip, implements `NandLoad` |
| `bus_large` | **fails**: READSTART goes to the address port, no page is fetched |
| `i2c` | writes that report success have reached the slave, also after retries (`WritesReachSlave`); transfers return with every fault and late status; after the first read nothing is written (`ReadEndsWrites`) |
| `boot` | from both resets on six chips, with a power chip that answers or not: nothing used before its clock, no rate changed under a locked PLL, the machine as the NAND driver needs it, and the boot gets there (`ReachesLoader`) |
| `boot_voltage` | **fails**: the voltages are not set |
| `fifo_calls` | called in turn, the fifo is a bounded queue |
| `fifo_irq` | under interrupts the fields stay in range |
| `fifo_racy` | **fails**: under interrupts the count is lost |
| `heap` | any sequence of calls: blocks apart and large enough, no word lost, tags agree, free chunks merged and where the search looks; implements `Allocator` |
| `library` | lists implement sequences, loops see all; formatting, strings, checksums, bss, cache and table loops, delays against their definitions. `MemorySetUpRight` is about what the loops are for: the section cleared, the range clean or gone, the sections mapped; it leaves open what they do one step beyond |
| `library_regions` | **fails**: that one step. The word behind the bss, a dirty line of an empty range, an entry behind the table, and a bss end that is not aligned, which is never met |

The failing runs are the findings in `PROJECT.json`, each with the line of code or
comment it contradicts. `library_regions` has three of them in one state: `KeepsToRegion` says
that at least one of the loops keeps to its region, and in that state none does. `ReadEndsWrites` holds and describes what the code does, not what
it is for: `priv->flags` is never cleared after a read. When that is repaired it will fail
and `boot_voltage` will pass.

More things the models show have no failing run, since no line of the repository says
otherwise, or a property states them as they are:

* NAND: `cmdfunc` is never set (above); a page-aligned start inside a block looks for marks in the wrong pages, which is
  why `InScope` leaves it out; on a small-page chip the mark is read at byte 4 although
  `nand_init` sets position 5.
* I2C and power chip: a status that comes with the last poll of `check_error` is called a
  timeout; after a refused read the driver writes back an edit of an unset local.
* Boot: the pads are never written, and the stores meant for them switch the RTC's clock
  off; the DDR PLL's divider is stored at address 0; the DDR data registers' offset is
  added twice; the timer is set up before its clock runs.
* Heap: a request within the padding of half the word gets the smallest chunk instead of a
  refusal; a negative count makes `calloc` lose a block; when the second `sbrk` fails, what
  the first brought is never used.
* Lists: moving an entry to the end of the list it is in, inside a loop that is safe
  against removal, visits it again.
* Formatting: `%zd` prints an unsigned number; the prefix of `%#X` is not one the reader
  takes; `%#o` puts its zero before those of a precision. `strcmp` takes characters half a
  `char` apart in the wrong order.
* Timer: `udelay` is short for delays whose product wraps (1431656 us and more).

### Bounds

The load and the bus. Chips have four blocks of two pages: enough for a bad block before,
inside and after the image, two in a row, and an image over two blocks; all 256 sets of
marks are tried in `NandLoad`, those in first pages in `NandBus`. `Word` is twice the chip,
so that offsets wrap within a few blocks. On the bus an address cycle carries one bit, so
that three row cycles are needed, as on a chip of more than 32 MiB with 512-byte pages. The
chip may be busy for as many looks as the retries allow less one, the longest the driver
can outlast; retries are two.

I2C. The slave has two registers, polls and retries are two, so that a timeout, a retry
and a second failure all happen. Transfers are the shapes the program makes: a write of two
bytes, a one-byte write with a read, and two writes in a row. A bus is either prompt, with
refusals and lost arbitration, where writes are followed to the slave, or late, with every
fault, where reads and writes are mixed.

Boot. Six chips are those the code tells apart: no revision, the first, and later ones with
a fuse for 1000, 800, 600 and none of the rated frequencies, each from a cold and a warm
reset. The power chip's bytes have a control bit and two bits of voltage, as many as there
are voltages; retries are two and a poll fails at once; the bus answers, or may refuse.
Registers, addresses and values are the code's own.

The ring buffer has three cells and two values: it is filled, emptied and wrapped at every
offset, and asked for one more than it holds.

Heap. Forty words and pages of eight, a word that wraps at 256, three blocks, requests that
are small, larger than a page, and above half the word; bins of one width above the small
ones. In this the break runs out in the first and in the second `sbrk`, fences are made when
another user took memory, top is trimmed and grown again, chunks are found in small and
large bins, and `realloc` grows in each direction. With three blocks a chunk is freed
between two free ones, after one, before one and before the top.

Library. Lists: two heads and three entries. Formatting: a word of 12 bits, so that a
long long is within the numbers of TLC; values at the edges of each width, all
combinations of flags that differ, widths below and above the number. Decimal conversion
is checked for every number below 100000, the range of one of its steps; the long division
for every byte by every base below 16. Copies: 16 bytes, every offset and length up to 8.
Texts: up to three characters, some a half `char` apart. Checksums: every byte of every
table. Caches: ranges of every alignment over lines of four bytes, empty ones among them, ways and
sets that are and are not powers of two. Bss: a memory of sixteen words, ends that are and
are not aligned, up to its last word. The counter of `udelay` has five bits and is read at every
distance from its wrap, with up to a whole turn between readings.

### Fairness

Nothing preempts the boot loader, so `NandLoad` and `NandBus` assume weak fairness of
the whole next-state relation. In `I2c` the processor is weakly fair and so is a
controller that has something to do by itself; refusals and lost arbitration are never
forced. In `Boot` the processor, the silicon (a PLL told to lock, a module switched on, a
calibration started) and the controller are each weakly fair: `ReachesLoader` says that the
code only ever waits for what it has asked for. `Returns` needs a block without a mark:
without one the code loops for ever. The fifo, the heap and the library have no fairness:
a program may stop calling them.

`CHECK_DEADLOCK FALSE` is given where the program ends (the load returns, the boot is over),
where no call is possible any more (a heap), and for the behaviours of one state of the
library.

### Mutants

Each property of a passing run comes with a mutant, an operator named `...Slip` or after
what it does (`SkipBlockShort`, `EndXferForever`) next to the definition it replaces: a
dropped reset, an index one off, a wrong mask. The run then fails.

## The proofs

`NandLoad_proofs` (for every geometry, request and set of marks):

* `TypeCorrect`: the locals stay in range, and pages stored are pages of the chip.
* `LoadInvariant`: `ScopedLoadInv`, that is, `LoadInv` in scope, where it is inductive. Its parts are `Budget` (at least as many
  good blocks ahead as turns left: a bad block adds a turn and takes no good block,
  a good block takes one of each), `Cursor` (`ofs` is `block` blocks plus the start's offset,
  and a block being read is good), `NoGap` (no usable page between the last one stored
  and where the loop stands) and `Stored` (how many pages the turns so far have stored).
  None of the properties is inductive by itself: that the block read exists needs `Budget`,
  that the mark judged is its own needs `Cursor`.
* `NoBadPageLoaded`, `ScanMatches`, `StoresBounded`: from the invariant.
* `StoresBoundedAnywhere`: `StoreBounded` for requests in scope or not. `BoundInv` follows the scan by its
  turns: fewer than a chip's blocks have gone by since the last good one (`AllBad`: otherwise none is
  good, and nothing is ever stored), so that turn by turn the good blocks taken bound the count,
  and it does not wrap. Two hypotheses are needed. `WholeChips`: the chip's size divides the word, so that an
  offset that wraps names the page it would have named (`PageOfWrapped`). `CountFits`: the chip gone
  through once for each block asked for keeps `block` in a word. Without it the
  property is false, which the first attempt to prove it showed and TLC confirms: with blocks of 4
  bytes, 8 blocks and a word of 64, a request for all 63 bytes on a chip where only the first and
  last block are good reaches `block = lastblock = Word - 1`, wraps `block` to 0 and goes on storing. In
  the program that is a scan of 2^32 turns.
* `LoadsImage`: every step is a step of `SkipBadImage` or a stutter; `ReadPage` delivers
  the next usable page by `NoGap`, and `Return` finds enough delivered by `Stored`.

`Fifo_proofs` (for every capacity up to half the word, every element):

* `FifoTypeCorrect`, `FifoAccounts`: `TypeOK` and `Accounting` are inductive together; an index
  moved on by at most the capacity wraps at most once.
* `FifoIsQueue`: `IsQueue`, by `Accounting` and a lemma for each call: the elements held are a
  segment of the ring from `out` on, a call copies its own segment in at most two pieces, and
  what it takes or stores is the head or the tail of what the queue has.
* `IrqStaysInBuffer`: the strengthening `IrqInv` says that the request was cut to what fitted
  when the call looked, and that the handler has only made more room (or more to take)
  since; the register that holds `unused` between load and store keeps that bound.

`NandBus_proofs` (for every geometry, request, set of marks, busy time and number of polls):

* `BusTypeCorrect`: `TypeOK`, on small and large pages.
* `ChipIsReady`: `NeverTalksToBusy` under `WaitedFor` and, on small pages, `CyclesAgree`. `BusyInv`
  follows the busy time through the program of a command: the chip is busy only when all
  bytes that start it are out and nothing but polls is left, and for no more looks than polls.
  With small pages it starts with the last row cycle, so that a driver that sends one cycle
  more would send it to a busy chip.
* `BusLoads`: on a `SmallPageChip` every step is a step of `NandLoad` or a stutter. `AccessInv` says
  which page and column the bytes sent so far select; a page number taken apart into cycles of
  `Byte` values and put together by the chip is the number again (`TwoDigits`, `RowGivenBack`).
  Then the mark read is the block's (`MarkIsRead`) and the page stored the one meant
  (`PageIsRead`).
* `BusDeliversImage`: with `LoadsImage`, from the bytes on the port to the promised image.

`I2c_proofs` has what the adapter does whoever uses it: the types of its variables, action by
action (`I2cClient` and `Boot` both build on it). And it has the delay between two polls, for
every even word, every delay of less than half of it, every start and every sequence of readings:

* `DelayPasses`: `udelay` never returns early, however many turns the counter makes between two
  readings; and it returns with the first reading after the delay, if no two are more than
  half a turn apart. `DelaysLongEnough` is this on five bits, beginning with `TicksOf`. The invariant of the loop is `Behind`: what
  is left to wait is never less than what is truly left. A reading takes off its distance from
  the last one modulo the word, which is no more than what has passed; and when the
  rest wraps as a long it grows (`RestAsLong`). `Exact` says when the two are equal. What `udelay` knows
  after each reading is a recursive function: that it exists (`ReadingsThere`) and that the invariant
  goes along it are shown by the least number where it would not
  (`Least`).

`I2cClient_proofs` (for every bus with any faults, prompt or late, every number of polls and
retries, every client that writes, or reads as `tps65910.c` does):

* `AdapterTypeCorrect`: all variables stay in range, and a byte polled for is a byte of its message.
* `NothingAfterRead`: `ReadEndsWrites`. That no byte is handed over once the flag is set follows
  from `check_error`'s mask; that no register changes needs to know that no write with both
  its bytes is still on the wire when the read is programmed. `Inv` says so: `FreshStart` (before
  the first message is programmed the bus is quiet or its message has sent nothing; a stuck
  message is replaced), `BeforeRead` (up to the read at most the register's byte has been sent) and
  `AfterRead` (no write on the wire has its second byte).

* `WritesArrive`: `WritesReachSlave` as long as no read has set the flag, for every client;
  `WritersServed`: always, for clients that only write on the buses where the claim is made
  (`OnlyWrites`; a client that reads first is the finding of `boot_voltage`). `SendInv`
  relates the processor's message and byte to what the controller has sent: the messages
  before it are in the registers but for the one that may still wait for its end
  (`Delivered`, `OnWire`), a look that finds XRDY finds it for this byte (`AtByte`), and no status
  bit of an earlier message is left to be taken for this one's (`BetweenMessages`). A retry starts from
  nothing delivered and sends all again.

`Boot_proofs` (for every board, a cold or a warm reset with any multipliers and chip selects left
behind, every power chip, every fault of the bus, and hardware that answers whenever it likes):

* `TypeCorrect`, `UsedWhenClocked`, `ReadyAtLoader`, `PllsSafe`: `TypeOK`, `ClockedBeforeUse`, `ReadyToLoad`
  and `DpllsSafe`. All four follow from one invariant, `IInv`, over the 218 statements of
  `lowlevel_init`.
* First the program. It is made by concatenating what each function gives, so what its statement
  number k is must be derived: a lemma for each function says how many statements it
  gives and which, and lemmas on joining (`JoinIsJoin` and those after it) put them at their places. From these come the few
  facts the invariant speaks of: where each of the set-ups of a PLL begins (`Setups`,
  the last of each PLL in `Final`), which statement starts and which awaits each of the 24 modules, and
  which stores go where. The regions of registers are shown apart, so that a store to one
  disturbs no other; the one exception is the pads' table, which lands in the block of
  the RTC's clock.
* Then `IInv`, whose parts say what holds at each statement. `Course`: what the locals are, and that
  the adapter runs only while `voltage_update` does. `Bypass`: while a PLL is set up it has been asked
  for bypass, and after the wait it is not locked and cannot become so; this is `DpllsSafe`, since
  multiplier and dividers are stored only there. `Locked`: after the last set-up of a PLL its
  register has the rate asked for, the PLL has been asked to lock, if locked is so at that rate, and after
  the wait is. `Started`: a module awaited runs, but for the RTC's clock after the stray
  store. `Settled`: the registers that `ReadyToLoad` names keep what the last store to them
  put there. None of the four properties is inductive: `DpllsSafe` needs to know that
  hardware does not lock a PLL under the set-up (`Bypass`), `ReadyToLoad` needs the whole history
  of registers written hundreds of steps earlier, and `ClockedBeforeUse` needs `Course` for the
  transfers and `Started` for the stores.
* The edit of a multiplier (`Clksel`) is arithmetic on the fields of a register; the lemmas on
  it say that what `MultiplierOf` and `DividerOf` read is what was written, whatever was in the other bits.

The attempt at these proofs changed the model in three places. `Takes` chose the
calibration's next state with a CASE whose arms overlapped, which leaves the choice open (TLC takes the first;
the provers may not); so did the suffix test of `memparse` in `Format`. Both are disjoint
now. And `ClockedBeforeUse` spoke of stores and edits of fields only, not of bits set and cleared
or of multipliers: it now speaks of every store.

`List_proofs` (for any number of heads and entries, so for lists of any length):

* `LinksImplementLists`: `ImplementsLists`, every call of both sorts of list does to the sequences
  what `Lists` says. The first half is about links alone: `Ring` and `Chain` say that links
  hold a sequence, place by place, and a lemma for each way a call splices (`RingInsert`,
  `RingRemove`, `RingReplace`, `RingTake`, `RingSplice`, `RingCut`, `ChainInsert`, ...) that the links it
  writes hold the new sequence and that no other list's were touched. `RingReads` and `ChainReads`
  say that what links hold is what `Follow` reads; the number of steps it takes is found as the
  least one that leads to no entry (`LeastNumber`, from `WellFoundedInduction`).
* `LinksGoBothWays`, `TestsTellTheTruth`, `ListTypeCorrect`: `WayBack`, `TestsAgree` and `TypeOK` from
  the invariant `ListInv`: the links hold the sequences they read as (`Holds`), no entry is twice
  on them (`Apart`), and an entry on no list is in a state the calls that may come again
  survive (`Off`: deleted twice by `list_del_init`; `Spare`: unhashed, or made to look hashed by
  `hlist_add_fake`). `WayBack` is not inductive without `Apart`.
* `LoopsSeeAll`: `LoopSeesAll`. `LoopHolds` adds to the invariant that what is still due is
  what is left of the list, counted from its far end (`Sees`): that count is
  the same before and after the body takes the entry of the turn away, and the next entry,
  read before the body ran, is the first of it.

`HeapInvariant` and `Heap_proofs` (for every size of the memory, of a page, of the bins and of
the word, every set of requests and every order of calls, on the model of `malloc.c` itself):

* `HeapTypes`, `HeapRoom`, `HeapTags`, `HeapFindable`, `HeapApart`, `HeapNothingLost`: the six safety
  properties of run `heap`. They are statements about a walk over tags in memory, and none of them
  is inductive: a free chunk has right tags after a call only if the chunks before and after it
  had, no word was shared, and every bin held what it should.
* `HeapSound`: the invariant they follow from, `HeapInv`. It names what the code never has in one
  place: the set of chunks, the stops that end regions behind which others took memory, the size of
  each, the set of the free ones. Its parts are `Laid` (pieces lie side by side, each the first of
  a region or behind a chunk, off the words of others, the top ending on a page), `Merged` (no
  free chunk touches another or the top), `Tagged` (each header has the size and the use bit of the
  piece before it, each free chunk its size at its end, each stop a header in use behind it), `Binned` (each
  free chunk in one bin at one place, in order, its block marked) and `Fitting` (the chunks in use are the
  program's blocks, with room).
* The proofs go up in layers: chunks cut, joined, ended by a fence; the bins after `Unlink` and
  `Frontlink`; the tags each store leaves right, all but those of one chunk (`TagsBut`), which is
  what a heap is in the middle of a call; then the functions, each from a sound heap to a sound
  heap with the same blocks and one more, one less or one larger. A search ends at a chunk that is large
  enough or unmarks only blocks whose bins are empty (`NothingBelow`). `Walk` is a recursive
  function of addresses, and finds the chunks and no others because each step of it goes up.
* They need `HeapAssumption`: a size asked for, with the pad, an alignment and three pages, stays below half of
  the word, or is so large that it is refused, and an alignment is even. Between the two the code is
  wrong: the amount asked of `sbrk` is a negative one and gives memory back, and `pvalloc` rounds sizes within a
  page of 2^32 up to zero. The proofs found the need for both.
* `RequestFits`: the chunk size made from a request is even, at least the smallest, and has room
  for the request, if the padding does not carry the request past the largest long. That
  condition is where the code goes wrong.
* `TrimLeavesTop`: whatever `malloc_trim` gives back, the top keeps the pad and a smallest chunk.

Assumptions: `GeometryAssumption` (a block is a whole number of pages, the chip is smaller
than the word), `RequestAssumption`, `ChipAssumption` (the chip has enough address cycles for its columns), `FifoAssumption`, `I2cAssumption`, `TransferAssumption` (the shape of the
transfers), `TpsAssumption` (a control bit above the field of a voltage, three registers), `BoardAssumption` (what a revision, a
fuse and a reset can be), `MallocAssumption` (sizes are positive and fit each other), `HeapAssumption` (above), `ListAssumption` (finitely many entries,
none of them a head, the null pointer or a mark); the runs evaluate them.

Only model-checked: liveness (`Returns`, `TransferReturns`, `ReachesLoader`) and termination,
out of the prover's reach, and so the fairness in `ImplementsLoad`, of which `BusLoads` is the
safety part; the refinement `IsAllocator`, that is, that what a block holds stays through calls
(that blocks share no word is proved of the code, by `HeapApart`); and the properties of the library, which
compare recursive definitions.

## Not modelled

* The jump to the image; the coprocessor set-up of `start.S`; the switching on of the MMU,
  which nothing calls and whose table is defined nowhere: straight lines of register moves.
* `sdelay` and the settling delays of the memory controller: they count instructions.
* The tables of pins and registers other boards would use; mappings of pins are data.
* 16-bit NAND chips, NAND commands the loader never sends, the bytes of the chip ID.
* The statistics of the heap; `stdlib.c`; SHA-1, whose rounds are arithmetic over 80 words with
  no case to explore.
* What memory, PLLs and chips do with values that are wrong: hardware answers as told.

Hazards without a property say in `PROJECT.json` why.

## Left to do

1. Proofs: `IsAllocator` over a heap of any size, from `HeapInv` and what each call leaves unwritten.
2. Joining `Boot` and `NandBus`, so that the boot is one behaviour from reset to the last page.
