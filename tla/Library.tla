------------------------------- MODULE Library -------------------------------
(***************************************************************************)
(* The library of src/lib: the lists as a machine of their own (List) and, *)
(* in behaviours of a single state each, the functions without state.      *)
(* input says which function is looked at, on what.                        *)
(***************************************************************************)
EXTENDS List, Format, Bitwise

CONSTANTS CharBits, Inputs

Mem == INSTANCE Strings
Crc == INSTANCE Checksum
Hw == INSTANCE Machine
Delay == INSTANCE Timer

VARIABLE input

LibInit == /\ input \in Inputs \cup {[fn |-> "lists"]}
           /\ Init
           /\ input.fn # "lists" => kind = "list"

LibNext == input.fn = "lists" /\ Next /\ UNCHANGED input

LibSpec == LibInit /\ [][LibNext]_<<vars, input>>

-----------------------------------------------------------------------------
(* Numbers *)

RECURSIVE Decimal(_, _)
Decimal(q, n) == IF n = 0 THEN <<>> ELSE <<q % 10>> \o Decimal(q \div 10, n - 1)

DecimalLength(q) == IF q < 10 THEN 1 ELSE IF q < 100 THEN 2 ELSE IF q < 1000 THEN 3
                    ELSE IF q < 10000 THEN 4 ELSE 5

(* The multiplications that stand for a division by ten give the digits of *)
(* every number below 100000, as many as it has or all five; the long      *)
(* division by doubling gives quotient and rest.                           *)
DigitsRight ==
    /\ input.fn = "put_dec" => \A q \in input.qs :
           /\ put_dec_full(q) = Decimal(q, 5)
           /\ put_dec_trunc(q) = Decimal(q, DecimalLength(q))
    /\ input.fn = "do_div" => \A base \in 1 .. input.w - 1 :
           do_div(input.n, base, input.w) = [rem |-> input.n % base, res |-> input.n \div base]

-----------------------------------------------------------------------------
(* Formats.  The one of an input prints a number between "<" and ">" and   *)
(* a 7 and the end of the line behind them.                                *)

FlagChar == [LEFT |-> 45, PLUS |-> 43, SPACE |-> 32, SPECIAL |-> 35, ZEROPAD |-> 48]
Small(n) == IF n < 0 THEN <<>> ELSE <<48 + n>>

FormatOf(i) ==
    <<60, 37>> \o SetToSeq({FlagChar[f] : f \in i.flags}) \o Small(i.width)
        \o (IF i.precision < 0 THEN <<>> ELSE <<46>> \o Small(i.precision))
        \o i.qual \o <<i.conv>> \o <<62, 37, 117, 10>>

(* What an argument stands for under a qualifier, by the C standard *)
WidthOf(qual) == CASE qual = <<104>> -> Short [] qual = <<108, 108>> -> Quad [] OTHER -> Word
Meant(i) ==
    LET v == i.value % WidthOf(i.qual)
    IN IF i.conv = 100 THEN Signed(v, WidthOf(i.qual)) ELSE v

Negated(r) == [value |-> -r.value, endp |-> r.endp + 1]
ReadBack(i, s) ==
    IF First(s) = 45 THEN Negated(simple_strtoull(Tail(s), BaseOf(i.conv)))
    ELSE simple_strtoull(s, BaseOf(i.conv))

Stripped(s) ==
    LET front == Prefixed(s, {32})
        back == Prefixed(Reverse(s), {32})
    IN IF front = Len(s) THEN <<>> ELSE SubSeq(s, front + 1, Len(s) - back)

NumberRight(i, digits, back) ==
    /\ back = [value |-> Meant(i), endp |-> Len(digits)]
    /\ Len(digits) >= i.precision

FieldRight(i, body, text) ==
    /\ Len(body) >= i.width
    /\ "LEFT" \in i.flags => First(body) # 32 \/ "SPACE" \in i.flags
    /\ "LEFT" \notin i.flags => Last(body) # 32
    /\ "ZEROPAD" \in i.flags /\ "LEFT" \notin i.flags => \A k \in 2 .. Len(body) : body[k] # 32
    /\ "PLUS" \in i.flags /\ i.conv = 100 => First(text) \in {43, 45}
    /\ Len(body) > Larger(i.width, 1) => Len(body) - Len(text) <= 1

NumberOf(text) == IF First(text) = 43 THEN Tail(text) ELSE text

BodyRight(i, body) ==
    /\ FieldRight(i, body, Stripped(body))
    /\ LET digits == NumberOf(Stripped(body)) IN NumberRight(i, digits, ReadBack(i, digits))

Printed(i, p) ==
    /\ p.rval = Len(p.sent) - 1
    /\ First(p.sent) = 60 /\ Beyond(p.sent, Len(p.sent) - 4) = <<62, 55, 13, 10>>
    /\ BodyRight(i, SubSeq(p.sent, 2, Len(p.sent) - 4))

Beginning(t, n) == SubSeq(t, 1, IF n < Len(t) THEN n ELSE Len(t))

(* The format of a text input is "%*.*s%n%c%%%pM!": a text in a field, how *)
(* much was written, a letter, a percent sign and a null pointer whose     *)
(* suffix is not printed.                                                  *)
TextFormat == <<37, 42, 46, 42, 115, 37, 110, 37, 99, 37, 37, 37, 112, 77, 33>>
TextArgs(i) == <<i.width, i.precision, <<i.text>>, "ip", i.letter, 0>>

(* What puts sends of what vsprintf wrote behind the field: of a letter    *)
(* zero and all after it, nothing.                                         *)
AfterField(letter) ==
    IF letter = 0 THEN <<>> ELSE <<letter, 37>> \o <<40, 110, 117, 108, 108, 41, 33>>

TextRight(i, text, field, sent) ==
    /\ Len(field) = Larger(Len(text), Larger(i.width, -i.width))
    /\ IF i.width < 0 THEN IsPrefix(text, field) ELSE IsSuffix(text, field)
    /\ Stripped(field) = text
    /\ sent = field \o AfterField(i.letter)

TextPrinted(i, p) ==
    /\ p.rval = p.count + 9
    /\ TextRight(i, Beginning(i.text, Larger(i.precision, 0)), SubSeq(p.sent, 1, p.count), p.sent)

(* A number comes out of printf as it went in: in a field of at least its  *)
(* width, filled on the side and with the character that was asked for,    *)
(* read back by the library's own reader, to its last character, as the    *)
(* value its type gives it; and the directive after it prints the argument *)
(* after it.  A text comes out as far as its precision allows, and what    *)
(* follows as far as the first zero.  The digits under all of them are     *)
(* those of the number.                                                    *)
PrintsAsAsked ==
    /\ DigitsRight
    /\ input.fn = "printf" =>
           Printed(input, printf(TRUE, FormatOf(input), <<input.value, 7>>))
    /\ input.fn = "prints" => TextPrinted(input, printf(TRUE, TextFormat, TextArgs(input)))

-----------------------------------------------------------------------------
(* Memory and texts *)

(* What a copy of n bytes promises: the bytes that were at src are at      *)
(* dest, and nothing else has changed.                                     *)
Copied(m, after, dest, src, n) ==
    after = [a \in DOMAIN m |-> IF a \in dest .. dest + n - 1 THEN m[src + a - dest] ELSE m[a]]

(* memmove copies whatever overlaps, memcpy unless what it still has to    *)
(* read is written over, by words or by bytes; memset fills what it was    *)
(* given, from an aligned address or not.                                  *)
CopiesExactly ==
    input.fn = "copy" =>
        LET m == [a \in 0 .. input.top - 1 |-> a + 1]
        IN /\ Copied(m, Mem!memmove(m, input.dest, input.src, input.n),
                     input.dest, input.src, input.n)
           /\ input.dest \notin input.src + 1 .. input.src + input.n - 1 =>
                  Copied(m, Mem!memcpy(m, input.dest, input.src, input.n),
                         input.dest, input.src, input.n)
           /\ Mem!memset(m, input.dest, 256 + input.src, input.n) =
                  [a \in DOMAIN m |->
                      IF a \in input.dest .. input.dest + input.n - 1 THEN input.src ELSE m[a]]

(* A memory with t at 0, u at 8 and remains of other texts around them. *)
TextMemory(t, u) ==
    [a \in 0 .. 31 |-> CASE a < Len(t) -> t[a + 1]
                         [] a >= 8 /\ a < 8 + Len(u) -> u[a - 7]
                         [] a \in {Len(t), 8 + Len(u)} -> 0
                         [] OTHER -> 1 + (a % 7)]

TextAt(m, s) == [k \in 1 .. Mem!strlen(m, s) |-> m[s + k - 1]]

Before(t, u) == \/ Len(t) < Len(u) /\ IsPrefix(t, u)
                \/ \E k \in 1 .. Len(t) : /\ k <= Len(u) /\ t[k] < u[k]
                                          /\ SubSeq(t, 1, k - 1) = SubSeq(u, 1, k - 1)

(* The answer of a comparison: zero for equal texts alone, and the sign of *)
(* the order as long as the characters are less than half a char apart.    *)
Compares(t, u, res) ==
    /\ (res = 0) <=> (t = u)
    /\ (\A c, d \in (ToSet(t) \cup ToSet(u) \cup {0}) : c - d < 2^(CharBits - 1)) =>
           ((res < 0) <=> Before(t, u))

(* strcmp and strncmp order texts, the second by their beginnings; strcpy, *)
(* strncpy and strcat leave the text they promise at the destination, and  *)
(* what is not theirs alone.                                               *)
TextsKept ==
    input.fn = "text" =>
        LET t == input.t  u == input.u  n == input.n
            m == TextMemory(t, u)
            cpy == Mem!strcpy(m, 16, 0)
            ncpy == Mem!strncpy(m, 16, 0, n)
            cat == Mem!strcat(cpy, 16, 8)
        IN /\ Compares(t, u, Mem!strcmp(m, 0, 8))
           /\ Compares(Beginning(t, n), Beginning(u, n), Mem!strncmp(m, 0, 8, n))
           /\ TextAt(cpy, 16) = t /\ Mem!strcmp(cpy, 16, 0) = 0
           /\ TextAt(cat, 16) = t \o u
           /\ \A a \in DOMAIN m : a \notin 16 .. 16 + Len(t) + Len(u) => cat[a] = m[a]
           /\ \A a \in DOMAIN m :
                  ncpy[a] = IF a \in 16 .. 15 + Len(Beginning(t, n)) THEN t[a - 15]
                            ELSE IF a = 16 + Len(t) /\ Len(t) < n THEN 0 ELSE m[a]

(* The functions of string.c do what they promise to memory, to texts, and *)
(* to nothing else.                                                        *)
StringsRight == CopiesExactly /\ TextsKept

-----------------------------------------------------------------------------
(* Checksums *)

(* The remainder of a byte by a polynomial, bit by bit: the highest bit    *)
(* first, or the lowest with the polynomial reversed.                      *)
Rem8(b, poly) ==
    FoldLeft(LAMBDA c, k : IF c >= 128 THEN ((2 * c) % 256) ^^ poly ELSE 2 * c, b, <<1,2,3,4,5,6,7,8>>)
RemReversed(b, poly) ==
    FoldLeft(LAMBDA c, k : IF c % 2 = 1 THEN (c \div 2) ^^ poly ELSE c \div 2, b, <<1,2,3,4,5,6,7,8>>)

(* The tables are those of x^8 + x^2 + x + 1, of x^8 + x^5 + x^4 + 1 from  *)
(* the lowest bit and of x^16 + x^15 + x^2 + 1 from the lowest bit; and    *)
(* the loops over them leave no remainder of a message followed by its     *)
(* own checksum.                                                           *)
ChecksumsRight ==
    input.fn = "crc" =>
        LET b == input.byte  c == input.crc
            s == Crc!crc16(c, <<b, 255 - b>>)
        IN /\ Crc!crc8_CCITT_table[b + 1] = Rem8(b, 7)
           /\ Crc!w1_crc8_table[b + 1] = RemReversed(b, 140)
           /\ Crc!crc16_table[b + 1] = RemReversed(b, 40961)
           /\ Crc!crc8(Crc!crc8_CCITT_table,
                       <<b, 85, Crc!crc8(Crc!crc8_CCITT_table, <<b, 85>>, c % 256)>>, c % 256) = 0
           /\ Crc!w1_crc8(<<b, 85, Crc!w1_crc8(<<b, 85>>)>>) = 0
           /\ Crc!crc16(c, <<b, 255 - b, s % 256, s \div 256>>) = 0

-----------------------------------------------------------------------------
(* The loops of the machine *)

Touched(i) == {ln \in i.cached : ln < i.end /\ ln + i.line > i.start}
Inside(i) == {ln \in i.cached : ln >= i.start /\ ln + i.line <= i.end}

(* A range that is not empty: an invalidation drops what was written to    *)
(* the lines inside the range and to no other, a clean and a flush drop    *)
(* nothing, and the lines touched are gone or written back.  A clean and a *)
(* flush of an empty range drop nothing either.                            *)
RangeRight(i) ==
    LET before == [present |-> i.cached, dirty |-> i.dirty, lost |-> {}]
        after == Hw!DcacheRange(i.op, i.start, i.end, i.line, before)
    IN /\ i.op # "inv" => after.lost = {}
       /\ i.start < i.end =>
              /\ i.op = "inv" => after.lost = Inside(i) \cap i.dirty
              /\ Touched(i) \cap (IF i.op = "clean" THEN after.dirty ELSE after.present) = {}
              /\ i.cached \ Touched(i) \subseteq after.present

(* The operand as the processor takes it apart *)
WayBits(ways) == CHOOSE n \in 0 .. ways : ways <= 2 ^ n /\ \A k \in 0 .. n - 1 : ways > 2 ^ k
LineOf(operand, levels, width) ==
    LET n == (operand \div 2) % 8
        c == levels[n + 1]
        way == operand \div 2 ^ (width - WayBits(c.ways))
    IN [level |-> n, way |-> way,
        set |-> (operand % 2 ^ (width - WayBits(c.ways))) \div 2 ^ c.line]

(* Every line of every level with a data cache is invalidated, and nothing *)
(* that is not one.                                                        *)
SetWayRight(i) ==
    {LineOf(operand, i.levels, i.width) : operand \in Hw!armv7_inv_dcache(i.levels, i.width)} =
        UNION {{[level |-> n - 1, way |-> w, set |-> s] :
                   w \in 0 .. i.levels[n].ways - 1, s \in 0 .. i.levels[n].sets - 1} :
               n \in {k \in DOMAIN i.levels : i.levels[k].kind >= 2}}

(* Every section is mapped to itself, the memory as memory and the others  *)
(* but the one behind it as what they are; of what follows the table no    *)
(* more than an entry is written.                                          *)
FreeTable(i) == [e \in 0 .. i.sections + 2 |-> [section |-> e, flags |-> "free"]]

TableRight(i) ==
    LET table == Hw!create_page_table(FreeTable(i), i.sdram, i.size, i.sections)
    IN /\ \A e \in 0 .. i.sections - 1 :
              /\ table[e].section = e
              /\ e \in i.sdram .. i.sdram + i.size - 1 => table[e].flags = "normal"
              /\ e \notin i.sdram .. i.sdram + i.size => table[e].flags = "nocache"
       /\ \A e \in DOMAIN table : e > i.sections => table[e] = FreeTable(i)[e]

(* The words of a memory of i.space bytes, none of them zero *)
Filled(i) == [a \in {4 * k : k \in 0 .. i.space \div 4 - 1} |-> a + 1]

(* From an aligned end, which is what the compiler makes of a bss without  *)
(* single bytes at its end, the loop ends with the section cleared and     *)
(* nothing before it nor beyond its end.                                   *)
BssRight(i) ==
    LET done == Hw!clear_bss(Filled(i), i.start, i.end, i.space)
    IN i.end % 4 = 0 =>
           /\ done.ends
           /\ \A a \in DOMAIN done.memory :
                  /\ a \in i.start .. i.end - 1 => done.memory[a] = 0
                  /\ a \notin i.start .. i.end => done.memory[a] # 0

(* The maintenance of the caches handles the lines it should and drops no  *)
(* other data, whatever the alignment and the shape of the cache; the page *)
(* table maps every section to itself; and the reset code clears the bss.  *)
(* What a loop does beyond its region it leaves open, if that is no more   *)
(* than an entry, a line or a word: that it does so is KeepsToRegion.      *)
MemorySetUpRight ==
    /\ input.fn = "range" => RangeRight(input)
    /\ input.fn = "setway" => SetWayRight(input)
    /\ input.fn = "table" => TableRight(input)
    /\ input.fn = "bss" => BssRight(input)

(* What the loops of the reset code and of mm.S are to keep to.  The bss   *)
(* loop has "keep clearing till at end" and "stop here" (start.S:76, 84),  *)
(* the invalidation is of "the data cache within the specified region"     *)
(* (mm.S:93-94), and a memory region has "r1 as size(M)" (mm.S:211).       *)
StopsAtEnd(i) ==
    LET memory == Hw!clear_bss(Filled(i), i.start, i.end, i.space).memory
    IN \A a \in DOMAIN memory : a >= i.end => memory[a] # 0

ReachesEnd(i) == Hw!clear_bss(Filled(i), i.start, i.end, i.space).ends

InvalidatesWithin(i) ==
    Hw!v7_inv_range(i.start, i.end, i.line,
                    [present |-> i.cached, dirty |-> i.dirty, lost |-> {}]).lost \subseteq Touched(i)

MapsSize(i) ==
    LET before == FreeTable(i)
        table == Hw!map_memory_region(before, i.section, i.size, "normal", i.sections)
    IN {e \in DOMAIN table : table[e] # before[e]} = i.section .. i.section + i.size - 1

(* It does not hold: each loop does its body before it looks at its end,   *)
(* and the bss loop looks for equality.  The property is as weak as can    *)
(* be, that one of the loops keeps to its region, so that the one state    *)
(* that violates it refutes what the code says of each.                    *)
KeepsToRegion ==
    input.fn = "region" =>
        \/ StopsAtEnd(input.bss)
        \/ ReachesEnd(input.ragged)
        \/ InvalidatesWithin(input.range)
        \/ MapsSize(input.map)

(* udelay does not return before its ticks have passed, from any reading   *)
(* of the counter, over its wrap and whatever passes between two readings; *)
(* and returns with the first reading after them, as long as that is not   *)
(* half a turn of the counter late.  The ticks are those of the time asked *)
(* for if their product fits a word.                                       *)
DelaysLongEnough ==
    input.fn = "udelay" =>
        LET tmo == Delay!TicksOf(input.usec, input.perMs, input.thousand, input.word)
            end == Delay!udelay(Delay!AsLong(tmo, input.word), input.start, input.gaps, input.word)
        IN /\ input.usec * input.perMs < input.word =>
                 tmo = (input.usec * input.perMs) \div input.thousand
           /\ end.tmo <= 0 => end.waited >= tmo
           /\ (\A k \in DOMAIN input.gaps : input.gaps[k] <= input.word \div 2) =>
                 IF end.tmo <= 0 THEN tmo = 0 \/ end.waited - end.latest < tmo
                                 ELSE end.waited < tmo
=============================================================================
