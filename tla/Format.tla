------------------------------- MODULE Format -------------------------------
(***************************************************************************)
(* Numbers and text: the conversions of src/lib/vsprintf.c, the character  *)
(* classes of ctype.c and the console of stdio.c.                          *)
(*                                                                         *)
(* A text is the sequence of its character codes, its terminating zero     *)
(* left out.  Word and Short stand for 2^32 and 2^16; a long long is two   *)
(* words.                                                                  *)
(***************************************************************************)
EXTENDS Integers, Sequences, SequencesExt

CONSTANTS Word, Short

Quad == Word * Word

Larger(m, n) == IF m > n THEN m ELSE n
Fill(ch, n) == [k \in 1 .. n |-> ch]
Beyond(s, n) == SubSeq(s, n + 1, Len(s))

(* The length of the longest prefix all of whose characters are in S. *)
Prefixed(s, S) == IF \A k \in DOMAIN s : s[k] \in S THEN Len(s)
                  ELSE (CHOOSE k \in DOMAIN s : s[k] \notin S
                            /\ \A j \in 1 .. k - 1 : s[j] \in S) - 1

First(s) == IF s = <<>> THEN 0 ELSE s[1]

-----------------------------------------------------------------------------
(* ctype.c *)

Ctype(ch) ==
    CASE ch \in 9 .. 13 -> {"C", "S"}
      [] ch \in (0 .. 8) \cup (14 .. 31) \cup {127} -> {"C"}
      [] ch \in {32, 160} -> {"S", "SP"}
      [] ch \in 48 .. 57 -> {"D"}
      [] ch \in 65 .. 70 -> {"U", "X"}
      [] ch \in (71 .. 90) \cup ((192 .. 222) \ {215}) -> {"U"}
      [] ch \in 97 .. 102 -> {"L", "X"}
      [] ch \in (103 .. 122) \cup ((223 .. 255) \ {247}) -> {"L"}
      [] ch \in 128 .. 159 -> {}
      [] OTHER -> {"P"}

IsDigit == [ch \in 0 .. 255 |-> "D" \in Ctype(ch)]
IsXdigit == [ch \in 0 .. 255 |-> Ctype(ch) \cap {"D", "X"} # {}]
IsAlnum == [ch \in 0 .. 255 |-> Ctype(ch) \cap {"U", "L", "D"} # {}]

toupper(ch) == IF "L" \in Ctype(ch) THEN ch - 32 ELSE ch

-----------------------------------------------------------------------------
(* Reading a number.  endp is how much of the text was read. *)

(* A slip: a leading zero means octal in every base. *)
RadixSlip(s, base) ==
    CASE First(s) # 48 -> [skip |-> 0, base |-> IF base = 0 THEN 10 ELSE base]
      [] First(s) = 48 /\ Len(s) >= 3 /\ s[2] = 120 /\ IsXdigit[s[3]] ->
            [skip |-> 2, base |-> 16]
      [] OTHER -> [skip |-> 1, base |-> 8]

(* "0x" chooses sixteen whatever was asked for; "0" chooses eight if       *)
(* nothing was.                                                            *)
Radix(s, base) ==
    CASE First(s) # 48 -> [skip |-> 0, base |-> IF base = 0 THEN 10 ELSE base]
      [] First(s) = 48 /\ Len(s) >= 3 /\ s[2] = 120 /\ IsXdigit[s[3]] ->
            [skip |-> 2, base |-> 16]
      [] OTHER -> [skip |-> 1, base |-> IF base = 0 THEN 8 ELSE base]

DigitValue(ch) == IF IsDigit[ch] THEN ch - 48 ELSE toupper(ch) - 55
DigitsOf(base) == {ch \in 0 .. 127 : IsXdigit[ch] /\ DigitValue(ch) < base}

ReadUnsigned(s, base, modulus) ==
    LET r == Radix(s, base)
        n == Prefixed(Beyond(s, r.skip), DigitsOf(r.base))
        digits == SubSeq(s, r.skip + 1, r.skip + n)
    IN [value |-> FoldLeft(LAMBDA v, ch : (v * r.base + DigitValue(ch)) % modulus, 0, digits),
        endp  |-> r.skip + n]

simple_strtoul(s, base) == ReadUnsigned(s, base, Word)
simple_strtoull(s, base) == ReadUnsigned(s, base, Quad)

Signed(v, modulus) == IF v >= modulus \div 2 THEN v - modulus ELSE v

simple_strtol(s, base) ==
    LET neg == First(s) = 45
        r == simple_strtoul(IF neg THEN Tail(s) ELSE s, base)
    IN IF neg THEN [value |-> Signed((Word - r.value) % Word, Word), endp |-> r.endp + 1]
              ELSE [value |-> Signed(r.value, Word), endp |-> r.endp]

(* A letter multiplies: G falls through to M, and M to K.  Only what is    *)
(* written with an i is counted as read.                                   *)
ustrtoul(s, base) ==
    LET r == simple_strtoul(s, base)
        rest == Beyond(s, r.endp)
        times == CASE First(rest) = 71 -> <<1024, 1024, 1024>>
                   [] First(rest) = 77 -> <<1024, 1024>>
                   [] First(rest) \in {75, 107} -> <<1024>>
                   [] OTHER -> <<>>
        more == IF times = <<>> \/ First(Beyond(rest, 1)) # 105 THEN 0
                ELSE IF First(Beyond(rest, 2)) = 66 THEN 3 ELSE 2
    IN [value |-> FoldLeft(LAMBDA v, t : (v * t) % Word, r.value, times), endp |-> r.endp + more]

-----------------------------------------------------------------------------
(* Dividing *)

(* The divisor is doubled while it is smaller and its top bit is clear,    *)
(* then halved again: w is 2^32, high a word.                              *)
DivLoop(rem, base, w, res) ==
    LET grows(k) == (base * 2^k) \div w < w \div 2 /\ base * 2^k < rem
        top == CHOOSE k \in 0 .. 31 : ~grows(k) /\ \A j \in 0 .. k - 1 : grows(j)
        step(a, j) == IF a.rem >= base * 2^(top - j)
                      THEN [rem |-> a.rem - base * 2^(top - j), res |-> a.res + 2^(top - j)]
                      ELSE a
    IN FoldLeft(step, [rem |-> rem, res |-> res], [j \in 1 .. top + 1 |-> j - 1])

div64_32(n, base, w) ==
    LET high == n \div w IN
    IF high >= base
    THEN DivLoop(n - (high \div base) * base * w, base, w, (high \div base) * w)
    ELSE DivLoop(n, base, w, 0)

do_div(n, base, w) ==
    IF n \div w = 0 THEN [rem |-> n % base, res |-> n \div base] ELSE div64_32(n, base, w)

-----------------------------------------------------------------------------
(* Writing a number.  Digits come the least significant first. *)

(* The digits of q < 100000, of its nibbles, by multiplying with 0xcd/2048 *)
(* and 0xd/128 for a tenth; and the sums each of them was taken from.      *)
Bcd(q) ==
    LET d1 == (q \div 16) % 16
        d2 == (q \div 256) % 16
        d3 == q \div 4096
        s0 == 6 * (d3 + d2 + d1) + (q % 16)
        q0 == (s0 * 205) \div 2048
        s1 == q0 + 9 * d3 + 5 * d2 + d1
        q1 == (s1 * 205) \div 2048
        s2 == q1 + 2 * d2
        q2 == (s2 * 13) \div 128
        s3 == q2 + 4 * d3
        q3 == (s3 * 205) \div 2048
    IN [digits |-> <<s0 - 10 * q0, s1 - 10 * q1, s2 - 10 * q2, s3 - 10 * q3, q3>>,
        more |-> <<s1 # 0, s2 # 0 \/ d3 # 0, s3 # 0, q3 # 0>>]

put_dec_full(q) == Bcd(q).digits

Trunc(b) ==
    IF \A k \in 1 .. 4 : b.more[k] THEN b.digits
    ELSE SubSeq(b.digits, 1, CHOOSE k \in 1 .. 4 : ~b.more[k] /\ \A j \in 1 .. k - 1 : b.more[j])

put_dec_trunc(q) == Trunc(Bcd(q))

RECURSIVE put_dec(_)
PutRest(d) == put_dec_full(d.rem) \o put_dec(d.res)
put_dec(num) ==
    IF num < 100000 THEN put_dec_trunc(num)
    ELSE PutRest(do_div(num, 100000, Word))

RECURSIVE Shifted(_, _)
Shifted(num, base) == IF num = 0 THEN <<>> ELSE <<num % base>> \o Shifted(num \div base, base)

(* The characters of digits, the most significant first *)
Lettered(ds, letter) ==
    [k \in DOMAIN ds |-> (IF ds[Len(ds) + 1 - k] < 10 THEN 48 ELSE letter) + ds[Len(ds) + 1 - k]]

Digits(num, base, small) ==
    Lettered(IF num = 0 THEN <<0>> ELSE IF base = 10 THEN put_dec(num) ELSE Shifted(num, base),
             IF small THEN 87 ELSE 55)

Sign(neg, flags) ==
    CASE "SIGN" \notin flags -> <<>>
      [] "SIGN" \in flags /\ neg -> <<45>>
      [] "SIGN" \in flags /\ ~neg /\ "PLUS" \in flags -> <<43>>
      [] "SIGN" \in flags /\ ~neg /\ "PLUS" \notin flags /\ "SPACE" \in flags -> <<32>>
      [] OTHER -> <<>>

BasePrefix(base, flags) ==
    CASE "SPECIAL" \notin flags \/ base = 10 -> <<>>
      [] "SPECIAL" \in flags /\ base = 8 -> <<48>>
      [] OTHER -> <<48, IF "SMALL" \in flags THEN 120 ELSE 88>>

(* Blanks, sign, prefix, zeros, digits, blanks: only one of the three      *)
(* paddings takes up the room that is left.                                *)
LayOut(sign, prefix, zeros, digits, room, flags) ==
    (IF flags \cap {"ZEROPAD", "LEFT"} = {} THEN Fill(32, room) ELSE <<>>)
        \o sign \o prefix
        \o (IF "ZEROPAD" \in flags THEN Fill(48, room) ELSE <<>>)
        \o Fill(48, zeros) \o digits
        \o (IF "LEFT" \in flags THEN Fill(32, room) ELSE <<>>)

Layout(sign, prefix, digits, size, precision, flags) ==
    LayOut(sign, prefix, Larger(precision, Len(digits)) - Len(digits), digits,
           size - Len(sign \o prefix) - Larger(precision, Len(digits)), flags)

(* Zeros are never put behind a number. *)
Padding(flags) == IF "LEFT" \in flags THEN flags \ {"ZEROPAD"} ELSE flags

Magnitude(num, neg) == IF neg THEN Quad - num ELSE num

Written(num, neg, base, size, precision, flags) ==
    Layout(Sign(neg, flags), BasePrefix(base, flags),
           Digits(Magnitude(num, neg), base, "SMALL" \in flags), size, precision, flags)

number(num, base, size, precision, flags) ==
    Written(num, "SIGN" \in flags /\ num >= Quad \div 2, base, size, precision, Padding(flags))

(* A null pointer is <<>>, a pointer to a text the text as one element. *)
string(ptr, width, precision, flags) ==
    LET s == IF ptr = <<>> THEN <<60, 78, 85, 76, 76, 62>> ELSE ptr[1]
        text == IF precision < 0 \/ precision > Len(s) THEN s ELSE SubSeq(s, 1, precision)
        blanks == Fill(32, width - Len(text))
    IN IF "LEFT" \in flags THEN text \o blanks ELSE blanks \o text

(* Without a width, as many digits as a pointer has. *)
pointer(ptr, width, precision, flags) ==
    IF ptr = 0 THEN string(<<<<40, 110, 117, 108, 108, 41>>>>, width, precision, flags)
    ELSE number(ptr, 16, IF width = -1 THEN 8 ELSE width, precision,
                flags \cup {"SMALL"} \cup IF width = -1 THEN {"ZEROPAD"} ELSE {})

-----------------------------------------------------------------------------
(* The format.  A cursor holds the format and the arguments still to come, *)
(* what was written, and the directive as far as it was read.              *)

Cursor(fmt, args) ==
    [fmt |-> fmt, args |-> args, out |-> <<>>, count |-> 0,
     flags |-> {}, width |-> -1, precision |-> -1, qual |-> 0]

Past(c, n) == [c EXCEPT !.fmt = Beyond(@, n)]
Put(c, text) == [c EXCEPT !.out = @ \o text]
Taken(c) == [c EXCEPT !.args = Tail(@)]

FlagAt(ch) == CASE ch = 45 -> "LEFT" [] ch = 43 -> "PLUS" [] ch = 32 -> "SPACE"
                [] ch = 35 -> "SPECIAL" [] ch = 48 -> "ZEROPAD"

Flags(c) ==
    LET n == Prefixed(c.fmt, {45, 43, 32, 35, 48})
    IN [Past(c, n) EXCEPT !.flags = {FlagAt(c.fmt[k]) : k \in 1 .. n}]

skip_atoi(s) == FoldLeft(LAMBDA v, ch : v * 10 + ch - 48, 0, SubSeq(s, 1, Prefixed(s, 48 .. 57)))
PastDigits(c) == Past(c, Prefixed(c.fmt, 48 .. 57))

Width(c) ==
    IF First(c.fmt) \in 48 .. 57 THEN [PastDigits(c) EXCEPT !.width = skip_atoi(c.fmt)]
    ELSE IF First(c.fmt) # 42 THEN c
    ELSE LET w == Head(c.args) IN
         [Taken(Past(c, 1)) EXCEPT !.width = IF w < 0 THEN -w ELSE w,
                                   !.flags = IF w < 0 THEN @ \cup {"LEFT"} ELSE @]

Precision(c) ==
    IF First(c.fmt) # 46 THEN c
    ELSE LET d == Past(c, 1) IN
         CASE First(d.fmt) \in 48 .. 57 -> [PastDigits(d) EXCEPT !.precision = skip_atoi(d.fmt)]
           [] First(d.fmt) = 42 ->
                 [Taken(Past(d, 1)) EXCEPT !.precision = Larger(Head(d.args), 0)]
           [] OTHER -> [d EXCEPT !.precision = 0]

(* h, l, L, Z, z, t, and ll for L *)
Qualifier(c) ==
    CASE First(c.fmt) \notin {104, 108, 76, 90, 122, 116} -> c
      [] First(c.fmt) = 108 /\ First(Beyond(c.fmt, 1)) = 108 -> [Past(c, 2) EXCEPT !.qual = 76]
      [] OTHER -> [Past(c, 1) EXCEPT !.qual = First(c.fmt)]

(* The argument as a long long: of its qualifier's width, with its sign or *)
(* without.                                                                *)
Extended(v, width) == IF v >= width \div 2 THEN Quad - (width - v) ELSE v

Fetch(qual, signed, arg) ==
    CASE qual \in {76, 90, 122} -> arg
      [] qual = 116 -> Extended(arg, Word)
      [] qual = 104 -> IF signed THEN Extended(arg % Short, Short) ELSE arg % Short
      [] OTHER -> IF signed THEN Extended(arg, Word) ELSE arg

BaseOf(ch) == CASE ch = 111 -> 8 [] ch \in {120, 88} -> 16 [] OTHER -> 10
Implied(ch) == CASE ch \in {100, 105} -> {"SIGN"} [] ch = 120 -> {"SMALL"} [] OTHER -> {}

(* o, x, X, d, i and u *)
Integer(c, base, flags) ==
    Put(Taken(c), number(Fetch(c.qual, "SIGN" \in flags, Head(c.args)), base,
                         c.width, c.precision, flags))

Character(c) ==
    LET blanks == Fill(32, c.width - 1)
        ch == <<Head(c.args) % 256>>
    IN Put(Taken(c), IF "LEFT" \in c.flags THEN ch \o blanks ELSE blanks \o ch)

Convert(ch, c) ==
    CASE ch = 99 -> Character(c)
      [] ch = 115 -> Put(Taken(c), string(Head(c.args), c.width, c.precision, c.flags))
      [] ch = 112 -> Put(Past(Taken(c), Prefixed(c.fmt, {a \in 0 .. 255 : IsAlnum[a]})),
                         pointer(Head(c.args), c.width, c.precision, c.flags))
      [] ch = 110 -> [Taken(c) EXCEPT !.count = Len(c.out)]
      [] ch = 37 -> Put(c, <<37>>)
      [] ch \in {111, 120, 88, 100, 105, 117} -> Integer(c, BaseOf(ch), c.flags \cup Implied(ch))
      [] ch = 0 -> Put(c, <<37>>)
      [] OTHER -> Put(c, <<37, ch>>)

Converted(c) == Convert(First(c.fmt), Past(c, 1))

Directive(c) ==
    Converted(Qualifier(Precision(Width(Flags(
        [c EXCEPT !.flags = {}, !.width = -1, !.precision = -1, !.qual = 0])))))

RECURSIVE FormatLoop(_)
FormatLoop(c) ==
    CASE c.fmt = <<>> -> c
      [] c.fmt # <<>> /\ First(c.fmt) # 37 -> FormatLoop(Past(Put(c, <<First(c.fmt)>>), 1))
      [] OTHER -> FormatLoop(Directive(Past(c, 1)))

vsnprintf_internal(fmt, args) == FormatLoop(Cursor(fmt, args))

-----------------------------------------------------------------------------
(* The console.  dev is whether a device is registered for the stream;     *)
(* sent is what it is given to put.                                        *)

EOF == -1

fputc(dev, ch) ==
    IF ~dev THEN [rval |-> EOF, sent |-> <<>>]
    ELSE [rval |-> ch, sent |-> IF ch = 10 THEN <<13, 10>> ELSE <<ch>>]

(* A text ends where its first zero is. *)
puts(dev, s) ==
    LET n == Prefixed(s, 1 .. 255)
    IN [rval |-> IF ~dev /\ n > 0 THEN EOF ELSE n,
        sent |-> FlattenSeq([k \in 1 .. n |-> fputc(dev, s[k]).sent])]

printf(dev, fmt, args) ==
    LET c == vsnprintf_internal(fmt, args)
    IN [rval |-> Len(c.out), count |-> c.count, sent |-> puts(dev, c.out).sent]
=============================================================================
