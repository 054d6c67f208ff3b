----------------------------- MODULE MCLibrary -----------------------------
(* The inputs of the library's functions.  A word has twelve bits here, so *)
(* that a long long fits the numbers TLC computes with.                    *)
EXTENDS Library

Hundreds == {[fn |-> "put_dec", qs |-> 500 * k .. 500 * k + 499] : k \in 0 .. 199}

Divisions == {[fn |-> "do_div", n |-> n, w |-> 16] : n \in 0 .. 255}

FlagSets == {{}, {"LEFT"}, {"ZEROPAD"}, {"PLUS"}, {"SPACE"}, {"LEFT", "ZEROPAD"},
             {"PLUS", "ZEROPAD"}, {"SPACE", "LEFT"}}
Values == {0, 7, 10, 63, 64, 2047, 2048, 4095, 100000, 8388607, 8388608, 16777215}

(* %#x is among them; %#X is not: 0X is not read back, nor is %#o, whose   *)
(* own zero comes before the zeros of a precision.                         *)
Formats ==
    {[fn |-> "printf", flags |-> fl, width |-> w, precision |-> p, qual |-> q, conv |-> c, value |-> v] :
        fl \in FlagSets, w \in {-1, 3, 9}, p \in {-1, 4},
        q \in {<<>>, <<104>>, <<108, 108>>}, c \in {100, 117, 120, 111}, v \in Values}
    \cup
    {[fn |-> "printf", flags |-> {"SPECIAL"} \cup fl, width |-> w, precision |-> -1, qual |-> <<>>,
      conv |-> 120, value |-> v] : fl \in {{}, {"LEFT"}, {"ZEROPAD"}}, w \in {-1, 9}, v \in Values}

InputsInRange ==
    {i \in Formats : i.qual = <<108, 108>> \/ i.value < Word}

Fields == {[fn |-> "prints", text |-> t, width |-> w, precision |-> p, letter |-> c] :
              t \in {<<>>, <<65>>, <<65, 66, 67>>}, w \in {-5, -2, 0, 1, 5}, p \in {-1, 0, 2, 3, 4},
              c \in {0, 65}}

Copies == {[fn |-> "copy", dest |-> d, src |-> s, n |-> n, top |-> 16] :
              d \in 0 .. 8, s \in 0 .. 8, n \in 0 .. 8}

Texts == UNION {[1 .. n -> {1, 3, 7}] : n \in 0 .. 3}
TextPairs == {[fn |-> "text", t |-> t, u |-> u, n |-> n] : t \in Texts, u \in Texts, n \in {0, 1, 2, 3}}

Checks == {[fn |-> "crc", byte |-> b, crc |-> c] : b \in 0 .. 255, c \in {0, 1, 65535}}

Ranges == {[fn |-> "range", op |-> maint, start |-> s, end |-> e, line |-> 4,
            cached |-> c, dirty |-> d] :
              maint \in {"inv", "clean", "flush"}, s \in 4 .. 9, e \in 4 .. 14,
              c \in {{0, 4, 8, 12, 16}}, d \in SUBSET {0, 4, 8, 12, 16}}
OrderedRanges == {r \in Ranges : r.start <= r.end}

Level(type, line, ways, sets) == [kind |-> type, line |-> line, ways |-> ways, sets |-> sets]
SetWays == {[fn |-> "setway", width |-> 16, levels |-> <<Level(3, b, w, s), Level(k, 5, 8, 2)>>] :
               b \in {4, 6}, w \in 1 .. 5, s \in {1, 3, 8}, k \in {0, 1, 2, 4}}

Tables == {[fn |-> "table", sections |-> 16, sdram |-> m, size |-> n] : m \in 4 .. 8, n \in 1 .. 4}

Bss == {[fn |-> "bss", space |-> 64, start |-> s, end |-> e] : s \in {0, 8}, e \in {8, 12, 24, 26, 60}}

Delays == {[fn |-> "udelay", usec |-> u, perMs |-> 6, thousand |-> 2, word |-> 32,
            start |-> s, gaps |-> g] :
               u \in {0, 1, 2, 5, 6}, s \in {0, 1, 9, 16, 25, 30, 31}, g \in [1 .. 3 -> {0, 1, 3, 7, 16, 31}]}

(* A section cleared to an end that is a word's and to one that is not, an *)
(* empty range at a line that is dirty, and the map of all sections.       *)
Region == [fn |-> "region",
           bss |-> [space |-> 64, start |-> 8, end |-> 24],
           ragged |-> [space |-> 64, start |-> 8, end |-> 26],
           range |-> [start |-> 8, end |-> 8, line |-> 4, cached |-> {4, 8}, dirty |-> {8}],
           map |-> [sections |-> 16, section |-> 0, size |-> 16]]
MCRegions == {Region}

MCInputs == Hundreds \cup Divisions \cup InputsInRange \cup Fields \cup Copies \cup TextPairs \cup Checks
            \cup OrderedRanges \cup SetWays \cup Tables \cup Bss \cup Delays
=============================================================================
