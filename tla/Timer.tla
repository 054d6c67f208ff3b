------------------------------- MODULE Timer -------------------------------
(***************************************************************************)
(* udelay() of src/boot/timer.c, on a counter that the timer counts up     *)
(* through all the numbers below word, 2^32.  gaps are the ticks that pass *)
(* from one reading of the counter to the next.                            *)
(***************************************************************************)
EXTENDS Integers, Sequences

TicksOf(usec, perMs, thousand, word) == ((usec * perMs) % word) \div thousand

(* What a word stands for as a long *)
AsLong(v, word) == IF v % word < word \div 2 THEN v % word ELSE (v % word) - word

(* A slip: one tick too many is counted when the counter wraps. *)
ElapsedSlip(last, now, word) ==
    IF last > now THEN (word - 1) - last + now + 2 ELSE now - last

Elapsed(last, now, word) ==
    IF last > now THEN (word - 1) - last + now + 1 ELSE now - last

(* The rest to wait, the last reading and the true time since the start *)
Reading(d, gap, word) ==
    LET now == (d.last + gap) % word
    IN IF d.tmo <= 0 THEN d
       ELSE [tmo |-> AsLong(d.tmo - Elapsed(d.last, now, word), word),
             last |-> now, waited |-> d.waited + gap, latest |-> gap]

Begun(tmo, start) == [tmo |-> tmo, last |-> start, waited |-> 0, latest |-> 0]

(* What udelay knows after each reading *)
Readings(tmo, start, gaps, word) ==
    LET d[k \in 0 .. Len(gaps)] ==
            IF k = 0 THEN Begun(tmo, start) ELSE Reading(d[k - 1], gaps[k], word)
    IN d

udelay(tmo, start, gaps, word) == Readings(tmo, start, gaps, word)[Len(gaps)]
=============================================================================
