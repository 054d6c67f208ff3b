------------------------------- MODULE Machine -------------------------------
(***************************************************************************)
(* The loops of the reset code, the cache and the page table code:         *)
(* src/boot/start.S, mm.S and cache.c.  Each operator is what a loop does  *)
(* to its memory or its cache.  Addresses and registers are numbers; a     *)
(* register of the processor has width bits.                               *)
(***************************************************************************)
EXTENDS Integers, FiniteSets, SequencesExt

(* The numbers a loop takes that tests after its body: first, first + step *)
(* and so on, to the first one whose successor satisfies the test, and at  *)
(* least one.                                                              *)
Stepped(first, step, bound) ==
    LET n == IF first < bound THEN (bound - first + step - 1) \div step ELSE 1
    IN [k \in 1 .. n |-> first + (k - 1) * step]

(* clear_bss: a word is stored before its address is compared with the     *)
(* end, and the loop is left when they are equal; addresses wrap around at *)
(* space.  From an end it never meets it goes around for ever.             *)
clear_bss(memory, start, end, space) ==
    LET at(k) == (start + 4 * k) % space
        rounds == {k \in 0 .. space \div 4 - 1 : \A j \in 0 .. k - 1 : at(j) # end}
        cleared == {at(k) : k \in rounds}
    IN [ends |-> end \in cleared,
        memory |-> [a \in DOMAIN memory |-> IF a \in cleared THEN 0 ELSE memory[a]]]

-----------------------------------------------------------------------------
(* The data cache, range by range: which lines it holds, which of them it  *)
(* alone holds the contents of, and the lines whose contents were dropped. *)

bic(a, line) == a - (a % line)

invalidate(ln, cache) ==
    [present |-> cache.present \ {ln}, dirty |-> cache.dirty \ {ln},
     lost |-> cache.lost \cup ({ln} \cap cache.dirty)]
clean(ln, cache) == [cache EXCEPT !.dirty = @ \ {ln}]
clean_invalidate(ln, cache) == [clean(ln, cache) EXCEPT !.present = @ \ {ln}]

(* The line an end of the range falls into the middle of is written back. *)
Edge(a, line, cache) ==
    IF a % line # 0 THEN clean_invalidate(bic(a, line), cache) ELSE cache

(* A slip: the line the end falls into is handled with the others. *)
v7_inv_rangeSlip(start, end, line, cache) ==
    FoldLeft(LAMBDA c, ln : invalidate(ln, c), Edge(start, line, cache),
             Stepped(bic(start, line), line, end))

v7_inv_range(start, end, line, cache) ==
    FoldLeft(LAMBDA c, ln : invalidate(ln, c),
             Edge(end, line, Edge(start, line, cache)),
             Stepped(bic(start, line), line, bic(end, line)))

v7_clean_range(start, end, line, cache) ==
    FoldLeft(LAMBDA c, ln : clean(ln, c), cache, Stepped(bic(start, line), line, end))

v7_flush_range(start, end, line, cache) ==
    FoldLeft(LAMBDA c, ln : clean_invalidate(ln, c), cache,
             Stepped(bic(start, line), line, end))

(* The dcache_range functions of cache.c: no outer cache is installed.     *)
DcacheRange(op, start, end, line, cache) ==
    CASE op = "inv" -> v7_inv_range(start, end, line, cache)
      [] op = "clean" -> v7_clean_range(start, end, line, cache)
      [] op = "flush" -> v7_flush_range(start, end, line, cache)

-----------------------------------------------------------------------------
(* The whole cache, by set and way.  A level has a kind (below 2 there is  *)
(* no data cache), the bits of its line length, and its numbers of ways    *)
(* and sets.                                                               *)

RECURSIVE clz(_, _)
clz(v, width) == IF v = 0 THEN width ELSE clz(v \div 2, width - 1)

(* A shift by the width or more leaves nothing. *)
lsl(v, by, width) == IF by >= width THEN 0 ELSE (v * 2 ^ by) % 2 ^ width

(* The operand of the invalidation by set and way: the level at bit 1, the *)
(* set above the line, the way at the top.                                 *)
SetWay(level, set, way, cache, width) ==
    lsl(level, 1, width) + lsl(set, cache.line, width)
      + lsl(way, clz(cache.ways - 1, width), width)

armv7_inv_dcache(levels, width) ==
    UNION {{SetWay(n - 1, set, way, levels[n], width) :
               set \in 0 .. levels[n].sets - 1, way \in 0 .. levels[n].ways - 1} :
           n \in {k \in DOMAIN levels : levels[k].kind >= 2}}

-----------------------------------------------------------------------------
(* The page table.  An entry is the section it maps and how.  The loop     *)
(* stores and then looks whether the size was zero, so that a region gets  *)
(* one entry more; the address of the entry after the last section of the  *)
(* address space is 0 again.                                               *)

map_memory_region(table, section, size, flags, sections) ==
    [e \in DOMAIN table |->
        IF e \in section .. section + size
        THEN [section |-> e % sections, flags |-> flags] ELSE table[e]]

create_page_table(table, sdram, size, sections) ==
    map_memory_region(map_memory_region(table, 0, sections, "nocache", sections),
                      sdram, size, "normal", sections)

=============================================================================
