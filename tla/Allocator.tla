------------------------------ MODULE Allocator ------------------------------
(***************************************************************************)
(* What a heap promises its caller: blocks that do not overlap, inside the *)
(* memory it was given, that keep what the caller stored in them until the *)
(* caller gives them back.  It may refuse (which is no step); a resized    *)
(* block may move, and keeps its contents up to the smaller of its sizes.  *)
(*                                                                         *)
(* The caller stores a pattern in every block it gets: Cell(t, i) in word  *)
(* i, for a tag t of its choice, or leaves the zeros of calloc (tag 0).    *)
(***************************************************************************)
EXTENDS Integers, Sequences

CONSTANTS
    Arena,     \* the addresses of the memory, natural numbers
    Lengths,   \* the lengths blocks may have
    Tags       \* what a caller may store, numbers other than zero

VARIABLE blocks   \* from the address of a block to the words in it

Cell(t, i) == IF t = 0 THEN 0 ELSE -(16 * t + i)
Pattern(t, n) == [i \in 1 .. n |-> Cell(t, i)]

Extent(a, words) == a .. a + Len(words) - 1

Patterns == {Pattern(t, n) : t \in Tags \cup {0}, n \in Lengths}

Without(a) == [b \in DOMAIN blocks \ {a} |-> blocks[b]]

(* The others stay as they are, and a gets a pattern that overlaps none of *)
(* them.                                                                   *)
Placed(others, a) ==
    /\ a \in Arena \ DOMAIN others
    /\ blocks' = [b \in DOMAIN others \cup {a} |->
                    IF b = a THEN blocks'[a] ELSE others[b]]
    /\ blocks'[a] \in Patterns
    /\ Extent(a, blocks'[a]) \subseteq Arena
    /\ \A b \in DOMAIN others :
           Extent(a, blocks'[a]) \cap Extent(b, others[b]) = {}

Acquire == \E a \in DOMAIN blocks' \ DOMAIN blocks : Placed(blocks, a)

Release == \E a \in DOMAIN blocks : blocks' = Without(a)

(* Resizing keeps the words both lengths have. *)
Resize ==
    \E a \in DOMAIN blocks, b \in DOMAIN blocks' :
        /\ Placed(Without(a), b)
        /\ \A i \in DOMAIN blocks[a] \cap DOMAIN blocks'[b] : blocks'[b][i] = blocks[a][i]

Init == blocks = [a \in {} |-> <<>>]

Next == Acquire \/ Release \/ Resize

Spec == Init /\ [][Next]_blocks

-----------------------------------------------------------------------------
(* Properties *)

(* Every block lies in the memory, and no two of them share a word.        *)
BlocksApart ==
    /\ \A a \in DOMAIN blocks : Extent(a, blocks[a]) \subseteq Arena
    /\ \A a, b \in DOMAIN blocks :
           a # b => Extent(a, blocks[a]) \cap Extent(b, blocks[b]) = {}
=============================================================================
