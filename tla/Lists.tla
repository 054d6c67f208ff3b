------------------------------- MODULE Lists -------------------------------
(***************************************************************************)
(* What the list macros promise: every head has a sequence of entries, and *)
(* a call does to the sequences what its name says.  op is the last call   *)
(* that changed a list.                                                    *)
(***************************************************************************)
EXTENDS Sequences, SequencesExt

CONSTANTS Heads, Items

VARIABLES lists, op

Index(e, s) == CHOOSE i \in DOMAIN s : s[i] = e
HeadOf(s, e) == CHOOSE h \in Heads : e \in ToSet(s[h])

Without(s, e) == IF e \in ToSet(s) THEN RemoveAt(s, Index(e, s)) ELSE s
Drop(s, e) == [h \in Heads |-> Without(s[h], e)]

Insert(s, e, at, after) ==
    LET h == HeadOf(s, at) IN
    [s EXCEPT ![h] = InsertAt(@, Index(at, @) + IF after THEN 1 ELSE 0, e)]

(* The part of a list up to an entry; nothing if it is the head itself. *)
UpTo(s, h, e) == IF e = h THEN <<>> ELSE SubSeq(s[h], 1, Index(e, s[h]))

(* What a call makes of the lists s. *)
Effect(s, o) ==
    CASE o[1] = "add"      -> [s EXCEPT ![o[3]] = <<o[2]>> \o @]
      [] o[1] = "add_tail" -> [s EXCEPT ![o[3]] = Append(@, o[2])]
      [] o[1] = "before"   -> Insert(s, o[2], o[3], FALSE)
      [] o[1] = "after"    -> Insert(s, o[2], o[3], TRUE)
      [] o[1] = "del"      -> Drop(s, o[2])
      [] o[1] = "move"     -> [Drop(s, o[2]) EXCEPT ![o[3]] = <<o[2]>> \o @]
      [] o[1] = "move_tail" -> [Drop(s, o[2]) EXCEPT ![o[3]] = Append(@, o[2])]
      [] o[1] = "replace"  -> [h \in Heads |->
                                [i \in DOMAIN s[h] |->
                                   IF s[h][i] = o[2] THEN o[3] ELSE s[h][i]]]
      [] o[1] = "take"     -> [s EXCEPT ![o[3]] = s[o[2]], ![o[2]] = <<>>]
      [] o[1] = "rotate"   -> [s EXCEPT ![o[2]] = Tail(@) \o <<Head(@)>>]
      [] o[1] = "cut"      -> LET first == UpTo(s, o[3], o[4]) IN
                              [s EXCEPT ![o[2]] = first,
                                        ![o[3]] = SubSeq(@, Len(first) + 1, Len(@))]
      [] o[1] = "splice"   -> [s EXCEPT ![o[3]] = s[o[2]] \o @, ![o[2]] = <<>>]
      [] o[1] = "splice_tail" -> [s EXCEPT ![o[3]] = @ \o s[o[2]], ![o[2]] = <<>>]

Init == lists = [h \in Heads |-> <<>>] /\ op = <<>>

(* A call that is made again and changes nothing cannot be told from none. *)
Next == (op' # op \/ lists' # lists) /\ lists' = Effect(lists, op')

Spec == Init /\ [][Next]_<<lists, op>>
=============================================================================
