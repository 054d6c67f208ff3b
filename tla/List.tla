-------------------------------- MODULE List --------------------------------
(***************************************************************************)
(* The linked lists of src/lib/include/list.h, link by link: the circular  *)
(* ones, list_..., and the ones with a single pointer as head, hlist_....   *)
(*                                                                         *)
(* l.next and l.prev hold the links.  For an hlist, l.next[h] is h->first, *)
(* and l.prev[n] is n->pprev: the node or head whose link points to n.     *)
(* A program makes the calls the comments allow: only entries on a list    *)
(* are deleted or moved, only entries on none are added.  Between the      *)
(* turns of a loop over a list it may take the current entry away.         *)
(***************************************************************************)
EXTENDS Integers, Sequences, FiniteSets, SequencesExt

CONSTANTS Heads, Items, NULL, Poison1, Poison2

(* There are finitely many entries; an end or a mark is no node. *)
ASSUME ListAssumption ==
    /\ IsFiniteSet(Items) /\ Heads \cap Items = {}
    /\ {NULL, Poison1, Poison2} \cap (Heads \cup Items) = {}
    /\ NULL # Poison1

VARIABLES
    kind,   \* which of the two sorts of list the program uses
    l,      \* the links
    op,     \* the last call that changed a list
    loop    \* a loop under way, <<>> if none

vars == <<kind, l, op, loop>>

Nodes == Heads \cup Items

Link(m, from, to) == [m EXCEPT !.next[from] = to, !.prev[to] = from]
SetNext(m, n, v) == [m EXCEPT !.next[n] = v]
SetPrev(m, n, v) == [m EXCEPT !.prev[n] = v]

-----------------------------------------------------------------------------
(* Circular lists *)

INIT_LIST_HEAD(m, n) == SetPrev(SetNext(m, n, n), n, n)

(* A slip: the link back from the next entry is forgotten. *)
ListAddSlip(m, new, prev, next) ==
    SetNext(SetPrev(SetNext(m, new, next), new, prev), prev, new)

ListAdd(m, new, prev, next) ==
    SetNext(SetPrev(SetNext(SetPrev(m, next, new), new, next), new, prev), prev, new)

list_add(m, new, head) == ListAdd(m, new, head, m.next[head])
list_add_tail(m, new, head) == ListAdd(m, new, m.prev[head], head)

ListDel(m, prev, next) == SetNext(SetPrev(m, next, prev), prev, next)
ListDelEntry(m, e) == ListDel(m, m.prev[e], m.next[e])

(* A slip: the link back gets the mark of the link forth. *)
list_delSlip(m, e) == SetPrev(SetNext(ListDelEntry(m, e), e, Poison1), e, Poison1)

list_del(m, e) == SetPrev(SetNext(ListDelEntry(m, e), e, Poison1), e, Poison2)
list_del_init(m, e) == INIT_LIST_HEAD(ListDelEntry(m, e), e)
list_move(m, e, head) == list_add(ListDelEntry(m, e), e, head)
list_move_tail(m, e, head) == list_add_tail(ListDelEntry(m, e), e, head)

(* Each link is read after the one before it was written. *)
list_replace(m, old, new) ==
    LET m1 == SetNext(m, new, m.next[old])
        m2 == SetPrev(m1, m1.next[new], new)
        m3 == SetPrev(m2, new, m2.prev[old])
    IN SetNext(m3, m3.prev[new], new)

list_replace_init(m, old, new) == INIT_LIST_HEAD(list_replace(m, old, new), old)

list_is_last(m, e, head) == m.next[e] = head
list_empty(m, head) == m.next[head] = head
list_empty_careful(m, head) == m.next[head] = head /\ m.next[head] = m.prev[head]

(* A slip: the empty list passes for one with a single entry. *)
SingularSlip(m, head) == m.next[head] = m.prev[head]

list_is_singular(m, head) == ~list_empty(m, head) /\ m.next[head] = m.prev[head]

list_rotate_left(m, head) ==
    IF list_empty(m, head) THEN m ELSE list_move_tail(m, m.next[head], head)

ListCut(m, list, head, entry) ==
    LET first == m.next[entry]
        m1 == SetNext(m, list, m.next[head])
        m2 == SetPrev(SetPrev(m1, m1.next[list], list), list, entry)
    IN SetPrev(SetNext(SetNext(m2, entry, list), head, first), first, head)

list_cut_position(m, list, head, entry) ==
    IF \/ list_empty(m, head)
       \/ list_is_singular(m, head) /\ m.next[head] # entry /\ head # entry
    THEN m
    ELSE IF entry = head THEN INIT_LIST_HEAD(m, list)
    ELSE ListCut(m, list, head, entry)

(* A slip: the list is put in front of where it should end. *)
ListSpliceSlip(m, list, prev, next) ==
    SetPrev(SetNext(m, m.prev[list], next), next, m.prev[list])

ListSplice(m, list, prev, next) ==
    LET first == m.next[list]
        last == m.prev[list]
    IN SetPrev(SetNext(SetNext(SetPrev(m, first, prev), prev, first), last, next), next, last)

list_splice(m, list, head) ==
    IF list_empty(m, list) THEN m ELSE ListSplice(m, list, head, m.next[head])
list_splice_tail(m, list, head) ==
    IF list_empty(m, list) THEN m ELSE ListSplice(m, list, m.prev[head], head)
list_splice_init(m, list, head) ==
    IF list_empty(m, list) THEN m
    ELSE INIT_LIST_HEAD(ListSplice(m, list, head, m.next[head]), list)
list_splice_tail_init(m, list, head) ==
    IF list_empty(m, list) THEN m
    ELSE INIT_LIST_HEAD(ListSplice(m, list, m.prev[head], head), list)

-----------------------------------------------------------------------------
(* Lists with one pointer as head *)

INIT_HLIST_HEAD(m, h) == SetNext(m, h, NULL)
INIT_HLIST_NODE(m, n) == SetPrev(SetNext(m, n, NULL), n, NULL)
hlist_unhashed(m, n) == m.prev[n] = NULL
hlist_empty(m, h) == m.next[h] = NULL

(* The link of `from` to n, if there is an n, is n's way back. *)
Back(m, n, from) == IF n = NULL THEN m ELSE SetPrev(m, n, from)

HlistDel(m, n) == Back(SetNext(m, m.prev[n], m.next[n]), m.next[n], m.prev[n])
hlist_del(m, n) == SetPrev(SetNext(HlistDel(m, n), n, Poison1), n, Poison2)
hlist_del_init(m, n) == IF hlist_unhashed(m, n) THEN m ELSE INIT_HLIST_NODE(HlistDel(m, n), n)

hlist_add_head(m, n, h) ==
    LET first == m.next[h]
        m1 == Back(SetNext(m, n, first), first, n)
    IN SetPrev(SetNext(m1, h, n), n, h)

hlist_add_before(m, n, next) ==
    LET m1 == SetPrev(SetNext(SetPrev(m, n, m.prev[next]), n, next), next, n)
    IN SetNext(m1, m1.prev[n], n)

hlist_add_after(m, n, next) ==
    LET m1 == SetPrev(SetNext(SetNext(m, next, m.next[n]), n, next), next, n)
    IN Back(m1, m1.next[next], next)

hlist_add_fake(m, n) == SetPrev(m, n, n)

hlist_move_list(m, old, new) ==
    LET m1 == SetNext(m, new, m.next[old])
    IN SetNext(Back(m1, m1.next[new], new), old, NULL)

-----------------------------------------------------------------------------
(* The sequences in the links, and who is on a list *)

(* Where k links after the first lead, as long as they lead to entries: as *)
(* many as there are entries, which is one too many for a list.            *)
Walk(links, h) ==
    LET reached[k \in 0 .. Cardinality(Items)] ==
            IF k = 0 THEN links[h]
            ELSE LET p == reached[k - 1] IN IF p \in Items THEN links[p] ELSE p
    IN reached

Follow(links, h) ==
    LET reached == Walk(links, h) IN
    [i \in 1 .. Cardinality({k \in DOMAIN reached : reached[k] \in Items}) |-> reached[i - 1]]

Sequence(h) == Follow(l.next, h)
On(h) == ToSet(Sequence(h))
Linked == UNION {On(h) : h \in Heads}
Unlinked == Items \ Linked

Do(call, links) == op' = call /\ l' = links /\ UNCHANGED kind

-----------------------------------------------------------------------------
(* Calls *)

Calm == loop = <<>> /\ UNCHANGED loop
Circular == kind = "list" /\ Calm
Single == kind = "hlist" /\ Calm

Add == Circular /\ \E n \in Unlinked, h \in Heads :
    \/ Do(<<"add", n, h>>, list_add(l, n, h))
    \/ Do(<<"add_tail", n, h>>, list_add_tail(l, n, h))

Del == Circular /\ \E n \in Linked :
    Do(<<"del", n>>, list_del(l, n)) \/ Do(<<"del", n>>, list_del_init(l, n))

(* An entry that is on no list, and points to itself, may be deleted again. *)
DelAgain == Circular /\ \E n \in Unlinked :
    list_empty(l, n) /\ Do(<<"del", n>>, list_del_init(l, n))

Move == Circular /\ \E n \in Linked, h \in Heads :
    \/ Do(<<"move", n, h>>, list_move(l, n, h))
    \/ Do(<<"move_tail", n, h>>, list_move_tail(l, n, h))

Replace == Circular /\ \E old \in Linked, new \in Unlinked :
    \/ Do(<<"replace", old, new>>, list_replace(l, old, new))
    \/ Do(<<"replace", old, new>>, list_replace_init(l, old, new))

(* "If @old was empty, it will be overwritten": a new head for a list, that *)
(* may be empty.                                                            *)
ReplaceHead == Circular /\ \E old, new \in Heads :
    old # new /\ On(new) = {} /\ Do(<<"take", old, new>>, list_replace_init(l, old, new))

Rotate == Circular /\ \E h \in Heads :
    On(h) # {} /\ Do(<<"rotate", h>>, list_rotate_left(l, h))

Cut == Circular /\ \E list, head \in Heads : \E entry \in On(head) \cup {head} :
    /\ list # head /\ On(list) = {}
    /\ Do(<<"cut", list, head, entry>>, list_cut_position(l, list, head, entry))

(* The caller of list_splice initialises the head it empties if it uses it *)
(* again.                                                                  *)
Splice == Circular /\ \E list, head \in Heads :
    /\ list # head
    /\ \/ Do(<<"splice", list, head>>, INIT_LIST_HEAD(list_splice(l, list, head), list))
       \/ Do(<<"splice", list, head>>, list_splice_init(l, list, head))
       \/ Do(<<"splice_tail", list, head>>,
             INIT_LIST_HEAD(list_splice_tail(l, list, head), list))
       \/ Do(<<"splice_tail", list, head>>, list_splice_tail_init(l, list, head))

HAdd == Single /\ \E n \in Unlinked :
    \/ \E h \in Heads : Do(<<"add", n, h>>, hlist_add_head(l, n, h))
    \/ \E e \in Linked : Do(<<"before", n, e>>, hlist_add_before(l, n, e))
    \/ \E e \in Linked : Do(<<"after", n, e>>, hlist_add_after(l, e, n))

HDel == Single /\ \E n \in Linked :
    Do(<<"del", n>>, hlist_del(l, n)) \/ Do(<<"del", n>>, hlist_del_init(l, n))

(* "after that we'll appear to be on some hlist and hlist_del will work" *)
HFake == Single /\ \E n \in Unlinked :
    /\ l.next[n] = NULL
    /\ \/ hlist_unhashed(l, n) /\ Do(<<"del", n>>, hlist_add_fake(l, n))
       \/ Do(<<"del", n>>, hlist_del_init(l, n))

HMoveList == Single /\ \E old, new \in Heads :
    old # new /\ On(new) = {} /\ Do(<<"take", old, new>>, hlist_move_list(l, old, new))

-----------------------------------------------------------------------------
(* Loops: the entry of the turn, what was read for the next turn, the      *)
(* entries seen and the entries there were to see                          *)

End(h) == IF kind = "list" THEN h ELSE NULL
Step(links, p) == IF p \in Nodes THEN links[p] ELSE NULL

(* From the head, after an entry, or from an entry on; towards next or     *)
(* prev; with the next link read ahead (the _safe loops) or not.           *)
Begin(h, dir, safe, pos, due) ==
    /\ loop' = <<[head |-> h, dir |-> dir, safe |-> safe, pos |-> pos,
                  n |-> Step(l[dir], pos), seen |-> <<>>, due |-> due]>>
    /\ UNCHANGED <<kind, l, op>>

Due(h, dir) == IF dir = "next" THEN Sequence(h) ELSE Reverse(Sequence(h))
Dirs == IF kind = "list" THEN {"next", "prev"} ELSE {"next"}

BeginAtHead == loop = <<>> /\ \E h \in Heads, dir \in Dirs, safe \in BOOLEAN :
    Begin(h, dir, safe, l[dir][h], Due(h, dir))

BeginAtEntry == loop = <<>> /\ \E h \in Heads, dir \in Dirs, safe \in BOOLEAN :
    \E i \in DOMAIN Sequence(h) :
        LET s == Due(h, dir) IN
        \/ Begin(h, dir, safe, l[dir][s[i]], SubSeq(s, i + 1, Len(s)))    \* _continue
        \/ Begin(h, dir, safe, s[i], SubSeq(s, i, Len(s)))                \* _from

At == loop[1].pos
Running == loop # <<>> /\ At # End(loop[1].head)
TakeOut(links) == op' = <<"del", At>> /\ l' = links
Depart(links, h) == op' = <<"move", At, h>> /\ l' = links

(* The body of a turn: it may take the entry away if the loop is safe. *)
Body ==
    \/ UNCHANGED <<l, op>>
    \/ /\ loop[1].safe /\ kind = "list"
       /\ \/ TakeOut(list_del(l, At)) \/ TakeOut(list_del_init(l, At))
          \/ \E h \in Heads \ {loop[1].head} : Depart(list_move(l, At, h), h)
    \/ loop[1].safe /\ kind = "hlist" /\ (TakeOut(hlist_del(l, At)) \/ TakeOut(hlist_del_init(l, At)))

(* A slip: a safe loop reads the link of an entry the body may have freed. *)
AfterTurnSlip(links) == Step(links, At)

AfterTurn(links) == IF loop[1].safe THEN loop[1].n ELSE Step(links, At)

Turn ==
    /\ Running
    /\ Body
    /\ LET after == AfterTurn(l'[loop[1].dir]) IN
       loop' = <<[loop[1] EXCEPT !.pos = after, !.n = Step(l'[loop[1].dir], after),
                                 !.seen = Append(@, At)]>>
    /\ UNCHANGED kind

EndLoop == loop # <<>> /\ ~Running /\ loop' = <<>> /\ UNCHANGED <<kind, l, op>>

Init ==
    /\ kind \in {"list", "hlist"}
    /\ l = IF kind = "list"
           THEN [next |-> [n \in Nodes |-> n], prev |-> [n \in Nodes |-> n]]
           ELSE [next |-> [n \in Nodes |-> NULL], prev |-> [n \in Nodes |-> NULL]]
    /\ op = <<>> /\ loop = <<>>

Next ==
    \/ Add \/ Del \/ DelAgain \/ Move \/ Replace \/ ReplaceHead \/ Rotate \/ Cut \/ Splice
    \/ HAdd \/ HDel \/ HFake \/ HMoveList
    \/ BeginAtHead \/ BeginAtEntry \/ Turn \/ EndLoop

Spec == Init /\ [][Next]_vars

-----------------------------------------------------------------------------
(* Properties *)

(* Every link leads to a node, to the end or to a mark. *)
TypeOK ==
    /\ kind \in {"list", "hlist"}
    /\ \A n \in Nodes : l.next[n] \in Nodes \cup {NULL, Poison1}
                          /\ l.prev[n] \in Nodes \cup {NULL, Poison2}

(* The way back is the way forth: a circular list reads the same from both *)
(* ends and comes round to its head; on an hlist every entry knows the     *)
(* link that points to it, and the last has none after it.                 *)
WayBack ==
    \A h \in Heads :
        IF kind = "list"
        THEN /\ Follow(l.prev, h) = Reverse(Sequence(h))
             /\ l.next[l.prev[h]] = h /\ l.prev[l.next[h]] = h
        ELSE \A n \in On(h) \cup {h} :
                 IF l.next[n] = NULL THEN TRUE
                 ELSE l.next[n] \in Items /\ l.prev[l.next[n]] = n

(* The tests a caller decides by agree with the sequence: empty (carefully *)
(* or not), one entry, the last entry, on a list or not.                   *)
TestsAgree ==
    /\ kind = "list" => \A h \in Heads :
           /\ list_empty(l, h) <=> Sequence(h) = <<>>
           /\ list_empty_careful(l, h) <=> Sequence(h) = <<>>
           /\ list_is_singular(l, h) <=> Len(Sequence(h)) = 1
           /\ \A n \in On(h) : list_is_last(l, n, h) <=> n = Last(Sequence(h))
    /\ kind = "hlist" =>
           /\ \A h \in Heads : hlist_empty(l, h) <=> Sequence(h) = <<>>
           /\ \A n \in Linked : ~hlist_unhashed(l, n)

(* A loop sees every entry there was once, in order, though its body may   *)
(* delete the entry of the turn, move it to another list or free it.       *)
LoopSeesAll ==
    loop # <<>> => /\ IsPrefix(loop[1].seen, loop[1].due)
                   /\ ~Running => loop[1].seen = loop[1].due

(* The links implement sequences: each call does to them what it promises, *)
(* and to no other list.                                                   *)
Abstract == INSTANCE Lists WITH lists <- [h \in Heads |-> Sequence(h)]
ImplementsLists == Abstract!Spec
=============================================================================
