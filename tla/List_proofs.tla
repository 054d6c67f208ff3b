---------------------------- MODULE List_proofs ----------------------------
(***************************************************************************)
(* That the links of module List hold sequences, that each call does to    *)
(* the sequences what module Lists says, and that a loop sees all of one,  *)
(* for any number of heads and entries.                                    *)
(*                                                                         *)
(* First links alone: when links hold sequences, in rings or in chains,    *)
(* the links a call leaves hold the sequences with an entry more, less, or *)
(* elsewhere; and what links hold is what Follow reads.                    *)
(***************************************************************************)
EXTENDS List, TLAPS, FiniteSetTheorems, WellFoundedInduction

-----------------------------------------------------------------------------
(* Sequences in links *)

Links == [next : [Nodes -> Nodes \cup {NULL, Poison1}],
          prev : [Nodes -> Nodes \cup {NULL, Poison2}]]

Contents == [Heads -> Seq(Items)]

(* No entry is on two lists, or twice on one. *)
Apart(S) ==
    \A g, h \in Heads : \A i \in 1 .. Len(S[g]), j \in 1 .. Len(S[h]) :
        S[g][i] = S[h][j] => g = h /\ i = j

Member(S, n) == \E h \in Heads : \E i \in 1 .. Len(S[h]) : S[h][i] = n

(* The places of a list: its entries, with the head before and after them. *)
Place(S, h, i) == IF i \in 1 .. Len(S[h]) THEN S[h][i] ELSE h

(* A circular list leads from place to place and back. *)
Ring(m, S, h) ==
    \A i \in 0 .. Len(S[h]) :
        /\ m.next[Place(S, h, i)] = Place(S, h, i + 1)
        /\ m.prev[Place(S, h, i + 1)] = Place(S, h, i)

(* What the entry at a place, or the head, points to on one with a single *)
(* pointer as head, and the way back.                                      *)
After(S, h, i) == IF i < Len(S[h]) THEN S[h][i + 1] ELSE NULL

Chain(m, S, h) ==
    /\ \A i \in 0 .. Len(S[h]) : m.next[Place(S, h, i)] = After(S, h, i)
    /\ \A i \in 1 .. Len(S[h]) : m.prev[S[h][i]] = Place(S, h, i - 1)

Rings(m, S) == S \in Contents /\ Apart(S) /\ \A h \in Heads : Ring(m, S, h)
Chains(m, S) == S \in Contents /\ Apart(S) /\ \A h \in Heads : Chain(m, S, h)

Inserted(S, T, h, i, n) ==
    /\ Len(T[h]) = Len(S[h]) + 1
    /\ \A j \in 1 .. Len(T[h]) :
          T[h][j] = IF j <= i THEN S[h][j] ELSE IF j = i + 1 THEN n ELSE S[h][j - 1]
    /\ \A g \in Heads \ {h} : T[g] = S[g]

Removed(S, T, h, i) ==
    /\ Len(T[h]) = Len(S[h]) - 1
    /\ \A j \in 1 .. Len(T[h]) : T[h][j] = IF j < i THEN S[h][j] ELSE S[h][j + 1]
    /\ \A g \in Heads \ {h} : T[g] = S[g]

-----------------------------------------------------------------------------
(* Stores *)

LEMMA Stored ==
    ASSUME NEW m \in Links, NEW n \in Nodes
    PROVE  /\ \A v \in Nodes \cup {NULL, Poison1} :
                 /\ SetNext(m, n, v) \in Links
                 /\ SetNext(m, n, v).next = [m.next EXCEPT ![n] = v]
                 /\ SetNext(m, n, v).prev = m.prev
           /\ \A v \in Nodes \cup {NULL, Poison2} :
                 /\ SetPrev(m, n, v) \in Links
                 /\ SetPrev(m, n, v).next = m.next
                 /\ SetPrev(m, n, v).prev = [m.prev EXCEPT ![n] = v]
  BY DEF SetNext, SetPrev, Links

(* The same, node by node. *)
LEMMA NextSet ==
    ASSUME NEW m \in Links, NEW n \in Nodes, NEW v \in Nodes \cup {NULL, Poison1}
    PROVE  /\ SetNext(m, n, v) \in Links
           /\ \A x \in Nodes : /\ SetNext(m, n, v).next[x] = IF x = n THEN v ELSE m.next[x]
                               /\ SetNext(m, n, v).prev[x] = m.prev[x]
  <1>1. m.next \in [Nodes -> Nodes \cup {NULL, Poison1}]
    BY DEF Links
  <1>2. /\ SetNext(m, n, v) \in Links
        /\ SetNext(m, n, v).next = [m.next EXCEPT ![n] = v]
        /\ SetNext(m, n, v).prev = m.prev
    BY Stored
  <1>3. \A x \in Nodes : [m.next EXCEPT ![n] = v][x] = IF x = n THEN v ELSE m.next[x]
    BY <1>1
  <1> QED
    BY <1>2, <1>3

LEMMA PrevSet ==
    ASSUME NEW m \in Links, NEW n \in Nodes, NEW v \in Nodes \cup {NULL, Poison2}
    PROVE  /\ SetPrev(m, n, v) \in Links
           /\ \A x \in Nodes : /\ SetPrev(m, n, v).next[x] = m.next[x]
                               /\ SetPrev(m, n, v).prev[x] = IF x = n THEN v ELSE m.prev[x]
  <1>1. m.prev \in [Nodes -> Nodes \cup {NULL, Poison2}]
    BY DEF Links
  <1>2. /\ SetPrev(m, n, v) \in Links
        /\ SetPrev(m, n, v).prev = [m.prev EXCEPT ![n] = v]
        /\ SetPrev(m, n, v).next = m.next
    BY Stored
  <1>3. \A x \in Nodes : [m.prev EXCEPT ![n] = v][x] = IF x = n THEN v ELSE m.prev[x]
    BY <1>1
  <1> QED
    BY <1>2, <1>3

LEMMA LinkTypes ==
    ASSUME NEW m \in Links, NEW n \in Nodes
    PROVE  m.next[n] \in Nodes \cup {NULL, Poison1} /\ m.prev[n] \in Nodes \cup {NULL, Poison2}
  BY DEF Links

-----------------------------------------------------------------------------
(* Places *)

LEMMA Places ==
    ASSUME NEW S \in Contents, NEW h \in Heads
    PROVE  /\ Len(S[h]) \in Nat
           /\ \A i \in 1 .. Len(S[h]) : S[h][i] \in Items /\ S[h][i] \in Nodes
                                          /\ S[h][i] # h /\ Place(S, h, i) = S[h][i]
           /\ \A i \in Int : Place(S, h, i) \in Nodes
           /\ Place(S, h, 0) = h /\ Place(S, h, Len(S[h]) + 1) = h
           /\ h \in Nodes
  BY ListAssumption DEF Contents, Place, Nodes

LEMMA PlacesApart ==
    ASSUME NEW S \in Contents, Apart(S), NEW g \in Heads, NEW h \in Heads
    PROVE  /\ \A i \in 0 .. Len(S[g]), j \in 0 .. Len(S[h]) :
                 Place(S, g, i) = Place(S, h, j) => g = h /\ i = j
           /\ \A i \in 1 .. Len(S[g]) + 1, j \in 1 .. Len(S[h]) + 1 :
                 Place(S, g, i) = Place(S, h, j) => g = h /\ i = j
  <1>1. Len(S[g]) \in Nat /\ Len(S[h]) \in Nat
    BY Places
  <1>2. /\ \A i \in 1 .. Len(S[g]) : S[g][i] \in Items
        /\ \A i \in 1 .. Len(S[h]) : S[h][i] \in Items
    BY Places
  <1>3. \A x \in Items : x # g /\ x # h
    BY ListAssumption
  <1> QED
    BY <1>1, <1>2, <1>3 DEF Place, Apart

LEMMA AddLinks ==
    ASSUME NEW m \in Links, NEW n \in Nodes, NEW p \in Nodes, NEW q \in Nodes
    PROVE  /\ ListAdd(m, n, p, q) \in Links
           /\ \A x \in Nodes :
                 /\ ListAdd(m, n, p, q).next[x] =
                       IF x = p THEN n ELSE IF x = n THEN q ELSE m.next[x]
                 /\ ListAdd(m, n, p, q).prev[x] =
                       IF x = n THEN p ELSE IF x = q THEN n ELSE m.prev[x]
  <1> DEFINE m1 == SetPrev(m, q, n)
             m2 == SetNext(m1, n, q)
             m3 == SetPrev(m2, n, p)
             m4 == SetNext(m3, p, n)
  <1>0. ListAdd(m, n, p, q) = m4
    BY DEF ListAdd
  <1>1. m1 \in Links /\ \A x \in Nodes : m1.next[x] = m.next[x]
                                          /\ m1.prev[x] = IF x = q THEN n ELSE m.prev[x]
    BY PrevSet
  <1> HIDE DEF m1
  <1>2. m2 \in Links /\ \A x \in Nodes : m2.prev[x] = m1.prev[x]
                                          /\ m2.next[x] = IF x = n THEN q ELSE m1.next[x]
    BY <1>1, NextSet
  <1> HIDE DEF m2
  <1>3. m3 \in Links /\ \A x \in Nodes : m3.next[x] = m2.next[x]
                                          /\ m3.prev[x] = IF x = n THEN p ELSE m2.prev[x]
    BY <1>2, PrevSet
  <1> HIDE DEF m3
  <1>4. m4 \in Links /\ \A x \in Nodes : m4.prev[x] = m3.prev[x]
                                          /\ m4.next[x] = IF x = p THEN n ELSE m3.next[x]
    BY <1>3, NextSet
  <1> HIDE DEF m4
  <1> QED
    BY <1>0, <1>1, <1>2, <1>3, <1>4

LEMMA DelLinks ==
    ASSUME NEW m \in Links, NEW p \in Nodes, NEW q \in Nodes
    PROVE  /\ ListDel(m, p, q) \in Links
           /\ \A x \in Nodes : /\ ListDel(m, p, q).next[x] = IF x = p THEN q ELSE m.next[x]
                               /\ ListDel(m, p, q).prev[x] = IF x = q THEN p ELSE m.prev[x]
  <1> DEFINE m1 == SetPrev(m, q, p)
             m2 == SetNext(m1, p, q)
  <1>0. ListDel(m, p, q) = m2
    BY DEF ListDel
  <1>1. m1 \in Links /\ \A x \in Nodes : m1.next[x] = m.next[x]
                                          /\ m1.prev[x] = IF x = q THEN p ELSE m.prev[x]
    BY PrevSet
  <1> HIDE DEF m1
  <1>2. m2 \in Links /\ \A x \in Nodes : m2.prev[x] = m1.prev[x]
                                          /\ m2.next[x] = IF x = p THEN q ELSE m1.next[x]
    BY <1>1, NextSet
  <1> HIDE DEF m2
  <1> QED
    BY <1>0, <1>1, <1>2

-----------------------------------------------------------------------------
(* One entry more or less *)

LEMMA PlacesInserted ==
    ASSUME NEW S \in Contents, NEW T \in Contents, Apart(S), NEW h \in Heads,
           NEW i \in 0 .. Len(S[h]), NEW n \in Items, ~Member(S, n), Inserted(S, T, h, i, n)
    PROVE  /\ Apart(T)
           /\ \A j \in 0 .. Len(T[h]) + 1 :
                 Place(T, h, j) = IF j <= i THEN Place(S, h, j)
                                  ELSE IF j = i + 1 THEN n ELSE Place(S, h, j - 1)
           /\ \A g \in Heads \ {h} : \A j \in Int : Place(T, g, j) = Place(S, g, j)
           /\ \A g \in Heads, j \in Int : Place(S, g, j) # n
  <1>1. \A g \in Heads : Len(S[g]) \in Nat /\ Len(T[g]) \in Nat
    BY Places
  <1>2. \A g \in Heads : \A j \in 1 .. Len(S[g]) : S[g][j] # n
    BY DEF Member
  <1>3. Apart(T)
    <2> DEFINE from(g, j) == IF g = h /\ j > i + 1 THEN j - 1 ELSE j
    <2>1. ASSUME NEW g \in Heads, NEW j \in 1 .. Len(T[g])
          PROVE  IF g = h /\ j = i + 1 THEN T[g][j] = n
                 ELSE from(g, j) \in 1 .. Len(S[g]) /\ T[g][j] = S[g][from(g, j)]
      BY <1>1 DEF Inserted
    <2>2. ASSUME NEW f \in Heads, NEW g \in Heads, NEW a \in 1 .. Len(T[f]),
                 NEW b \in 1 .. Len(T[g]), T[f][a] = T[g][b]
          PROVE  f = g /\ a = b
      <3>1. CASE f = h /\ a = i + 1
        BY <1>2, <2>1, <2>2, <3>1
      <3>2. CASE g = h /\ b = i + 1
        BY <1>2, <2>1, <2>2, <3>2, SMTT(30)
      <3>3. CASE ~(f = h /\ a = i + 1) /\ ~(g = h /\ b = i + 1)
        <4>1. /\ from(f, a) \in 1 .. Len(S[f]) /\ from(g, b) \in 1 .. Len(S[g])
              /\ S[f][from(f, a)] = S[g][from(g, b)]
          BY <2>1, <2>2, <3>3
        <4>2. f = g /\ from(f, a) = from(g, b)
          <5> HIDE DEF from
          <5> QED
            BY <4>1 DEF Apart
        <4> QED
          BY <4>2, <3>3, <1>1
      <3> QED
        BY <3>1, <3>2, <3>3
    <2> QED
      BY <2>2 DEF Apart
  <1>4. \A g \in Heads : g # n
    BY ListAssumption
  <1>5. \A g \in Heads, j \in Int : Place(S, g, j) # n
    BY <1>2, <1>4 DEF Place
  <1>6. \A j \in 0 .. Len(T[h]) + 1 :
                 Place(T, h, j) = IF j <= i THEN Place(S, h, j)
                                  ELSE IF j = i + 1 THEN n ELSE Place(S, h, j - 1)
    BY <1>1 DEF Place, Inserted
  <1>7. \A g \in Heads \ {h} : \A j \in Int : Place(T, g, j) = Place(S, g, j)
    BY DEF Place, Inserted
  <1> QED
    BY <1>3, <1>5, <1>6, <1>7

LEMMA MembersInserted ==
    ASSUME NEW S \in Contents, NEW T \in Contents, NEW h \in Heads,
           NEW i \in 0 .. Len(S[h]), NEW n, Inserted(S, T, h, i, n), NEW x
    PROVE  Member(T, x) <=> x = n \/ Member(S, x)
  <1>1. \A g \in Heads : Len(S[g]) \in Nat /\ Len(T[g]) \in Nat
    BY Places
  <1>2. Len(T[h]) = Len(S[h]) + 1 /\ i \in Nat /\ i <= Len(S[h])
    BY <1>1 DEF Inserted
  <1>3. ASSUME Member(T, x) PROVE x = n \/ Member(S, x)
    <2>1. PICK g \in Heads : \E j \in 1 .. Len(T[g]) : T[g][j] = x
      BY <1>3 DEF Member
    <2>2. PICK j \in 1 .. Len(T[g]) : T[g][j] = x
      BY <2>1
    <2>3. CASE g # h
      BY <2>2, <2>3 DEF Member, Inserted
    <2>4. CASE g = h /\ j <= i
      <3>1. j \in 1 .. Len(S[h]) /\ S[h][j] = x
        BY <2>2, <2>4, <1>1, <1>2 DEF Inserted
      <3> QED
        BY <3>1 DEF Member
    <2>5. CASE g = h /\ j = i + 1
      BY <2>2, <2>5, <1>1, <1>2 DEF Inserted
    <2>6. CASE g = h /\ j > i + 1
      <3>1. j - 1 \in 1 .. Len(S[h]) /\ S[h][j - 1] = x
        BY <2>2, <2>6, <1>1, <1>2 DEF Inserted
      <3> QED
        BY <3>1 DEF Member
    <2> QED
      BY <2>3, <2>4, <2>5, <2>6, <1>1, <1>2
  <1>4. ASSUME x = n PROVE Member(T, x)
    <2>1. i + 1 \in 1 .. Len(T[h]) /\ T[h][i + 1] = n
      BY <1>1, <1>2 DEF Inserted
    <2> QED
      BY <2>1, <1>4 DEF Member
  <1>5. ASSUME Member(S, x) PROVE Member(T, x)
    <2>1. PICK g \in Heads : \E j \in 1 .. Len(S[g]) : S[g][j] = x
      BY <1>5 DEF Member
    <2>2. PICK j \in 1 .. Len(S[g]) : S[g][j] = x
      BY <2>1
    <2>3. CASE g # h
      BY <2>2, <2>3 DEF Member, Inserted
    <2>4. CASE g = h /\ j <= i
      <3>1. j \in 1 .. Len(T[h]) /\ T[h][j] = x
        BY <2>2, <2>4, <1>1, <1>2 DEF Inserted
      <3> QED
        BY <3>1 DEF Member
    <2>5. CASE g = h /\ j > i
      <3>1. j + 1 \in 1 .. Len(T[h]) /\ T[h][j + 1] = S[h][(j + 1) - 1] /\ (j + 1) - 1 = j
        BY <2>5, <1>1, <1>2 DEF Inserted
      <3>2. T[h][j + 1] = x
        BY <2>2, <2>5, <3>1
      <3> QED
        BY <3>1, <3>2 DEF Member
    <2> QED
      BY <2>3, <2>4, <2>5, <1>1, <1>2
  <1> QED
    BY <1>3, <1>4, <1>5

LEMMA PlacesRemoved ==
    ASSUME NEW S \in Contents, NEW T \in Contents, Apart(S), NEW h \in Heads,
           NEW i \in 1 .. Len(S[h]), Removed(S, T, h, i)
    PROVE  /\ Apart(T)
           /\ \A j \in 0 .. Len(T[h]) + 1 :
                 Place(T, h, j) = IF j < i THEN Place(S, h, j) ELSE Place(S, h, j + 1)
           /\ \A g \in Heads \ {h} : \A j \in Int : Place(T, g, j) = Place(S, g, j)
           /\ \A g \in Heads : \A j \in 0 .. Len(T[g]) + 1 : Place(T, g, j) # S[h][i]
           /\ ~Member(T, S[h][i])
           /\ \A x : Member(T, x) => Member(S, x)
           /\ \A x : Member(S, x) => x = S[h][i] \/ Member(T, x)
  <1>1. \A g \in Heads : Len(S[g]) \in Nat /\ Len(T[g]) \in Nat
    BY Places
  <1>3. Apart(T)
    <2> DEFINE from(g, j) == IF g = h /\ j >= i THEN j + 1 ELSE j
    <2>1. ASSUME NEW g \in Heads, NEW j \in 1 .. Len(T[g])
          PROVE  from(g, j) \in 1 .. Len(S[g]) /\ T[g][j] = S[g][from(g, j)]
      BY <1>1 DEF Removed
    <2>2. ASSUME NEW f \in Heads, NEW g \in Heads, NEW a \in 1 .. Len(T[f]),
                 NEW b \in 1 .. Len(T[g]), T[f][a] = T[g][b]
          PROVE  f = g /\ a = b
      <3>1. /\ from(f, a) \in 1 .. Len(S[f]) /\ from(g, b) \in 1 .. Len(S[g])
            /\ S[f][from(f, a)] = S[g][from(g, b)]
        BY <2>1, <2>2
      <3>2. f = g /\ from(f, a) = from(g, b)
        <4> HIDE DEF from
        <4> QED
          BY <3>1 DEF Apart
      <3> QED
        BY <3>2, <1>1
    <2> QED
      BY <2>2 DEF Apart
  <1>4. S[h][i] \in Items /\ \A g \in Heads : g # S[h][i]
    BY ListAssumption, Places
  <1>6. \A j \in 0 .. Len(T[h]) + 1 :
                 Place(T, h, j) = IF j < i THEN Place(S, h, j) ELSE Place(S, h, j + 1)
    BY <1>1 DEF Place, Removed
  <1>7. \A g \in Heads \ {h} : \A j \in Int : Place(T, g, j) = Place(S, g, j)
    BY DEF Place, Removed
  <1>8. ~Member(T, S[h][i])
    BY <1>1, SMTT(30) DEF Apart, Removed, Member
  <1>9. \A x : Member(T, x) => Member(S, x)
    BY <1>1 DEF Removed, Member
  <1>10. ASSUME NEW x, Member(S, x), x # S[h][i]
         PROVE  Member(T, x)
    <2>1. PICK g \in Heads : \E j \in 1 .. Len(S[g]) : S[g][j] = x
      BY <1>10 DEF Member
    <2>0. PICK j \in 1 .. Len(S[g]) : S[g][j] = x
      BY <2>1
    <2>2. CASE g # h
      BY <2>0, <2>2 DEF Member, Removed
    <2>3. CASE g = h
      <3>1. CASE j < i
        <4>1. j \in 1 .. Len(T[h]) /\ T[h][j] = x
          BY <1>1, <2>0, <2>3, <3>1 DEF Removed
        <4> QED
          BY <4>1 DEF Member
      <3>2. CASE j > i
        <4>1. j - 1 \in 1 .. Len(T[h]) /\ T[h][j - 1] = x
          BY <1>1, <2>0, <2>3, <3>2 DEF Removed
        <4> QED
          BY <4>1 DEF Member
      <3>3. j # i
        BY <1>10, <2>0, <2>3
      <3> QED
        BY <3>1, <3>2, <3>3, <1>1
    <2> QED
      BY <2>2, <2>3
  <1>11. \A g \in Heads : \A j \in 0 .. Len(T[g]) + 1 : Place(T, g, j) # S[h][i]
    BY <1>4, <1>8 DEF Place, Member
  <1> QED
    BY <1>3, <1>6, <1>7, <1>8, <1>9, <1>10, <1>11

(* What a list does not touch may change. *)
LEMMA RingsKept ==
    ASSUME NEW m, NEW w, NEW S, Rings(m, S),
           \A x \in Nodes : (x \in Heads \/ Member(S, x)) =>
               w.next[x] = m.next[x] /\ w.prev[x] = m.prev[x]
    PROVE  Rings(w, S)
  <1> SUFFICES ASSUME NEW h \in Heads, NEW i \in 0 .. Len(S[h])
               PROVE  /\ w.next[Place(S, h, i)] = Place(S, h, i + 1)
                      /\ w.prev[Place(S, h, i + 1)] = Place(S, h, i)
    BY DEF Rings, Ring
  <1>0. S \in Contents /\ Len(S[h]) \in Nat
    BY Places DEF Rings
  <1>1. \A j \in Int : Place(S, h, j) \in Nodes
                         /\ (Place(S, h, j) \in Heads \/ Member(S, Place(S, h, j)))
    BY <1>0, Places DEF Place, Member
  <1>2. /\ m.next[Place(S, h, i)] = Place(S, h, i + 1)
        /\ m.prev[Place(S, h, i + 1)] = Place(S, h, i)
    BY DEF Rings, Ring
  <1> QED
    BY <1>0, <1>1, <1>2

LEMMA RingInsert ==
    ASSUME NEW m \in Links, NEW S, Rings(m, S), NEW h \in Heads, NEW i \in 0 .. Len(S[h]),
           NEW n \in Items, ~Member(S, n), NEW T \in Contents, Inserted(S, T, h, i, n)
    PROVE  /\ ListAdd(m, n, Place(S, h, i), Place(S, h, i + 1)) \in Links
           /\ Rings(ListAdd(m, n, Place(S, h, i), Place(S, h, i + 1)), T)
           /\ \A x \in Nodes : x # n /\ ~(x \in Heads \/ Member(S, x)) =>
                 /\ ListAdd(m, n, Place(S, h, i), Place(S, h, i + 1)).next[x] = m.next[x]
                 /\ ListAdd(m, n, Place(S, h, i), Place(S, h, i + 1)).prev[x] = m.prev[x]
  <1> DEFINE p == Place(S, h, i)
             q == Place(S, h, i + 1)
             w == ListAdd(m, n, p, q)
  <1>0. S \in Contents /\ Apart(S) /\ \A g \in Heads : Len(S[g]) \in Nat /\ Len(T[g]) \in Nat
    BY Places DEF Rings
  <1>1. p \in Nodes /\ q \in Nodes /\ n \in Nodes
    BY <1>0, Places DEF Nodes
  <1>2. /\ w \in Links
        /\ \A x \in Nodes :
              /\ w.next[x] = IF x = p THEN n ELSE IF x = n THEN q ELSE m.next[x]
              /\ w.prev[x] = IF x = n THEN p ELSE IF x = q THEN n ELSE m.prev[x]
    BY <1>1, AddLinks
  <1>3. /\ Apart(T)
        /\ \A j \in 0 .. Len(T[h]) + 1 :
              Place(T, h, j) = IF j <= i THEN Place(S, h, j)
                               ELSE IF j = i + 1 THEN n ELSE Place(S, h, j - 1)
        /\ \A g \in Heads \ {h} : \A j \in Int : Place(T, g, j) = Place(S, g, j)
        /\ \A g \in Heads, j \in Int : Place(S, g, j) # n
    BY <1>0, PlacesInserted
  <1>4. /\ \A g \in Heads, j \in Int : Place(S, g, j) \in Nodes
        /\ Len(T[h]) = Len(S[h]) + 1 /\ \A g \in Heads \ {h} : T[g] = S[g]
    BY <1>0, Places DEF Inserted
  <1>5. ASSUME NEW g \in Heads, NEW j \in 0 .. Len(S[g])
        PROVE  /\ m.next[Place(S, g, j)] = Place(S, g, j + 1)
               /\ m.prev[Place(S, g, j + 1)] = Place(S, g, j)
               /\ Place(S, g, j) = p => g = h /\ i = j
               /\ Place(S, g, j + 1) = q => g = h /\ i = j
    <2>1. Place(S, g, j) = p => g = h /\ i = j
      BY <1>0, PlacesApart
    <2>2. Place(S, g, j + 1) = q => g = h /\ i + 1 = j + 1
      BY <1>0, PlacesApart
    <2> QED
      BY <2>1, <2>2, <1>0 DEF Rings, Ring
  <1> HIDE DEF w
  <1>6. ASSUME NEW g \in Heads, NEW j \in 0 .. Len(T[g])
        PROVE  /\ w.next[Place(T, g, j)] = Place(T, g, j + 1)
               /\ w.prev[Place(T, g, j + 1)] = Place(T, g, j)
    <2>1. CASE g # h
      BY <1>0, <1>2, <1>3, <1>4, <1>5, <2>1
    <2>2. CASE g = h /\ j < i
      <3>1. Place(T, g, j) = Place(S, g, j) /\ Place(T, g, j + 1) = Place(S, g, j + 1)
        BY <1>0, <1>3, <1>4, <2>2
      <3> QED
        BY <3>1, <1>0, <1>2, <1>3, <1>4, <1>5, <2>2
    <2>3. CASE g = h /\ j = i
      <3>1. Place(T, g, j) = p /\ Place(T, g, j + 1) = n
        BY <1>0, <1>3, <1>4, <2>3
      <3> QED
        BY <3>1, <1>1, <1>2
    <2>4. CASE g = h /\ j = i + 1
      <3>1. Place(T, g, j) = n /\ Place(T, g, j + 1) = q
        BY <1>0, <1>3, <1>4, <2>4
      <3> QED
        BY <3>1, <1>1, <1>2, <1>3, <1>0
    <2>5. CASE g = h /\ j > i + 1
      <3>1. Place(T, g, j) = Place(S, g, j - 1) /\ Place(T, g, j + 1) = Place(S, g, j)
            /\ j - 1 \in 0 .. Len(S[g]) /\ (j - 1) + 1 = j
        BY <1>0, <1>3, <1>4, <2>5
      <3>2. /\ m.next[Place(S, g, j - 1)] = Place(S, g, j)
            /\ m.prev[Place(S, g, j)] = Place(S, g, j - 1)
            /\ Place(S, g, j - 1) # p /\ Place(S, g, j) # q
        BY <3>1, <1>5, <2>5
      <3> QED
        BY <3>1, <3>2, <1>0, <1>2, <1>3, <1>4
    <2> QED
      BY <2>1, <2>2, <2>3, <2>4, <2>5, <1>0
  <1>7. Rings(w, T)
    BY <1>3, <1>6 DEF Rings, Ring
  <1>8. \A x \in Nodes : x # n /\ ~(x \in Heads \/ Member(S, x)) =>
            w.next[x] = m.next[x] /\ w.prev[x] = m.prev[x]
    <2> SUFFICES ASSUME NEW x \in Nodes, x # n, ~(x \in Heads \/ Member(S, x))
                 PROVE  w.next[x] = m.next[x] /\ w.prev[x] = m.prev[x]
      OBVIOUS
    <2>1. x # p /\ x # q
      BY <1>0 DEF Place, Member
    <2> QED
      BY <2>1, <1>2
  <1> QED
    BY <1>2, <1>7, <1>8 DEF w

LEMMA RingRemove ==
    ASSUME NEW m \in Links, NEW S, Rings(m, S), NEW h \in Heads, NEW i \in 1 .. Len(S[h]),
           NEW T \in Contents, Removed(S, T, h, i)
    PROVE  /\ m.prev[S[h][i]] = Place(S, h, i - 1) /\ m.next[S[h][i]] = Place(S, h, i + 1)
           /\ ListDelEntry(m, S[h][i]) \in Links
           /\ Rings(ListDelEntry(m, S[h][i]), T)
           /\ \A x \in Nodes : ~(x \in Heads \/ Member(S, x)) =>
                 /\ ListDelEntry(m, S[h][i]).next[x] = m.next[x]
                 /\ ListDelEntry(m, S[h][i]).prev[x] = m.prev[x]
  <1> DEFINE e == S[h][i]
             p == Place(S, h, i - 1)
             q == Place(S, h, i + 1)
             w == ListDel(m, p, q)
  <1>0. S \in Contents /\ Apart(S) /\ \A g \in Heads : Len(S[g]) \in Nat /\ Len(T[g]) \in Nat
    BY Places DEF Rings
  <1>1. p \in Nodes /\ q \in Nodes /\ e \in Nodes
    BY <1>0, Places
  <1>2. m.prev[e] = p /\ m.next[e] = q
    <2>1. Place(S, h, i) = e
      BY <1>0, Places
    <2>2. i - 1 \in 0 .. Len(S[h]) /\ (i - 1) + 1 = i /\ i \in 0 .. Len(S[h])
      BY <1>0
    <2> QED
      BY <2>1, <2>2 DEF Rings, Ring
  <1>3. ListDelEntry(m, e) = w
    BY <1>2 DEF ListDelEntry
  <1>4. /\ w \in Links
        /\ \A x \in Nodes : /\ w.next[x] = IF x = p THEN q ELSE m.next[x]
                            /\ w.prev[x] = IF x = q THEN p ELSE m.prev[x]
    BY <1>1, DelLinks
  <1>5. /\ Apart(T)
        /\ \A j \in 0 .. Len(T[h]) + 1 :
              Place(T, h, j) = IF j < i THEN Place(S, h, j) ELSE Place(S, h, j + 1)
        /\ \A g \in Heads \ {h} : \A j \in Int : Place(T, g, j) = Place(S, g, j)
    BY <1>0, PlacesRemoved
  <1>6. /\ \A g \in Heads, j \in Int : Place(S, g, j) \in Nodes
        /\ Len(T[h]) = Len(S[h]) - 1 /\ \A g \in Heads \ {h} : T[g] = S[g]
    BY <1>0, Places DEF Removed
  <1>7. ASSUME NEW g \in Heads, NEW j \in 0 .. Len(S[g])
        PROVE  /\ m.next[Place(S, g, j)] = Place(S, g, j + 1)
               /\ m.prev[Place(S, g, j + 1)] = Place(S, g, j)
               /\ Place(S, g, j) = p => g = h /\ j = i - 1
               /\ Place(S, g, j + 1) = q => g = h /\ j = i
    <2>1. Place(S, g, j) = p => g = h /\ i - 1 = j
      BY <1>0, PlacesApart
    <2>2. Place(S, g, j + 1) = q => g = h /\ i + 1 = j + 1
      BY <1>0, PlacesApart
    <2> QED
      BY <2>1, <2>2, <1>0 DEF Rings, Ring
  <1> HIDE DEF w
  <1>8. ASSUME NEW g \in Heads, NEW j \in 0 .. Len(T[g])
        PROVE  /\ w.next[Place(T, g, j)] = Place(T, g, j + 1)
               /\ w.prev[Place(T, g, j + 1)] = Place(T, g, j)
    <2>1. CASE g # h
      BY <1>0, <1>4, <1>5, <1>6, <1>7, <2>1, SMTT(30)
    <2>2. CASE g = h /\ j < i - 1
      <3>1. Place(T, g, j) = Place(S, g, j) /\ Place(T, g, j + 1) = Place(S, g, j + 1)
            /\ j \in 0 .. Len(S[g]) /\ j # i - 1 /\ j # i
        BY <1>0, <1>5, <1>6, <2>2
      <3> QED
        BY <3>1, <1>4, <1>6, <1>7, <2>2
    <2>3. CASE g = h /\ j = i - 1
      <3>1. Place(T, g, j) = p /\ Place(T, g, j + 1) = q
        BY <1>0, <1>5, <1>6, <2>3
      <3> QED
        BY <3>1, <1>1, <1>4
    <2>4. CASE g = h /\ j > i - 1
      <3>1. Place(T, g, j) = Place(S, g, j + 1) /\ Place(T, g, j + 1) = Place(S, g, j + 1 + 1)
            /\ j + 1 \in 0 .. Len(S[g]) /\ j + 1 # i - 1 /\ j + 1 # i
        BY <1>0, <1>5, <1>6, <2>4
      <3> QED
        BY <3>1, <1>4, <1>6, <1>7, <2>4
    <2> QED
      BY <2>1, <2>2, <2>3, <2>4, <1>0
  <1>9. Rings(w, T)
    BY <1>5, <1>8 DEF Rings, Ring
  <1>10. ASSUME NEW x \in Nodes, ~(x \in Heads \/ Member(S, x))
         PROVE  x # p /\ x # q
    BY <1>10, <1>0 DEF Place, Member
  <1> QED
    BY <1>2, <1>3, <1>4, <1>9, <1>10

(* An entry takes the place of another. *)
Replaced(S, T, h, i, n) ==
    /\ Len(T[h]) = Len(S[h])
    /\ \A j \in 1 .. Len(T[h]) : T[h][j] = IF j = i THEN n ELSE S[h][j]
    /\ \A g \in Heads \ {h} : T[g] = S[g]

LEMMA ReplaceLinks ==
    ASSUME NEW m \in Links, NEW old \in Nodes, NEW new \in Nodes, old # new,
           NEW p \in Nodes, NEW q \in Nodes, m.next[old] = q, m.prev[old] = p, q # old
    PROVE  /\ list_replace(m, old, new) \in Links
           /\ \A x \in Nodes :
                 /\ list_replace(m, old, new).next[x] =
                       IF x = p THEN new ELSE IF x = new THEN q ELSE m.next[x]
                 /\ list_replace(m, old, new).prev[x] =
                       IF x = new THEN p ELSE IF x = q THEN new ELSE m.prev[x]
  <1> DEFINE m1 == SetNext(m, new, m.next[old])
             m2 == SetPrev(m1, m1.next[new], new)
             m3 == SetPrev(m2, new, m2.prev[old])
             m4 == SetNext(m3, m3.prev[new], new)
  <1>0. list_replace(m, old, new) = m4
    BY DEF list_replace
  <1>1. m1 \in Links /\ \A x \in Nodes : m1.prev[x] = m.prev[x]
                                          /\ m1.next[x] = IF x = new THEN q ELSE m.next[x]
    BY NextSet
  <1> HIDE DEF m1
  <1>2. m2 = SetPrev(m1, q, new)
    BY <1>1
  <1>3. m2 \in Links /\ \A x \in Nodes : m2.next[x] = m1.next[x]
                                          /\ m2.prev[x] = IF x = q THEN new ELSE m1.prev[x]
    <2> HIDE DEF m2
    <2>1. /\ SetPrev(m1, q, new) \in Links
          /\ \A x \in Nodes :
                /\ SetPrev(m1, q, new).next[x] = m1.next[x]
                /\ SetPrev(m1, q, new).prev[x] = IF x = q THEN new ELSE m1.prev[x]
      BY <1>1, PrevSet
    <2> QED
      BY <1>2, <2>1
  <1> HIDE DEF m2
  <1>4. m3 = SetPrev(m2, new, p)
    BY <1>1, <1>3
  <1>5. m3 \in Links /\ \A x \in Nodes : m3.next[x] = m2.next[x]
                                          /\ m3.prev[x] = IF x = new THEN p ELSE m2.prev[x]
    <2> HIDE DEF m3
    <2>1. /\ SetPrev(m2, new, p) \in Links
          /\ \A x \in Nodes :
                /\ SetPrev(m2, new, p).next[x] = m2.next[x]
                /\ SetPrev(m2, new, p).prev[x] = IF x = new THEN p ELSE m2.prev[x]
      BY <1>3, PrevSet
    <2> QED
      BY <1>4, <2>1
  <1> HIDE DEF m3
  <1>6. m4 = SetNext(m3, p, new)
    BY <1>5
  <1>7. m4 \in Links /\ \A x \in Nodes : m4.prev[x] = m3.prev[x]
                                          /\ m4.next[x] = IF x = p THEN new ELSE m3.next[x]
    <2> HIDE DEF m4
    <2>1. /\ SetNext(m3, p, new) \in Links
          /\ \A x \in Nodes :
                /\ SetNext(m3, p, new).prev[x] = m3.prev[x]
                /\ SetNext(m3, p, new).next[x] = IF x = p THEN new ELSE m3.next[x]
      BY <1>5, NextSet
    <2> QED
      BY <1>6, <2>1
  <1> HIDE DEF m4
  <1> QED
    BY <1>0, <1>1, <1>3, <1>5, <1>7

LEMMA PlacesReplaced ==
    ASSUME NEW S \in Contents, NEW T \in Contents, Apart(S), NEW h \in Heads,
           NEW i \in 1 .. Len(S[h]), NEW n \in Items, ~Member(S, n), Replaced(S, T, h, i, n)
    PROVE  /\ Apart(T)
           /\ \A j \in Int : Place(T, h, j) = IF j = i THEN n ELSE Place(S, h, j)
           /\ \A g \in Heads \ {h} : \A j \in Int : Place(T, g, j) = Place(S, g, j)
           /\ \A g \in Heads, j \in Int : Place(S, g, j) # n
           /\ \A g \in Heads : \A j \in Int : Place(T, g, j) # S[h][i]
           /\ Member(T, n) /\ ~Member(T, S[h][i])
           /\ \A x : Member(S, x) => x = S[h][i] \/ Member(T, x)
  <1>1. \A g \in Heads : Len(S[g]) \in Nat /\ Len(T[g]) \in Nat
    BY Places
  <1>2. \A g \in Heads : \A j \in 1 .. Len(S[g]) : S[g][j] # n
    BY DEF Member
  <1>3. Apart(T)
    BY <1>1, <1>2, SMTT(30) DEF Apart, Replaced
  <1>4. \A g \in Heads : g # n /\ g # S[h][i]
    BY ListAssumption, Places
  <1>5. \A g \in Heads, j \in Int : Place(S, g, j) # n
    BY <1>2, <1>4 DEF Place
  <1>6. \A j \in Int : Place(T, h, j) = IF j = i THEN n ELSE Place(S, h, j)
    BY <1>1 DEF Place, Replaced
  <1>7. \A g \in Heads \ {h} : \A j \in Int : Place(T, g, j) = Place(S, g, j)
    BY DEF Place, Replaced
  <1>8. ASSUME NEW g \in Heads, NEW j \in Int
        PROVE  Place(T, g, j) # S[h][i]
    <2>1. CASE j \notin 1 .. Len(S[g])
      BY <2>1, <1>4 DEF Place, Replaced
    <2>2. CASE j \in 1 .. Len(S[g]) /\ (g # h \/ j # i)
      BY <2>2, <1>1, <1>6, <1>7 DEF Place, Apart
    <2>3. CASE g = h /\ j = i
      BY <2>3, <1>6, <1>2
    <2> QED
      BY <2>1, <2>2, <2>3
  <1>9. Member(T, n)
    BY <1>1 DEF Replaced, Member
  <1>10. ~Member(T, S[h][i])
    <2> SUFFICES ASSUME NEW g \in Heads, NEW j \in 1 .. Len(T[g])
                 PROVE  T[g][j] # S[h][i]
      BY DEF Member
    <2>1. Place(T, g, j) # S[h][i] /\ j \in Int
      BY <1>8, <1>1
    <2> QED
      BY <2>1, Places
  <1>11. ASSUME NEW x, Member(S, x), x # S[h][i] PROVE Member(T, x)
    <2>1. PICK g \in Heads : \E j \in 1 .. Len(S[g]) : S[g][j] = x
      BY <1>11 DEF Member
    <2>2. PICK j \in 1 .. Len(S[g]) : S[g][j] = x
      BY <2>1
    <2>3. j \in 1 .. Len(T[g]) /\ T[g][j] = x
      BY <2>2, <1>11 DEF Replaced
    <2> QED
      BY <2>3 DEF Member
  <1> QED
    BY <1>3, <1>5, <1>6, <1>7, <1>8, <1>9, <1>10, <1>11

LEMMA RingReplace ==
    ASSUME NEW m \in Links, NEW S, Rings(m, S), NEW h \in Heads, NEW i \in 1 .. Len(S[h]),
           NEW n \in Items, ~Member(S, n), NEW T \in Contents, Replaced(S, T, h, i, n)
    PROVE  /\ list_replace(m, S[h][i], n) \in Links
           /\ Rings(list_replace(m, S[h][i], n), T)
           /\ \A x \in Nodes : x # n /\ ~(x \in Heads \/ Member(S, x)) =>
                 /\ list_replace(m, S[h][i], n).next[x] = m.next[x]
                 /\ list_replace(m, S[h][i], n).prev[x] = m.prev[x]
           /\ list_replace(m, S[h][i], n).next[S[h][i]] # S[h][i]
  <1> DEFINE e == S[h][i]
             p == Place(S, h, i - 1)
             q == Place(S, h, i + 1)
             w == list_replace(m, e, n)
  <1>0. S \in Contents /\ Apart(S) /\ \A g \in Heads : Len(S[g]) \in Nat /\ Len(T[g]) \in Nat
    BY Places DEF Rings
  <1>1. p \in Nodes /\ q \in Nodes /\ e \in Nodes /\ n \in Nodes
    BY <1>0, Places DEF Nodes
  <1>2. m.prev[e] = p /\ m.next[e] = q /\ Place(S, h, i) = e
    <2>1. Place(S, h, i) = e
      BY <1>0, Places
    <2>2. i - 1 \in 0 .. Len(S[h]) /\ (i - 1) + 1 = i /\ i \in 0 .. Len(S[h])
      BY <1>0
    <2> QED
      BY <2>1, <2>2 DEF Rings, Ring
  <1>3. /\ Apart(T)
        /\ \A j \in Int : Place(T, h, j) = IF j = i THEN n ELSE Place(S, h, j)
        /\ \A g \in Heads \ {h} : \A j \in Int : Place(T, g, j) = Place(S, g, j)
        /\ \A g \in Heads, j \in Int : Place(S, g, j) # n
    BY <1>0, PlacesReplaced
  <1>4. q # e /\ p # e /\ e # n
    <2>1. i \in 1 .. Len(S[h]) + 1 /\ i + 1 \in 1 .. Len(S[h]) + 1 /\ i # i + 1
      BY <1>0
    <2>2. i \in 0 .. Len(S[h]) /\ i - 1 \in 0 .. Len(S[h]) /\ i # i - 1
      BY <1>0
    <2>3. q # Place(S, h, i)
      BY <2>1, <1>0, PlacesApart
    <2>4. p # Place(S, h, i)
      BY <2>2, <1>0, PlacesApart
    <2> QED
      BY <1>2, <1>3, <2>3, <2>4
  <1>5. /\ w \in Links
        /\ \A x \in Nodes :
              /\ w.next[x] = IF x = p THEN n ELSE IF x = n THEN q ELSE m.next[x]
              /\ w.prev[x] = IF x = n THEN p ELSE IF x = q THEN n ELSE m.prev[x]
    BY <1>1, <1>2, <1>4, ReplaceLinks
  <1>6. /\ \A g \in Heads, j \in Int : Place(S, g, j) \in Nodes
        /\ Len(T[h]) = Len(S[h]) /\ \A g \in Heads \ {h} : T[g] = S[g]
    BY <1>0, Places DEF Replaced
  <1>7. ASSUME NEW g \in Heads, NEW j \in 0 .. Len(S[g])
        PROVE  /\ m.next[Place(S, g, j)] = Place(S, g, j + 1)
               /\ m.prev[Place(S, g, j + 1)] = Place(S, g, j)
               /\ Place(S, g, j) = p => g = h /\ j = i - 1
               /\ Place(S, g, j + 1) = q => g = h /\ j = i
    <2>1. Place(S, g, j) = p => g = h /\ i - 1 = j
      BY <1>0, PlacesApart
    <2>2. Place(S, g, j + 1) = q => g = h /\ i + 1 = j + 1
      BY <1>0, PlacesApart
    <2> QED
      BY <2>1, <2>2, <1>0 DEF Rings, Ring
  <1> HIDE DEF w
  <1>8. ASSUME NEW g \in Heads, NEW j \in 0 .. Len(T[g])
        PROVE  /\ w.next[Place(T, g, j)] = Place(T, g, j + 1)
               /\ w.prev[Place(T, g, j + 1)] = Place(T, g, j)
    <2>1. CASE g # h
      BY <1>0, <1>3, <1>5, <1>6, <1>7, <2>1, SMTT(30)
    <2>2. CASE g = h /\ j # i - 1 /\ j # i
      <3>1. Place(T, g, j) = Place(S, g, j) /\ Place(T, g, j + 1) = Place(S, g, j + 1)
            /\ j \in 0 .. Len(S[g])
        BY <1>0, <1>3, <1>6, <2>2
      <3> QED
        BY <3>1, <1>3, <1>5, <1>6, <1>7, <2>2
    <2>3. CASE g = h /\ j = i - 1
      <3>1. Place(T, g, j) = p /\ Place(T, g, j + 1) = n
        BY <1>0, <1>3, <2>3
      <3> QED
        BY <3>1, <1>1, <1>5
    <2>4. CASE g = h /\ j = i
      <3>1. Place(T, g, j) = n /\ Place(T, g, j + 1) = q
        BY <1>0, <1>3, <2>4
      <3> QED
        BY <3>1, <1>0, <1>1, <1>3, <1>5
    <2> QED
      BY <2>1, <2>2, <2>3, <2>4
  <1>9. Rings(w, T)
    BY <1>3, <1>8 DEF Rings, Ring
  <1>10. ASSUME NEW x \in Nodes, ~(x \in Heads \/ Member(S, x))
         PROVE  x # p /\ x # q
    BY <1>10, <1>0 DEF Place, Member
  <1>11. w.next[e] # e
    BY <1>1, <1>2, <1>4, <1>5
  <1> QED
    BY <1>5, <1>9, <1>10, <1>11 DEF w

-----------------------------------------------------------------------------
(* Whole lists *)

(* What is on no list stays as it is. *)
Kept(m, w, S) ==
    \A x \in Nodes : ~(x \in Heads \/ Member(S, x)) =>
        w.next[x] = m.next[x] /\ w.prev[x] = m.prev[x]

Taken(S, T, old, new) ==
    T[new] = S[old] /\ T[old] = <<>> /\ \A g \in Heads \ {old, new} : T[g] = S[g]

LEMMA InitLinks ==
    ASSUME NEW m \in Links, NEW n \in Nodes
    PROVE  /\ INIT_LIST_HEAD(m, n) \in Links
           /\ \A x \in Nodes :
                 /\ INIT_LIST_HEAD(m, n).next[x] = IF x = n THEN n ELSE m.next[x]
                 /\ INIT_LIST_HEAD(m, n).prev[x] = IF x = n THEN n ELSE m.prev[x]
  <1> DEFINE m1 == SetNext(m, n, n)
             m2 == SetPrev(m1, n, n)
  <1>0. INIT_LIST_HEAD(m, n) = m2
    BY DEF INIT_LIST_HEAD
  <1>1. m1 \in Links /\ \A x \in Nodes : m1.prev[x] = m.prev[x]
                                          /\ m1.next[x] = IF x = n THEN n ELSE m.next[x]
    BY NextSet
  <1> HIDE DEF m1
  <1>2. m2 \in Links /\ \A x \in Nodes : m2.next[x] = m1.next[x]
                                          /\ m2.prev[x] = IF x = n THEN n ELSE m1.prev[x]
    BY <1>1, PrevSet
  <1> HIDE DEF m2
  <1> QED
    BY <1>0, <1>1, <1>2

LEMMA TakeEmpty ==
    ASSUME NEW m \in Links, NEW old \in Nodes, NEW new \in Nodes, old # new,
           m.next[old] = old, m.prev[old] = old
    PROVE  /\ list_replace(m, old, new) \in Links
           /\ \A x \in Nodes :
                 /\ list_replace(m, old, new).next[x] = IF x = new THEN new ELSE m.next[x]
                 /\ list_replace(m, old, new).prev[x] = IF x \in {old, new} THEN new ELSE m.prev[x]
  <1> DEFINE m1 == SetNext(m, new, m.next[old])
             m2 == SetPrev(m1, m1.next[new], new)
             m3 == SetPrev(m2, new, m2.prev[old])
             m4 == SetNext(m3, m3.prev[new], new)
  <1>0. list_replace(m, old, new) = m4
    BY DEF list_replace
  <1>1. m1 \in Links /\ \A x \in Nodes : m1.prev[x] = m.prev[x]
                                          /\ m1.next[x] = IF x = new THEN old ELSE m.next[x]
    BY NextSet
  <1> HIDE DEF m1
  <1>2. m2 = SetPrev(m1, old, new)
    BY <1>1
  <1>3. m2 \in Links /\ \A x \in Nodes : m2.next[x] = m1.next[x]
                                          /\ m2.prev[x] = IF x = old THEN new ELSE m1.prev[x]
    <2> HIDE DEF m2
    <2>1. /\ SetPrev(m1, old, new) \in Links
          /\ \A x \in Nodes :
                /\ SetPrev(m1, old, new).next[x] = m1.next[x]
                /\ SetPrev(m1, old, new).prev[x] = IF x = old THEN new ELSE m1.prev[x]
      BY <1>1, PrevSet
    <2> QED
      BY <1>2, <2>1
  <1> HIDE DEF m2
  <1>4. m3 = SetPrev(m2, new, new)
    BY <1>1, <1>3
  <1>5. m3 \in Links /\ \A x \in Nodes : m3.next[x] = m2.next[x]
                                          /\ m3.prev[x] = IF x = new THEN new ELSE m2.prev[x]
    <2> HIDE DEF m3
    <2>1. /\ SetPrev(m2, new, new) \in Links
          /\ \A x \in Nodes :
                /\ SetPrev(m2, new, new).next[x] = m2.next[x]
                /\ SetPrev(m2, new, new).prev[x] = IF x = new THEN new ELSE m2.prev[x]
      BY <1>3, PrevSet
    <2> QED
      BY <1>4, <2>1
  <1> HIDE DEF m3
  <1>6. m4 = SetNext(m3, new, new)
    BY <1>5
  <1>7. m4 \in Links /\ \A x \in Nodes : m4.prev[x] = m3.prev[x]
                                          /\ m4.next[x] = IF x = new THEN new ELSE m3.next[x]
    <2> HIDE DEF m4
    <2>1. /\ SetNext(m3, new, new) \in Links
          /\ \A x \in Nodes :
                /\ SetNext(m3, new, new).prev[x] = m3.prev[x]
                /\ SetNext(m3, new, new).next[x] = IF x = new THEN new ELSE m3.next[x]
      BY <1>5, NextSet
    <2> QED
      BY <1>6, <2>1
  <1> HIDE DEF m4
  <1> QED
    BY <1>0, <1>1, <1>3, <1>5, <1>7

LEMMA RingTake ==
    ASSUME NEW m \in Links, NEW S, Rings(m, S), NEW old \in Heads, NEW new \in Heads,
           old # new, S[new] = <<>>, NEW T \in Contents, Taken(S, T, old, new)
    PROVE  /\ list_replace_init(m, old, new) \in Links
           /\ Rings(list_replace_init(m, old, new), T)
           /\ Kept(m, list_replace_init(m, old, new), S)
           /\ \A x : Member(S, x) <=> Member(T, x)
  <1> DEFINE u == list_replace(m, old, new)
             w == INIT_LIST_HEAD(u, old)
             n == Len(S[old])
             p == Place(S, old, n)
             q == Place(S, old, 1)
  <1>0. /\ S \in Contents /\ Apart(S) /\ \A g \in Heads : Len(S[g]) \in Nat /\ Len(T[g]) \in Nat
        /\ list_replace_init(m, old, new) = w
    BY Places DEF Rings, list_replace_init
  <1>1. old \in Nodes /\ new \in Nodes /\ \A g \in Heads, j \in Int : Place(S, g, j) \in Nodes
    BY <1>0, Places DEF Nodes
  <1>2. m.next[old] = q /\ m.prev[old] = p
    <2>1. Place(S, old, 0) = old /\ Place(S, old, n + 1) = old /\ 0 \in 0 .. n /\ n \in 0 .. n
      BY <1>0, Places
    <2> QED
      BY <2>1 DEF Rings, Ring
  <1>3. /\ \A g \in Heads \ {old, new} : \A j \in Int : Place(T, g, j) = Place(S, g, j)
        /\ \A j \in Int : Place(T, old, j) = old
        /\ \A j \in Int : Place(T, new, j) = IF j \in 1 .. n THEN Place(S, old, j) ELSE new
        /\ Len(T[old]) = 0 /\ Len(T[new]) = n /\ Len(S[new]) = 0
        /\ \A g \in Heads \ {old, new} : Len(T[g]) = Len(S[g])
    BY <1>0 DEF Taken, Place
  <1>4. Apart(T)
    BY <1>0, <1>3 DEF Apart, Taken
  <1>5. \A x : Member(S, x) <=> Member(T, x)
    <2>1. ASSUME NEW x, Member(S, x) PROVE Member(T, x)
      BY <1>0, <1>3, <2>1 DEF Member, Taken
    <2>2. ASSUME NEW x, Member(T, x) PROVE Member(S, x)
      BY <1>0, <1>3, <2>2 DEF Member, Taken
    <2> QED
      BY <2>1, <2>2
  <1>6. ASSUME NEW g \in Heads, NEW j \in 0 .. Len(S[g])
        PROVE  /\ m.next[Place(S, g, j)] = Place(S, g, j + 1)
               /\ m.prev[Place(S, g, j + 1)] = Place(S, g, j)
               /\ Place(S, g, j) = p => g = old /\ j = n
               /\ Place(S, g, j + 1) = q => g = old /\ j = 0
               /\ Place(S, g, j) = old => g = old /\ j = 0
               /\ Place(S, g, j + 1) = old => g = old /\ j = n
               /\ Place(S, g, j) = new => g = new
               /\ Place(S, g, j + 1) = new => g = new
    <2>1. /\ Place(S, old, 0) = old /\ Place(S, old, n + 1) = old
          /\ Place(S, new, 0) = new /\ Place(S, new, 1) = new
      BY <1>0, <1>3, Places
    <2>2. /\ Place(S, g, j) = p => g = old /\ j = n
          /\ Place(S, g, j) = Place(S, old, 0) => g = old /\ j = 0
          /\ Place(S, g, j) = Place(S, new, 0) => g = new
      BY <1>0, PlacesApart, SMTT(30)
    <2>3. /\ Place(S, g, j + 1) = q => g = old /\ j + 1 = 1
          /\ Place(S, g, j + 1) = Place(S, old, n + 1) => g = old /\ j + 1 = n + 1
          /\ Place(S, g, j + 1) = Place(S, new, 1) => g = new
      BY <1>0, <1>3, PlacesApart
    <2> QED
      BY <2>1, <2>2, <2>3, <1>0 DEF Rings, Ring
  <1>7. CASE n = 0
    <2>1. q = old /\ p = old
      BY <1>0, <1>7, Places
    <2>2. /\ u \in Links
          /\ \A x \in Nodes :
                /\ u.next[x] = IF x = new THEN new ELSE m.next[x]
                /\ u.prev[x] = IF x \in {old, new} THEN new ELSE m.prev[x]
      BY <1>1, <1>2, <2>1, TakeEmpty
    <2> HIDE DEF u
    <2>3. /\ w \in Links
          /\ \A x \in Nodes : /\ w.next[x] = IF x = old THEN old ELSE u.next[x]
                              /\ w.prev[x] = IF x = old THEN old ELSE u.prev[x]
      BY <1>1, <2>2, InitLinks
    <2> HIDE DEF w
    <2>4. ASSUME NEW g \in Heads, NEW j \in 0 .. Len(T[g])
          PROVE  /\ w.next[Place(T, g, j)] = Place(T, g, j + 1)
                 /\ w.prev[Place(T, g, j + 1)] = Place(T, g, j)
      <3>1. CASE g \notin {old, new}
        BY <3>1, <1>1, <1>3, <1>6, <2>2, <2>3, SMTT(30)
      <3>2. CASE g = old
        BY <3>2, <1>1, <1>3, <2>3
      <3>3. CASE g = new
        BY <3>3, <1>1, <1>3, <1>7, <2>2, <2>3
      <3> QED
        BY <3>1, <3>2, <3>3
    <2>5. Rings(w, T) /\ Kept(m, w, S)
      BY <1>1, <1>4, <2>2, <2>3, <2>4 DEF Rings, Ring, Kept
    <2> QED
      BY <1>0, <1>5, <2>3, <2>5
  <1>8. CASE n # 0
    <2>1. q # old /\ 1 \in 1 .. n
      BY <1>0, <1>8, Places, SMTT(30)
    <2>2. /\ u \in Links
          /\ \A x \in Nodes :
                /\ u.next[x] = IF x = p THEN new ELSE IF x = new THEN q ELSE m.next[x]
                /\ u.prev[x] = IF x = new THEN p ELSE IF x = q THEN new ELSE m.prev[x]
      BY <1>0, <1>1, <1>2, <2>1, ReplaceLinks
    <2> HIDE DEF u
    <2>3. /\ w \in Links
          /\ \A x \in Nodes : /\ w.next[x] = IF x = old THEN old ELSE u.next[x]
                              /\ w.prev[x] = IF x = old THEN old ELSE u.prev[x]
      BY <1>1, <2>2, InitLinks
    <2> HIDE DEF w
    <2>4. ASSUME NEW g \in Heads, NEW j \in 0 .. Len(T[g])
          PROVE  /\ w.next[Place(T, g, j)] = Place(T, g, j + 1)
                 /\ w.prev[Place(T, g, j + 1)] = Place(T, g, j)
      <3>1. CASE g \notin {old, new}
        BY <3>1, <1>1, <1>3, <1>6, <2>2, <2>3
      <3>2. CASE g = old
        BY <3>2, <1>1, <1>3, <2>3
      <3>3. CASE g = new
        <4>1. /\ w.next[Place(T, new, j)] = Place(T, new, j + 1)
          <5>1. CASE j = 0
            BY <5>1, <3>3, <1>0, <1>1, <1>3, <1>6, <2>1, <2>2, <2>3
          <5>2. CASE j = n
            <6>1. Place(T, new, j) = p /\ Place(T, new, j + 1) = new /\ p # old
              BY <5>2, <1>0, <1>3, <2>1, Places
            <6> QED
              BY <6>1, <1>0, <1>1, <2>2, <2>3
          <5>3. CASE j # 0 /\ j # n
            <6>1. /\ Place(T, new, j) = Place(S, old, j) /\ j \in 0 .. Len(S[old])
                  /\ Place(T, new, j + 1) = Place(S, old, j + 1)
              BY <5>3, <3>3, <1>0, <1>3
            <6> QED
              BY <6>1, <5>3, <1>0, <1>1, <1>6, <2>2, <2>3
          <5> QED
            BY <5>1, <5>2, <5>3
        <4>2. /\ w.prev[Place(T, new, j + 1)] = Place(T, new, j)
          <5>1. CASE j = 0
            <6>1. Place(T, new, j) = new /\ Place(T, new, j + 1) = q /\ q # new
              BY <5>1, <1>0, <1>1, <1>3, <1>6, <2>1
            <6> QED
              BY <6>1, <1>0, <1>1, <2>1, <2>2, <2>3
          <5>2. CASE j = n
            <6>1. Place(T, new, j) = p /\ Place(T, new, j + 1) = new
              BY <5>2, <1>0, <1>3, <2>1, Places
            <6> QED
              BY <6>1, <1>0, <1>1, <2>2, <2>3
          <5>3. CASE j # 0 /\ j # n
            <6>1. /\ Place(T, new, j) = Place(S, old, j) /\ j \in 0 .. Len(S[old])
                  /\ Place(T, new, j + 1) = Place(S, old, j + 1)
              BY <5>3, <3>3, <1>0, <1>3
            <6> QED
              BY <6>1, <5>3, <1>0, <1>1, <1>6, <2>2, <2>3
          <5> QED
            BY <5>1, <5>2, <5>3
        <4> QED
          BY <4>1, <4>2, <3>3
      <3> QED
        BY <3>1, <3>2, <3>3
    <2>5. Rings(w, T)
      BY <1>4, <2>4 DEF Rings, Ring
    <2>6. Kept(m, w, S)
      <3> SUFFICES ASSUME NEW x \in Nodes, ~(x \in Heads \/ Member(S, x))
                   PROVE  w.next[x] = m.next[x] /\ w.prev[x] = m.prev[x]
        BY DEF Kept
      <3>1. x # p /\ x # q /\ x # old /\ x # new
        BY <1>0 DEF Place, Member
      <3> QED
        BY <3>1, <2>2, <2>3
    <2> QED
      BY <1>0, <1>5, <2>3, <2>5, <2>6
  <1> QED
    BY <1>7, <1>8

(* The entries of a list go between the places i and i + 1 of another. *)
Spliced(S, T, list, h, i) ==
    /\ T[list] = <<>> /\ Len(T[h]) = Len(S[h]) + Len(S[list])
    /\ \A j \in 1 .. Len(T[h]) :
          T[h][j] = IF j <= i THEN S[h][j]
                    ELSE IF j <= i + Len(S[list]) THEN S[list][j - i]
                    ELSE S[h][j - Len(S[list])]
    /\ \A g \in Heads \ {list, h} : T[g] = S[g]

LEMMA SpliceLinks ==
    ASSUME NEW m \in Links, NEW list \in Nodes, NEW p \in Nodes, NEW q \in Nodes,
           m.next[list] \in Nodes, m.prev[list] \in Nodes
    PROVE  /\ ListSplice(m, list, p, q) \in Links
           /\ \A x \in Nodes :
                 /\ ListSplice(m, list, p, q).next[x] =
                       IF x = m.prev[list] THEN q ELSE IF x = p THEN m.next[list] ELSE m.next[x]
                 /\ ListSplice(m, list, p, q).prev[x] =
                       IF x = q THEN m.prev[list] ELSE IF x = m.next[list] THEN p ELSE m.prev[x]
  <1> DEFINE first == m.next[list]
             last == m.prev[list]
             m1 == SetPrev(m, first, p)
             m2 == SetNext(m1, p, first)
             m3 == SetNext(m2, last, q)
             m4 == SetPrev(m3, q, last)
  <1>0. ListSplice(m, list, p, q) = m4
    BY DEF ListSplice
  <1>a. first \in Nodes /\ last \in Nodes
    OBVIOUS
  <1> HIDE DEF first, last
  <1>1. m1 \in Links /\ \A x \in Nodes : m1.next[x] = m.next[x]
                                          /\ m1.prev[x] = IF x = first THEN p ELSE m.prev[x]
    BY <1>a, PrevSet
  <1> HIDE DEF m1
  <1>2. m2 \in Links /\ \A x \in Nodes : m2.prev[x] = m1.prev[x]
                                          /\ m2.next[x] = IF x = p THEN first ELSE m1.next[x]
    BY <1>1, <1>a, NextSet
  <1> HIDE DEF m2
  <1>3. m3 \in Links /\ \A x \in Nodes : m3.prev[x] = m2.prev[x]
                                          /\ m3.next[x] = IF x = last THEN q ELSE m2.next[x]
    BY <1>2, <1>a, NextSet
  <1> HIDE DEF m3
  <1>4. m4 \in Links /\ \A x \in Nodes : m4.next[x] = m3.next[x]
                                          /\ m4.prev[x] = IF x = q THEN last ELSE m3.prev[x]
    BY <1>3, <1>a, PrevSet
  <1> HIDE DEF m4
  <1> QED
    BY <1>0, <1>1, <1>2, <1>3, <1>4 DEF first, last

LEMMA PlacesSpliced ==
    ASSUME NEW S \in Contents, NEW T \in Contents, Apart(S), NEW list \in Heads, NEW h \in Heads,
           list # h, NEW i \in 0 .. Len(S[h]), Spliced(S, T, list, h, i),
           NEW k, Len(S[list]) = k
    PROVE  /\ Apart(T)
           /\ \A j \in 0 .. Len(T[h]) + 1 :
                 Place(T, h, j) = IF j <= i THEN Place(S, h, j)
                                  ELSE IF j <= i + k THEN Place(S, list, j - i)
                                  ELSE Place(S, h, j - k)
           /\ \A j \in Int : Place(T, list, j) = list
           /\ \A g \in Heads \ {list, h} : \A j \in Int : Place(T, g, j) = Place(S, g, j)
           /\ \A x : Member(S, x) <=> Member(T, x)
  <1> DEFINE head(g, j) == IF g = h /\ j > i /\ j <= i + k THEN list ELSE g
             pos(g, j) == IF g # h \/ j <= i THEN j
                          ELSE IF j <= i + k THEN j - i ELSE j - k
             to(g, j) == IF g = list THEN j + i ELSE IF g = h /\ j > i THEN j + k ELSE j
  <1>1. /\ \A g \in Heads : Len(S[g]) \in Nat /\ Len(T[g]) \in Nat
        /\ Len(T[list]) = 0 /\ k \in Nat /\ i \in Nat /\ Len(T[h]) = Len(S[h]) + k
    BY Places DEF Spliced
  <1>2. ASSUME NEW g \in Heads, NEW j \in 1 .. Len(T[g])
        PROVE  /\ head(g, j) \in Heads /\ pos(g, j) \in 1 .. Len(S[head(g, j)])
               /\ T[g][j] = S[head(g, j)][pos(g, j)]
               /\ g = (IF head(g, j) = list THEN h ELSE head(g, j))
               /\ j = to(head(g, j), pos(g, j))
    <2>1. g # list
      BY <1>1
    <2>2. CASE g # h
      <3>1. head(g, j) = g /\ pos(g, j) = j /\ T[g] = S[g]
        BY <2>1, <2>2 DEF Spliced
      <3> QED
        BY <3>1, <2>1, <2>2
    <2>3. CASE g = h /\ j <= i
      <3>1. head(g, j) = g /\ pos(g, j) = j /\ T[g][j] = S[g][j]
        BY <2>1, <2>3, <1>1 DEF Spliced
      <3> QED
        BY <3>1, <2>1, <2>3, <1>1
    <2>4. CASE g = h /\ j > i /\ j <= i + k
      <3>1. head(g, j) = list /\ pos(g, j) = j - i /\ T[g][j] = S[list][j - i]
        BY <2>1, <2>4, <1>1 DEF Spliced
      <3> QED
        BY <3>1, <2>1, <2>4, <1>1
    <2>5. CASE g = h /\ j > i + k
      <3>1. head(g, j) = h /\ pos(g, j) = j - k /\ T[g][j] = S[h][j - k]
        BY <2>1, <2>5, <1>1 DEF Spliced
      <3> QED
        BY <3>1, <2>1, <2>5, <1>1
    <2> QED
      BY <2>2, <2>3, <2>4, <2>5, <1>1
  <1>3. Apart(T)
    <2>1. ASSUME NEW f \in Heads, NEW g \in Heads, NEW a \in 1 .. Len(T[f]),
                 NEW b \in 1 .. Len(T[g]), T[f][a] = T[g][b]
          PROVE  f = g /\ a = b
      <3>1. /\ head(f, a) \in Heads /\ pos(f, a) \in 1 .. Len(S[head(f, a)])
            /\ head(g, b) \in Heads /\ pos(g, b) \in 1 .. Len(S[head(g, b)])
            /\ S[head(f, a)][pos(f, a)] = S[head(g, b)][pos(g, b)]
        BY <1>2, <2>1
      <3>2. head(f, a) = head(g, b) /\ pos(f, a) = pos(g, b)
        <4> HIDE DEF head, pos
        <4> QED
          BY <3>1 DEF Apart
      <3>3. /\ f = (IF head(f, a) = list THEN h ELSE head(f, a))
            /\ g = (IF head(g, b) = list THEN h ELSE head(g, b))
            /\ a = to(head(f, a), pos(f, a)) /\ b = to(head(g, b), pos(g, b))
        BY <1>2
      <3> HIDE DEF head, pos, to
      <3> QED
        BY <3>2, <3>3
    <2> QED
      BY <2>1 DEF Apart
  <1>4. ASSUME NEW j \in 0 .. Len(T[h]) + 1
        PROVE  Place(T, h, j) = IF j <= i THEN Place(S, h, j)
                                ELSE IF j <= i + k THEN Place(S, list, j - i)
                                ELSE Place(S, h, j - k)
    <2>1. CASE j \in 1 .. Len(T[h])
      <3>1. T[h][j] = IF j <= i THEN S[h][j]
                      ELSE IF j <= i + k THEN S[list][j - i] ELSE S[h][j - k]
        BY <2>1, <1>1 DEF Spliced
      <3> QED
        BY <3>1, <2>1, <1>1 DEF Place
    <2>2. CASE j \notin 1 .. Len(T[h])
      <3>1. j = 0 \/ (j > i + k /\ j - k = Len(S[h]) + 1 /\ ~(j <= i))
        BY <2>2, <1>1
      <3> QED
        BY <3>1, <2>2, <1>1 DEF Place
    <2> QED
      BY <2>1, <2>2
  <1>5. \A j \in Int : Place(T, list, j) = list
    BY <1>1 DEF Place
  <1>6. \A g \in Heads \ {list, h} : \A j \in Int : Place(T, g, j) = Place(S, g, j)
    BY DEF Place, Spliced
  <1>7. ASSUME NEW x, Member(T, x) PROVE Member(S, x)
    <2>1. PICK g \in Heads : \E j \in 1 .. Len(T[g]) : T[g][j] = x
      BY <1>7 DEF Member
    <2>2. PICK j \in 1 .. Len(T[g]) : T[g][j] = x
      BY <2>1
    <2>3. /\ head(g, j) \in Heads /\ pos(g, j) \in 1 .. Len(S[head(g, j)])
          /\ S[head(g, j)][pos(g, j)] = x
      BY <2>2, <1>2
    <2> HIDE DEF head, pos
    <2> QED
      BY <2>3 DEF Member
  <1>8. ASSUME NEW x, Member(S, x) PROVE Member(T, x)
    <2>1. PICK g \in Heads : \E j \in 1 .. Len(S[g]) : S[g][j] = x
      BY <1>8 DEF Member
    <2>2. PICK j \in 1 .. Len(S[g]) : S[g][j] = x
      BY <2>1
    <2>3. CASE g = list
      <3>1. j + i \in 1 .. Len(T[h]) /\ T[h][j + i] = S[list][(j + i) - i] /\ (j + i) - i = j
        BY <2>2, <2>3, <1>1 DEF Spliced
      <3> QED
        BY <3>1, <2>2, <2>3 DEF Member
    <2>4. CASE g = h /\ j > i
      <3>1. j + k \in 1 .. Len(T[h]) /\ T[h][j + k] = S[h][(j + k) - k] /\ (j + k) - k = j
        BY <2>2, <2>4, <1>1 DEF Spliced
      <3> QED
        BY <3>1, <2>2, <2>4 DEF Member
    <2>5. CASE g = h /\ j <= i
      <3>1. j \in 1 .. Len(T[h]) /\ T[h][j] = S[h][j]
        BY <2>2, <2>5, <1>1 DEF Spliced
      <3> QED
        BY <3>1, <2>2, <2>5 DEF Member
    <2>6. CASE g \notin {list, h}
      BY <2>2, <2>6 DEF Member, Spliced
    <2> QED
      BY <2>3, <2>4, <2>5, <2>6, <1>1
  <1> QED
    BY <1>3, <1>4, <1>5, <1>6, <1>7, <1>8

LEMMA RingSplice ==
    ASSUME NEW m \in Links, NEW S, Rings(m, S), NEW list \in Heads, NEW h \in Heads, list # h,
           S[list] # <<>>, NEW i \in 0 .. Len(S[h]),
           NEW T \in Contents, Spliced(S, T, list, h, i)
    PROVE  LET w == INIT_LIST_HEAD(ListSplice(m, list, Place(S, h, i), Place(S, h, i + 1)), list)
           IN  w \in Links /\ Rings(w, T) /\ Kept(m, w, S) /\ INIT_LIST_HEAD(w, list) \in Links
  <1> SUFFICES ASSUME NEW p, NEW q, NEW k, NEW first, NEW last,
                      Place(S, h, i) = p, Place(S, h, i + 1) = q, Len(S[list]) = k,
                      Place(S, list, 1) = first, Place(S, list, k) = last
               PROVE  LET w == INIT_LIST_HEAD(ListSplice(m, list, p, q), list)
                      IN  /\ w \in Links /\ Rings(w, T) /\ Kept(m, w, S)
                          /\ INIT_LIST_HEAD(w, list) \in Links
    OBVIOUS
  <1> DEFINE u == ListSplice(m, list, p, q)
             w == INIT_LIST_HEAD(u, list)
  <1>0. /\ S \in Contents /\ Apart(S) /\ \A g \in Heads : Len(S[g]) \in Nat /\ Len(T[g]) \in Nat
        /\ S[list] \in Seq(Items)
    BY Places DEF Rings, Contents
  <1>1. /\ p \in Nodes /\ q \in Nodes /\ first \in Nodes /\ last \in Nodes /\ list \in Nodes
        /\ \A g \in Heads, j \in Int : Place(S, g, j) \in Nodes
        /\ k \in Nat /\ k # 0 /\ i \in Nat /\ Len(T[h]) = Len(S[h]) + k /\ Len(T[list]) = 0
        /\ \A g \in Heads \ {list, h} : T[g] = S[g]
    BY <1>0, Places DEF Nodes, Spliced
  <1>2. m.next[list] = first /\ m.prev[list] = last
    <2>1. Place(S, list, 0) = list /\ Place(S, list, k + 1) = list /\ 0 \in 0 .. k /\ k \in 0 .. k
      BY <1>0, Places
    <2> QED
      BY <2>1 DEF Rings, Ring
  <1>3. /\ Apart(T)
        /\ \A j \in 0 .. Len(T[h]) + 1 :
                 Place(T, h, j) = IF j <= i THEN Place(S, h, j)
                                  ELSE IF j <= i + k THEN Place(S, list, j - i)
                                  ELSE Place(S, h, j - k)
        /\ \A j \in Int : Place(T, list, j) = list
        /\ \A g \in Heads \ {list, h} : \A j \in Int : Place(T, g, j) = Place(S, g, j)
        /\ \A x : Member(S, x) <=> Member(T, x)
    BY <1>0, PlacesSpliced
  <1>4. /\ u \in Links
        /\ \A x \in Nodes :
              /\ u.next[x] = IF x = last THEN q ELSE IF x = p THEN first ELSE m.next[x]
              /\ u.prev[x] = IF x = q THEN last ELSE IF x = first THEN p ELSE m.prev[x]
    <2>1. /\ list \in Nodes /\ p \in Nodes /\ q \in Nodes /\ first \in Nodes /\ last \in Nodes
      BY <1>1
    <2> QED
      <3>1. m.next[list] \in Nodes /\ m.prev[list] \in Nodes
        BY <2>1, <1>2
      <3>2. /\ u \in Links
            /\ \A x \in Nodes :
                  /\ u.next[x] = IF x = m.prev[list] THEN q
                                 ELSE IF x = p THEN m.next[list] ELSE m.next[x]
                  /\ u.prev[x] = IF x = q THEN m.prev[list]
                                 ELSE IF x = m.next[list] THEN p ELSE m.prev[x]
        BY <2>1, <3>1, SpliceLinks
      <3> HIDE DEF u
      <3> QED
        BY <3>2, <1>2
  <1> HIDE DEF u
  <1>a. /\ Len(S[h]) \in Nat /\ Len(T[h]) \in Nat /\ k \in Nat /\ k # 0 /\ i \in Nat
        /\ i <= Len(S[h]) /\ Len(T[h]) = Len(S[h]) + k
    BY <1>0, <1>1
  <1>5. /\ w \in Links /\ INIT_LIST_HEAD(w, list) \in Links
        /\ \A x \in Nodes : /\ w.next[x] = IF x = list THEN list ELSE u.next[x]
                            /\ w.prev[x] = IF x = list THEN list ELSE u.prev[x]
    BY <1>1, <1>4, InitLinks
  <1> HIDE DEF w
  <1>6. ASSUME NEW g \in Heads, NEW j \in 0 .. Len(S[g])
        PROVE  /\ m.next[Place(S, g, j)] = Place(S, g, j + 1)
               /\ m.prev[Place(S, g, j + 1)] = Place(S, g, j)
               /\ Place(S, g, j) = p => g = h /\ j = i
               /\ Place(S, g, j + 1) = q => g = h /\ j = i
               /\ Place(S, g, j) = last => g = list /\ j = k
               /\ Place(S, g, j + 1) = first => g = list /\ j = 0
               /\ Place(S, g, j) = list => g = list /\ j = 0
               /\ Place(S, g, j + 1) = list => g = list /\ j = k
    <2>1. Place(S, list, 0) = list /\ Place(S, list, k + 1) = list
      BY <1>0, Places
    <2>2. /\ Place(S, g, j) = p => g = h /\ j = i
          /\ Place(S, g, j) = last => g = list /\ j = k
          /\ Place(S, g, j) = Place(S, list, 0) => g = list /\ j = 0
      BY <1>0, <1>1, PlacesApart
    <2>3. /\ Place(S, g, j + 1) = q => g = h /\ j + 1 = i + 1
          /\ Place(S, g, j + 1) = first => g = list /\ j + 1 = 1
          /\ Place(S, g, j + 1) = Place(S, list, k + 1) => g = list /\ j + 1 = k + 1
      BY <1>0, <1>1, PlacesApart, SMTT(30)
    <2> QED
      BY <2>1, <2>2, <2>3, <1>0 DEF Rings, Ring
  <1>7. ASSUME NEW g \in Heads, NEW j \in 0 .. Len(T[g])
        PROVE  /\ w.next[Place(T, g, j)] = Place(T, g, j + 1)
               /\ w.prev[Place(T, g, j + 1)] = Place(T, g, j)
    <2>1. CASE g \notin {list, h}
      <3>1. /\ Place(T, g, j) = Place(S, g, j) /\ Place(T, g, j + 1) = Place(S, g, j + 1)
            /\ j \in 0 .. Len(S[g])
        BY <2>1, <1>0, <1>1, <1>3
      <3> QED
        BY <2>1, <3>1, <1>1, <1>4, <1>5, <1>6, SMTT(30)
    <2>2. CASE g = list
      BY <2>2, <1>1, <1>3, <1>5
    <2>3. CASE g = h /\ j < i
      <3>1. /\ Place(T, g, j) = Place(S, h, j) /\ Place(T, g, j + 1) = Place(S, h, j + 1)
            /\ j \in 0 .. Len(S[h])
        BY <2>3, <1>0, <1>1, <1>3
      <3> QED
        BY <3>1, <2>3, <1>1, <1>4, <1>5, <1>6
    <2>4. CASE g = h /\ j = i
      <3>1. Place(T, g, j) = p /\ Place(T, g, j + 1) = first
        BY <2>4, <1>0, <1>1, <1>3
      <3>2. p # last /\ p # list /\ 0 \in 0 .. Len(S[list]) /\ 0 + 1 = 1
        BY <1>0, <1>1, <1>6
      <3>3. first # list /\ first # q
        BY <3>2, <1>1, <1>6
      <3> QED
        BY <3>1, <3>2, <3>3, <1>1, <1>4, <1>5
    <2>5. CASE g = h /\ j > i /\ j < i + k
      <3>1. /\ Place(T, g, j) = Place(S, list, j - i) /\ Place(T, g, j + 1) = Place(S, list, (j - i) + 1)
            /\ j - i \in 0 .. Len(S[list]) /\ j - i # 0 /\ j - i # k
        <4>1. /\ j \in 0 .. Len(T[h]) + 1 /\ j + 1 \in 0 .. Len(T[h]) + 1
              /\ j - i \in 0 .. k /\ j - i # 0 /\ j - i # k /\ (j + 1) - i = (j - i) + 1
              /\ ~(j <= i) /\ j <= i + k /\ ~(j + 1 <= i) /\ j + 1 <= i + k
          BY <2>5, <1>a, SMTT(30)
        <4> QED
          BY <4>1, <2>5, <1>3
      <3> QED
        BY <3>1, <2>5, <1>1, <1>4, <1>5, <1>6, SMTT(30)
    <2>6. CASE g = h /\ j = i + k
      <3>1. Place(T, g, j) = last /\ Place(T, g, j + 1) = q
        <4>1. j - i = k /\ (j + 1) - k = i + 1 /\ j > i /\ j <= i + k /\ j + 1 > i + k
              /\ j \in 0 .. Len(T[h]) + 1 /\ j + 1 \in 0 .. Len(T[h]) + 1
              /\ ~(j <= i) /\ ~(j + 1 <= i) /\ ~(j + 1 <= i + k)
          BY <2>6, <1>a, SMTT(30)
        <4> QED
          BY <4>1, <2>6, <1>3
      <3>2. last # list /\ q # list
        BY <1>0, <1>1, <1>6
      <3> QED
        BY <3>1, <3>2, <1>1, <1>4, <1>5
    <2>7. CASE g = h /\ j > i + k
      <3>1. /\ Place(T, g, j) = Place(S, h, j - k) /\ Place(T, g, j + 1) = Place(S, h, (j - k) + 1)
            /\ j - k \in 0 .. Len(S[h]) /\ j - k # i
        <4>1. /\ j \in 0 .. Len(T[h]) + 1 /\ j + 1 \in 0 .. Len(T[h]) + 1
              /\ j - k \in 0 .. Len(S[h]) /\ j - k # i /\ (j + 1) - k = (j - k) + 1
              /\ ~(j <= i) /\ ~(j <= i + k) /\ ~(j + 1 <= i) /\ ~(j + 1 <= i + k)
          <5>1. j \in 0 .. Len(T[h]) /\ j > i + k
            BY <2>7
          <5>2. j \in Nat /\ j <= Len(S[h]) + k
            BY <5>1, <1>a
          <5>3. j - k \in 0 .. Len(S[h]) /\ j - k # i /\ (j + 1) - k = (j - k) + 1
            BY <5>1, <5>2, <1>a
          <5> QED
            BY <5>1, <5>2, <5>3, <1>a
        <4> QED
          BY <4>1, <2>7, <1>3
      <3> QED
        BY <3>1, <2>7, <1>1, <1>4, <1>5, <1>6, SMTT(30)
    <2> QED
      BY <2>1, <2>2, <2>3, <2>4, <2>5, <2>6, <2>7, <1>0, <1>1
  <1>8. Rings(w, T)
    BY <1>3, <1>7 DEF Rings, Ring
  <1>9. Kept(m, w, S)
    <2> SUFFICES ASSUME NEW x \in Nodes, ~(x \in Heads \/ Member(S, x))
                 PROVE  w.next[x] = m.next[x] /\ w.prev[x] = m.prev[x]
      BY DEF Kept
    <2>1. x # p /\ x # q /\ x # first /\ x # last /\ x # list
      BY <1>0 DEF Place, Member
    <2> QED
      BY <2>1, <1>4, <1>5
  <1> QED
    BY <1>5, <1>8, <1>9 DEF w, u

(* The first i entries of a list go to an empty one. *)
CutAt(S, T, list, h, i) ==
    /\ Len(T[list]) = i /\ \A j \in 1 .. i : T[list][j] = S[h][j]
    /\ Len(T[h]) = Len(S[h]) - i /\ \A j \in 1 .. Len(T[h]) : T[h][j] = S[h][j + i]
    /\ \A g \in Heads \ {list, h} : T[g] = S[g]

LEMMA CutLinks ==
    ASSUME NEW m \in Links, NEW list \in Nodes, NEW h \in Nodes, NEW e \in Nodes,
           m.next[e] \in Nodes, m.next[h] \in Nodes
    PROVE  /\ ListCut(m, list, h, e) \in Links
           /\ \A x \in Nodes :
                 /\ ListCut(m, list, h, e).next[x] =
                       IF x = h THEN m.next[e] ELSE IF x = e THEN list
                       ELSE IF x = list THEN m.next[h] ELSE m.next[x]
                 /\ ListCut(m, list, h, e).prev[x] =
                       IF x = m.next[e] THEN h ELSE IF x = list THEN e
                       ELSE IF x = m.next[h] THEN list ELSE m.prev[x]
  <1> DEFINE f == m.next[e]
             a == m.next[h]
             m1 == SetNext(m, list, a)
             m2 == SetPrev(m1, m1.next[list], list)
             m3 == SetPrev(m2, list, e)
             m4 == SetNext(m3, e, list)
             m5 == SetNext(m4, h, f)
             m6 == SetPrev(m5, f, h)
  <1>0. ListCut(m, list, h, e) = m6
    BY DEF ListCut
  <1>a. f \in Nodes /\ a \in Nodes
    OBVIOUS
  <1> HIDE DEF f, a
  <1>1. m1 \in Links /\ \A x \in Nodes : m1.prev[x] = m.prev[x]
                                          /\ m1.next[x] = IF x = list THEN a ELSE m.next[x]
    BY <1>a, NextSet
  <1> HIDE DEF m1
  <1>2. m2 = SetPrev(m1, a, list)
    BY <1>1
  <1>3. m2 \in Links /\ \A x \in Nodes : m2.next[x] = m1.next[x]
                                          /\ m2.prev[x] = IF x = a THEN list ELSE m1.prev[x]
    <2> HIDE DEF m2
    <2>1. /\ SetPrev(m1, a, list) \in Links
          /\ \A x \in Nodes :
                /\ SetPrev(m1, a, list).next[x] = m1.next[x]
                /\ SetPrev(m1, a, list).prev[x] = IF x = a THEN list ELSE m1.prev[x]
      BY <1>1, <1>a, PrevSet
    <2> QED
      BY <1>2, <2>1
  <1> HIDE DEF m2
  <1>4. m3 \in Links /\ \A x \in Nodes : m3.next[x] = m2.next[x]
                                          /\ m3.prev[x] = IF x = list THEN e ELSE m2.prev[x]
    BY <1>3, PrevSet
  <1> HIDE DEF m3
  <1>5. m4 \in Links /\ \A x \in Nodes : m4.prev[x] = m3.prev[x]
                                          /\ m4.next[x] = IF x = e THEN list ELSE m3.next[x]
    BY <1>4, NextSet
  <1> HIDE DEF m4
  <1>6. m5 \in Links /\ \A x \in Nodes : m5.prev[x] = m4.prev[x]
                                          /\ m5.next[x] = IF x = h THEN f ELSE m4.next[x]
    BY <1>5, <1>a, NextSet
  <1> HIDE DEF m5
  <1>7. m6 \in Links /\ \A x \in Nodes : m6.next[x] = m5.next[x]
                                          /\ m6.prev[x] = IF x = f THEN h ELSE m5.prev[x]
    BY <1>6, <1>a, PrevSet
  <1> HIDE DEF m6
  <1> QED
    BY <1>0, <1>1, <1>3, <1>4, <1>5, <1>6, <1>7 DEF f, a

LEMMA PlacesCut ==
    ASSUME NEW S \in Contents, NEW T \in Contents, Apart(S), NEW list \in Heads, NEW h \in Heads,
           list # h, S[list] = <<>>, NEW i \in 1 .. Len(S[h]), CutAt(S, T, list, h, i)
    PROVE  /\ Apart(T)
           /\ \A j \in Int : Place(T, list, j) = IF j \in 1 .. i THEN Place(S, h, j) ELSE list
           /\ \A j \in 1 .. Len(T[h]) + 1 : Place(T, h, j) = Place(S, h, j + i)
           /\ \A g \in Heads \ {list, h} : \A j \in Int : Place(T, g, j) = Place(S, g, j)
           /\ \A x : Member(S, x) <=> Member(T, x)
  <1> DEFINE head(g) == IF g = list THEN h ELSE g
             pos(g, j) == IF g = h THEN j + i ELSE j
  <1>1. /\ \A g \in Heads : Len(S[g]) \in Nat /\ Len(T[g]) \in Nat
        /\ Len(S[list]) = 0 /\ Len(T[list]) = i /\ i \in Nat /\ Len(T[h]) = Len(S[h]) - i
        /\ i <= Len(S[h])
    BY Places DEF CutAt
  <1>2. ASSUME NEW g \in Heads, NEW j \in 1 .. Len(T[g])
        PROVE  /\ head(g) \in Heads /\ pos(g, j) \in 1 .. Len(S[head(g)])
               /\ T[g][j] = S[head(g)][pos(g, j)]
               /\ g = h => pos(g, j) > i
               /\ g = list => pos(g, j) <= i
    <2>1. CASE g = list
      BY <2>1, <1>1 DEF CutAt
    <2>2. CASE g = h
      BY <2>2, <1>1 DEF CutAt
    <2>3. CASE g \notin {list, h}
      BY <2>3, <1>1 DEF CutAt
    <2> QED
      BY <2>1, <2>2, <2>3
  <1>3. Apart(T)
    <2>1. ASSUME NEW f \in Heads, NEW g \in Heads, NEW a \in 1 .. Len(T[f]),
                 NEW b \in 1 .. Len(T[g]), T[f][a] = T[g][b]
          PROVE  f = g /\ a = b
      <3>1. /\ head(f) \in Heads /\ pos(f, a) \in 1 .. Len(S[head(f)])
            /\ head(g) \in Heads /\ pos(g, b) \in 1 .. Len(S[head(g)])
            /\ S[head(f)][pos(f, a)] = S[head(g)][pos(g, b)]
        BY <1>2, <2>1
      <3>2. head(f) = head(g) /\ pos(f, a) = pos(g, b)
        <4> HIDE DEF head, pos
        <4> QED
          BY <3>1 DEF Apart
      <3>3. /\ f = h => pos(f, a) > i
            /\ f = list => pos(f, a) <= i
            /\ g = h => pos(g, b) > i
            /\ g = list => pos(g, b) <= i
            /\ pos(f, a) \in Int /\ pos(g, b) \in Int
        BY <1>2, <1>1
      <3>4. f = g
        BY <3>2, <3>3, <1>1
      <3> QED
        BY <3>2, <3>4, <1>1
    <2> QED
      BY <2>1 DEF Apart
  <1>4. \A j \in Int : Place(T, list, j) = IF j \in 1 .. i THEN Place(S, h, j) ELSE list
    BY <1>1 DEF Place, CutAt
  <1>5. \A j \in 1 .. Len(T[h]) + 1 : Place(T, h, j) = Place(S, h, j + i)
    BY <1>1 DEF Place, CutAt
  <1>6. \A g \in Heads \ {list, h} : \A j \in Int : Place(T, g, j) = Place(S, g, j)
    BY DEF Place, CutAt
  <1>7. ASSUME NEW x, Member(T, x) PROVE Member(S, x)
    <2>1. PICK g \in Heads : \E j \in 1 .. Len(T[g]) : T[g][j] = x
      BY <1>7 DEF Member
    <2>2. PICK j \in 1 .. Len(T[g]) : T[g][j] = x
      BY <2>1
    <2>3. /\ head(g) \in Heads /\ pos(g, j) \in 1 .. Len(S[head(g)])
          /\ S[head(g)][pos(g, j)] = x
      BY <2>2, <1>2
    <2> HIDE DEF head, pos
    <2> QED
      BY <2>3 DEF Member
  <1>8. ASSUME NEW x, Member(S, x) PROVE Member(T, x)
    <2>1. PICK g \in Heads : \E j \in 1 .. Len(S[g]) : S[g][j] = x
      BY <1>8 DEF Member
    <2>2. PICK j \in 1 .. Len(S[g]) : S[g][j] = x
      BY <2>1
    <2>3. CASE g = h /\ j <= i
      <3>0. j \in 1 .. i /\ Len(T[list]) = i
        BY <2>2, <2>3, <1>1
      <3>1. j \in 1 .. Len(T[list]) /\ T[list][j] = S[h][j]
        BY <3>0 DEF CutAt
      <3> QED
        BY <3>1, <2>2, <2>3 DEF Member
    <2>4. CASE g = h /\ j > i
      <3>1. j - i \in 1 .. Len(T[h]) /\ T[h][j - i] = S[h][(j - i) + i] /\ (j - i) + i = j
        BY <2>2, <2>4, <1>1 DEF CutAt
      <3> QED
        BY <3>1, <2>2, <2>4 DEF Member
    <2>5. CASE g \notin {list, h}
      BY <2>2, <2>5 DEF Member, CutAt
    <2>6. g # list
      BY <2>2, <1>1
    <2> QED
      BY <2>3, <2>4, <2>5, <2>6, <1>1
  <1> QED
    BY <1>3, <1>4, <1>5, <1>6, <1>7, <1>8

LEMMA RingCut ==
    ASSUME NEW m \in Links, NEW S, Rings(m, S), NEW list \in Heads, NEW h \in Heads, list # h,
           S[list] = <<>>, NEW i \in 1 .. Len(S[h]),
           NEW T \in Contents, CutAt(S, T, list, h, i)
    PROVE  LET w == ListCut(m, list, h, S[h][i])
           IN  w \in Links /\ Rings(w, T) /\ Kept(m, w, S)
  <1> SUFFICES ASSUME NEW e, NEW f, NEW a, NEW n,
                      Place(S, h, i) = e, Place(S, h, i + 1) = f, Place(S, h, 1) = a, Len(S[h]) = n
               PROVE  LET w == ListCut(m, list, h, e)
                      IN  w \in Links /\ Rings(w, T) /\ Kept(m, w, S)
    BY Places DEF Rings
  <1> DEFINE w == ListCut(m, list, h, e)
  <1>0. /\ S \in Contents /\ Apart(S) /\ \A g \in Heads : Len(S[g]) \in Nat /\ Len(T[g]) \in Nat
    BY Places DEF Rings
  <1>1. /\ e \in Nodes /\ f \in Nodes /\ a \in Nodes /\ list \in Nodes /\ h \in Nodes
        /\ \A g \in Heads, j \in Int : Place(S, g, j) \in Nodes
        /\ \A g \in Heads \ {list, h} : T[g] = S[g]
    BY <1>0, Places DEF Nodes, CutAt
  <1>2. n \in Nat /\ i \in Nat /\ i # 0 /\ i <= n /\ Len(T[list]) = i /\ Len(T[h]) = n - i
    BY <1>0 DEF CutAt
  <1>3. m.next[h] = a /\ m.next[e] = f
    <2>1. Place(S, h, 0) = h /\ 0 \in 0 .. Len(S[h]) /\ i \in 0 .. Len(S[h]) /\ 0 + 1 = 1
      BY <1>0, <1>2, Places
    <2>2. /\ m.next[Place(S, h, 0)] = Place(S, h, 0 + 1)
          /\ m.next[Place(S, h, i)] = Place(S, h, i + 1)
      BY <2>1 DEF Rings, Ring
    <2> QED
      BY <2>1, <2>2
  <1>4. /\ Apart(T)
        /\ \A j \in Int : Place(T, list, j) = IF j \in 1 .. i THEN Place(S, h, j) ELSE list
        /\ \A j \in 1 .. Len(T[h]) + 1 : Place(T, h, j) = Place(S, h, j + i)
        /\ \A g \in Heads \ {list, h} : \A j \in Int : Place(T, g, j) = Place(S, g, j)
        /\ \A x : Member(S, x) <=> Member(T, x)
    BY <1>0, PlacesCut
  <1>5. /\ w \in Links
        /\ \A x \in Nodes :
              /\ w.next[x] = IF x = h THEN f ELSE IF x = e THEN list
                             ELSE IF x = list THEN a ELSE m.next[x]
              /\ w.prev[x] = IF x = f THEN h ELSE IF x = list THEN e
                             ELSE IF x = a THEN list ELSE m.prev[x]
    <2>1. m.next[e] \in Nodes /\ m.next[h] \in Nodes
      BY <1>1, <1>3
    <2>2. /\ w \in Links
          /\ \A x \in Nodes :
                /\ w.next[x] = IF x = h THEN m.next[e] ELSE IF x = e THEN list
                               ELSE IF x = list THEN m.next[h] ELSE m.next[x]
                /\ w.prev[x] = IF x = m.next[e] THEN h ELSE IF x = list THEN e
                               ELSE IF x = m.next[h] THEN list ELSE m.prev[x]
      BY <1>1, <2>1, CutLinks
    <2> HIDE DEF w
    <2> QED
      BY <2>2, <1>3
  <1> HIDE DEF w
  <1>6. ASSUME NEW g \in Heads, g # list, NEW j \in 0 .. Len(S[g])
        PROVE  /\ m.next[Place(S, g, j)] = Place(S, g, j + 1)
               /\ m.prev[Place(S, g, j + 1)] = Place(S, g, j)
               /\ Place(S, g, j) = h => g = h /\ j = 0
               /\ Place(S, g, j) = e => g = h /\ j = i
               /\ Place(S, g, j) # list /\ Place(S, g, j + 1) # list
               /\ Place(S, g, j + 1) = f => g = h /\ j = i
               /\ Place(S, g, j + 1) = a => g = h /\ j = 0
    <2>1. /\ Place(S, h, 0) = h /\ Place(S, list, 0) = list /\ Place(S, list, 1) = list
      BY <1>0, Places
    <2>2. /\ Place(S, g, j) = e => g = h /\ j = i
          /\ Place(S, g, j) = Place(S, h, 0) => g = h /\ j = 0
          /\ Place(S, g, j) # Place(S, list, 0)
      BY <1>0, <1>2, <1>6, PlacesApart
    <2>3. /\ Place(S, g, j + 1) = f => g = h /\ j + 1 = i + 1
          /\ Place(S, g, j + 1) = a => g = h /\ j + 1 = 1
          /\ Place(S, g, j + 1) # Place(S, list, 1)
      BY <1>0, <1>2, <1>6, PlacesApart
    <2> QED
      BY <2>1, <2>2, <2>3, <1>0 DEF Rings, Ring
  <1>7. ASSUME NEW g \in Heads, NEW j \in 0 .. Len(T[g])
        PROVE  /\ w.next[Place(T, g, j)] = Place(T, g, j + 1)
               /\ w.prev[Place(T, g, j + 1)] = Place(T, g, j)
    <2>1. CASE g \notin {list, h}
      <3>1. /\ Place(T, g, j) = Place(S, g, j) /\ Place(T, g, j + 1) = Place(S, g, j + 1)
            /\ j \in 0 .. Len(S[g])
        BY <2>1, <1>0, <1>1, <1>4
      <3> QED
        BY <2>1, <3>1, <1>1, <1>5, <1>6
    <2>2. CASE g = list /\ j = 0
      <3>1. Place(T, g, j) = list /\ Place(T, g, j + 1) = a
        BY <2>2, <1>2, <1>4
      <3>2. a # list /\ a # f /\ list # h /\ list # e
        BY <1>0, <1>2, <1>6
      <3> QED
        BY <3>1, <3>2, <1>1, <1>5
    <2>3. CASE g = list /\ j = i
      <3>1. Place(T, g, j) = e /\ Place(T, g, j + 1) = list
        BY <2>3, <1>2, <1>4
      <3>2. e # h /\ f # list
        BY <1>0, <1>2, <1>6
      <3> QED
        BY <3>1, <3>2, <1>1, <1>5
    <2>4. CASE g = list /\ j # 0 /\ j # i
      <3>1. /\ Place(T, g, j) = Place(S, h, j) /\ Place(T, g, j + 1) = Place(S, h, j + 1)
            /\ j \in 0 .. Len(S[h])
        BY <2>4, <1>2, <1>4
      <3> QED
        BY <3>1, <2>4, <1>1, <1>5, <1>6
    <2>5. CASE g = h /\ j = 0
      <3>1. Place(T, g, 0) = h /\ Place(T, g, 0 + 1) = f
        <4>1. 0 + 1 \in 1 .. Len(T[h]) + 1 /\ (0 + 1) + i = i + 1
          BY <1>2
        <4> QED
          BY <4>1, <2>5, <1>4, Places
      <3> QED
        BY <3>1, <2>5, <1>1, <1>5
    <2>6. CASE g = h /\ j # 0
      <3>1. /\ Place(T, g, j) = Place(S, h, j + i) /\ Place(T, g, j + 1) = Place(S, h, (j + i) + 1)
            /\ j + i \in 0 .. Len(S[h]) /\ j + i # 0 /\ j + i # i
        <4>1. /\ j \in 1 .. Len(T[h]) + 1 /\ j + 1 \in 1 .. Len(T[h]) + 1
              /\ (j + 1) + i = (j + i) + 1 /\ j + i \in 0 .. n /\ j + i # 0 /\ j + i # i
          BY <2>6, <1>2
        <4> QED
          BY <4>1, <2>6, <1>4
      <3> QED
        BY <3>1, <1>1, <1>5, <1>6
    <2> QED
      BY <2>1, <2>2, <2>3, <2>4, <2>5, <2>6
  <1>8. Rings(w, T)
    BY <1>4, <1>7 DEF Rings, Ring
  <1>9. Kept(m, w, S)
    <2> SUFFICES ASSUME NEW x \in Nodes, ~(x \in Heads \/ Member(S, x))
                 PROVE  w.next[x] = m.next[x] /\ w.prev[x] = m.prev[x]
      BY DEF Kept
    <2>1. x # e /\ x # f /\ x # a /\ x # list /\ x # h
      BY <1>0 DEF Place, Member
    <2> QED
      BY <2>1, <1>5
  <1> QED
    BY <1>5, <1>8, <1>9 DEF w

-----------------------------------------------------------------------------
(* Lists with one pointer as head *)

(* n is linked in between p and q, or after p if q is NULL. *)
Between(m, w, n, p, q) ==
    /\ w \in Links
    /\ \A x \in Nodes :
          /\ w.next[x] = IF x = p THEN n ELSE IF x = n THEN q ELSE m.next[x]
          /\ w.prev[x] = IF x = n THEN p ELSE IF x = q THEN n ELSE m.prev[x]

LEMMA BackSet ==
    ASSUME NEW m \in Links, NEW q \in Nodes \cup {NULL}, NEW p \in Nodes
    PROVE  /\ Back(m, q, p) \in Links
           /\ \A x \in Nodes : /\ Back(m, q, p).next[x] = m.next[x]
                               /\ Back(m, q, p).prev[x] = IF x = q THEN p ELSE m.prev[x]
  <1>1. CASE q = NULL
    <2>1. \A x \in Nodes : x # q
      BY <1>1, ListAssumption DEF Nodes
    <2>2. Back(m, q, p) = m
      BY <1>1 DEF Back
    <2> QED
      BY <2>1, <2>2
  <1>2. CASE q # NULL
    <2>1. q \in Nodes /\ Back(m, q, p) = SetPrev(m, q, p)
      BY <1>2 DEF Back
    <2>2. /\ SetPrev(m, q, p) \in Links
          /\ \A x \in Nodes : /\ SetPrev(m, q, p).next[x] = m.next[x]
                              /\ SetPrev(m, q, p).prev[x] = IF x = q THEN p ELSE m.prev[x]
      BY <2>1, PrevSet, SMTT(30)
    <2> QED
      BY <2>1, <2>2
  <1> QED
    BY <1>1, <1>2

LEMMA HeadLinks ==
    ASSUME NEW m \in Links, NEW n \in Nodes, NEW h \in Nodes, NEW q \in Nodes \cup {NULL},
           n # h, n # q
    PROVE  m.next[h] = q => Between(m, hlist_add_head(m, n, h), n, h, q)
  <1> DEFINE m0 == SetNext(m, n, q)
             m1 == Back(m0, q, n)
             m2 == SetNext(m1, h, n)
             m3 == SetPrev(m2, n, h)
  <1>0. m.next[h] = q => hlist_add_head(m, n, h) = m3
    BY DEF hlist_add_head
  <1>a. q \in Nodes \cup {NULL, Poison1} /\ NULL \in Nodes \cup {NULL, Poison1}
    OBVIOUS
  <1>1. m0 \in Links /\ \A x \in Nodes : m0.prev[x] = m.prev[x]
                                          /\ m0.next[x] = IF x = n THEN q ELSE m.next[x]
    BY <1>a, NextSet
  <1> HIDE DEF m0
  <1>2. m1 \in Links /\ \A x \in Nodes : m1.next[x] = m0.next[x]
                                          /\ m1.prev[x] = IF x = q THEN n ELSE m0.prev[x]
    BY <1>1, <1>a, BackSet
  <1> HIDE DEF m1
  <1>3. m2 \in Links /\ \A x \in Nodes : m2.prev[x] = m1.prev[x]
                                          /\ m2.next[x] = IF x = h THEN n ELSE m1.next[x]
    BY <1>2, <1>a, NextSet
  <1> HIDE DEF m2
  <1>4. m3 \in Links /\ \A x \in Nodes : m3.next[x] = m2.next[x]
                                          /\ m3.prev[x] = IF x = n THEN h ELSE m2.prev[x]
    BY <1>3, PrevSet
  <1> HIDE DEF m3
  <1> QED
    BY <1>0, <1>1, <1>2, <1>3, <1>4 DEF Between

LEMMA BeforeLinks ==
    ASSUME NEW m \in Links, NEW n \in Nodes, NEW e \in Nodes, NEW p \in Nodes,
           m.prev[e] = p, n # e, n # p
    PROVE  Between(m, hlist_add_before(m, n, e), n, p, e)
  <1> DEFINE m0 == SetPrev(m, n, p)
             m1 == SetNext(m0, n, e)
             m2 == SetPrev(m1, e, n)
             m3 == SetNext(m2, m2.prev[n], n)
  <1>0. hlist_add_before(m, n, e) = m3
    BY DEF hlist_add_before
  <1>1. m0 \in Links /\ \A x \in Nodes : m0.next[x] = m.next[x]
                                          /\ m0.prev[x] = IF x = n THEN p ELSE m.prev[x]
    BY PrevSet
  <1> HIDE DEF m0
  <1>2. m1 \in Links /\ \A x \in Nodes : m1.prev[x] = m0.prev[x]
                                          /\ m1.next[x] = IF x = n THEN e ELSE m0.next[x]
    BY <1>1, NextSet
  <1> HIDE DEF m1
  <1>3. m2 \in Links /\ \A x \in Nodes : m2.next[x] = m1.next[x]
                                          /\ m2.prev[x] = IF x = e THEN n ELSE m1.prev[x]
    BY <1>2, PrevSet
  <1> HIDE DEF m2
  <1>4. m3 = SetNext(m2, p, n)
    BY <1>1, <1>2, <1>3
  <1>5. m3 \in Links /\ \A x \in Nodes : m3.prev[x] = m2.prev[x]
                                          /\ m3.next[x] = IF x = p THEN n ELSE m2.next[x]
    <2> HIDE DEF m3
    <2>1. /\ SetNext(m2, p, n) \in Links
          /\ \A x \in Nodes :
                /\ SetNext(m2, p, n).prev[x] = m2.prev[x]
                /\ SetNext(m2, p, n).next[x] = IF x = p THEN n ELSE m2.next[x]
      BY <1>3, NextSet
    <2> QED
      BY <1>4, <2>1
  <1> HIDE DEF m3
  <1> QED
    BY <1>0, <1>1, <1>2, <1>3, <1>5 DEF Between

LEMMA AfterLinks ==
    ASSUME NEW m \in Links, NEW n \in Nodes, NEW e \in Nodes, NEW q \in Nodes \cup {NULL}
    PROVE  n # e /\ n # q /\ m.next[e] = q => Between(m, hlist_add_after(m, e, n), n, e, q)
  <1> DEFINE m0 == SetNext(m, n, q)
             m1 == SetNext(m0, e, n)
             m2 == SetPrev(m1, n, e)
             m3 == Back(m2, m2.next[n], n)
  <1>0. m.next[e] = q => hlist_add_after(m, e, n) = m3
    BY DEF hlist_add_after
  <1>a. q \in Nodes \cup {NULL, Poison1} /\ NULL \in Nodes \cup {NULL, Poison1}
    OBVIOUS
  <1>1. m0 \in Links /\ \A x \in Nodes : m0.prev[x] = m.prev[x]
                                          /\ m0.next[x] = IF x = n THEN q ELSE m.next[x]
    BY <1>a, NextSet
  <1> HIDE DEF m0
  <1>2. m1 \in Links /\ \A x \in Nodes : m1.prev[x] = m0.prev[x]
                                          /\ m1.next[x] = IF x = e THEN n ELSE m0.next[x]
    BY <1>1, <1>a, NextSet
  <1> HIDE DEF m1
  <1>3. m2 \in Links /\ \A x \in Nodes : m2.next[x] = m1.next[x]
                                          /\ m2.prev[x] = IF x = n THEN e ELSE m1.prev[x]
    BY <1>2, PrevSet
  <1> HIDE DEF m2
  <1>4. n # e /\ n # q => m3 = Back(m2, q, n)
    BY <1>1, <1>2, <1>3
  <1>5. n # e /\ n # q =>
           m3 \in Links /\ \A x \in Nodes : m3.next[x] = m2.next[x]
                                          /\ m3.prev[x] = IF x = q THEN n ELSE m2.prev[x]
    <2> HIDE DEF m3
    <2>0. m2 \in Links
      BY <1>3
    <2>1. /\ Back(m2, q, n) \in Links
          /\ \A x \in Nodes :
                /\ Back(m2, q, n).next[x] = m2.next[x]
                /\ Back(m2, q, n).prev[x] = IF x = q THEN n ELSE m2.prev[x]
      BY <2>0, BackSet
    <2> QED
      BY <1>4, <2>1
  <1> HIDE DEF m3
  <1> QED
    BY <1>0, <1>1, <1>2, <1>3, <1>5 DEF Between

LEMMA HlistDelLinks ==
    ASSUME NEW m \in Links, NEW n \in Nodes, NEW p \in Nodes, NEW q \in Nodes \cup {NULL}
    PROVE  m.prev[n] = p /\ m.next[n] = q =>
           /\ HlistDel(m, n) \in Links
           /\ \A x \in Nodes : /\ HlistDel(m, n).next[x] = IF x = p THEN q ELSE m.next[x]
                               /\ HlistDel(m, n).prev[x] = IF x = q THEN p ELSE m.prev[x]
  <1> DEFINE m1 == SetNext(m, p, q)
             m2 == Back(m1, q, p)
  <1>0. m.prev[n] = p /\ m.next[n] = q => HlistDel(m, n) = m2
    BY DEF HlistDel
  <1>a. q \in Nodes \cup {NULL, Poison1} /\ NULL \in Nodes \cup {NULL, Poison1}
    OBVIOUS
  <1>1. m1 \in Links /\ \A x \in Nodes : m1.prev[x] = m.prev[x]
                                          /\ m1.next[x] = IF x = p THEN q ELSE m.next[x]
    BY <1>a, NextSet
  <1> HIDE DEF m1
  <1>2. m2 \in Links /\ \A x \in Nodes : m2.next[x] = m1.next[x]
                                          /\ m2.prev[x] = IF x = q THEN p ELSE m1.prev[x]
    BY <1>1, <1>a, BackSet
  <1> HIDE DEF m2
  <1> QED
    BY <1>0, <1>1, <1>2

LEMMA HlistMoveLinks ==
    ASSUME NEW m \in Links, NEW old \in Nodes, NEW new \in Nodes,
           NEW q \in Nodes \cup {NULL}
    PROVE  old # new /\ m.next[old] = q =>
           /\ hlist_move_list(m, old, new) \in Links
           /\ \A x \in Nodes :
                 /\ hlist_move_list(m, old, new).next[x] =
                       IF x = old THEN NULL ELSE IF x = new THEN q ELSE m.next[x]
                 /\ hlist_move_list(m, old, new).prev[x] = IF x = q THEN new ELSE m.prev[x]
  <1> DEFINE m1 == SetNext(m, new, q)
             m2 == Back(m1, m1.next[new], new)
             m3 == SetNext(m2, old, NULL)
  <1>0. m.next[old] = q => hlist_move_list(m, old, new) = m3
    BY DEF hlist_move_list
  <1>a. q \in Nodes \cup {NULL, Poison1} /\ NULL \in Nodes \cup {NULL, Poison1}
    OBVIOUS
  <1>1. m1 \in Links /\ \A x \in Nodes : m1.prev[x] = m.prev[x]
                                          /\ m1.next[x] = IF x = new THEN q ELSE m.next[x]
    BY <1>a, NextSet
  <1> HIDE DEF m1
  <1>2. m2 = Back(m1, q, new)
    BY <1>1
  <1>3. m2 \in Links /\ \A x \in Nodes : m2.next[x] = m1.next[x]
                                          /\ m2.prev[x] = IF x = q THEN new ELSE m1.prev[x]
    <2> HIDE DEF m2
    <2>1. /\ Back(m1, q, new) \in Links
          /\ \A x \in Nodes :
                /\ Back(m1, q, new).next[x] = m1.next[x]
                /\ Back(m1, q, new).prev[x] = IF x = q THEN new ELSE m1.prev[x]
      BY <1>1, <1>a, BackSet
    <2> QED
      BY <1>2, <2>1
  <1> HIDE DEF m2
  <1>b. m2 \in Links
    BY <1>3
  <1>c. \A v \in Nodes \cup {NULL, Poison1} :
            /\ SetNext(m2, old, v) \in Links
            /\ \A x \in Nodes : /\ SetNext(m2, old, v).next[x] = IF x = old THEN v ELSE m2.next[x]
                                /\ SetNext(m2, old, v).prev[x] = m2.prev[x]
    BY <1>b, NextSet, Zenon
  <1>4. m3 \in Links /\ \A x \in Nodes : m3.prev[x] = m2.prev[x]
                                          /\ m3.next[x] = IF x = old THEN NULL ELSE m2.next[x]
    BY <1>c
  <1> HIDE DEF m3
  <1> QED
    BY <1>0, <1>1, <1>3, <1>4

LEMMA ChainsKept ==
    ASSUME NEW m, NEW w, NEW S, Chains(m, S),
           \A x \in Nodes : (x \in Heads => w.next[x] = m.next[x])
                /\ (Member(S, x) => w.next[x] = m.next[x] /\ w.prev[x] = m.prev[x])
    PROVE  Chains(w, S)
  <1>0. S \in Contents /\ \A h \in Heads : Len(S[h]) \in Nat
    BY Places DEF Chains
  <1>1. ASSUME NEW h \in Heads, NEW i \in 0 .. Len(S[h])
        PROVE  w.next[Place(S, h, i)] = After(S, h, i)
    <2>1. Place(S, h, i) \in Nodes
             /\ (Place(S, h, i) \in Heads \/ Member(S, Place(S, h, i)))
      BY <1>0, Places DEF Place, Member
    <2>2. m.next[Place(S, h, i)] = After(S, h, i)
      BY DEF Chains, Chain
    <2> QED
      BY <2>1, <2>2
  <1>2. ASSUME NEW h \in Heads, NEW i \in 1 .. Len(S[h])
        PROVE  w.prev[S[h][i]] = Place(S, h, i - 1)
    <2>1. S[h][i] \in Nodes /\ Member(S, S[h][i])
      BY <1>0, Places DEF Member
    <2>2. m.prev[S[h][i]] = Place(S, h, i - 1)
      BY DEF Chains, Chain
    <2> QED
      BY <2>1, <2>2
  <1> QED
    BY <1>1, <1>2 DEF Chains, Chain

LEMMA ChainInsert ==
    ASSUME NEW m \in Links, NEW S, Chains(m, S), NEW h \in Heads, NEW i \in 0 .. Len(S[h]),
           NEW n \in Items, ~Member(S, n), NEW T \in Contents, Inserted(S, T, h, i, n),
           NEW w, Between(m, w, n, Place(S, h, i), After(S, h, i))
    PROVE  /\ Chains(w, T)
           /\ \A x \in Nodes : x # n /\ ~(x \in Heads \/ Member(S, x)) =>
                 w.next[x] = m.next[x] /\ w.prev[x] = m.prev[x]
  <1> SUFFICES ASSUME NEW p, NEW q, Place(S, h, i) = p, After(S, h, i) = q
               PROVE  /\ Chains(w, T)
                      /\ \A x \in Nodes : x # n /\ ~(x \in Heads \/ Member(S, x)) =>
                            w.next[x] = m.next[x] /\ w.prev[x] = m.prev[x]
    OBVIOUS
  <1>0. /\ S \in Contents /\ Apart(S) /\ \A g \in Heads : Len(S[g]) \in Nat /\ Len(T[g]) \in Nat
        /\ i \in Nat /\ i <= Len(S[h]) /\ Len(T[h]) = Len(S[h]) + 1
        /\ \A g \in Heads \ {h} : T[g] = S[g]
    BY Places DEF Chains, Inserted
  <1>1. p \in Nodes /\ n \in Nodes /\ \A g \in Heads, j \in Int : Place(S, g, j) \in Nodes
    BY <1>0, Places DEF Nodes
  <1>2. \A g \in Heads : \A j \in 1 .. Len(S[g]) :
            S[g][j] \in Nodes /\ S[g][j] # n /\ (S[g][j] = q => g = h /\ j = i + 1)
    BY <1>0, Places, ListAssumption DEF Member, After, Apart, Nodes
  <1>3. \A x \in Nodes :
            /\ w.next[x] = IF x = p THEN n ELSE IF x = n THEN q ELSE m.next[x]
            /\ w.prev[x] = IF x = n THEN p ELSE IF x = q THEN n ELSE m.prev[x]
    BY DEF Between
  <1>4. /\ Apart(T)
        /\ \A j \in 0 .. Len(T[h]) + 1 :
              Place(T, h, j) = IF j <= i THEN Place(S, h, j)
                               ELSE IF j = i + 1 THEN n ELSE Place(S, h, j - 1)
        /\ \A g \in Heads \ {h} : \A j \in Int : Place(T, g, j) = Place(S, g, j)
        /\ \A g \in Heads, j \in Int : Place(S, g, j) # n
    BY <1>0, PlacesInserted
  <1>5. /\ \A j \in 0 .. Len(T[h]) :
              After(T, h, j) = IF j < i THEN After(S, h, j)
                               ELSE IF j = i THEN n ELSE After(S, h, j - 1)
        /\ \A g \in Heads \ {h} : \A j \in Int : After(T, g, j) = After(S, g, j)
    <2>1. ASSUME NEW j \in 0 .. Len(T[h])
          PROVE  After(T, h, j) = IF j < i THEN After(S, h, j)
                                  ELSE IF j = i THEN n ELSE After(S, h, j - 1)
      <3>1. j < Len(T[h]) => /\ j + 1 \in 1 .. Len(T[h])
                             /\ j + 1 <= i <=> j < i
                             /\ j + 1 = i + 1 <=> j = i
                             /\ (j + 1) - 1 = j /\ (j - 1) + 1 = j
        BY <1>0
      <3>2. j < Len(T[h]) => T[h][j + 1] = IF j < i THEN S[h][j + 1]
                                           ELSE IF j = i THEN n ELSE S[h][j]
        BY <3>1 DEF Inserted
      <3> QED
        BY <3>1, <3>2, <1>0 DEF After
    <2>2. \A g \in Heads \ {h} : \A j \in Int : After(T, g, j) = After(S, g, j)
      BY <1>0 DEF After
    <2> QED
      BY <2>1, <2>2
  <1>6. ASSUME NEW g \in Heads, NEW j \in 0 .. Len(S[g])
        PROVE  /\ m.next[Place(S, g, j)] = After(S, g, j)
               /\ Place(S, g, j) = p => g = h /\ i = j
    <2>1. Place(S, g, j) = p => g = h /\ i = j
      BY <1>0, PlacesApart
    <2> QED
      BY <2>1, <1>0 DEF Chains, Chain
  <1>7. ASSUME NEW g \in Heads, NEW j \in 1 .. Len(S[g])
        PROVE  m.prev[S[g][j]] = Place(S, g, j - 1)
    BY DEF Chains, Chain
  <1>8. ASSUME NEW g \in Heads, NEW j \in 0 .. Len(T[g])
        PROVE  w.next[Place(T, g, j)] = After(T, g, j)
    <2>1. CASE g # h
      <3>1. Place(T, g, j) = Place(S, g, j) /\ After(T, g, j) = After(S, g, j) /\ j \in 0 .. Len(S[g])
        BY <2>1, <1>0, <1>4, <1>5
      <3> QED
        BY <2>1, <3>1, <1>1, <1>3, <1>4, <1>6
    <2>2. CASE g = h /\ j < i
      <3>1. Place(T, g, j) = Place(S, g, j) /\ After(T, g, j) = After(S, g, j) /\ j \in 0 .. Len(S[g])
        BY <2>2, <1>0, <1>4, <1>5
      <3> QED
        BY <2>2, <3>1, <1>1, <1>3, <1>4, <1>6
    <2>3. CASE g = h /\ j = i
      <3>1. Place(T, g, j) = p /\ After(T, g, j) = n
        BY <2>3, <1>0, <1>4, <1>5
      <3> QED
        BY <3>1, <1>1, <1>3
    <2>4. CASE g = h /\ j = i + 1
      <3>1. Place(T, g, j) = n /\ After(T, g, j) = q
        BY <2>4, <1>0, <1>4, <1>5
      <3> QED
        BY <3>1, <1>0, <1>1, <1>3, <1>4
    <2>5. CASE g = h /\ j > i + 1
      <3>1. /\ Place(T, g, j) = Place(S, g, j - 1) /\ After(T, g, j) = After(S, g, j - 1)
            /\ j - 1 \in 0 .. Len(S[g]) /\ j - 1 # i
        BY <2>5, <1>0, <1>4, <1>5
      <3> QED
        BY <2>5, <3>1, <1>1, <1>3, <1>4, <1>6
    <2> QED
      BY <2>1, <2>2, <2>3, <2>4, <2>5, <1>0
  <1>9. ASSUME NEW g \in Heads, NEW j \in 1 .. Len(T[g])
        PROVE  w.prev[T[g][j]] = Place(T, g, j - 1)
    <2>1. CASE g # h
      <3>1. Place(T, g, j - 1) = Place(S, g, j - 1) /\ T[g][j] = S[g][j] /\ j \in 1 .. Len(S[g])
        BY <2>1, <1>0, <1>4
      <3> QED
        BY <2>1, <3>1, <1>2, <1>3, <1>7
    <2>2. CASE g = h /\ j <= i
      <3>1. Place(T, g, j - 1) = Place(S, g, j - 1) /\ T[g][j] = S[g][j] /\ j \in 1 .. Len(S[g]) /\ j # i + 1
        BY <2>2, <1>0, <1>4 DEF Inserted
      <3> QED
        BY <2>2, <3>1, <1>2, <1>3, <1>7, SMTT(30)
    <2>3. CASE g = h /\ j = i + 1
      <3>1. Place(T, g, j - 1) = p /\ T[g][j] = n
        BY <2>3, <1>0, <1>4 DEF Inserted
      <3> QED
        BY <3>1, <1>1, <1>3
    <2>4. CASE g = h /\ j = i + 2
      <3>1. Place(T, g, j - 1) = n /\ T[g][j] = S[g][i + 1] /\ i + 1 \in 1 .. Len(S[g])
        BY <2>4, <1>0, <1>4 DEF Inserted
      <3>2. S[g][i + 1] = q
        BY <2>4, <3>1, <1>0 DEF After
      <3> QED
        BY <3>1, <3>2, <1>2, <1>3
    <2>5. CASE g = h /\ j > i + 2
      <3>1. /\ Place(T, g, j - 1) = Place(S, g, (j - 1) - 1) /\ T[g][j] = S[g][j - 1]
            /\ j - 1 \in 1 .. Len(S[g]) /\ j - 1 # i + 1
        BY <2>5, <1>0, <1>4 DEF Inserted
      <3> QED
        BY <2>5, <3>1, <1>2, <1>3, <1>7
    <2> QED
      BY <2>1, <2>2, <2>3, <2>4, <2>5, <1>0
  <1>10. ASSUME NEW x \in Nodes, x # n, ~(x \in Heads \/ Member(S, x))
         PROVE  x # p /\ x # q
    BY <1>10, <1>0, ListAssumption DEF Place, After, Member, Nodes
  <1> QED
    BY <1>3, <1>4, <1>8, <1>9, <1>10 DEF Chains, Chain

LEMMA ChainRemove ==
    ASSUME NEW m \in Links, NEW S, Chains(m, S), NEW h \in Heads, NEW i \in 1 .. Len(S[h]),
           NEW T \in Contents, Removed(S, T, h, i)
    PROVE  /\ m.prev[S[h][i]] = Place(S, h, i - 1) /\ m.next[S[h][i]] = After(S, h, i)
           /\ HlistDel(m, S[h][i]) \in Links
           /\ Chains(HlistDel(m, S[h][i]), T)
           /\ \A x \in Nodes : ~(x \in Heads \/ Member(S, x)) =>
                 /\ HlistDel(m, S[h][i]).next[x] = m.next[x]
                 /\ HlistDel(m, S[h][i]).prev[x] = m.prev[x]
  <1> SUFFICES ASSUME NEW p, NEW q, NEW e, Place(S, h, i - 1) = p, After(S, h, i) = q, S[h][i] = e
               PROVE  /\ m.prev[e] = p /\ m.next[e] = q
                      /\ HlistDel(m, e) \in Links
                      /\ Chains(HlistDel(m, e), T)
                      /\ \A x \in Nodes : ~(x \in Heads \/ Member(S, x)) =>
                            /\ HlistDel(m, e).next[x] = m.next[x]
                            /\ HlistDel(m, e).prev[x] = m.prev[x]
    OBVIOUS
  <1> DEFINE w == HlistDel(m, e)
  <1>0. /\ S \in Contents /\ Apart(S) /\ \A g \in Heads : Len(S[g]) \in Nat /\ Len(T[g]) \in Nat
        /\ i \in Nat /\ i # 0 /\ i <= Len(S[h]) /\ Len(T[h]) = Len(S[h]) - 1
        /\ \A g \in Heads \ {h} : T[g] = S[g]
    BY Places DEF Chains, Removed
  <1>1. p \in Nodes /\ e \in Nodes /\ \A g \in Heads, j \in Int : Place(S, g, j) \in Nodes
    BY <1>0, Places DEF Nodes
  <1>2. \A g \in Heads : \A j \in 1 .. Len(S[g]) :
            S[g][j] \in Nodes /\ (S[g][j] = q => g = h /\ j = i + 1)
    <2>1. q = NULL \/ (i + 1 \in 1 .. Len(S[h]) /\ q = S[h][i + 1])
      BY <1>0 DEF After
    <2>2. \A g \in Heads : \A j \in 1 .. Len(S[g]) : S[g][j] \in Nodes /\ S[g][j] # NULL
      BY <1>0, Places, ListAssumption DEF Nodes
    <2> QED
      BY <2>1, <2>2, <1>0 DEF Apart
  <1>a. q \in Nodes \cup {NULL}
    BY <1>0, Places DEF After
  <1>b. m.prev[e] = p /\ m.next[e] = q
    <2>1. Place(S, h, i) = e /\ i \in 0 .. Len(S[h])
      BY <1>0, Places
    <2>2. m.next[Place(S, h, i)] = After(S, h, i) /\ m.prev[S[h][i]] = Place(S, h, i - 1)
      BY <2>1 DEF Chains, Chain
    <2> QED
      BY <2>1, <2>2
  <1>3. /\ w \in Links
        /\ \A x \in Nodes : /\ w.next[x] = IF x = p THEN q ELSE m.next[x]
                            /\ w.prev[x] = IF x = q THEN p ELSE m.prev[x]
    <2>1. ASSUME NEW qq \in Nodes \cup {NULL}
          PROVE  m.prev[e] = p /\ m.next[e] = qq =>
              /\ w \in Links
              /\ \A x \in Nodes : /\ w.next[x] = IF x = p THEN qq ELSE m.next[x]
                                  /\ w.prev[x] = IF x = qq THEN p ELSE m.prev[x]
      BY <1>1, HlistDelLinks
    <2> HIDE DEF w
    <2> QED
      BY <2>1, <1>a, <1>b
  <1> HIDE DEF w
  <1>4. /\ Apart(T)
        /\ \A j \in 0 .. Len(T[h]) + 1 :
              Place(T, h, j) = IF j < i THEN Place(S, h, j) ELSE Place(S, h, j + 1)
        /\ \A g \in Heads \ {h} : \A j \in Int : Place(T, g, j) = Place(S, g, j)
    BY <1>0, PlacesRemoved
  <1>5. /\ \A j \in 0 .. Len(T[h]) :
              After(T, h, j) = IF j < i - 1 THEN After(S, h, j) ELSE After(S, h, j + 1)
        /\ \A g \in Heads \ {h} : \A j \in Int : After(T, g, j) = After(S, g, j)
    <2>1. ASSUME NEW j \in 0 .. Len(T[h])
          PROVE  After(T, h, j) = IF j < i - 1 THEN After(S, h, j) ELSE After(S, h, j + 1)
      <3>1. j < Len(T[h]) => j + 1 \in 1 .. Len(T[h]) /\ (j + 1 < i <=> j < i - 1)
        BY <1>0
      <3>2. j < Len(T[h]) => T[h][j + 1] = IF j < i - 1 THEN S[h][j + 1] ELSE S[h][(j + 1) + 1]
        BY <3>1 DEF Removed
      <3> QED
        BY <3>1, <3>2, <1>0 DEF After
    <2>2. \A g \in Heads \ {h} : \A j \in Int : After(T, g, j) = After(S, g, j)
      BY <1>0 DEF After
    <2> QED
      BY <2>1, <2>2
  <1>6. ASSUME NEW g \in Heads, NEW j \in 0 .. Len(S[g])
        PROVE  /\ m.next[Place(S, g, j)] = After(S, g, j)
               /\ Place(S, g, j) = p => g = h /\ j = i - 1
    <2>1. Place(S, g, j) = p => g = h /\ i - 1 = j
      BY <1>0, PlacesApart
    <2> QED
      BY <2>1, <1>0 DEF Chains, Chain
  <1>7. ASSUME NEW g \in Heads, NEW j \in 1 .. Len(S[g])
        PROVE  m.prev[S[g][j]] = Place(S, g, j - 1)
    BY DEF Chains, Chain
  <1>8. ASSUME NEW g \in Heads, NEW j \in 0 .. Len(T[g])
        PROVE  w.next[Place(T, g, j)] = After(T, g, j)
    <2>1. CASE g # h
      <3>1. Place(T, g, j) = Place(S, g, j) /\ After(T, g, j) = After(S, g, j) /\ j \in 0 .. Len(S[g])
        BY <2>1, <1>0, <1>4, <1>5
      <3> QED
        BY <2>1, <3>1, <1>1, <1>3, <1>6
    <2>2. CASE g = h /\ j < i - 1
      <3>1. /\ Place(T, g, j) = Place(S, g, j) /\ After(T, g, j) = After(S, g, j)
            /\ j \in 0 .. Len(S[g]) /\ j # i - 1
        BY <2>2, <1>0, <1>4, <1>5
      <3> QED
        BY <2>2, <3>1, <1>1, <1>3, <1>6
    <2>3. CASE g = h /\ j = i - 1
      <3>1. Place(T, g, j) = p /\ After(T, g, j) = q
        BY <2>3, <1>0, <1>4, <1>5
      <3> QED
        BY <3>1, <1>1, <1>3
    <2>4. CASE g = h /\ j > i - 1
      <3>1. /\ Place(T, g, j) = Place(S, g, j + 1) /\ After(T, g, j) = After(S, g, j + 1)
            /\ j + 1 \in 0 .. Len(S[g]) /\ j + 1 # i - 1
        BY <2>4, <1>0, <1>4, <1>5
      <3> QED
        BY <2>4, <3>1, <1>1, <1>3, <1>6
    <2> QED
      BY <2>1, <2>2, <2>3, <2>4, <1>0
  <1>9. ASSUME NEW g \in Heads, NEW j \in 1 .. Len(T[g])
        PROVE  w.prev[T[g][j]] = Place(T, g, j - 1)
    <2>1. CASE g # h
      <3>1. Place(T, g, j - 1) = Place(S, g, j - 1) /\ T[g][j] = S[g][j] /\ j \in 1 .. Len(S[g])
        BY <2>1, <1>0, <1>4
      <3> QED
        BY <2>1, <3>1, <1>2, <1>3, <1>7
    <2>2. CASE g = h /\ j < i
      <3>1. /\ Place(T, g, j - 1) = Place(S, g, j - 1) /\ T[g][j] = S[g][j]
            /\ j \in 1 .. Len(S[g]) /\ j # i + 1
        BY <2>2, <1>0, <1>4, SMTT(30) DEF Removed
      <3> QED
        BY <2>2, <3>1, <1>2, <1>3, <1>7
    <2>3. CASE g = h /\ j = i
      <3>1. Place(T, g, j - 1) = p /\ T[g][j] = S[g][i + 1] /\ i + 1 \in 1 .. Len(S[g])
        BY <2>3, <1>0, <1>4 DEF Removed
      <3>2. S[g][i + 1] = q
        BY <2>3, <3>1, <1>0 DEF After
      <3> QED
        BY <3>1, <3>2, <1>2, <1>3
    <2>4. CASE g = h /\ j > i
      <3>1. /\ Place(T, g, j - 1) = Place(S, g, (j + 1) - 1) /\ T[g][j] = S[g][j + 1]
            /\ j + 1 \in 1 .. Len(S[g]) /\ j + 1 # i + 1
        BY <2>4, <1>0, <1>4 DEF Removed
      <3>2. m.prev[S[g][j + 1]] = Place(S, g, (j + 1) - 1)
        BY <3>1, <1>7
      <3> QED
        BY <2>4, <3>1, <3>2, <1>2, <1>3, SMTT(30)
    <2> QED
      BY <2>1, <2>2, <2>3, <2>4, <1>0
  <1>10. ASSUME NEW x \in Nodes, ~(x \in Heads \/ Member(S, x))
         PROVE  x # p /\ x # q
    BY <1>10, <1>0, ListAssumption DEF Place, After, Member, Nodes
  <1>11. Chains(w, T)
    BY <1>4, <1>8, <1>9 DEF Chains, Chain
  <1> QED
    BY <1>b, <1>3, <1>10, <1>11 DEF w

LEMMA ChainTake ==
    ASSUME NEW m \in Links, NEW S, Chains(m, S), NEW old \in Heads, NEW new \in Heads,
           old # new, S[new] = <<>>, NEW T \in Contents, Taken(S, T, old, new)
    PROVE  /\ hlist_move_list(m, old, new) \in Links
           /\ Chains(hlist_move_list(m, old, new), T)
           /\ Kept(m, hlist_move_list(m, old, new), S)
           /\ \A x : Member(S, x) <=> Member(T, x)
  <1> SUFFICES ASSUME NEW q, NEW n, After(S, old, 0) = q, Len(S[old]) = n
               PROVE  /\ hlist_move_list(m, old, new) \in Links
                      /\ Chains(hlist_move_list(m, old, new), T)
                      /\ Kept(m, hlist_move_list(m, old, new), S)
                      /\ \A x : Member(S, x) <=> Member(T, x)
    OBVIOUS
  <1> DEFINE w == hlist_move_list(m, old, new)
  <1>0. S \in Contents /\ Apart(S) /\ (\A g \in Heads : Len(S[g]) \in Nat /\ Len(T[g]) \in Nat) /\ n \in Nat
    BY Places DEF Chains
  <1>1. old \in Nodes /\ new \in Nodes /\ \A g \in Heads, j \in Int : Place(S, g, j) \in Nodes
    BY <1>0, Places DEF Nodes
  <1>a. q \in Nodes \cup {NULL}
    BY <1>0, Places DEF After
  <1>2. m.next[old] = q
    <2>1. Place(S, old, 0) = old /\ 0 \in 0 .. n
      BY <1>0, Places
    <2> QED
      BY <2>1 DEF Chains, Chain
  <1>3. /\ \A g \in Heads \ {old, new} : \A j \in Int : Place(T, g, j) = Place(S, g, j)
        /\ \A j \in Int : Place(T, old, j) = old
        /\ \A j \in Int : Place(T, new, j) = IF j \in 1 .. n THEN Place(S, old, j) ELSE new
        /\ Len(T[old]) = 0 /\ Len(T[new]) = n /\ Len(S[new]) = 0
        /\ \A g \in Heads \ {old, new} : Len(T[g]) = Len(S[g]) /\ T[g] = S[g]
        /\ T[new] = S[old]
    BY <1>0 DEF Taken, Place
  <1>b. /\ \A g \in Heads \ {old, new} : \A j \in Int : After(T, g, j) = After(S, g, j)
        /\ After(T, old, 0) = NULL
        /\ \A j \in Int : After(T, new, j) = After(S, old, j)
    BY <1>0, <1>3 DEF After
  <1>4. Apart(T)
    BY <1>0, <1>3, SMTT(30) DEF Apart, Taken
  <1>5. \A x : Member(S, x) <=> Member(T, x)
    <2>1. ASSUME NEW x, Member(S, x) PROVE Member(T, x)
      BY <1>0, <1>3, <2>1 DEF Member, Taken
    <2>2. ASSUME NEW x, Member(T, x) PROVE Member(S, x)
      BY <1>0, <1>3, <2>2 DEF Member, Taken
    <2> QED
      BY <2>1, <2>2
  <1>6. /\ w \in Links
        /\ \A x \in Nodes :
              /\ w.next[x] = IF x = old THEN NULL ELSE IF x = new THEN q ELSE m.next[x]
              /\ w.prev[x] = IF x = q THEN new ELSE m.prev[x]
    <2>1. ASSUME NEW qq \in Nodes \cup {NULL}
          PROVE  old # new /\ m.next[old] = qq =>
              /\ w \in Links
              /\ \A x \in Nodes :
                    /\ w.next[x] = IF x = old THEN NULL ELSE IF x = new THEN qq ELSE m.next[x]
                    /\ w.prev[x] = IF x = qq THEN new ELSE m.prev[x]
      BY <1>1, HlistMoveLinks
    <2> HIDE DEF w
    <2> QED
      BY <2>1, <1>a, <1>2
  <1> HIDE DEF w
  <1>7. ASSUME NEW g \in Heads, NEW j \in 0 .. Len(S[g])
        PROVE  /\ m.next[Place(S, g, j)] = After(S, g, j)
               /\ Place(S, g, j) = old => g = old /\ j = 0
               /\ Place(S, g, j) = new => g = new
    <2>1. Place(S, old, 0) = old /\ Place(S, new, 0) = new
      BY <1>0, Places
    <2>2. /\ Place(S, g, j) = Place(S, old, 0) => g = old /\ j = 0
          /\ Place(S, g, j) = Place(S, new, 0) => g = new
      BY <1>0, PlacesApart, SMTT(30)
    <2> QED
      BY <2>1, <2>2, <1>0 DEF Chains, Chain
  <1>8. ASSUME NEW g \in Heads, NEW j \in 1 .. Len(S[g])
        PROVE  m.prev[S[g][j]] = Place(S, g, j - 1)
    BY DEF Chains, Chain
  <1>9. \A g \in Heads : \A j \in 1 .. Len(S[g]) :
            S[g][j] \in Nodes /\ (S[g][j] = q <=> g = old /\ j = 1)
    BY <1>0, Places, ListAssumption DEF After, Apart, Nodes
  <1>10. ASSUME NEW g \in Heads, NEW j \in 0 .. Len(T[g])
         PROVE  w.next[Place(T, g, j)] = After(T, g, j)
    <2>1. CASE g \notin {old, new}
      <3>1. Place(T, g, j) = Place(S, g, j) /\ After(T, g, j) = After(S, g, j) /\ j \in 0 .. Len(S[g])
        BY <2>1, <1>0, <1>3, <1>b
      <3> QED
        BY <2>1, <3>1, <1>1, <1>6, <1>7
    <2>2. CASE g = old
      BY <2>2, <1>0, <1>1, <1>3, <1>b, <1>6
    <2>3. CASE g = new /\ j = 0
      BY <2>3, <1>0, <1>1, <1>3, <1>b, <1>6
    <2>4. CASE g = new /\ j # 0
      <3>1. Place(T, g, j) = Place(S, old, j) /\ After(T, g, j) = After(S, old, j) /\ j \in 0 .. Len(S[old])
        BY <2>4, <1>0, <1>3, <1>b
      <3> QED
        BY <2>4, <3>1, <1>1, <1>6, <1>7
    <2> QED
      BY <2>1, <2>2, <2>3, <2>4
  <1>11. ASSUME NEW g \in Heads, NEW j \in 1 .. Len(T[g])
         PROVE  w.prev[T[g][j]] = Place(T, g, j - 1)
    <2>1. CASE g \notin {old, new}
      <3>1. Place(T, g, j - 1) = Place(S, g, j - 1) /\ T[g][j] = S[g][j] /\ j \in 1 .. Len(S[g])
        BY <2>1, <1>0, <1>3
      <3> QED
        BY <2>1, <3>1, <1>6, <1>8, <1>9
    <2>2. g # old
      BY <1>0, <1>3
    <2>3. CASE g = new /\ j = 1
      <3>1. T[g][j] = S[old][1] /\ 1 \in 1 .. Len(S[old]) /\ Place(T, g, j - 1) = new
        BY <2>3, <1>0, <1>3
      <3> QED
        BY <3>1, <1>6, <1>9
    <2>4. CASE g = new /\ j # 1
      <3>1. T[g][j] = S[old][j] /\ j \in 1 .. Len(S[old]) /\ Place(T, g, j - 1) = Place(S, old, j - 1)
        BY <2>4, <1>0, <1>3
      <3> QED
        BY <2>4, <3>1, <1>6, <1>8, <1>9
    <2> QED
      BY <2>1, <2>2, <2>3, <2>4
  <1>12. Chains(w, T)
    BY <1>4, <1>10, <1>11 DEF Chains, Chain
  <1>13. Kept(m, w, S)
    <2> SUFFICES ASSUME NEW x \in Nodes, ~(x \in Heads \/ Member(S, x))
                 PROVE  w.next[x] = m.next[x] /\ w.prev[x] = m.prev[x]
      BY DEF Kept
    <2>1. x # q /\ x # old /\ x # new
      BY <1>0, ListAssumption DEF After, Member, Nodes
    <2> QED
      BY <2>1, <1>6
  <1> QED
    BY <1>5, <1>6, <1>12, <1>13 DEF w

-----------------------------------------------------------------------------
(* Reading a sequence from the links *)

(* What a walk finds k links after the first: the entries of s, then the end. *)
Found(s, end, k) == IF k < Len(s) THEN s[k + 1] ELSE end

(* The links from h lead through s to its end. *)
Leads(links, h, s, end) ==
    /\ links[h] = Found(s, end, 0)
    /\ \A i \in 1 .. Len(s) : links[s[i]] = Found(s, end, i)

(* The least number of a set of numbers. *)
LEMMA LeastNumber ==
    ASSUME NEW B \in SUBSET Nat, B # {}
    PROVE  \E x \in B : \A y \in B : x <= y
  <1>1. \E x \in B : \A y \in B : ~(<<y, x>> \in OpToRel(<, Nat))
    BY NatLessThanWellFounded, WFMin, Zenon
  <1>2. \A x, y \in Nat : (<<y, x>> \in OpToRel(<, Nat)) <=> y < x
    <2>1. \A x, y \in Nat : (<<y, x>> \in {ss \in Nat \X Nat : ss[1] < ss[2]}) <=> y < x
      OBVIOUS
    <2> QED
      BY <2>1, Zenon DEF OpToRel
  <1>3. \E x \in B : \A y \in B : ~(y < x)
    BY <1>1, <1>2, Zenon
  <1> QED
    BY <1>3

LEMMA WalkFinds ==
    ASSUME NEW links, NEW h, NEW s \in Seq(Items), NEW end, end \notin Items,
           Leads(links, h, s, end)
    PROVE  Walk(links, h) = [k \in 0 .. Cardinality(Items) |-> Found(s, end, k)]
  <1> DEFINE D == 0 .. Cardinality(Items)
             step(g, k) == IF k = 0 THEN links[h]
                           ELSE LET p == g[k - 1] IN IF p \in Items THEN links[p] ELSE p
             f == [k \in D |-> Found(s, end, k)]
  <1>1. Cardinality(Items) \in Nat
    BY ListAssumption, FS_CardinalityType
  <1>2. Len(s) \in Nat /\ \A i \in 1 .. Len(s) : s[i] \in Items
    OBVIOUS
  <1>3. ASSUME NEW g, NEW k \in D, k # 0 => g[k - 1] = Found(s, end, k - 1)
        PROVE  step(g, k) = Found(s, end, k)
    <2>1. CASE k = 0
      BY <2>1 DEF Leads
    <2>2. CASE k # 0
      <3>1. g[k - 1] = Found(s, end, k - 1) /\ k \in Nat /\ k - 1 \in Nat
        BY <1>1, <1>3, <2>2
      <3>2. CASE k - 1 < Len(s)
        <4>1. k \in 1 .. Len(s) /\ (k - 1) + 1 = k
          BY <1>2, <2>2, <3>1, <3>2
        <4>2. g[k - 1] = s[k] /\ s[k] \in Items
          BY <1>2, <3>1, <3>2, <4>1 DEF Found
        <4> QED
          BY <2>2, <4>1, <4>2 DEF Leads
      <3>3. CASE ~(k - 1 < Len(s))
        <4>1. g[k - 1] = end /\ Found(s, end, k) = end
          BY <1>2, <3>1, <3>3 DEF Found
        <4> QED
          BY <2>2, <4>1
      <3> QED
        BY <3>2, <3>3
    <2> QED
      BY <2>1, <2>2
  <1>4. f = [k \in D |-> step(f, k)]
    <2>1. \A k \in D : k # 0 => f[k - 1] = Found(s, end, k - 1)
      <3>1. \A k \in D : k # 0 => k - 1 \in D
        BY <1>1
      <3> QED
        BY <3>1
    <2>2. \A k \in D : step(f, k) = Found(s, end, k)
      <3> HIDE DEF f
      <3> QED
        BY <2>1, <1>3
    <2> HIDE DEF step
    <2> QED
      BY <2>2
  <1>5. ASSUME NEW g, g = [k \in D |-> step(g, k)]
        PROVE  g = f
    <2> DEFINE B == {k \in D : g[k] # Found(s, end, k)}
    <2>1. B = {}
      <3> SUFFICES ASSUME B # {} PROVE FALSE
        OBVIOUS
      <3>1. B \in SUBSET Nat
        BY <1>1
      <3>2. PICK x \in B : \A y \in B : x <= y
        <4> HIDE DEF B
        <4> QED
          BY <3>1, LeastNumber
      <3>3. x \in D /\ g[x] # Found(s, end, x)
        OBVIOUS
      <3>4. x # 0 => g[x - 1] = Found(s, end, x - 1)
        <4>1. x # 0 => x - 1 \in D /\ ~(x <= x - 1)
          BY <1>1, <3>3
        <4> QED
          BY <4>1, <3>2
      <3>5. step(g, x) = Found(s, end, x)
        BY <3>4, <3>3, <1>3
      <3>6. g[x] = step(g, x)
        <4> HIDE DEF step
        <4> QED
          BY <1>5, <3>3
      <3> QED
        BY <3>3, <3>5, <3>6
    <2>2. \A k \in D : g[k] = Found(s, end, k)
      BY <2>1
    <2>3. g = [k \in D |-> g[k]]
      <3> HIDE DEF step
      <3> QED
        BY <1>5
    <2> QED
      BY <2>2, <2>3
  <1>6. Walk(links, h) = CHOOSE g : g = [k \in D |-> step(g, k)]
    BY DEF Walk
  <1> HIDE DEF f, step
  <1>7. Walk(links, h) = f
    BY <1>4, <1>5, <1>6
  <1> QED
    BY <1>7 DEF f

LEMMA FollowFinds ==
    ASSUME NEW links, NEW h, NEW s \in Seq(Items), NEW end, end \notin Items,
           Leads(links, h, s, end), Len(s) <= Cardinality(Items)
    PROVE  Follow(links, h) = s
  <1> DEFINE N == Cardinality(Items)
             w == [k \in 0 .. N |-> Found(s, end, k)]
             K == {k \in DOMAIN w : w[k] \in Items}
  <1>1. N \in Nat
    BY ListAssumption, FS_CardinalityType
  <1>2. Len(s) \in Nat /\ \A i \in 1 .. Len(s) : s[i] \in Items
    OBVIOUS
  <1>3. Walk(links, h) = w
    BY WalkFinds
  <1> HIDE DEF N
  <1>4. K = 0 .. (Len(s) - 1)
    <2>1. ASSUME NEW k \in 0 .. N PROVE Found(s, end, k) \in Items <=> k < Len(s)
      <3>1. k < Len(s) => k + 1 \in 1 .. Len(s)
        BY <1>1, <1>2
      <3> QED
        BY <3>1, <1>2 DEF Found
    <2>2. DOMAIN w = 0 .. N /\ \A k \in 0 .. N : w[k] = Found(s, end, k)
      OBVIOUS
    <2>3. Len(s) <= N
      BY DEF N
    <2> HIDE DEF w
    <2> QED
      BY <2>1, <2>2, <2>3, <1>1, <1>2
  <1>5. Cardinality(K) = Len(s)
    <2>1. Len(s) - 1 \in Int /\ 0 \in Int
      BY <1>2
    <2>2. Cardinality(0 .. (Len(s) - 1)) = IF 0 > Len(s) - 1 THEN 0 ELSE (Len(s) - 1) - 0 + 1
      BY <2>1, FS_Interval
    <2> HIDE DEF K
    <2> QED
      BY <2>2, <1>2, <1>4
  <1>6. Follow(links, h) = [i \in 1 .. Cardinality(K) |-> w[i - 1]]
    <2> HIDE DEF w
    <2> QED
      BY <1>3 DEF Follow
  <1>7. \A i \in 1 .. Len(s) : w[i - 1] = s[i]
    <2> SUFFICES ASSUME NEW i \in 1 .. Len(s) PROVE w[i - 1] = s[i]
      OBVIOUS
    <2>1. i - 1 \in 0 .. N /\ i - 1 < Len(s) /\ (i - 1) + 1 = i
      BY <1>1, <1>2 DEF N
    <2> QED
      BY <2>1 DEF Found
  <1> HIDE DEF w, K
  <1>8. s = [i \in 1 .. Len(s) |-> s[i]]
    OBVIOUS
  <1> QED
    BY <1>5, <1>6, <1>7, <1>8

LEMMA ListsFit ==
    ASSUME NEW S \in Contents, Apart(S), NEW h \in Heads
    PROVE  Len(S[h]) <= Cardinality(Items)
  <1>1. /\ Len(S[h]) \in Nat /\ \A i \in 1 .. Len(S[h]) : S[h][i] \in Items
        /\ S[h] \in [1 .. Len(S[h]) -> Items]
    BY Places DEF Contents
  <1>2. \A i, j \in 1 .. Len(S[h]) : S[h][i] = S[h][j] => i = j
    BY DEF Apart
  <1>3. S[h] \in Injection(1 .. Len(S[h]), Items)
    BY <1>1, <1>2 DEF Injection, IsInjective
  <1>4. IsFiniteSet(Items)
    BY ListAssumption
  <1>5. Cardinality(1 .. Len(S[h])) <= Cardinality(Items)
    BY <1>3, <1>4, FS_Injection
  <1>6. Cardinality(1 .. Len(S[h])) = IF 1 > Len(S[h]) THEN 0 ELSE Len(S[h]) - 1 + 1
    BY <1>1, FS_Interval, SMTT(30)
  <1> QED
    BY <1>1, <1>5, <1>6

(* A circular list reads as its sequence, from the other end too. *)
LEMMA RingReads ==
    ASSUME NEW m, NEW S, Rings(m, S), NEW h \in Heads
    PROVE  Follow(m.next, h) = S[h] /\ Follow(m.prev, h) = Reverse(S[h])
  <1> DEFINE n == Len(S[h])
             r == Reverse(S[h])
  <1>0. /\ S \in Contents /\ Apart(S) /\ S[h] \in Seq(Items) /\ n \in Nat /\ n <= Cardinality(Items)
        /\ \A i \in 1 .. n : S[h][i] \in Items
        /\ h \notin Items
    BY Places, ListsFit, ListAssumption DEF Rings, Contents
  <1>1. ASSUME NEW i \in 0 .. n
        PROVE  /\ m.next[Place(S, h, i)] = Place(S, h, i + 1)
               /\ m.prev[Place(S, h, i + 1)] = Place(S, h, i)
    BY DEF Rings, Ring
  <1>2. Place(S, h, 0) = h /\ Place(S, h, n + 1) = h /\ \A i \in 1 .. n : Place(S, h, i) = S[h][i]
    BY <1>0, Places
  <1>3. Follow(m.next, h) = S[h]
    <2>1. Leads(m.next, h, S[h], h)
      <3>1. \A i \in 0 .. n : Found(S[h], h, i) = Place(S, h, i + 1)
        BY <1>0 DEF Found, Place
      <3>2. m.next[h] = Found(S[h], h, 0)
        BY <1>0, <1>1, <1>2, <3>1
      <3>3. \A i \in 1 .. n : m.next[S[h][i]] = Found(S[h], h, i)
        BY <1>0, <1>1, <1>2, <3>1
      <3> QED
        BY <3>2, <3>3 DEF Leads
    <2> QED
      BY <2>1, <1>0, FollowFinds
  <1>4. Follow(m.prev, h) = r
    <2>1. /\ r \in Seq(Items) /\ Len(r) = n
          /\ \A i \in 1 .. n : r[i] = S[h][(n - i) + 1]
      <3>1. r = [i \in 1 .. n |-> S[h][(n - i) + 1]]
        BY DEF Reverse
      <3>2. \A i \in 1 .. n : (n - i) + 1 \in 1 .. n
        BY <1>0
      <3>3. r \in [1 .. n -> Items]
        BY <1>0, <3>1, <3>2
      <3> QED
        BY <1>0, <3>1, <3>3
    <2> HIDE DEF r
    <2>2. \A i \in 0 .. n : Found(r, h, i) = Place(S, h, n - i)
      <3> SUFFICES ASSUME NEW i \in 0 .. n PROVE Found(r, h, i) = Place(S, h, n - i)
        OBVIOUS
      <3>1. CASE i < n
        <4>1. i + 1 \in 1 .. n /\ (n - (i + 1)) + 1 = n - i /\ n - i \in 1 .. n
          BY <1>0, <3>1
        <4> QED
          BY <2>1, <4>1, <3>1 DEF Found, Place
      <3>2. CASE i = n
        BY <1>0, <1>2, <2>1, <3>2 DEF Found
      <3> QED
        BY <3>1, <3>2, <1>0
    <2>3. m.prev[h] = Found(r, h, 0)
      <3>1. m.prev[Place(S, h, n + 1)] = Place(S, h, n) /\ n - 0 = n
        BY <1>0, <1>1
      <3> QED
        BY <3>1, <2>2, <1>0, <1>2
    <2>4. ASSUME NEW i \in 1 .. n PROVE m.prev[r[i]] = Found(r, h, i)
      <3>1. n - i \in 0 .. n /\ (n - i) + 1 \in 1 .. n /\ i \in 0 .. n
        BY <1>0
      <3>2. m.prev[Place(S, h, (n - i) + 1)] = Place(S, h, n - i)
        BY <3>1, <1>1
      <3> QED
        BY <3>1, <3>2, <2>1, <2>2, <1>2
    <2>5. Leads(m.prev, h, r, h)
      BY <2>1, <2>3, <2>4 DEF Leads
    <2> QED
      BY <2>1, <2>5, <1>0, FollowFinds
  <1> QED
    BY <1>3, <1>4

LEMMA ChainReads ==
    ASSUME NEW m, NEW S, Chains(m, S), NEW h \in Heads
    PROVE  Follow(m.next, h) = S[h]
  <1> DEFINE n == Len(S[h])
  <1>0. /\ S \in Contents /\ Apart(S) /\ S[h] \in Seq(Items) /\ n \in Nat /\ n <= Cardinality(Items)
        /\ NULL \notin Items
    BY Places, ListsFit, ListAssumption DEF Chains, Contents
  <1>2. Place(S, h, 0) = h /\ \A i \in 1 .. n : Place(S, h, i) = S[h][i]
    BY <1>0, Places
  <1>3. \A i \in 0 .. n : m.next[Place(S, h, i)] = Found(S[h], NULL, i)
    BY DEF Chains, Chain, After, Found
  <1>4. Leads(m.next, h, S[h], NULL)
    BY <1>0, <1>2, <1>3 DEF Leads
  <1> QED
    BY <1>0, <1>4, FollowFinds

-----------------------------------------------------------------------------
(* What the calls promise, entry by entry *)

LEMMA Owner ==
    ASSUME NEW S \in Contents, Apart(S), NEW h \in Heads, NEW i \in 1 .. Len(S[h])
    PROVE  /\ Abstract!HeadOf(S, S[h][i]) = h
           /\ Abstract!Index(S[h][i], S[h]) = i
           /\ \A g \in Heads : S[h][i] \in ToSet(S[g]) <=> g = h
  <1>1. \A g \in Heads : DOMAIN S[g] = 1 .. Len(S[g])
    BY DEF Contents
  <1>2. \A g \in Heads : S[h][i] \in ToSet(S[g]) <=> g = h
    BY <1>1 DEF ToSet, Apart
  <1>3. \A j \in DOMAIN S[h] : S[h][j] = S[h][i] <=> j = i
    BY <1>1 DEF Apart
  <1> QED
    BY <1>1, <1>2, <1>3 DEF Abstract!HeadOf, Abstract!Index, ToSet, Abstract!ToSet

LEMMA AddFront ==
    ASSUME NEW S \in Contents, NEW h \in Heads, NEW n \in Items
    PROVE  /\ [S EXCEPT ![h] = <<n>> \o @] \in Contents
           /\ Inserted(S, [S EXCEPT ![h] = <<n>> \o @], h, 0, n)
  <1> DEFINE s == <<n>> \o S[h]
             T == [S EXCEPT ![h] = s]
  <1>1. S[h] \in Seq(Items) /\ Len(S[h]) \in Nat
    BY DEF Contents
  <1>2. s \in Seq(Items) /\ Len(s) = Len(S[h]) + 1
        /\ \A j \in 1 .. Len(s) : s[j] = IF j <= 0 THEN S[h][j] ELSE IF j = 0 + 1 THEN n ELSE S[h][j - 1]
    BY <1>1
  <1> HIDE DEF s
  <1>3. T \in Contents /\ T[h] = s /\ \A g \in Heads \ {h} : T[g] = S[g]
    BY <1>2 DEF Contents
  <1>4. Inserted(S, T, h, 0, n)
    BY <1>2, <1>3 DEF Inserted
  <1> QED
    BY <1>3, <1>4 DEF s

LEMMA AddBack ==
    ASSUME NEW S \in Contents, NEW h \in Heads, NEW n \in Items
    PROVE  /\ [S EXCEPT ![h] = Append(@, n)] \in Contents
           /\ Inserted(S, [S EXCEPT ![h] = Append(@, n)], h, Len(S[h]), n)
  <1> DEFINE s == Append(S[h], n)
             T == [S EXCEPT ![h] = s]
  <1>1. S[h] \in Seq(Items) /\ Len(S[h]) \in Nat
    BY DEF Contents
  <1>2. s \in Seq(Items) /\ Len(s) = Len(S[h]) + 1
        /\ \A j \in 1 .. Len(s) : s[j] = IF j <= Len(S[h]) THEN S[h][j]
                                         ELSE IF j = Len(S[h]) + 1 THEN n ELSE S[h][j - 1]
    BY <1>1
  <1> HIDE DEF s
  <1>3. T \in Contents /\ T[h] = s /\ \A g \in Heads \ {h} : T[g] = S[g]
    BY <1>2 DEF Contents
  <1>4. Inserted(S, T, h, Len(S[h]), n)
    BY <1>2, <1>3 DEF Inserted
  <1> QED
    BY <1>3, <1>4 DEF s

LEMMA AddBeside ==
    ASSUME NEW S \in Contents, Apart(S), NEW h \in Heads, NEW i \in 1 .. Len(S[h]), NEW n \in Items
    PROVE  /\ Abstract!Insert(S, n, S[h][i], FALSE) \in Contents
           /\ Inserted(S, Abstract!Insert(S, n, S[h][i], FALSE), h, i - 1, n)
           /\ Abstract!Insert(S, n, S[h][i], TRUE) \in Contents
           /\ Inserted(S, Abstract!Insert(S, n, S[h][i], TRUE), h, i, n)
  <1>1. S[h] \in Seq(Items) /\ Len(S[h]) \in Nat /\ i \in Nat /\ i # 0 /\ i <= Len(S[h])
    BY DEF Contents
  <1>2. ASSUME NEW k \in 1 .. Len(S[h]) + 1, NEW T, T = [S EXCEPT ![h] = InsertAt(S[h], k, n)]
        PROVE  T \in Contents /\ Inserted(S, T, h, k - 1, n)
    <2> DEFINE a == SubSeq(S[h], 1, k - 1)
               b == SubSeq(S[h], k, Len(S[h]))
               s == InsertAt(S[h], k, n)
    <2>1. a \in Seq(Items) /\ Len(a) = k - 1 /\ \A j \in 1 .. k - 1 : a[j] = S[h][j]
      BY <1>1
    <2>2. /\ b \in Seq(Items) /\ Len(b) = Len(S[h]) + 1 - k
          /\ \A j \in 1 .. Len(S[h]) + 1 - k : b[j] = S[h][j + k - 1]
      BY <1>1
    <2>3. s = a \o <<n>> \o b
      BY DEF InsertAt
    <2> HIDE DEF a, b, s
    <2>4. s \in Seq(Items) /\ Len(s) = Len(S[h]) + 1
      BY <1>1, <2>1, <2>2, <2>3
    <2>5. \A j \in 1 .. Len(s) : s[j] = IF j <= k - 1 THEN S[h][j]
                                        ELSE IF j = (k - 1) + 1 THEN n ELSE S[h][j - 1]
      <3> SUFFICES ASSUME NEW j \in 1 .. Len(s)
                   PROVE  s[j] = IF j <= k - 1 THEN S[h][j]
                                 ELSE IF j = (k - 1) + 1 THEN n ELSE S[h][j - 1]
        OBVIOUS
      <3>1. CASE j <= k - 1
        <4>1. s[j] = a[j]
          BY <1>1, <2>1, <2>2, <2>3, <3>1
        <4> QED
          BY <4>1, <2>1, <3>1
      <3>2. CASE j = k
        BY <1>1, <2>1, <2>2, <2>3, <3>2
      <3>3. CASE j > k
        <4>1. j - k \in 1 .. Len(S[h]) + 1 - k /\ (j - k) + k - 1 = j - 1
          BY <1>1, <2>4, <3>3
        <4>2. s[j] = b[j - k]
          BY <1>1, <2>1, <2>2, <2>3, <2>4, <3>3
        <4> QED
          BY <4>1, <4>2, <2>2, <3>3, <1>1
      <3> QED
        BY <3>1, <3>2, <3>3, <1>1
    <2>6. T \in Contents /\ T[h] = s /\ \A g \in Heads \ {h} : T[g] = S[g]
      BY <1>2, <2>4 DEF Contents, s
    <2> QED
      BY <2>4, <2>5, <2>6 DEF Inserted
  <1>3. Abstract!HeadOf(S, S[h][i]) = h /\ Abstract!Index(S[h][i], S[h]) = i
    BY Owner
  <1>4. /\ Abstract!Insert(S, n, S[h][i], FALSE) = [S EXCEPT ![h] = InsertAt(S[h], i, n)]
        /\ Abstract!Insert(S, n, S[h][i], TRUE) = [S EXCEPT ![h] = InsertAt(S[h], i + 1, n)]
    <2>1. \A s, k, e : Abstract!InsertAt(s, k, e) = InsertAt(s, k, e)
      BY DEF InsertAt, Abstract!InsertAt
    <2>2. i + (IF FALSE THEN 1 ELSE 0) = i /\ i + (IF TRUE THEN 1 ELSE 0) = i + 1
      BY <1>1
    <2>3. Abstract!Insert(S, n, S[h][i], FALSE) = [S EXCEPT ![h] = InsertAt(S[h], i, n)]
      BY <1>3, <2>1, <2>2 DEF Abstract!Insert
    <2>4. Abstract!Insert(S, n, S[h][i], TRUE) = [S EXCEPT ![h] = InsertAt(S[h], i + 1, n)]
      BY <1>3, <2>1, <2>2 DEF Abstract!Insert
    <2> QED
      BY <2>3, <2>4
  <1>5. i \in 1 .. Len(S[h]) + 1 /\ i + 1 \in 1 .. Len(S[h]) + 1 /\ (i + 1) - 1 = i
    BY <1>1
  <1> QED
    BY <1>2, <1>4, <1>5

LEMMA DropOne ==
    ASSUME NEW S \in Contents, Apart(S), NEW h \in Heads, NEW i \in 1 .. Len(S[h])
    PROVE  /\ Abstract!Drop(S, S[h][i]) \in Contents
           /\ Removed(S, Abstract!Drop(S, S[h][i]), h, i)
  <1> DEFINE T == Abstract!Drop(S, S[h][i])
             a == SubSeq(S[h], 1, i - 1)
             b == SubSeq(S[h], i + 1, Len(S[h]))
             s == RemoveAt(S[h], i)
  <1>1. S[h] \in Seq(Items) /\ Len(S[h]) \in Nat /\ i \in Nat /\ i # 0 /\ i <= Len(S[h])
    BY DEF Contents
  <1>2. a \in Seq(Items) /\ Len(a) = i - 1 /\ \A j \in 1 .. i - 1 : a[j] = S[h][j]
    BY <1>1
  <1>3. /\ b \in Seq(Items) /\ Len(b) = Len(S[h]) - i
        /\ \A j \in 1 .. Len(S[h]) - i : b[j] = S[h][j + i]
    BY <1>1
  <1>4. s = a \o b
    BY DEF RemoveAt
  <1>5. T[h] = s /\ T = [g \in Heads |-> IF g = h THEN s ELSE S[g]]
    <2> HIDE DEF s
    <2>1. /\ Abstract!Index(S[h][i], S[h]) = i
          /\ \A g \in Heads : S[h][i] \in ToSet(S[g]) <=> g = h
      BY Owner
    <2> QED
      BY <2>1 DEF s, Abstract!Drop, Abstract!Without, ToSet, Abstract!ToSet, RemoveAt, Abstract!RemoveAt
  <1> HIDE DEF a, b, s, T
  <1>6. s \in Seq(Items) /\ Len(s) = Len(S[h]) - 1
    <2>1. a \in Seq(Items) /\ b \in Seq(Items) /\ Len(a) + Len(b) = Len(S[h]) - 1
      BY <1>1, <1>2, <1>3
    <2> QED
      BY <2>1, <1>4
  <1>7. \A j \in 1 .. Len(s) : s[j] = IF j < i THEN S[h][j] ELSE S[h][j + 1]
    <2> SUFFICES ASSUME NEW j \in 1 .. Len(s)
                 PROVE  s[j] = IF j < i THEN S[h][j] ELSE S[h][j + 1]
      OBVIOUS
    <2>1. CASE j < i
      BY <1>1, <1>2, <1>3, <1>4, <1>6, <2>1
    <2>2. CASE ~(j < i)
      <3>1. j - (i - 1) \in 1 .. Len(S[h]) - i /\ (j - (i - 1)) + i = j + 1
        BY <1>1, <1>6, <2>2
      <3>2. s[j] = b[j - (i - 1)]
        BY <1>1, <1>2, <1>3, <1>4, <1>6, <2>2
      <3> QED
        BY <3>1, <3>2, <1>3, <2>2
    <2> QED
      BY <2>1, <2>2
  <1>8. T \in Contents /\ \A g \in Heads \ {h} : T[g] = S[g]
    BY <1>5, <1>6 DEF Contents
  <1>9. Removed(S, T, h, i)
    BY <1>5, <1>6, <1>7, <1>8 DEF Removed
  <1> QED
    BY <1>8, <1>9 DEF T

LEMMA DropNone ==
    ASSUME NEW S \in Contents, NEW n, ~Member(S, n)
    PROVE  Abstract!Drop(S, n) = S
  <1>1. \A g \in Heads : n \notin ToSet(S[g])
    BY DEF ToSet, Member, Contents
  <1>2. Abstract!Drop(S, n) = [g \in Heads |-> S[g]]
    BY <1>1 DEF Abstract!Drop, Abstract!Without, ToSet, Abstract!ToSet
  <1> QED
    BY <1>2 DEF Contents

LEMMA SequencesEqual ==
    ASSUME NEW s \in Seq(Items), NEW t \in Seq(Items), Len(s) = Len(t),
           \A i \in 1 .. Len(s) : s[i] = t[i]
    PROVE  s = t
  OBVIOUS

LEMMA AsSequence ==
    ASSUME NEW n \in Nat, NEW s \in [1 .. n -> Items]
    PROVE  s \in Seq(Items) /\ Len(s) = n
  OBVIOUS

LEMMA ReplaceOne ==
    ASSUME NEW S \in Contents, Apart(S), NEW h \in Heads, NEW i \in 1 .. Len(S[h]), NEW n \in Items,
           NEW T, [g \in Heads |->
                     [j \in DOMAIN S[g] |-> IF S[g][j] = S[h][i] THEN n ELSE S[g][j]]] = T
    PROVE  T \in Contents /\ Replaced(S, T, h, i, n)
  <1>1. \A g \in Heads : /\ S[g] \in [1 .. Len(S[g]) -> Items] /\ Len(S[g]) \in Nat
                         /\ DOMAIN S[g] = 1 .. Len(S[g])
    BY Places DEF Contents
  <1>2. ASSUME NEW g \in Heads
        PROVE  /\ T[g] \in Seq(Items) /\ Len(T[g]) = Len(S[g])
               /\ \A j \in 1 .. Len(S[g]) :
                     T[g][j] = IF g = h /\ j = i THEN n ELSE S[g][j]
    <2> DEFINE s == [j \in 1 .. Len(S[g]) |-> IF S[g][j] = S[h][i] THEN n ELSE S[g][j]]
    <2>1. T[g] = s
      BY <1>1
    <2>2. s \in [1 .. Len(S[g]) -> Items]
      BY <1>1
    <2>3. s \in Seq(Items) /\ Len(s) = Len(S[g])
      <3> HIDE DEF s
      <3>1. Len(S[g]) \in Nat
        BY <1>1
      <3> QED
        BY <2>2, <3>1, AsSequence
    <2>4. \A j \in 1 .. Len(S[g]) : s[j] = IF g = h /\ j = i THEN n ELSE S[g][j]
      BY DEF Apart
    <2> HIDE DEF s
    <2> QED
      BY <2>1, <2>3, <2>4
  <1>3. \A g \in Heads \ {h} : T[g] = S[g]
    <2> SUFFICES ASSUME NEW g \in Heads \ {h} PROVE T[g] = S[g]
      OBVIOUS
    <2>1. /\ T[g] \in Seq(Items) /\ S[g] \in Seq(Items) /\ Len(T[g]) = Len(S[g])
          /\ \A j \in 1 .. Len(S[g]) : T[g][j] = S[g][j]
      BY <1>2 DEF Contents
    <2> QED
      BY <2>1, SequencesEqual
  <1>4. T \in Contents
    <2>1. T = [g \in Heads |-> T[g]]
      OBVIOUS
    <2> QED
      BY <2>1, <1>2 DEF Contents
  <1> QED
    BY <1>2, <1>3, <1>4 DEF Replaced

LEMMA TakeAll ==
    ASSUME NEW S \in Contents, NEW old \in Heads, NEW new \in Heads, old # new
    PROVE  /\ [S EXCEPT ![new] = S[old], ![old] = <<>>] \in Contents
           /\ Taken(S, [S EXCEPT ![new] = S[old], ![old] = <<>>], old, new)
  BY DEF Contents, Taken

LEMMA RotateLeft ==
    ASSUME NEW S \in Contents, Apart(S), NEW h \in Heads, S[h] # <<>>, NEW D \in Contents,
           Removed(S, D, h, 1), NEW T, [S EXCEPT ![h] = Tail(@) \o <<Head(@)>>] = T
    PROVE  T \in Contents /\ Inserted(D, T, h, Len(D[h]), S[h][1])
  <1> DEFINE s == Tail(S[h]) \o <<Head(S[h])>>
  <1>1. S[h] \in Seq(Items) /\ Len(S[h]) \in Nat /\ Len(S[h]) # 0
    BY DEF Contents
  <1>2. /\ s \in Seq(Items) /\ Len(s) = Len(S[h])
        /\ \A j \in 1 .. Len(s) : s[j] = IF j < Len(s) THEN S[h][j + 1] ELSE S[h][1]
    BY <1>1
  <1> HIDE DEF s
  <1>3. T \in Contents /\ T[h] = s /\ \A g \in Heads \ {h} : T[g] = S[g]
    BY <1>2 DEF Contents, s
  <1>4. Len(D[h]) = Len(S[h]) - 1 /\ \A j \in 1 .. Len(D[h]) : D[h][j] = S[h][j + 1]
    BY <1>1 DEF Removed
  <1>5. \A g \in Heads \ {h} : T[g] = D[g]
    BY <1>3 DEF Removed
  <1>6. \A j \in 1 .. Len(T[h]) :
            T[h][j] = IF j <= Len(D[h]) THEN D[h][j]
                      ELSE IF j = Len(D[h]) + 1 THEN S[h][1] ELSE D[h][j - 1]
    BY <1>1, <1>2, <1>3, <1>4
  <1> QED
    BY <1>1, <1>2, <1>3, <1>4, <1>5, <1>6 DEF Inserted

LEMMA CutOff ==
    ASSUME NEW S \in Contents, Apart(S), NEW list \in Heads, NEW h \in Heads, list # h,
           NEW i \in 1 .. Len(S[h]), NEW T
    PROVE  [S EXCEPT ![list] = SubSeq(S[h], 1, i),
                     ![h] = SubSeq(@, Len(SubSeq(S[h], 1, i)) + 1, Len(@))] = T =>
           T \in Contents /\ CutAt(S, T, list, h, i)
  <1> DEFINE a == SubSeq(S[h], 1, i)
             b == SubSeq(S[h], i + 1, Len(S[h]))
             c == SubSeq(S[h], Len(a) + 1, Len(S[h]))
  <1>1. S[h] \in Seq(Items) /\ Len(S[h]) \in Nat /\ i \in Nat /\ i # 0 /\ i <= Len(S[h])
    BY DEF Contents
  <1>2. a \in Seq(Items) /\ Len(a) = i /\ \A j \in 1 .. i : a[j] = S[h][j]
    BY <1>1
  <1>3. b \in Seq(Items) /\ Len(b) = Len(S[h]) - i /\ \A j \in 1 .. Len(S[h]) - i : b[j] = S[h][j + i]
    BY <1>1
  <1>4. c = b
    BY <1>2
  <1> SUFFICES ASSUME [S EXCEPT ![list] = a, ![h] = c] = T
               PROVE  T \in Contents /\ CutAt(S, T, list, h, i)
    OBVIOUS
  <1>a. [S EXCEPT ![list] = a, ![h] = c] = T
    OBVIOUS
  <1> HIDE DEF a, b, c
  <1>5. T \in Contents /\ T[list] = a /\ T[h] = b /\ \A g \in Heads \ {list, h} : T[g] = S[g]
    <2>1. S \in [Heads -> Seq(Items)] /\ c \in Seq(Items)
      BY <1>3, <1>4 DEF Contents
    <2>2. [S EXCEPT ![list] = a, ![h] = c] \in [Heads -> Seq(Items)]
      BY <1>2, <2>1
    <2> QED
      BY <1>4, <1>a, <2>1, <2>2 DEF Contents
  <1> QED
    BY <1>2, <1>3, <1>5 DEF CutAt

LEMMA SpliceFront ==
    ASSUME NEW S \in Contents, NEW list \in Heads, NEW h \in Heads, list # h,
           NEW T
    PROVE  [S EXCEPT ![h] = S[list] \o @, ![list] = <<>>] = T =>
           T \in Contents /\ Spliced(S, T, list, h, 0)
  <1> DEFINE s == S[list] \o S[h]
             k == Len(S[list])
  <1>1. S[h] \in Seq(Items) /\ S[list] \in Seq(Items) /\ Len(S[h]) \in Nat /\ k \in Nat
    BY DEF Contents
  <1>2. s \in Seq(Items) /\ Len(s) = Len(S[h]) + k
    <2>1. s \in Seq(Items) /\ Len(s) = Len(S[list]) + Len(S[h])
      BY <1>1
    <2>2. \A x, y \in Nat : x + y = y + x
      OBVIOUS
    <2>3. Len(S[list]) + Len(S[h]) = Len(S[h]) + Len(S[list])
      BY <1>1, <2>2
    <2> HIDE DEF s
    <2> QED
      BY <2>1, <2>3
  <1>3. \A j \in 1 .. Len(s) : s[j] = IF j <= 0 THEN S[h][j]
                                      ELSE IF j <= 0 + k THEN S[list][j - 0] ELSE S[h][j - k]
    BY <1>1
  <1> SUFFICES ASSUME [S EXCEPT ![h] = s, ![list] = <<>>] = T
               PROVE  T \in Contents /\ Spliced(S, T, list, h, 0)
    OBVIOUS
  <1>a. [S EXCEPT ![h] = s, ![list] = <<>>] = T
    OBVIOUS
  <1> HIDE DEF s
  <1>4. T \in Contents /\ T[list] = <<>> /\ T[h] = s /\ \A g \in Heads \ {list, h} : T[g] = S[g]
    <2>1. <<>> \in Seq(Items) /\ S \in [Heads -> Seq(Items)]
      BY DEF Contents
    <2>2. [S EXCEPT ![h] = s, ![list] = <<>>] \in [Heads -> Seq(Items)]
      BY <1>2, <2>1
    <2> QED
      BY <1>a, <2>1, <2>2 DEF Contents
  <1> QED
    BY <1>2, <1>3, <1>4 DEF Spliced

LEMMA SpliceBack ==
    ASSUME NEW S \in Contents, NEW list \in Heads, NEW h \in Heads, list # h,
           NEW T, [S EXCEPT ![h] = @ \o S[list], ![list] = <<>>] = T
    PROVE  T \in Contents /\ Spliced(S, T, list, h, Len(S[h]))
  <1> DEFINE s == S[h] \o S[list]
             k == Len(S[list])
             i == Len(S[h])
  <1>1. S[h] \in Seq(Items) /\ S[list] \in Seq(Items) /\ i \in Nat /\ k \in Nat
    BY DEF Contents
  <1>2. s \in Seq(Items) /\ Len(s) = i + k
    BY <1>1
  <1>3. \A j \in 1 .. Len(s) : s[j] = IF j <= i THEN S[h][j]
                                      ELSE IF j <= i + k THEN S[list][j - i] ELSE S[h][j - k]
    BY <1>1
  <1>a. [S EXCEPT ![h] = s, ![list] = <<>>] = T
    OBVIOUS
  <1> HIDE DEF s
  <1>4. T \in Contents /\ T[list] = <<>> /\ T[h] = s /\ \A g \in Heads \ {list, h} : T[g] = S[g]
    <2>1. <<>> \in Seq(Items) /\ S \in [Heads -> Seq(Items)]
      BY DEF Contents
    <2>2. [S EXCEPT ![h] = s, ![list] = <<>>] \in [Heads -> Seq(Items)]
      BY <1>2, <2>1
    <2> QED
      BY <1>a, <2>1, <2>2 DEF Contents
  <1> QED
    BY <1>2, <1>3, <1>4 DEF Spliced

-----------------------------------------------------------------------------
(* The calls on circular lists *)

(* An entry on no list that points forth to itself points back to itself: *)
(* list_del_init may be called for it again.                               *)
Off(m, x) == m.next[x] = x => m.prev[x] = x

ListHolds(m, S) ==
    m \in Links /\ Rings(m, S) /\ \A x \in Items : ~Member(S, x) => Off(m, x)

LEMMA RingEnds ==
    ASSUME NEW m, NEW S, Rings(m, S), NEW h \in Heads
    PROVE  /\ m.next[h] = Place(S, h, 1) /\ m.prev[h] = Place(S, h, Len(S[h]))
           /\ m.next[h] = h <=> S[h] = <<>>
           /\ S[h] = <<>> => m.prev[h] = h
  <1>1. /\ S \in Contents /\ Len(S[h]) \in Nat /\ (S[h] = <<>> <=> Len(S[h]) = 0)
        /\ Place(S, h, 0) = h /\ Place(S, h, Len(S[h]) + 1) = h
        /\ \A i \in 1 .. Len(S[h]) : Place(S, h, i) # h
    BY Places DEF Rings, Contents
  <1>2. 0 \in 0 .. Len(S[h]) /\ Len(S[h]) \in 0 .. Len(S[h]) /\ 0 + 1 = 1
    BY <1>1
  <1>3. m.next[Place(S, h, 0)] = Place(S, h, 0 + 1) /\ m.prev[Place(S, h, Len(S[h]) + 1)] = Place(S, h, Len(S[h]))
    BY <1>2 DEF Rings, Ring
  <1> QED
    BY <1>1, <1>2, <1>3

LEMMA HeldAdd ==
    ASSUME NEW m \in Links, NEW S, Rings(m, S), NEW n \in Items, ~Member(S, n),
           \A x \in Items : x # n /\ ~Member(S, x) => Off(m, x),
           NEW h \in Heads, NEW i \in 0 .. Len(S[h]), NEW T \in Contents, Inserted(S, T, h, i, n)
    PROVE  ListHolds(ListAdd(m, n, Place(S, h, i), Place(S, h, i + 1)), T)
  <1> DEFINE w == ListAdd(m, n, Place(S, h, i), Place(S, h, i + 1))
  <1>1. /\ w \in Links /\ Rings(w, T)
        /\ \A x \in Nodes : x # n /\ ~(x \in Heads \/ Member(S, x)) =>
              w.next[x] = m.next[x] /\ w.prev[x] = m.prev[x]
    BY RingInsert
  <1> HIDE DEF w
  <1>2. ASSUME NEW x \in Items, ~Member(T, x) PROVE Off(w, x)
    <2>1. x # n /\ ~Member(S, x)
      BY <1>2, MembersInserted DEF Rings
    <2>2. x \in Nodes /\ x \notin Heads
      BY ListAssumption DEF Nodes
    <2> QED
      BY <1>1, <2>1, <2>2 DEF Off
  <1> QED
    BY <1>1, <1>2 DEF ListHolds, w

LEMMA HeldAddFront ==
    ASSUME NEW m \in Links, NEW S, Rings(m, S), NEW n \in Items, ~Member(S, n),
           \A x \in Items : x # n /\ ~Member(S, x) => Off(m, x), NEW h \in Heads
    PROVE  ListHolds(list_add(m, n, h), [S EXCEPT ![h] = <<n>> \o @])
  <1> DEFINE T == [S EXCEPT ![h] = <<n>> \o @]
  <1>1. T \in Contents /\ Inserted(S, T, h, 0, n)
    BY AddFront DEF Rings
  <1>2. Place(S, h, 0) = h /\ Place(S, h, 0 + 1) = m.next[h] /\ 0 \in 0 .. Len(S[h])
    <2>1. S \in Contents
      BY DEF Rings
    <2>2. Place(S, h, 0) = h /\ Len(S[h]) \in Nat /\ m.next[h] = Place(S, h, 1)
      BY <2>1, Places, RingEnds
    <2> QED
      BY <2>2
  <1> HIDE DEF T
  <1>3. ListHolds(ListAdd(m, n, Place(S, h, 0), Place(S, h, 0 + 1)), T)
    BY <1>1, <1>2, HeldAdd
  <1> QED
    BY <1>2, <1>3 DEF list_add, T

LEMMA HeldAddBack ==
    ASSUME NEW m \in Links, NEW S, Rings(m, S), NEW n \in Items, ~Member(S, n),
           \A x \in Items : x # n /\ ~Member(S, x) => Off(m, x), NEW h \in Heads
    PROVE  ListHolds(list_add_tail(m, n, h), [S EXCEPT ![h] = Append(@, n)])
  <1> DEFINE T == [S EXCEPT ![h] = Append(@, n)]
             i == Len(S[h])
  <1>1. T \in Contents /\ Inserted(S, T, h, i, n)
    BY AddBack DEF Rings
  <1>2. Place(S, h, i) = m.prev[h] /\ Place(S, h, i + 1) = h /\ i \in 0 .. Len(S[h])
    <2>1. S \in Contents
      BY DEF Rings
    <2>2. Place(S, h, i + 1) = h /\ Len(S[h]) \in Nat /\ m.prev[h] = Place(S, h, i)
      BY <2>1, Places, RingEnds
    <2> QED
      BY <2>2
  <1> HIDE DEF T, i
  <1>3. ListHolds(ListAdd(m, n, Place(S, h, i), Place(S, h, i + 1)), T)
    BY <1>1, <1>2, HeldAdd
  <1> QED
    BY <1>2, <1>3 DEF list_add_tail, T

(* An entry taken out, before anything is written to its own links. *)
LEMMA HeldOut ==
    ASSUME NEW m, NEW S, ListHolds(m, S), NEW h \in Heads, NEW i \in 1 .. Len(S[h]), NEW T,
           T = Abstract!Drop(S, S[h][i])
    PROVE  /\ S[h][i] \in Items
           /\ ListDelEntry(m, S[h][i]) \in Links /\ Rings(ListDelEntry(m, S[h][i]), T)
           /\ ~Member(T, S[h][i])
           /\ \A x \in Items : x # S[h][i] /\ ~Member(T, x) => Off(ListDelEntry(m, S[h][i]), x)
  <1> SUFFICES ASSUME NEW e, S[h][i] = e
               PROVE  /\ e \in Items
                      /\ ListDelEntry(m, e) \in Links /\ Rings(ListDelEntry(m, e), T)
                      /\ ~Member(T, e)
                      /\ \A x \in Items : x # e /\ ~Member(T, x) => Off(ListDelEntry(m, e), x)
    OBVIOUS
  <1>0. S \in Contents /\ Apart(S) /\ m \in Links /\ Rings(m, S)
    BY DEF ListHolds, Rings
  <1>1. T \in Contents /\ Removed(S, T, h, i)
    BY <1>0, DropOne
  <1>2. e \in Items /\ ~Member(T, e) /\ \A x : Member(S, x) => x = e \/ Member(T, x)
    BY <1>0, <1>1, Places, PlacesRemoved
  <1>3. /\ ListDelEntry(m, e) \in Links /\ Rings(ListDelEntry(m, e), T)
        /\ \A x \in Nodes : ~(x \in Heads \/ Member(S, x)) =>
              /\ ListDelEntry(m, e).next[x] = m.next[x]
              /\ ListDelEntry(m, e).prev[x] = m.prev[x]
    BY <1>0, <1>1, RingRemove
  <1>4. ASSUME NEW x \in Items, x # e, ~Member(T, x) PROVE Off(ListDelEntry(m, e), x)
    <2>1. ~Member(S, x) /\ Off(m, x)
      BY <1>2, <1>4 DEF ListHolds
    <2>2. x \in Nodes /\ x \notin Heads
      BY ListAssumption DEF Nodes
    <2> QED
      BY <1>3, <2>1, <2>2 DEF Off
  <1> QED
    BY <1>2, <1>3, <1>4

(* The links of an entry on no list may be anything that fits. *)
LEMMA HeldSet ==
    ASSUME NEW m \in Links, NEW w \in Links, NEW S, Rings(m, S), NEW e \in Items, ~Member(S, e),
           \A x \in Items : x # e /\ ~Member(S, x) => Off(m, x),
           \A x \in Nodes : x # e => w.next[x] = m.next[x] /\ w.prev[x] = m.prev[x],
           Off(w, e)
    PROVE  ListHolds(w, S)
  <1>1. e \notin Heads /\ \A x \in Items : x \in Nodes
    BY ListAssumption DEF Nodes
  <1>2. Rings(w, S)
    BY <1>1, RingsKept
  <1>3. ASSUME NEW x \in Items, ~Member(S, x) PROVE Off(w, x)
    BY <1>1, <1>3 DEF Off
  <1> QED
    BY <1>2, <1>3 DEF ListHolds

LEMMA HeldInit ==
    ASSUME NEW m \in Links, NEW S, Rings(m, S), NEW e \in Items, ~Member(S, e),
           \A x \in Items : x # e /\ ~Member(S, x) => Off(m, x)
    PROVE  ListHolds(INIT_LIST_HEAD(m, e), S)
  <1>0. e \in Nodes
    BY DEF Nodes
  <1>1. /\ INIT_LIST_HEAD(m, e) \in Links
        /\ \A x \in Nodes :
              /\ INIT_LIST_HEAD(m, e).next[x] = IF x = e THEN e ELSE m.next[x]
              /\ INIT_LIST_HEAD(m, e).prev[x] = IF x = e THEN e ELSE m.prev[x]
    BY <1>0, InitLinks
  <1>2. Off(INIT_LIST_HEAD(m, e), e)
    BY <1>0, <1>1 DEF Off
  <1> QED
    BY <1>1, <1>2, HeldSet

LEMMA HeldPoison ==
    ASSUME NEW m \in Links, NEW S, Rings(m, S), NEW e \in Items, ~Member(S, e),
           \A x \in Items : x # e /\ ~Member(S, x) => Off(m, x)
    PROVE  ListHolds(SetPrev(SetNext(m, e, Poison1), e, Poison2), S)
  <1> DEFINE u == SetNext(m, e, Poison1)
             w == SetPrev(u, e, Poison2)
  <1>0. e \in Nodes /\ Poison1 # e
    BY ListAssumption DEF Nodes
  <1>1. \A v \in Nodes \cup {NULL, Poison1} :
            /\ SetNext(m, e, v) \in Links
            /\ \A x \in Nodes : /\ SetNext(m, e, v).next[x] = IF x = e THEN v ELSE m.next[x]
                                /\ SetNext(m, e, v).prev[x] = m.prev[x]
    BY <1>0, NextSet, Zenon
  <1>2. /\ u \in Links
        /\ \A x \in Nodes : u.next[x] = (IF x = e THEN Poison1 ELSE m.next[x]) /\ u.prev[x] = m.prev[x]
    BY <1>1
  <1> HIDE DEF u
  <1>3. \A v \in Nodes \cup {NULL, Poison2} :
            /\ SetPrev(u, e, v) \in Links
            /\ \A x \in Nodes : /\ SetPrev(u, e, v).next[x] = u.next[x]
                                /\ SetPrev(u, e, v).prev[x] = IF x = e THEN v ELSE u.prev[x]
    BY <1>0, <1>2, PrevSet, Zenon
  <1>4. /\ w \in Links
        /\ \A x \in Nodes : w.next[x] = u.next[x] /\ w.prev[x] = (IF x = e THEN Poison2 ELSE u.prev[x])
    BY <1>3
  <1> HIDE DEF w
  <1>5. Off(w, e) /\ \A x \in Nodes : x # e => w.next[x] = m.next[x] /\ w.prev[x] = m.prev[x]
    BY <1>0, <1>2, <1>4 DEF Off
  <1>6. ListHolds(w, S)
    BY <1>4, <1>5, HeldSet
  <1> QED
    BY <1>6 DEF w, u

LEMMA HeldDel ==
    ASSUME NEW m, NEW S, ListHolds(m, S), NEW h \in Heads, NEW i \in 1 .. Len(S[h])
    PROVE  /\ ListHolds(list_del(m, S[h][i]), Abstract!Drop(S, S[h][i]))
           /\ ListHolds(list_del_init(m, S[h][i]), Abstract!Drop(S, S[h][i]))
  <1> DEFINE e == S[h][i]
             T == Abstract!Drop(S, e)
             d == ListDelEntry(m, e)
  <1>1. /\ e \in Items /\ d \in Links /\ Rings(d, T) /\ ~Member(T, e)
        /\ \A x \in Items : x # e /\ ~Member(T, x) => Off(d, x)
    BY HeldOut
  <1> HIDE DEF e, T, d
  <1>2. ListHolds(INIT_LIST_HEAD(d, e), T) /\ ListHolds(SetPrev(SetNext(d, e, Poison1), e, Poison2), T)
    BY <1>1, HeldInit, HeldPoison
  <1> QED
    BY <1>2 DEF list_del, list_del_init, e, T, d

LEMMA HeldDelAgain ==
    ASSUME NEW m, NEW S, ListHolds(m, S), NEW n \in Items, ~Member(S, n), m.next[n] = n
    PROVE  ListHolds(list_del_init(m, n), Abstract!Drop(S, n))
  <1>0. /\ n \in Nodes /\ m \in Links /\ Rings(m, S) /\ S \in Contents /\ m.prev[n] = n
    BY DEF Nodes, ListHolds, Rings, Off
  <1> DEFINE d == ListDel(m, n, n)
             w == INIT_LIST_HEAD(d, n)
  <1>1. list_del_init(m, n) = w /\ Abstract!Drop(S, n) = S
    BY <1>0, DropNone DEF list_del_init, ListDelEntry
  <1>2. d \in Links /\ \A x \in Nodes : /\ d.next[x] = IF x = n THEN n ELSE m.next[x]
                                        /\ d.prev[x] = IF x = n THEN n ELSE m.prev[x]
    BY <1>0, DelLinks
  <1> HIDE DEF d
  <1>3. w \in Links /\ \A x \in Nodes : /\ w.next[x] = IF x = n THEN n ELSE d.next[x]
                                        /\ w.prev[x] = IF x = n THEN n ELSE d.prev[x]
    BY <1>0, <1>2, InitLinks
  <1> HIDE DEF w
  <1>4. /\ Off(w, n) /\ \A x \in Nodes : x # n => w.next[x] = m.next[x] /\ w.prev[x] = m.prev[x]
        /\ \A x \in Items : x # n /\ ~Member(S, x) => Off(m, x)
    BY <1>0, <1>2, <1>3 DEF Off, ListHolds
  <1>5. ListHolds(w, S)
    BY <1>0, <1>3, <1>4, HeldSet
  <1> QED
    BY <1>1, <1>5

LEMMA HeldMove ==
    ASSUME NEW m, NEW S, ListHolds(m, S), NEW h \in Heads, NEW i \in 1 .. Len(S[h]), NEW g \in Heads
    PROVE  /\ ListHolds(list_move(m, S[h][i], g),
                        [Abstract!Drop(S, S[h][i]) EXCEPT ![g] = <<S[h][i]>> \o @])
           /\ ListHolds(list_move_tail(m, S[h][i], g),
                        [Abstract!Drop(S, S[h][i]) EXCEPT ![g] = Append(@, S[h][i])])
  <1> DEFINE e == S[h][i]
             T == Abstract!Drop(S, e)
             d == ListDelEntry(m, e)
  <1>1. /\ e \in Items /\ d \in Links /\ Rings(d, T) /\ ~Member(T, e)
        /\ \A x \in Items : x # e /\ ~Member(T, x) => Off(d, x)
    BY HeldOut
  <1> HIDE DEF e, T, d
  <1>2. /\ ListHolds(list_add(d, e, g), [T EXCEPT ![g] = <<e>> \o @])
        /\ ListHolds(list_add_tail(d, e, g), [T EXCEPT ![g] = Append(@, e)])
    BY <1>1, HeldAddFront, HeldAddBack
  <1> QED
    BY <1>2 DEF list_move, list_move_tail, e, T, d

LEMMA HeldReplace ==
    ASSUME NEW m, NEW S, ListHolds(m, S), NEW h \in Heads, NEW i \in 1 .. Len(S[h]),
           NEW n \in Items, ~Member(S, n), NEW T,
           [g \in Heads |-> [j \in DOMAIN S[g] |-> IF S[g][j] = S[h][i] THEN n ELSE S[g][j]]] = T
    PROVE  /\ ListHolds(list_replace(m, S[h][i], n), T)
           /\ ListHolds(list_replace_init(m, S[h][i], n), T)
  <1>0. S \in Contents /\ Apart(S) /\ m \in Links /\ Rings(m, S)
    BY DEF ListHolds, Rings
  <1>1. T \in Contents /\ Replaced(S, T, h, i, n)
    BY <1>0, ReplaceOne
  <1> DEFINE e == S[h][i]
             w == list_replace(m, e, n)
  <1>2. /\ e \in Items /\ Member(T, n) /\ ~Member(T, e)
        /\ \A x : Member(S, x) => x = e \/ Member(T, x)
    BY <1>0, <1>1, Places, PlacesReplaced
  <1>3. /\ w \in Links /\ Rings(w, T)
        /\ \A x \in Nodes : x # n /\ ~(x \in Heads \/ Member(S, x)) =>
              w.next[x] = m.next[x] /\ w.prev[x] = m.prev[x]
        /\ w.next[e] # e
    BY <1>0, <1>1, RingReplace
  <1> HIDE DEF e, w
  <1>4. ASSUME NEW x \in Items, ~Member(T, x) PROVE Off(w, x)
    <2>1. CASE x = e
      BY <1>3, <2>1 DEF Off
    <2>2. CASE x # e
      <3>1. x # n /\ ~Member(S, x) /\ Off(m, x)
        BY <1>2, <1>4, <2>2 DEF ListHolds
      <3>2. x \in Nodes /\ x \notin Heads
        BY ListAssumption DEF Nodes
      <3> QED
        BY <1>3, <3>1, <3>2 DEF Off
    <2> QED
      BY <2>1, <2>2
  <1>5. ListHolds(w, T)
    BY <1>3, <1>4 DEF ListHolds
  <1>6. ListHolds(INIT_LIST_HEAD(w, e), T)
    BY <1>2, <1>3, <1>4, HeldInit
  <1> QED
    BY <1>5, <1>6 DEF w, e, list_replace_init

(* Whole lists: what is on no list stays so, and its links stay as they are. *)
LEMMA HeldKept ==
    ASSUME NEW m, NEW w \in Links, NEW S, NEW T, ListHolds(m, S), Rings(w, T), Kept(m, w, S),
           \A x : Member(S, x) <=> Member(T, x)
    PROVE  ListHolds(w, T)
  <1>1. ASSUME NEW x \in Items, ~Member(T, x) PROVE Off(w, x)
    <2>1. ~Member(S, x) /\ Off(m, x) /\ x \in Nodes /\ x \notin Heads
      BY <1>1, ListAssumption DEF ListHolds, Nodes
    <2> QED
      BY <2>1 DEF Off, Kept
  <1> QED
    BY <1>1 DEF ListHolds

LEMMA HeldTake ==
    ASSUME NEW m, NEW S, ListHolds(m, S), NEW old \in Heads, NEW new \in Heads, old # new,
           S[new] = <<>>
    PROVE  ListHolds(list_replace_init(m, old, new), [S EXCEPT ![new] = S[old], ![old] = <<>>])
  <1> DEFINE T == [S EXCEPT ![new] = S[old], ![old] = <<>>]
             w == list_replace_init(m, old, new)
  <1>0. S \in Contents /\ m \in Links /\ Rings(m, S)
    BY DEF ListHolds, Rings
  <1>1. T \in Contents /\ Taken(S, T, old, new)
    BY <1>0, TakeAll
  <1> HIDE DEF T
  <1>2. w \in Links /\ Rings(w, T) /\ Kept(m, w, S) /\ \A x : Member(S, x) <=> Member(T, x)
    BY <1>0, <1>1, RingTake
  <1> HIDE DEF w
  <1>3. ListHolds(w, T)
    BY <1>2, HeldKept
  <1> QED
    BY <1>3 DEF w, T

LEMMA HeldRotate ==
    ASSUME NEW m, NEW S, ListHolds(m, S), NEW h \in Heads, S[h] # <<>>
    PROVE  ListHolds(list_rotate_left(m, h), [S EXCEPT ![h] = Tail(@) \o <<Head(@)>>])
  <1> DEFINE T == [S EXCEPT ![h] = Tail(@) \o <<Head(@)>>]
             D == Abstract!Drop(S, S[h][1])
             e == S[h][1]
             d == ListDelEntry(m, e)
  <1>0. S \in Contents /\ Apart(S) /\ m \in Links /\ Rings(m, S)
    BY DEF ListHolds, Rings
  <1>1. 1 \in 1 .. Len(S[h]) /\ m.next[h] = e /\ m.next[h] # h
    <2>1. Len(S[h]) \in Nat /\ Len(S[h]) # 0
      BY <1>0, Places DEF Contents
    <2>2. 1 \in 1 .. Len(S[h])
      BY <2>1
    <2>3. Place(S, h, 1) = S[h][1]
      BY <1>0, <2>2, Places
    <2> QED
      BY <2>2, <2>3, <1>0, RingEnds
  <1>2. list_rotate_left(m, h) = list_add_tail(d, e, h)
    BY <1>1 DEF list_rotate_left, list_empty, list_move_tail
  <1>3. D \in Contents /\ Removed(S, D, h, 1)
    BY <1>0, <1>1, DropOne
  <1>4. /\ e \in Items /\ d \in Links /\ Rings(d, D) /\ ~Member(D, e)
        /\ \A x \in Items : x # e /\ ~Member(D, x) => Off(d, x)
    BY <1>1, HeldOut
  <1>a. T \in Contents /\ Inserted(D, T, h, Len(D[h]), S[h][1])
    <2> HIDE DEF D
    <2> QED
      BY <1>0, <1>3, RotateLeft
  <1> HIDE DEF T, D, d, e
  <1>5. Place(D, h, Len(D[h])) = d.prev[h] /\ Place(D, h, Len(D[h]) + 1) = h /\ Len(D[h]) \in 0 .. Len(D[h])
    BY <1>3, <1>4, Places, RingEnds
  <1>6. Inserted(D, T, h, Len(D[h]), e)
    BY <1>a DEF e
  <1>7. ListHolds(ListAdd(d, e, Place(D, h, Len(D[h])), Place(D, h, Len(D[h]) + 1)), T)
    BY <1>4, <1>5, <1>6, <1>a, HeldAdd
  <1> QED
    BY <1>2, <1>5, <1>7 DEF list_add_tail, T

(* To initialise the head of an empty list changes nothing. *)
LEMMA HeldInitHead ==
    ASSUME NEW m, NEW S, ListHolds(m, S), NEW list \in Heads, S[list] = <<>>
    PROVE  ListHolds(INIT_LIST_HEAD(m, list), S)
  <1> DEFINE w == INIT_LIST_HEAD(m, list)
  <1>0. m \in Links /\ Rings(m, S) /\ list \in Nodes
    BY DEF ListHolds, Nodes
  <1>1. /\ w \in Links
        /\ \A x \in Nodes : /\ w.next[x] = IF x = list THEN list ELSE m.next[x]
                            /\ w.prev[x] = IF x = list THEN list ELSE m.prev[x]
    BY <1>0, InitLinks
  <1> HIDE DEF w
  <1>2. m.next[list] = list /\ m.prev[list] = list
    BY <1>0, RingEnds
  <1>3. \A x \in Nodes : w.next[x] = m.next[x] /\ w.prev[x] = m.prev[x]
    BY <1>1, <1>2
  <1>4. Rings(w, S)
    BY <1>0, <1>3, RingsKept
  <1>5. Kept(m, w, S)
    BY <1>3 DEF Kept
  <1>6. ListHolds(w, S)
    BY <1>1, <1>4, <1>5, HeldKept
  <1> QED
    BY <1>6 DEF w

LEMMA HeldSplice ==
    ASSUME NEW m, NEW S, ListHolds(m, S), NEW list \in Heads, NEW h \in Heads, list # h
    PROVE  /\ ListHolds(INIT_LIST_HEAD(list_splice(m, list, h), list),
                        [S EXCEPT ![h] = S[list] \o @, ![list] = <<>>])
           /\ ListHolds(list_splice_init(m, list, h),
                        [S EXCEPT ![h] = S[list] \o @, ![list] = <<>>])
           /\ ListHolds(INIT_LIST_HEAD(list_splice_tail(m, list, h), list),
                        [S EXCEPT ![h] = @ \o S[list], ![list] = <<>>])
           /\ ListHolds(list_splice_tail_init(m, list, h),
                        [S EXCEPT ![h] = @ \o S[list], ![list] = <<>>])
  <1> DEFINE F == [S EXCEPT ![h] = S[list] \o @, ![list] = <<>>]
             B == [S EXCEPT ![h] = @ \o S[list], ![list] = <<>>]
             i == Len(S[h])
  <1>0. /\ S \in Contents /\ m \in Links /\ Rings(m, S) /\ i \in 0 .. Len(S[h]) /\ 0 \in 0 .. Len(S[h])
        /\ S[list] \in Seq(Items) /\ S[h] \in Seq(Items) /\ S \in [Heads -> Seq(Items)]
    BY Places DEF ListHolds, Rings, Contents
  <1>1. /\ F \in Contents /\ Spliced(S, F, list, h, 0)
        /\ B \in Contents /\ Spliced(S, B, list, h, i)
    BY <1>0, SpliceFront, SpliceBack
  <1>2. m.next[list] = list <=> S[list] = <<>>
    BY <1>0, RingEnds
  <1>3. CASE S[list] = <<>>
    <2>1. F = S /\ B = S
      <3>1. S[list] \o S[h] = S[h] /\ S[h] \o S[list] = S[h]
        BY <1>0, <1>3
      <3>2. [S EXCEPT ![h] = S[h], ![list] = <<>>] = S
        <4>1. [S EXCEPT ![list] = S[list]] = S /\ [S EXCEPT ![h] = S[h]] = S
          BY <1>0
        <4> QED
          BY <4>1, <1>3
      <3> QED
        BY <3>1, <3>2, Zenon
    <2>2. /\ list_splice(m, list, h) = m /\ list_splice_init(m, list, h) = m
          /\ list_splice_tail(m, list, h) = m /\ list_splice_tail_init(m, list, h) = m
      BY <1>2, <1>3 DEF list_splice, list_splice_init, list_splice_tail, list_splice_tail_init, list_empty
    <2>3. ListHolds(INIT_LIST_HEAD(m, list), S)
      BY <1>3, HeldInitHead
    <2> HIDE DEF F, B
    <2>4. /\ ListHolds(INIT_LIST_HEAD(m, list), F) /\ ListHolds(m, F)
          /\ ListHolds(INIT_LIST_HEAD(m, list), B) /\ ListHolds(m, B)
      BY <2>1, <2>3
    <2> QED
      BY <2>2, <2>4 DEF F, B
  <1>4. CASE S[list] # <<>>
    <2> DEFINE f == INIT_LIST_HEAD(ListSplice(m, list, h, m.next[h]), list)
               b == INIT_LIST_HEAD(ListSplice(m, list, m.prev[h], h), list)
    <2>1. /\ INIT_LIST_HEAD(list_splice(m, list, h), list) = f
          /\ list_splice_init(m, list, h) = f
          /\ INIT_LIST_HEAD(list_splice_tail(m, list, h), list) = b
          /\ list_splice_tail_init(m, list, h) = b
      BY <1>2, <1>4 DEF list_splice, list_splice_init, list_splice_tail, list_splice_tail_init, list_empty
    <2>2. /\ Place(S, h, 0) = h /\ Place(S, h, 0 + 1) = m.next[h]
          /\ Place(S, h, i) = m.prev[h] /\ Place(S, h, i + 1) = h
      <3>1. m.next[h] = Place(S, h, 1) /\ 0 + 1 = 1
        BY <1>0, RingEnds
      <3> QED
        BY <3>1, <1>0, Places, RingEnds
    <2> HIDE DEF F, B, i
    <2>3. /\ INIT_LIST_HEAD(ListSplice(m, list, Place(S, h, 0), Place(S, h, 0 + 1)), list) = f
          /\ INIT_LIST_HEAD(ListSplice(m, list, Place(S, h, i), Place(S, h, i + 1)), list) = b
      BY <2>2
    <2>4. f \in Links /\ Rings(f, F) /\ Kept(m, f, S)
      <3> HIDE DEF f
      <3>1. LET w == INIT_LIST_HEAD(ListSplice(m, list, Place(S, h, 0), Place(S, h, 0 + 1)), list)
            IN  w \in Links /\ Rings(w, F) /\ Kept(m, w, S)
        BY <1>0, <1>1, <1>4, RingSplice
      <3> QED
        BY <2>3, <3>1
    <2>5. b \in Links /\ Rings(b, B) /\ Kept(m, b, S)
      <3> HIDE DEF b
      <3>1. LET w == INIT_LIST_HEAD(ListSplice(m, list, Place(S, h, i), Place(S, h, i + 1)), list)
            IN  w \in Links /\ Rings(w, B) /\ Kept(m, w, S)
        BY <1>0, <1>1, <1>4, RingSplice
      <3> QED
        BY <2>3, <3>1
    <2>6. /\ \A x : Member(S, x) <=> Member(F, x)
          /\ \A x : Member(S, x) <=> Member(B, x)
      <3>1. Apart(S) /\ Len(S[list]) = Len(S[list])
        BY DEF ListHolds, Rings
      <3> QED
        BY <1>0, <1>1, <3>1, PlacesSpliced
    <2> HIDE DEF f, b
    <2>7. ListHolds(f, F) /\ ListHolds(b, B)
      BY <2>4, <2>5, <2>6, HeldKept
    <2> QED
      BY <2>1, <2>7 DEF F, B
  <1> QED
    BY <1>3, <1>4

LEMMA HeldCut ==
    ASSUME NEW m, NEW S, ListHolds(m, S), NEW list \in Heads, NEW h \in Heads, list # h,
           S[list] = <<>>, NEW e, e \in ToSet(S[h]) \cup {h}
    PROVE  ListHolds(list_cut_position(m, list, h, e),
                     [S EXCEPT ![list] = Abstract!UpTo(S, h, e),
                               ![h] = SubSeq(@, Len(Abstract!UpTo(S, h, e)) + 1, Len(@))])
  <1> DEFINE T == [S EXCEPT ![list] = Abstract!UpTo(S, h, e),
                            ![h] = SubSeq(@, Len(Abstract!UpTo(S, h, e)) + 1, Len(@))]
  <1>0. /\ S \in Contents /\ Apart(S) /\ m \in Links /\ Rings(m, S) /\ S \in [Heads -> Seq(Items)]
        /\ Len(S[h]) \in Nat /\ S[h] \in Seq(Items)
    BY Places DEF ListHolds, Rings, Contents
  <1>1. m.next[h] = h <=> S[h] = <<>>
    BY <1>0, RingEnds
  <1>2. CASE e = h
    <2>1. T = S
      <3>1. Abstract!UpTo(S, h, e) = <<>>
        BY <1>2 DEF Abstract!UpTo
      <3>2. SubSeq(S[h], 0 + 1, Len(S[h])) = S[h] /\ Len(<<>>) = 0
        BY <1>0
      <3>3. T = [S EXCEPT ![list] = <<>>, ![h] = SubSeq(S[h], 0 + 1, Len(S[h]))]
        BY <3>1, <3>2, Zenon
      <3>4. [S EXCEPT ![list] = S[list], ![h] = S[h]] = S
        BY <1>0
      <3> QED
        BY <3>2, <3>3, <3>4
    <2>2. list_cut_position(m, list, h, e) = m \/ list_cut_position(m, list, h, e) = INIT_LIST_HEAD(m, list)
      BY <1>2 DEF list_cut_position
    <2>3. ListHolds(INIT_LIST_HEAD(m, list), S)
      BY HeldInitHead
    <2> HIDE DEF T
    <2>4. ListHolds(list_cut_position(m, list, h, e), T)
      BY <2>1, <2>2, <2>3
    <2> QED
      BY <2>4 DEF T
  <1>3. CASE e # h
    <2>1. PICK i \in 1 .. Len(S[h]) : S[h][i] = e
      BY <1>0, <1>3 DEF ToSet
    <2>2. Abstract!UpTo(S, h, e) = SubSeq(S[h], 1, i)
      BY <1>0, <1>3, <2>1, Owner DEF Abstract!UpTo
    <2>3. T \in Contents /\ CutAt(S, T, list, h, i)
      BY <1>0, <2>2, CutOff
    <2>4. list_cut_position(m, list, h, e) = ListCut(m, list, h, e)
      <3>1. ~list_empty(m, h)
        BY <1>0, <1>1, <2>1 DEF list_empty
      <3>2. list_is_singular(m, h) => m.next[h] = e
        <4> SUFFICES ASSUME list_is_singular(m, h) PROVE m.next[h] = e
          OBVIOUS
        <4>1. Place(S, h, 1) = Place(S, h, Len(S[h]))
          BY <1>0, RingEnds DEF list_is_singular
        <4>2. 1 \in 0 .. Len(S[h]) /\ Len(S[h]) \in 0 .. Len(S[h])
          BY <1>0, <2>1
        <4>3. Len(S[h]) = 1
          <5>1. \A j, k \in 0 .. Len(S[h]) : Place(S, h, j) = Place(S, h, k) => j = k
            BY <1>0, PlacesApart
          <5> QED
            BY <4>1, <4>2, <5>1
        <4>4. i = 1 /\ Place(S, h, 1) = S[h][1]
          BY <1>0, <2>1, <4>3, Places
        <4> QED
          BY <1>0, <2>1, <4>4, RingEnds
      <3> QED
        BY <1>3, <3>1, <3>2 DEF list_cut_position
    <2> DEFINE w == ListCut(m, list, h, e)
    <2> HIDE DEF T, w
    <2>5. w \in Links /\ Rings(w, T) /\ Kept(m, w, S)
      <3>1. LET u == ListCut(m, list, h, S[h][i])
            IN  u \in Links /\ Rings(u, T) /\ Kept(m, u, S)
        BY <1>0, <2>3, RingCut
      <3> QED
        BY <2>1, <3>1 DEF w
    <2>6. \A x : Member(S, x) <=> Member(T, x)
      BY <1>0, <2>3, PlacesCut
    <2>7. ListHolds(w, T)
      BY <2>5, <2>6, HeldKept
    <2> QED
      BY <2>4, <2>7 DEF w, T
  <1> QED
    BY <1>2, <1>3

-----------------------------------------------------------------------------
(* The calls on lists with one pointer as head *)

(* An entry on no list whose link is NULL may pass for unhashed, or for the *)
(* only entry of a list of its own (hlist_add_fake).                        *)
Spare(m, x) == m.next[x] = NULL => m.prev[x] \in {NULL, x}

HlistHolds(m, S) ==
    m \in Links /\ Chains(m, S) /\ \A x \in Items : ~Member(S, x) => Spare(m, x)

LEMMA ChainLinks ==
    ASSUME NEW m, NEW S, Chains(m, S), NEW h \in Heads
    PROVE  /\ S \in Contents /\ Apart(S) /\ Len(S[h]) \in Nat
           /\ m.next[h] = After(S, h, 0) /\ Place(S, h, 0) = h /\ 0 \in 0 .. Len(S[h])
           /\ \A i \in 1 .. Len(S[h]) : /\ m.next[S[h][i]] = After(S, h, i)
                                        /\ m.prev[S[h][i]] = Place(S, h, i - 1)
                                        /\ After(S, h, i - 1) = S[h][i]
                                        /\ Place(S, h, i) = S[h][i]
                                        /\ S[h][i] \in Items
           /\ \A i \in 0 .. Len(S[h]) : /\ After(S, h, i) \in Nodes \cup {NULL}
                                        /\ Place(S, h, i) \in Nodes
  <1>1. /\ S \in Contents /\ Apart(S) /\ Len(S[h]) \in Nat
        /\ Place(S, h, 0) = h /\ \A i \in 1 .. Len(S[h]) : Place(S, h, i) = S[h][i] /\ S[h][i] \in Items
        /\ \A i \in 0 .. Len(S[h]) : Place(S, h, i) \in Nodes
    BY Places DEF Chains
  <1>2. /\ \A i \in 0 .. Len(S[h]) : m.next[Place(S, h, i)] = After(S, h, i)
        /\ \A i \in 1 .. Len(S[h]) : m.prev[S[h][i]] = Place(S, h, i - 1)
    BY DEF Chains, Chain
  <1>3. 0 \in 0 .. Len(S[h]) /\ \A i \in 1 .. Len(S[h]) : i \in 0 .. Len(S[h])
    BY <1>1
  <1>4. \A i \in 1 .. Len(S[h]) : After(S, h, i - 1) = S[h][i]
    BY <1>1 DEF After
  <1>5. \A i \in 0 .. Len(S[h]) : After(S, h, i) \in Nodes \cup {NULL}
    BY <1>1, Places DEF After
  <1> QED
    BY <1>1, <1>2, <1>3, <1>4, <1>5

LEMMA HashedAdd ==
    ASSUME NEW m, NEW S, HlistHolds(m, S), NEW n \in Items, ~Member(S, n),
           NEW h \in Heads, NEW i \in 0 .. Len(S[h]), NEW T \in Contents, Inserted(S, T, h, i, n),
           NEW w, Between(m, w, n, Place(S, h, i), After(S, h, i))
    PROVE  HlistHolds(w, T)
  <1>0. m \in Links /\ Chains(m, S) /\ S \in Contents
    BY DEF HlistHolds, Chains
  <1>1. /\ w \in Links /\ Chains(w, T)
        /\ \A x \in Nodes : x # n /\ ~(x \in Heads \/ Member(S, x)) =>
              w.next[x] = m.next[x] /\ w.prev[x] = m.prev[x]
    BY <1>0, ChainInsert DEF Between
  <1>2. ASSUME NEW x \in Items, ~Member(T, x) PROVE Spare(w, x)
    <2>1. x # n /\ ~Member(S, x)
      BY <1>2, <1>0, MembersInserted
    <2>2. x \in Nodes /\ x \notin Heads /\ Spare(m, x)
      BY <2>1, ListAssumption DEF Nodes, HlistHolds
    <2> QED
      BY <1>1, <2>1, <2>2 DEF Spare
  <1> QED
    BY <1>1, <1>2 DEF HlistHolds

LEMMA HashedAddHead ==
    ASSUME NEW m, NEW S, HlistHolds(m, S), NEW n \in Items, ~Member(S, n), NEW h \in Heads
    PROVE  HlistHolds(hlist_add_head(m, n, h), [S EXCEPT ![h] = <<n>> \o @])
  <1> DEFINE T == [S EXCEPT ![h] = <<n>> \o @]
             w == hlist_add_head(m, n, h)
  <1>0. m \in Links /\ Chains(m, S) /\ S \in Contents /\ n \in Nodes /\ h \in Nodes /\ n # h
    BY ListAssumption DEF HlistHolds, Chains, Nodes
  <1>1. T \in Contents /\ Inserted(S, T, h, 0, n)
    BY <1>0, AddFront
  <1>2. /\ m.next[h] = After(S, h, 0) /\ Place(S, h, 0) = h /\ 0 \in 0 .. Len(S[h])
        /\ After(S, h, 0) \in Nodes \cup {NULL}
    BY <1>0, ChainLinks
  <1>3. n # After(S, h, 0)
    BY <1>0, <1>2, ListAssumption DEF After, Member, Nodes
  <1> HIDE DEF T, w
  <1>4. Between(m, w, n, h, After(S, h, 0))
    BY <1>0, <1>2, <1>3, HeadLinks DEF w
  <1>5. HlistHolds(w, T)
    BY <1>1, <1>2, <1>4, HashedAdd
  <1> QED
    BY <1>5 DEF w, T

LEMMA HashedAddBeside ==
    ASSUME NEW m, NEW S, HlistHolds(m, S), NEW n \in Items, ~Member(S, n),
           NEW h \in Heads, NEW i \in 1 .. Len(S[h])
    PROVE  /\ HlistHolds(hlist_add_before(m, n, S[h][i]), Abstract!Insert(S, n, S[h][i], FALSE))
           /\ HlistHolds(hlist_add_after(m, S[h][i], n), Abstract!Insert(S, n, S[h][i], TRUE))
  <1> DEFINE e == S[h][i]
             B == Abstract!Insert(S, n, e, FALSE)
             A == Abstract!Insert(S, n, e, TRUE)
             b == hlist_add_before(m, n, e)
             a == hlist_add_after(m, e, n)
             p == Place(S, h, i - 1)
             q == After(S, h, i)
  <1>0. m \in Links /\ Chains(m, S) /\ S \in Contents /\ Apart(S) /\ n \in Nodes
    BY DEF HlistHolds, Chains, Nodes
  <1>1. /\ B \in Contents /\ Inserted(S, B, h, i - 1, n)
        /\ A \in Contents /\ Inserted(S, A, h, i, n)
    BY <1>0, AddBeside
  <1>2. /\ m.next[e] = q /\ m.prev[e] = p /\ After(S, h, i - 1) = e /\ Place(S, h, i) = e
        /\ e \in Nodes /\ q \in Nodes \cup {NULL} /\ p \in Nodes
        /\ i - 1 \in 0 .. Len(S[h]) /\ i \in 0 .. Len(S[h])
    <2>1. i - 1 \in 0 .. Len(S[h]) /\ i \in 0 .. Len(S[h])
      BY <1>0, ChainLinks
    <2> QED
      BY <1>0, <2>1, ChainLinks DEF Nodes
  <1>3. n # e /\ n # q /\ n # p
    <2>1. \A j \in 1 .. Len(S[h]) : S[h][j] # n
      BY DEF Member
    <2>2. n \notin Heads /\ n # NULL
      BY <1>0, ListAssumption
    <2>3. /\ Len(S[h]) \in Nat /\ Place(S, h, 0) = h
          /\ \A j \in 1 .. Len(S[h]) : Place(S, h, j) = S[h][j] /\ After(S, h, j - 1) = S[h][j]
      BY <1>0, ChainLinks
    <2>4. n # p
      <3>1. i - 1 = 0 \/ i - 1 \in 1 .. Len(S[h])
        BY <2>3
      <3> QED
        BY <2>1, <2>2, <2>3, <3>1
    <2>5. n # q
      BY <2>1, <2>2, <2>3 DEF After
    <2> QED
      BY <2>1, <2>4, <2>5
  <1> HIDE DEF e, B, A, b, a, p, q
  <1>4. Between(m, b, n, p, e)
    BY <1>0, <1>2, <1>3, BeforeLinks DEF b
  <1>5. Between(m, a, n, e, q)
    BY <1>0, <1>2, <1>3, AfterLinks DEF a
  <1>6. HlistHolds(b, B)
    <2>1. Between(m, b, n, Place(S, h, i - 1), After(S, h, i - 1))
      BY <1>2, <1>4 DEF p
    <2> QED
      BY <1>1, <1>2, <2>1, HashedAdd
  <1>7. HlistHolds(a, A)
    <2>1. Between(m, a, n, Place(S, h, i), After(S, h, i))
      BY <1>2, <1>5 DEF q
    <2> QED
      BY <1>1, <1>2, <2>1, HashedAdd
  <1> QED
    BY <1>6, <1>7 DEF a, b, A, B, e

(* The links of an entry on no list may be anything that fits. *)
LEMMA HashedSet ==
    ASSUME NEW m \in Links, NEW w \in Links, NEW S, Chains(m, S), NEW e \in Items, ~Member(S, e),
           \A x \in Items : x # e /\ ~Member(S, x) => Spare(m, x),
           \A x \in Nodes : x # e => w.next[x] = m.next[x] /\ w.prev[x] = m.prev[x],
           Spare(w, e)
    PROVE  HlistHolds(w, S)
  <1>1. e \notin Heads /\ \A x \in Items : x \in Nodes
    BY ListAssumption DEF Nodes
  <1>2. Chains(w, S)
    BY <1>1, ChainsKept
  <1>3. ASSUME NEW x \in Items, ~Member(S, x) PROVE Spare(w, x)
    BY <1>1, <1>3 DEF Spare
  <1> QED
    BY <1>2, <1>3 DEF HlistHolds

LEMMA HashedMark ==
    ASSUME NEW m \in Links, NEW S, Chains(m, S), NEW e \in Items, ~Member(S, e),
           \A x \in Items : x # e /\ ~Member(S, x) => Spare(m, x),
           NEW f \in {NULL, Poison1}, NEW b \in {NULL, Poison2}, f = NULL => b = NULL
    PROVE  HlistHolds(SetPrev(SetNext(m, e, f), e, b), S)
  <1> DEFINE u == SetNext(m, e, f)
             w == SetPrev(u, e, b)
  <1>0. e \in Nodes
    BY DEF Nodes
  <1>1. \A v \in Nodes \cup {NULL, Poison1} :
            /\ SetNext(m, e, v) \in Links
            /\ \A x \in Nodes : /\ SetNext(m, e, v).next[x] = IF x = e THEN v ELSE m.next[x]
                                /\ SetNext(m, e, v).prev[x] = m.prev[x]
    BY <1>0, NextSet, Zenon
  <1>2. /\ u \in Links
        /\ \A x \in Nodes : u.next[x] = (IF x = e THEN f ELSE m.next[x]) /\ u.prev[x] = m.prev[x]
    BY <1>1
  <1> HIDE DEF u
  <1>3. \A v \in Nodes \cup {NULL, Poison2} :
            /\ SetPrev(u, e, v) \in Links
            /\ \A x \in Nodes : /\ SetPrev(u, e, v).next[x] = u.next[x]
                                /\ SetPrev(u, e, v).prev[x] = IF x = e THEN v ELSE u.prev[x]
    BY <1>0, <1>2, PrevSet, Zenon
  <1>4. /\ w \in Links
        /\ \A x \in Nodes : w.next[x] = u.next[x] /\ w.prev[x] = (IF x = e THEN b ELSE u.prev[x])
    BY <1>3
  <1> HIDE DEF w
  <1>5. /\ w.next[e] = f /\ w.prev[e] = b
        /\ \A x \in Nodes : x # e => w.next[x] = m.next[x] /\ w.prev[x] = m.prev[x]
    BY <1>0, <1>2, <1>4
  <1>6. Spare(w, e)
    BY <1>5 DEF Spare
  <1>7. HlistHolds(w, S)
    BY <1>4, <1>5, <1>6, HashedSet
  <1> QED
    BY <1>7 DEF w, u

LEMMA HashedDel ==
    ASSUME NEW m, NEW S, HlistHolds(m, S), NEW h \in Heads, NEW i \in 1 .. Len(S[h])
    PROVE  /\ HlistHolds(hlist_del(m, S[h][i]), Abstract!Drop(S, S[h][i]))
           /\ HlistHolds(hlist_del_init(m, S[h][i]), Abstract!Drop(S, S[h][i]))
           /\ ~hlist_unhashed(m, S[h][i])
  <1> DEFINE e == S[h][i]
             T == Abstract!Drop(S, e)
             d == HlistDel(m, e)
  <1>0. m \in Links /\ Chains(m, S) /\ S \in Contents /\ Apart(S)
    BY DEF HlistHolds, Chains
  <1>1. T \in Contents /\ Removed(S, T, h, i)
    BY <1>0, DropOne
  <1>2. e \in Items /\ ~Member(T, e) /\ \A x : Member(S, x) => x = e \/ Member(T, x)
    BY <1>0, <1>1, Places, PlacesRemoved, SMTT(30)
  <1>3. /\ d \in Links /\ Chains(d, T) /\ m.prev[e] \in Nodes
        /\ \A x \in Nodes : ~(x \in Heads \/ Member(S, x)) =>
              d.next[x] = m.next[x] /\ d.prev[x] = m.prev[x]
    <2>1. Place(S, h, i - 1) \in Nodes
      BY <1>0, Places
    <2> QED
      BY <1>0, <1>1, <2>1, ChainRemove
  <1> HIDE DEF e, T, d
  <1>4. ASSUME NEW x \in Items, x # e, ~Member(T, x) PROVE Spare(d, x)
    <2>1. ~Member(S, x) /\ Spare(m, x)
      BY <1>2, <1>4 DEF HlistHolds
    <2>2. x \in Nodes /\ x \notin Heads
      BY ListAssumption DEF Nodes
    <2> QED
      BY <1>3, <2>1, <2>2 DEF Spare
  <1>5. /\ HlistHolds(SetPrev(SetNext(d, e, Poison1), e, Poison2), T)
        /\ HlistHolds(SetPrev(SetNext(d, e, NULL), e, NULL), T)
    <2>1. Poison1 # NULL
      BY ListAssumption
    <2> QED
      BY <1>2, <1>3, <1>4, <2>1, HashedMark
  <1>6. ~hlist_unhashed(m, e)
    BY <1>3, ListAssumption DEF hlist_unhashed, Nodes
  <1> QED
    BY <1>5, <1>6 DEF hlist_del, hlist_del_init, INIT_HLIST_NODE, e, T, d

LEMMA HashedFake ==
    ASSUME NEW m, NEW S, HlistHolds(m, S), NEW n \in Items, ~Member(S, n), m.next[n] = NULL
    PROVE  /\ HlistHolds(hlist_add_fake(m, n), Abstract!Drop(S, n))
           /\ HlistHolds(hlist_del_init(m, n), Abstract!Drop(S, n))
  <1>0. /\ m \in Links /\ Chains(m, S) /\ S \in Contents /\ n \in Nodes /\ Abstract!Drop(S, n) = S
        /\ \A x \in Items : ~Member(S, x) => Spare(m, x)
        /\ m.prev[n] \in {NULL, n} /\ NULL \notin Nodes
    BY DropNone, ListAssumption DEF HlistHolds, Chains, Nodes, Spare
  <1>1. HlistHolds(hlist_add_fake(m, n), S)
    <2>1. /\ hlist_add_fake(m, n) \in Links
          /\ \A x \in Nodes : /\ hlist_add_fake(m, n).next[x] = m.next[x]
                              /\ hlist_add_fake(m, n).prev[x] = IF x = n THEN n ELSE m.prev[x]
      BY <1>0, PrevSet DEF hlist_add_fake
    <2>2. Spare(hlist_add_fake(m, n), n)
      BY <1>0, <2>1 DEF Spare
    <2> QED
      BY <1>0, <2>1, <2>2, HashedSet
  <1>2. HlistHolds(hlist_del_init(m, n), S)
    <2>1. CASE m.prev[n] = NULL
      BY <2>1 DEF hlist_del_init, hlist_unhashed
    <2>2. CASE m.prev[n] = n
      <3> DEFINE d == HlistDel(m, n)
      <3>1. hlist_del_init(m, n) = SetPrev(SetNext(d, n, NULL), n, NULL)
        BY <1>0, <2>2 DEF hlist_del_init, hlist_unhashed, INIT_HLIST_NODE
      <3>2. d \in Links /\ \A x \in Nodes : x # n => d.next[x] = m.next[x] /\ d.prev[x] = m.prev[x]
        <4>1. \A q \in Nodes \cup {NULL} : m.prev[n] = n /\ m.next[n] = q =>
                  /\ d \in Links
                  /\ \A x \in Nodes : /\ d.next[x] = IF x = n THEN q ELSE m.next[x]
                                      /\ d.prev[x] = IF x = q THEN n ELSE m.prev[x]
          BY <1>0, HlistDelLinks
        <4> HIDE DEF d
        <4> QED
          BY <4>1, <2>2, <1>0
      <3> HIDE DEF d
      <3>3. Chains(d, S)
        <4>1. n \notin Heads
          BY ListAssumption
        <4> QED
          BY <1>0, <3>2, <4>1, ChainsKept
      <3>4. \A x \in Items : x # n /\ ~Member(S, x) => Spare(d, x)
        BY <1>0, <3>2 DEF Spare, Nodes
      <3> QED
        BY <3>1, <3>2, <3>3, <3>4, HashedMark
    <2> QED
      BY <1>0, <2>1, <2>2
  <1> QED
    BY <1>0, <1>1, <1>2

LEMMA HashedTake ==
    ASSUME NEW m, NEW S, HlistHolds(m, S), NEW old \in Heads, NEW new \in Heads, old # new,
           S[new] = <<>>
    PROVE  HlistHolds(hlist_move_list(m, old, new), [S EXCEPT ![new] = S[old], ![old] = <<>>])
  <1> DEFINE T == [S EXCEPT ![new] = S[old], ![old] = <<>>]
             w == hlist_move_list(m, old, new)
  <1>0. S \in Contents /\ m \in Links /\ Chains(m, S)
    BY DEF HlistHolds, Chains
  <1>1. T \in Contents /\ Taken(S, T, old, new)
    BY <1>0, TakeAll
  <1> HIDE DEF T
  <1>2. w \in Links /\ Chains(w, T) /\ Kept(m, w, S) /\ \A x : Member(S, x) <=> Member(T, x)
    BY <1>0, <1>1, ChainTake
  <1> HIDE DEF w
  <1>3. ASSUME NEW x \in Items, ~Member(T, x) PROVE Spare(w, x)
    <2>1. ~Member(S, x) /\ Spare(m, x) /\ x \in Nodes /\ x \notin Heads
      BY <1>2, <1>3, ListAssumption DEF HlistHolds, Nodes
    <2> QED
      BY <1>2, <2>1 DEF Spare, Kept
  <1> QED
    BY <1>2, <1>3 DEF w, T, HlistHolds

-----------------------------------------------------------------------------
(* The state: the links hold the sequences they read as *)

Content == [h \in Heads |-> Sequence(h)]

Holds(k, m, S) ==
    /\ k \in {"list", "hlist"}
    /\ k = "list" => ListHolds(m, S)
    /\ k = "hlist" => HlistHolds(m, S)

LEMMA Reads ==
    ASSUME NEW k, NEW m, NEW S, Holds(k, m, S)
    PROVE  /\ S \in Contents /\ Apart(S) /\ m \in Links
           /\ \A h \in Heads : Follow(m.next, h) = S[h]
           /\ [h \in Heads |-> Follow(m.next, h)] = S
  <1>1. CASE k = "list"
    <2>1. Rings(m, S) /\ m \in Links
      BY <1>1 DEF Holds, ListHolds
    <2>2. \A h \in Heads : Follow(m.next, h) = S[h]
      BY <2>1, RingReads
    <2> QED
      BY <2>1, <2>2 DEF Rings, Contents
  <1>2. CASE k = "hlist"
    <2>1. Chains(m, S) /\ m \in Links
      BY <1>2 DEF Holds, HlistHolds
    <2>2. \A h \in Heads : Follow(m.next, h) = S[h]
      BY <2>1, ChainReads
    <2> QED
      BY <2>1, <2>2 DEF Chains, Contents
  <1> QED
    BY <1>1, <1>2 DEF Holds

LEMMA ContentRead ==
    ASSUME Holds(kind, l, Content)
    PROVE  /\ \A h \in Heads : Sequence(h) = Content[h] /\ On(h) = ToSet(Content[h])
           /\ \A n \in Linked : \E h \in Heads : \E i \in 1 .. Len(Content[h]) : Content[h][i] = n
           /\ \A h \in Heads : \A i \in 1 .. Len(Content[h]) : Content[h][i] \in Linked
           /\ \A n \in Unlinked : n \in Items /\ ~Member(Content, n)
  <1>1. \A h \in Heads : Sequence(h) = Content[h] /\ On(h) = ToSet(Content[h])
    BY DEF Content, On
  <1>2. \A h \in Heads : DOMAIN Content[h] = 1 .. Len(Content[h])
    BY Reads DEF Contents
  <1>3. \A n : n \in Linked <=> \E h \in Heads : \E i \in 1 .. Len(Content[h]) : Content[h][i] = n
    BY <1>1, <1>2 DEF Linked, ToSet
  <1> QED
    BY <1>1, <1>3 DEF Unlinked, Member

LEMMA OnNone ==
    ASSUME Holds(kind, l, Content), NEW h \in Heads
    PROVE  On(h) = {} <=> Content[h] = <<>>
  <1>1. On(h) = ToSet(Content[h]) /\ Content[h] \in Seq(Items)
    BY ContentRead, Reads DEF Contents
  <1>2. CASE Content[h] # <<>>
    <2>1. 1 \in DOMAIN Content[h]
      BY <1>1, <1>2
    <2> QED
      BY <1>1, <1>2, <2>1 DEF ToSet
  <1>3. CASE Content[h] = <<>>
    <2>1. \A i : i \notin DOMAIN Content[h]
      BY <1>3
    <2> QED
      BY <1>1, <1>3, <2>1 DEF ToSet
  <1> QED
    BY <1>2, <1>3

LEMMA AfterCall ==
    ASSUME NEW T, Holds(kind, l', T), kind' = kind
    PROVE  Content' = T /\ Holds(kind, l, Content)'
  <1>1. [h \in Heads |-> Follow(l'.next, h)] = T
    BY Reads
  <1>2. Content' = T
    BY <1>1 DEF Content, Sequence
  <1> QED
    BY <1>2 DEF Holds

(* Each call leaves the links holding what Effect says. *)
Obeys == Holds(kind, l', Abstract!Effect(Content, op'))

LEMMA AddObeys ==
    ASSUME Holds(kind, l, Content), Add
    PROVE  Obeys
  <1> DEFINE S == Content
  <1>1. PICK n \in Unlinked, h \in Heads :
            \/ Do(<<"add", n, h>>, list_add(l, n, h))
            \/ Do(<<"add_tail", n, h>>, list_add_tail(l, n, h))
    BY DEF Add
  <1>2. kind = "list" /\ ListHolds(l, S)
    BY DEF Add, Circular, Holds
  <1> HIDE DEF S
  <1>3. /\ n \in Items /\ ~Member(S, n) /\ l \in Links /\ Rings(l, S)
        /\ \A x \in Items : x # n /\ ~Member(S, x) => Off(l, x)
    BY <1>2, ContentRead DEF ListHolds, S
  <1>4. /\ ListHolds(list_add(l, n, h), [S EXCEPT ![h] = <<n>> \o @])
        /\ ListHolds(list_add_tail(l, n, h), [S EXCEPT ![h] = Append(@, n)])
    BY <1>3, HeldAddFront, HeldAddBack
  <1>5. /\ Abstract!Effect(S, <<"add", n, h>>) = [S EXCEPT ![h] = <<n>> \o @]
        /\ Abstract!Effect(S, <<"add_tail", n, h>>) = [S EXCEPT ![h] = Append(@, n)]
    BY DEF Abstract!Effect
  <1> QED
    BY <1>1, <1>2, <1>4, <1>5 DEF Do, Obeys, Holds, S

LEMMA DelObeys ==
    ASSUME Holds(kind, l, Content), Del
    PROVE  Obeys
  <1> DEFINE S == Content
  <1>1. PICK n \in Linked :
            Do(<<"del", n>>, list_del(l, n)) \/ Do(<<"del", n>>, list_del_init(l, n))
    BY DEF Del
  <1>2. kind = "list" /\ ListHolds(l, S)
    BY DEF Del, Circular, Holds
  <1> HIDE DEF S
  <1>3. PICK h \in Heads : \E i \in 1 .. Len(S[h]) : S[h][i] = n
    BY ContentRead DEF S
  <1>4. ListHolds(list_del(l, n), Abstract!Drop(S, n)) /\ ListHolds(list_del_init(l, n), Abstract!Drop(S, n))
    BY <1>2, <1>3, HeldDel
  <1>5. Abstract!Effect(S, <<"del", n>>) = Abstract!Drop(S, n)
    BY DEF Abstract!Effect
  <1> QED
    BY <1>1, <1>2, <1>4, <1>5 DEF Do, Obeys, Holds, S

LEMMA DelAgainObeys ==
    ASSUME Holds(kind, l, Content), DelAgain
    PROVE  Obeys
  <1> DEFINE S == Content
  <1>1. PICK n \in Unlinked : list_empty(l, n) /\ Do(<<"del", n>>, list_del_init(l, n))
    BY DEF DelAgain
  <1>2. kind = "list" /\ ListHolds(l, S)
    BY DEF DelAgain, Circular, Holds
  <1> HIDE DEF S
  <1>3. n \in Items /\ ~Member(S, n) /\ l.next[n] = n
    BY <1>1, ContentRead DEF S, list_empty
  <1>4. ListHolds(list_del_init(l, n), Abstract!Drop(S, n))
    BY <1>2, <1>3, HeldDelAgain
  <1>5. Abstract!Effect(S, <<"del", n>>) = Abstract!Drop(S, n)
    BY DEF Abstract!Effect
  <1> QED
    BY <1>1, <1>2, <1>4, <1>5 DEF Do, Obeys, Holds, S

LEMMA MoveObeys ==
    ASSUME Holds(kind, l, Content), Move
    PROVE  Obeys
  <1> DEFINE S == Content
  <1>1. PICK n \in Linked, g \in Heads :
            \/ Do(<<"move", n, g>>, list_move(l, n, g))
            \/ Do(<<"move_tail", n, g>>, list_move_tail(l, n, g))
    BY DEF Move
  <1>2. kind = "list" /\ ListHolds(l, S)
    BY DEF Move, Circular, Holds
  <1> HIDE DEF S
  <1>3. PICK h \in Heads : \E i \in 1 .. Len(S[h]) : S[h][i] = n
    BY ContentRead DEF S
  <1>4. /\ ListHolds(list_move(l, n, g), [Abstract!Drop(S, n) EXCEPT ![g] = <<n>> \o @])
        /\ ListHolds(list_move_tail(l, n, g), [Abstract!Drop(S, n) EXCEPT ![g] = Append(@, n)])
    BY <1>2, <1>3, HeldMove
  <1>5. /\ Abstract!Effect(S, <<"move", n, g>>) = [Abstract!Drop(S, n) EXCEPT ![g] = <<n>> \o @]
        /\ Abstract!Effect(S, <<"move_tail", n, g>>) = [Abstract!Drop(S, n) EXCEPT ![g] = Append(@, n)]
    BY DEF Abstract!Effect
  <1> QED
    BY <1>1, <1>2, <1>4, <1>5 DEF Do, Obeys, Holds, S

LEMMA ReplaceObeys ==
    ASSUME Holds(kind, l, Content), Replace
    PROVE  Obeys
  <1> DEFINE S == Content
  <1>1. PICK old \in Linked, new \in Unlinked :
            \/ Do(<<"replace", old, new>>, list_replace(l, old, new))
            \/ Do(<<"replace", old, new>>, list_replace_init(l, old, new))
    BY DEF Replace
  <1>2. kind = "list" /\ ListHolds(l, S)
    BY DEF Replace, Circular, Holds
  <1> DEFINE T == [g \in Heads |-> [j \in DOMAIN S[g] |-> IF S[g][j] = old THEN new ELSE S[g][j]]]
  <1> HIDE DEF S
  <1>3. PICK h \in Heads : \E i \in 1 .. Len(S[h]) : S[h][i] = old
    BY ContentRead DEF S
  <1>4. PICK i \in 1 .. Len(S[h]) : S[h][i] = old
    BY <1>3
  <1>5. new \in Items /\ ~Member(S, new)
    BY ContentRead DEF S
  <1>6. [g \in Heads |-> [j \in DOMAIN S[g] |-> IF S[g][j] = S[h][i] THEN new ELSE S[g][j]]] = T
    BY <1>4
  <1>7. Abstract!Effect(S, <<"replace", old, new>>) = T
    BY DEF Abstract!Effect
  <1> HIDE DEF T
  <1>8. ListHolds(list_replace(l, S[h][i], new), T) /\ ListHolds(list_replace_init(l, S[h][i], new), T)
    BY <1>2, <1>5, <1>6, HeldReplace
  <1> QED
    BY <1>1, <1>2, <1>4, <1>7, <1>8 DEF Do, Obeys, Holds, S

LEMMA ReplaceHeadObeys ==
    ASSUME Holds(kind, l, Content), ReplaceHead
    PROVE  Obeys
  <1> DEFINE S == Content
  <1>1. PICK old \in Heads, new \in Heads :
            /\ old # new /\ On(new) = {}
            /\ Do(<<"take", old, new>>, list_replace_init(l, old, new))
    BY DEF ReplaceHead
  <1>2. kind = "list" /\ ListHolds(l, S)
    BY DEF ReplaceHead, Circular, Holds
  <1>3. S[new] = <<>>
    BY <1>1, ContentRead, OnNone
  <1> HIDE DEF S
  <1>4. ListHolds(list_replace_init(l, old, new), [S EXCEPT ![new] = S[old], ![old] = <<>>])
    BY <1>1, <1>2, <1>3, HeldTake
  <1>5. Abstract!Effect(S, <<"take", old, new>>) = [S EXCEPT ![new] = S[old], ![old] = <<>>]
    BY DEF Abstract!Effect
  <1> QED
    BY <1>1, <1>2, <1>4, <1>5 DEF Do, Obeys, Holds, S

LEMMA RotateObeys ==
    ASSUME Holds(kind, l, Content), Rotate
    PROVE  Obeys
  <1> DEFINE S == Content
  <1>1. PICK h \in Heads : On(h) # {} /\ Do(<<"rotate", h>>, list_rotate_left(l, h))
    BY DEF Rotate
  <1>2. kind = "list" /\ ListHolds(l, S)
    BY DEF Rotate, Circular, Holds
  <1>3. S[h] # <<>>
    BY <1>1, ContentRead, OnNone
  <1> HIDE DEF S
  <1>4. ListHolds(list_rotate_left(l, h), [S EXCEPT ![h] = Tail(@) \o <<Head(@)>>])
    BY <1>2, <1>3, HeldRotate
  <1>5. Abstract!Effect(S, <<"rotate", h>>) = [S EXCEPT ![h] = Tail(@) \o <<Head(@)>>]
    BY DEF Abstract!Effect
  <1> QED
    BY <1>1, <1>2, <1>4, <1>5 DEF Do, Obeys, Holds, S

LEMMA CutObeys ==
    ASSUME Holds(kind, l, Content), Cut
    PROVE  Obeys
  <1> DEFINE S == Content
  <1>1. PICK list \in Heads, head \in Heads : \E entry \in On(head) \cup {head} :
            /\ list # head /\ On(list) = {}
            /\ Do(<<"cut", list, head, entry>>, list_cut_position(l, list, head, entry))
    BY DEF Cut
  <1>2. PICK entry \in On(head) \cup {head} :
            /\ list # head /\ On(list) = {}
            /\ Do(<<"cut", list, head, entry>>, list_cut_position(l, list, head, entry))
    BY <1>1
  <1>3. kind = "list" /\ ListHolds(l, S)
    BY DEF Cut, Circular, Holds
  <1>4. S[list] = <<>> /\ entry \in ToSet(S[head]) \cup {head}
    BY <1>2, ContentRead, OnNone
  <1> DEFINE T == [S EXCEPT ![list] = Abstract!UpTo(S, head, entry),
                            ![head] = SubSeq(@, Len(Abstract!UpTo(S, head, entry)) + 1, Len(@))]
  <1> HIDE DEF S
  <1>5. ListHolds(list_cut_position(l, list, head, entry), T)
    BY <1>2, <1>3, <1>4, HeldCut
  <1>6. Abstract!Effect(S, <<"cut", list, head, entry>>) = T
    BY DEF Abstract!Effect
  <1> HIDE DEF T
  <1> QED
    BY <1>2, <1>3, <1>5, <1>6 DEF Do, Obeys, Holds, S

LEMMA SpliceObeys ==
    ASSUME Holds(kind, l, Content), Splice
    PROVE  Obeys
  <1> DEFINE S == Content
  <1>1. PICK list \in Heads, head \in Heads :
            /\ list # head
            /\ \/ Do(<<"splice", list, head>>, INIT_LIST_HEAD(list_splice(l, list, head), list))
               \/ Do(<<"splice", list, head>>, list_splice_init(l, list, head))
               \/ Do(<<"splice_tail", list, head>>,
                     INIT_LIST_HEAD(list_splice_tail(l, list, head), list))
               \/ Do(<<"splice_tail", list, head>>, list_splice_tail_init(l, list, head))
    BY DEF Splice
  <1>2. kind = "list" /\ ListHolds(l, S)
    BY DEF Splice, Circular, Holds
  <1> HIDE DEF S
  <1> DEFINE F == [S EXCEPT ![head] = S[list] \o @, ![list] = <<>>]
             B == [S EXCEPT ![head] = @ \o S[list], ![list] = <<>>]
  <1>3. /\ ListHolds(INIT_LIST_HEAD(list_splice(l, list, head), list), F)
        /\ ListHolds(list_splice_init(l, list, head), F)
        /\ ListHolds(INIT_LIST_HEAD(list_splice_tail(l, list, head), list), B)
        /\ ListHolds(list_splice_tail_init(l, list, head), B)
    BY <1>1, <1>2, HeldSplice
  <1>4. /\ Abstract!Effect(S, <<"splice", list, head>>) = F
        /\ Abstract!Effect(S, <<"splice_tail", list, head>>) = B
    BY DEF Abstract!Effect
  <1> HIDE DEF F, B
  <1> QED
    BY <1>1, <1>2, <1>3, <1>4 DEF Do, Obeys, Holds, S

LEMMA HAddObeys ==
    ASSUME Holds(kind, l, Content), HAdd
    PROVE  Obeys
  <1> DEFINE S == Content
  <1>1. PICK n \in Unlinked :
            \/ \E h \in Heads : Do(<<"add", n, h>>, hlist_add_head(l, n, h))
            \/ \E e \in Linked : Do(<<"before", n, e>>, hlist_add_before(l, n, e))
            \/ \E e \in Linked : Do(<<"after", n, e>>, hlist_add_after(l, e, n))
    BY DEF HAdd
  <1>2. kind = "hlist" /\ HlistHolds(l, S) /\ n \in Items /\ ~Member(S, n)
    BY ContentRead DEF HAdd, Single, Holds
  <1>3. \A e \in Linked : \E h \in Heads : \E i \in 1 .. Len(S[h]) : S[h][i] = e
    BY ContentRead
  <1> HIDE DEF S
  <1>4. ASSUME NEW h \in Heads, Do(<<"add", n, h>>, hlist_add_head(l, n, h)) PROVE Obeys
    <2>1. HlistHolds(hlist_add_head(l, n, h), [S EXCEPT ![h] = <<n>> \o @])
      BY <1>2, HashedAddHead
    <2>2. Abstract!Effect(S, <<"add", n, h>>) = [S EXCEPT ![h] = <<n>> \o @]
      BY DEF Abstract!Effect
    <2> QED
      BY <1>2, <1>4, <2>1, <2>2 DEF Do, Obeys, Holds, S
  <1>5. ASSUME NEW e \in Linked PROVE
            /\ HlistHolds(hlist_add_before(l, n, e), Abstract!Insert(S, n, e, FALSE))
            /\ HlistHolds(hlist_add_after(l, e, n), Abstract!Insert(S, n, e, TRUE))
    <2>1. PICK h \in Heads : \E i \in 1 .. Len(S[h]) : S[h][i] = e
      BY <1>3
    <2>2. \A i \in 1 .. Len(S[h]) :
            /\ HlistHolds(hlist_add_before(l, n, S[h][i]), Abstract!Insert(S, n, S[h][i], FALSE))
            /\ HlistHolds(hlist_add_after(l, S[h][i], n), Abstract!Insert(S, n, S[h][i], TRUE))
      BY <1>2, HashedAddBeside
    <2> QED
      BY <2>1, <2>2, Zenon
  <1>6. \A e : /\ Abstract!Effect(S, <<"before", n, e>>) = Abstract!Insert(S, n, e, FALSE)
               /\ Abstract!Effect(S, <<"after", n, e>>) = Abstract!Insert(S, n, e, TRUE)
    BY DEF Abstract!Effect
  <1>7. ASSUME NEW e \in Linked, \/ Do(<<"before", n, e>>, hlist_add_before(l, n, e))
                                 \/ Do(<<"after", n, e>>, hlist_add_after(l, e, n))
        PROVE Obeys
    BY <1>2, <1>5, <1>6, <1>7 DEF Do, Obeys, Holds, S
  <1> QED
    BY <1>1, <1>4, <1>7

LEMMA HDelObeys ==
    ASSUME Holds(kind, l, Content), HDel
    PROVE  Obeys
  <1> DEFINE S == Content
  <1>1. PICK n \in Linked :
            Do(<<"del", n>>, hlist_del(l, n)) \/ Do(<<"del", n>>, hlist_del_init(l, n))
    BY DEF HDel
  <1>2. kind = "hlist" /\ HlistHolds(l, S)
    BY DEF HDel, Single, Holds
  <1> HIDE DEF S
  <1>3. PICK h \in Heads : \E i \in 1 .. Len(S[h]) : S[h][i] = n
    BY ContentRead DEF S
  <1>4. HlistHolds(hlist_del(l, n), Abstract!Drop(S, n)) /\ HlistHolds(hlist_del_init(l, n), Abstract!Drop(S, n))
    BY <1>2, <1>3, HashedDel
  <1>5. Abstract!Effect(S, <<"del", n>>) = Abstract!Drop(S, n)
    BY DEF Abstract!Effect
  <1> QED
    BY <1>1, <1>2, <1>4, <1>5 DEF Do, Obeys, Holds, S

LEMMA HFakeObeys ==
    ASSUME Holds(kind, l, Content), HFake
    PROVE  Obeys
  <1> DEFINE S == Content
  <1>1. PICK n \in Unlinked :
            /\ l.next[n] = NULL
            /\ \/ hlist_unhashed(l, n) /\ Do(<<"del", n>>, hlist_add_fake(l, n))
               \/ Do(<<"del", n>>, hlist_del_init(l, n))
    BY DEF HFake
  <1>2. kind = "hlist" /\ HlistHolds(l, S) /\ n \in Items /\ ~Member(S, n)
    BY ContentRead DEF HFake, Single, Holds
  <1> HIDE DEF S
  <1>3. HlistHolds(hlist_add_fake(l, n), Abstract!Drop(S, n)) /\ HlistHolds(hlist_del_init(l, n), Abstract!Drop(S, n))
    BY <1>1, <1>2, HashedFake
  <1>4. Abstract!Effect(S, <<"del", n>>) = Abstract!Drop(S, n)
    BY DEF Abstract!Effect
  <1> QED
    BY <1>1, <1>2, <1>3, <1>4 DEF Do, Obeys, Holds, S

LEMMA HMoveListObeys ==
    ASSUME Holds(kind, l, Content), HMoveList
    PROVE  Obeys
  <1> DEFINE S == Content
  <1>1. PICK old \in Heads, new \in Heads :
            /\ old # new /\ On(new) = {}
            /\ Do(<<"take", old, new>>, hlist_move_list(l, old, new))
    BY DEF HMoveList
  <1>2. kind = "hlist" /\ HlistHolds(l, S)
    BY DEF HMoveList, Single, Holds
  <1>3. S[new] = <<>>
    BY <1>1, ContentRead, OnNone
  <1> HIDE DEF S
  <1>4. HlistHolds(hlist_move_list(l, old, new), [S EXCEPT ![new] = S[old], ![old] = <<>>])
    BY <1>1, <1>2, <1>3, HashedTake
  <1>5. Abstract!Effect(S, <<"take", old, new>>) = [S EXCEPT ![new] = S[old], ![old] = <<>>]
    BY DEF Abstract!Effect
  <1> QED
    BY <1>1, <1>2, <1>4, <1>5 DEF Do, Obeys, Holds, S

Calls ==
    \/ Add \/ Del \/ DelAgain \/ Move \/ Replace \/ ReplaceHead \/ Rotate \/ Cut \/ Splice
    \/ HAdd \/ HDel \/ HFake \/ HMoveList

LEMMA CallsObey ==
    ASSUME Holds(kind, l, Content), Calls
    PROVE  /\ Obeys /\ kind' = kind /\ loop = <<>> /\ loop' = <<>>
  <1>1. Obeys
    BY AddObeys, DelObeys, DelAgainObeys, MoveObeys, ReplaceObeys, ReplaceHeadObeys, RotateObeys,
       CutObeys, SpliceObeys, HAddObeys, HDelObeys, HFakeObeys, HMoveListObeys, Zenon DEF Calls
  <1>2. kind' = kind
    BY DEF Calls, Do, Add, Del, DelAgain, Move, Replace, ReplaceHead, Rotate, Cut, Splice, HAdd, HDel,
       HFake, HMoveList
  <1>3. loop = <<>> /\ loop' = <<>>
    BY DEF Calls, Calm, Circular, Single, Add, Del, DelAgain, Move, Replace, ReplaceHead, Rotate, Cut,
       Splice, HAdd, HDel, HFake, HMoveList
  <1> QED
    BY <1>1, <1>2, <1>3

-----------------------------------------------------------------------------
(* Loops *)

EndOf(k, h) == IF k = "list" THEN h ELSE NULL

Loops ==
    [head : Heads, dir : {"next", "prev"}, safe : BOOLEAN, pos : Nodes \cup {NULL},
     n : Nodes \cup {NULL, Poison1, Poison2}, seen : Seq(Items), due : Seq(Items)]

(* The place in s of the i-th of the last `left` entries on the way. *)
Ahead(s, dir, left, i) == IF dir = "next" THEN Len(s) - left + i ELSE left - i + 1

(* What was seen is what was due so far, and what is still due is what is *)
(* left of the list.                                                       *)
Sees(s, dir, seen, due) ==
    /\ Len(seen) <= Len(due) /\ Len(due) - Len(seen) <= Len(s)
    /\ \A i \in 1 .. Len(seen) : seen[i] = due[i]
    /\ \A i \in 1 .. Len(due) - Len(seen) :
          due[Len(seen) + i] = s[Ahead(s, dir, Len(due) - Len(seen), i)]

Looping(k, S, r) ==
    /\ r \in Loops /\ (k = "hlist" => r.dir = "next")
    /\ Sees(S[r.head], r.dir, r.seen, r.due)
    /\ r.pos = Found(r.due, EndOf(k, r.head), Len(r.seen))

LoopHolds ==
    loop # <<>> => \E r : /\ loop = <<r>> /\ Looping(kind, Content, r)
                          /\ r.n = Step(l[r.dir], r.pos)

(* Where an entry of a list leads. *)
LEMMA EntryLeads ==
    ASSUME NEW k, NEW m, NEW S, Holds(k, m, S), NEW h \in Heads, NEW i \in 1 .. Len(S[h])
    PROVE  /\ m.next[S[h][i]] = IF i < Len(S[h]) THEN S[h][i + 1] ELSE EndOf(k, h)
           /\ k = "list" => m.prev[S[h][i]] = IF i > 1 THEN S[h][i - 1] ELSE h
  <1>0. /\ S \in Contents /\ Len(S[h]) \in Nat
        /\ Place(S, h, 0) = h /\ Place(S, h, Len(S[h]) + 1) = h
        /\ \A j \in 1 .. Len(S[h]) : Place(S, h, j) = S[h][j]
    BY Reads, Places
  <1>1. CASE k = "list"
    <2>1. \A j \in 0 .. Len(S[h]) : /\ m.next[Place(S, h, j)] = Place(S, h, j + 1)
                                    /\ m.prev[Place(S, h, j + 1)] = Place(S, h, j)
      BY <1>1 DEF Holds, ListHolds, Rings, Ring
    <2>2. i \in 0 .. Len(S[h]) /\ i - 1 \in 0 .. Len(S[h]) /\ (i - 1) + 1 = i
      BY <1>0
    <2>3. m.next[S[h][i]] = Place(S, h, i + 1) /\ m.prev[S[h][i]] = Place(S, h, i - 1)
      BY <1>0, <2>1, <2>2
    <2>4. i < Len(S[h]) => i + 1 \in 1 .. Len(S[h])
      BY <1>0
    <2>5. i > 1 => i - 1 \in 1 .. Len(S[h])
      BY <1>0
    <2>6. (~(i < Len(S[h])) => i = Len(S[h])) /\ (~(i > 1) => i - 1 = 0)
      BY <1>0
    <2> QED
      BY <1>0, <1>1, <2>3, <2>4, <2>5, <2>6 DEF EndOf
  <1>2. CASE k = "hlist"
    <2>1. m.next[S[h][i]] = After(S, h, i)
      BY <1>2, ChainLinks DEF Holds, HlistHolds
    <2> QED
      BY <1>2, <2>1 DEF After, EndOf
  <1> QED
    BY <1>1, <1>2 DEF Holds

(* In a loop that has entries left, the current one is the next due, it is *)
(* on the list, and its link leads to the one due then.                    *)
LEMMA LoopDue ==
    ASSUME NEW k, NEW m, NEW S, Holds(k, m, S), NEW r, Looping(k, S, r),
           r.pos # EndOf(k, r.head)
    PROVE  r.pos = r.due[Len(r.seen) + 1]
  BY DEF Looping, Found

LEMMA LoopPlace ==
    ASSUME NEW k, NEW m, NEW S, Holds(k, m, S), NEW r, Looping(k, S, r),
           r.pos # EndOf(k, r.head)
    PROVE  r.pos = S[r.head][Ahead(S[r.head], r.dir, Len(r.due) - Len(r.seen), 1)]
  <1> DEFINE h == r.head
             s == S[h]
             d == Len(r.seen)
             left == Len(r.due) - d
             p == Ahead(s, r.dir, left, 1)
  <1>1. /\ h \in Heads /\ S \in Contents /\ s \in Seq(Items) /\ Len(s) \in Nat
        /\ r.seen \in Seq(Items) /\ r.due \in Seq(Items) /\ d \in Nat /\ Len(r.due) \in Nat
        /\ r.dir \in {"next", "prev"} /\ (k = "hlist" => r.dir = "next") /\ k \in {"list", "hlist"}
    <2>1. r \in Loops /\ (k = "hlist" => r.dir = "next") /\ k \in {"list", "hlist"}
      BY DEF Looping, Holds
    <2>2. S \in Contents
      BY Reads
    <2> QED
      BY <2>1, <2>2 DEF Loops, Contents
  <1>2. /\ r.pos = Found(r.due, EndOf(k, h), d) /\ left <= Len(s) /\ d <= Len(r.due)
        /\ \A i \in 1 .. left : r.due[d + i] = s[Ahead(s, r.dir, left, i)]
    BY DEF Looping, Sees
  <1>3. d < Len(r.due) /\ r.pos = r.due[d + 1]
    BY <1>2 DEF Found
  <1>4. left \in Nat /\ 1 \in 1 .. left /\ Len(r.due) = d + left
    BY <1>1, <1>2, <1>3
  <1>5. r.pos = s[p]
    BY <1>2, <1>3, <1>4
  <1> QED
    BY <1>5

LEMMA LoopLeads ==
    ASSUME NEW k, NEW m, NEW S, Holds(k, m, S), NEW r, Looping(k, S, r),
           r.pos # EndOf(k, r.head)
    PROVE  m[r.dir][r.pos] = Found(r.due, EndOf(k, r.head), Len(r.seen) + 1)
  <1> DEFINE h == r.head
             s == S[h]
             d == Len(r.seen)
             left == Len(r.due) - d
             p == Ahead(s, r.dir, left, 1)
  <1>1. /\ h \in Heads /\ S \in Contents /\ s \in Seq(Items) /\ Len(s) \in Nat
        /\ r.seen \in Seq(Items) /\ r.due \in Seq(Items) /\ d \in Nat /\ Len(r.due) \in Nat
        /\ r.dir \in {"next", "prev"} /\ (k = "hlist" => r.dir = "next") /\ k \in {"list", "hlist"}
    <2>1. r \in Loops /\ (k = "hlist" => r.dir = "next") /\ k \in {"list", "hlist"}
      BY DEF Looping, Holds
    <2>2. S \in Contents
      BY Reads
    <2> QED
      BY <2>1, <2>2 DEF Loops, Contents
  <1>2. /\ r.pos = Found(r.due, EndOf(k, h), d) /\ left <= Len(s) /\ d <= Len(r.due)
        /\ \A i \in 1 .. left : r.due[d + i] = s[Ahead(s, r.dir, left, i)]
    BY DEF Looping, Sees
  <1>3. d < Len(r.due) /\ r.pos = r.due[d + 1]
    BY <1>2 DEF Found
  <1>4. left \in Nat /\ 1 \in 1 .. left /\ Len(r.due) = d + left
    BY <1>1, <1>2, <1>3
  <1>5. p \in 1 .. Len(s) /\ p = IF r.dir = "next" THEN Len(s) - left + 1 ELSE left
    <2> HIDE DEF left
    <2> QED
      BY <1>1, <1>2, <1>4 DEF Ahead
  <1>6. r.pos = s[p]
    BY LoopPlace
  <1> HIDE DEF s, p
  <1>7. s[p] \in Items
    <2>1. \A j \in 1 .. Len(s) : s[j] \in Items
      BY <1>1
    <2> QED
      BY <1>5, <2>1
  <1>8. m[r.dir][r.pos] = Found(r.due, EndOf(k, h), d + 1)
    <2>1. /\ m.next[s[p]] = IF p < Len(s) THEN s[p + 1] ELSE EndOf(k, h)
          /\ k = "list" => m.prev[s[p]] = IF p > 1 THEN s[p - 1] ELSE h
      <3>1. \A j \in 1 .. Len(S[h]) :
                /\ m.next[S[h][j]] = IF j < Len(S[h]) THEN S[h][j + 1] ELSE EndOf(k, h)
                /\ k = "list" => m.prev[S[h][j]] = IF j > 1 THEN S[h][j - 1] ELSE h
        BY <1>1, EntryLeads
      <3> QED
        BY <1>5, <3>1 DEF s
    <2> HIDE DEF h, d, left
    <2>2. CASE left = 1
      <3>1. Found(r.due, EndOf(k, h), d + 1) = EndOf(k, h)
        BY <1>1, <1>4, <2>2 DEF Found
      <3>2. CASE r.dir = "next"
        <4>1. p = Len(s)
          BY <1>1, <1>5, <2>2, <3>2
        <4>2. m.next[s[p]] = EndOf(k, h)
          BY <1>1, <2>1, <4>1
        <4> QED
          BY <1>6, <3>1, <3>2, <4>2
      <3>3. CASE r.dir = "prev"
        <4>1. p = 1 /\ k = "list" /\ EndOf(k, h) = h
          BY <1>1, <1>5, <2>2, <3>3 DEF EndOf
        <4>2. m.prev[s[p]] = h
          BY <2>1, <4>1
        <4> QED
          BY <1>6, <3>1, <3>3, <4>1, <4>2
      <3> QED
        BY <1>1, <3>2, <3>3
    <2>3. CASE left # 1
      <3>1. 2 \in 1 .. left /\ d + 1 < Len(r.due) /\ (d + 1) + 1 = d + 2
        BY <1>1, <1>4, <2>3
      <3>2. Found(r.due, EndOf(k, h), d + 1) = s[Ahead(s, r.dir, left, 2)]
        BY <1>2, <3>1 DEF Found
      <3>3. CASE r.dir = "next"
        <4>1. p < Len(s) /\ p + 1 = Ahead(s, r.dir, left, 2)
          BY <1>1, <1>2, <1>4, <1>5, <2>3, <3>3 DEF Ahead
        <4>2. m.next[s[p]] = s[p + 1]
          BY <2>1, <4>1
        <4> QED
          BY <1>6, <3>2, <3>3, <4>1, <4>2
      <3>4. CASE r.dir = "prev"
        <4>1. p > 1 /\ p - 1 = Ahead(s, r.dir, left, 2) /\ k = "list"
          BY <1>1, <1>2, <1>4, <1>5, <2>3, <3>4 DEF Ahead
        <4>2. m.prev[s[p]] = s[p - 1]
          BY <2>1, <4>1
        <4> QED
          BY <1>6, <3>2, <3>4, <4>1, <4>2
      <3> QED
        BY <1>1, <3>3, <3>4
    <2> QED
      BY <2>2, <2>3
  <1> QED
    BY <1>8

LEMMA LoopAt ==
    ASSUME NEW k, NEW m, NEW S, Holds(k, m, S), NEW r, Looping(k, S, r),
           r.pos # EndOf(k, r.head)
    PROVE  /\ Len(r.seen) < Len(r.due) /\ r.pos \in Items
           /\ Ahead(S[r.head], r.dir, Len(r.due) - Len(r.seen), 1) \in 1 .. Len(S[r.head])
  <1> DEFINE h == r.head
             s == S[h]
             d == Len(r.seen)
             left == Len(r.due) - d
             p == Ahead(s, r.dir, left, 1)
  <1>1. /\ h \in Heads /\ S \in Contents /\ s \in Seq(Items) /\ Len(s) \in Nat
        /\ r.seen \in Seq(Items) /\ r.due \in Seq(Items) /\ d \in Nat /\ Len(r.due) \in Nat
        /\ r.dir \in {"next", "prev"} /\ (k = "hlist" => r.dir = "next") /\ k \in {"list", "hlist"}
    <2>1. r \in Loops /\ (k = "hlist" => r.dir = "next") /\ k \in {"list", "hlist"}
      BY DEF Looping, Holds
    <2>2. S \in Contents
      BY Reads
    <2> QED
      BY <2>1, <2>2 DEF Loops, Contents
  <1>2. /\ r.pos = Found(r.due, EndOf(k, h), d) /\ left <= Len(s) /\ d <= Len(r.due)
        /\ \A i \in 1 .. left : r.due[d + i] = s[Ahead(s, r.dir, left, i)]
    BY DEF Looping, Sees
  <1>3. d < Len(r.due) /\ r.pos = r.due[d + 1]
    BY <1>2 DEF Found
  <1>4. left \in Nat /\ 1 \in 1 .. left /\ Len(r.due) = d + left
    BY <1>1, <1>2, <1>3
  <1>5. p \in 1 .. Len(s) /\ p = IF r.dir = "next" THEN Len(s) - left + 1 ELSE left
    <2> HIDE DEF left
    <2> QED
      BY <1>1, <1>2, <1>4 DEF Ahead
  <1>6. r.due[d + 1] \in Items
    BY <1>1, <1>3
  <1> QED
    BY <1>3, <1>5, <1>6

(* A turn: the list is as it was, or without the entry of the turn. *)
LEMMA SeesMore ==
    ASSUME NEW s \in Seq(Items), NEW t \in Seq(Items), NEW dir \in {"next", "prev"},
           NEW seen \in Seq(Items), NEW due \in Seq(Items), Sees(s, dir, seen, due),
           Len(seen) < Len(due), NEW p, Ahead(s, dir, Len(due) - Len(seen), 1) = p,
           \/ t = s
           \/ /\ Len(t) = Len(s) - 1
              /\ \A j \in 1 .. Len(t) : t[j] = IF j < p THEN s[j] ELSE s[j + 1]
    PROVE  Sees(t, dir, Append(seen, due[Len(seen) + 1]), due)
  <1> DEFINE d == Len(seen)
             left == Len(due) - d
             new == Append(seen, due[d + 1])
  <1>1. d \in Nat /\ Len(due) \in Nat /\ left \in Nat /\ left >= 1 /\ Len(s) \in Nat /\ Len(t) \in Nat
    OBVIOUS
  <1>2. /\ left <= Len(s) /\ \A i \in 1 .. d : seen[i] = due[i]
        /\ \A i \in 1 .. left : due[d + i] = s[Ahead(s, dir, left, i)]
    BY DEF Sees
  <1>3. due[d + 1] \in Items
    BY <1>1
  <1>4. Len(new) = d + 1 /\ \A i \in 1 .. d + 1 : new[i] = due[i]
    BY <1>1, <1>2, <1>3
  <1>5. Len(due) - (d + 1) = left - 1 /\ \A i \in 1 .. left - 1 : (d + 1) + i = d + (i + 1)
    BY <1>1
  <1>6. left - 1 <= Len(t)
    BY <1>1, <1>2
  <1>7. ASSUME NEW i \in 1 .. left - 1
        PROVE  due[(d + 1) + i] = t[Ahead(t, dir, left - 1, i)]
    <2>1. i + 1 \in 1 .. left /\ due[(d + 1) + i] = s[Ahead(s, dir, left, i + 1)]
      BY <1>1, <1>2, <1>5
    <2>2. CASE t = s
      <3>1. Ahead(t, dir, left - 1, i) = Ahead(s, dir, left, i + 1)
        BY <1>1, <2>2 DEF Ahead
      <3> QED
        BY <2>1, <2>2, <3>1
    <2>3. CASE /\ Len(t) = Len(s) - 1
               /\ \A j \in 1 .. Len(t) : t[j] = IF j < p THEN s[j] ELSE s[j + 1]
      <3>1. CASE dir = "next"
        <4> DEFINE j == Ahead(t, dir, left - 1, i)
        <4>1. j \in 1 .. Len(t) /\ ~(j < p) /\ j + 1 = Ahead(s, dir, left, i + 1)
          BY <1>1, <1>2, <2>3, <3>1 DEF Ahead
        <4> HIDE DEF j
        <4> QED
          BY <2>1, <2>3, <4>1 DEF j
      <3>2. CASE dir = "prev"
        <4> DEFINE j == Ahead(t, dir, left - 1, i)
        <4>1. j \in 1 .. Len(t) /\ j < p /\ j = Ahead(s, dir, left, i + 1)
          BY <1>1, <1>2, <2>3, <3>2 DEF Ahead
        <4> HIDE DEF j
        <4> QED
          BY <2>1, <2>3, <4>1 DEF j
      <3> QED
        BY <3>1, <3>2, Zenon
    <2> QED
      BY <2>2, <2>3
  <1> HIDE DEF new
  <1>8. Sees(t, dir, new, due)
    <2>1. \A i \in 1 .. Len(due) - Len(new) : due[Len(new) + i] = t[Ahead(t, dir, Len(due) - Len(new), i)]
      BY <1>4, <1>5, <1>7
    <2> QED
      BY <1>1, <1>4, <1>5, <1>6, <2>1 DEF Sees
  <1> QED
    BY <1>8 DEF new

LEMMA DueLeads ==
    ASSUME NEW k, NEW m, NEW S, Holds(k, m, S), NEW h \in Heads, NEW dir \in {"next", "prev"},
           k = "hlist" => dir = "next",
           NEW D, (IF dir = "next" THEN S[h] ELSE Reverse(S[h])) = D
    PROVE  /\ D \in Seq(Items) /\ Len(D) = Len(S[h])
           /\ \A i \in 1 .. Len(D) : D[i] = S[h][Ahead(S[h], dir, Len(D), i)]
           /\ m[dir][h] = Found(D, EndOf(k, h), 0)
           /\ \A i \in 1 .. Len(D) : m[dir][D[i]] = Found(D, EndOf(k, h), i)
  <1>0. S \in Contents /\ S[h] \in Seq(Items) /\ Len(S[h]) \in Nat /\ k \in {"list", "hlist"}
    <2>1. S \in Contents
      BY Reads
    <2>2. k \in {"list", "hlist"}
      BY DEF Holds
    <2> QED
      BY <2>1, <2>2 DEF Contents
  <1>1. /\ \A i \in 1 .. Len(S[h]) :
              /\ m.next[S[h][i]] = IF i < Len(S[h]) THEN S[h][i + 1] ELSE EndOf(k, h)
              /\ k = "list" => m.prev[S[h][i]] = IF i > 1 THEN S[h][i - 1] ELSE h
    BY EntryLeads
  <1>2. /\ m.next[h] = IF 0 < Len(S[h]) THEN S[h][1] ELSE EndOf(k, h)
        /\ k = "list" => m.prev[h] = IF 0 < Len(S[h]) THEN S[h][Len(S[h])] ELSE h
    <2>1. CASE k = "list"
      <3>1. m.next[h] = Place(S, h, 1) /\ m.prev[h] = Place(S, h, Len(S[h]))
        BY <2>1, RingEnds DEF Holds, ListHolds
      <3> QED
        BY <1>0, <2>1, <3>1 DEF Place, EndOf
    <2>2. CASE k = "hlist"
      <3>1. m.next[h] = After(S, h, 0)
        BY <2>2, ChainLinks DEF Holds, HlistHolds
      <3> QED
        BY <2>2, <3>1 DEF After, EndOf
    <2> QED
      BY <2>1, <2>2, <1>0
  <1>3. CASE dir = "next"
    <2>1. D = S[h]
      BY <1>3
    <2>2. \A i \in 1 .. Len(D) : Ahead(S[h], dir, Len(D), i) = i
      BY <1>0, <1>3, <2>1 DEF Ahead
    <2> QED
      BY <1>0, <1>1, <1>2, <1>3, <2>1, <2>2 DEF Found
  <1>4. CASE dir = "prev"
    <2>0. k = "list" /\ EndOf(k, h) = h
      BY <1>0, <1>4 DEF EndOf
    <2>1. D = [i \in 1 .. Len(S[h]) |-> S[h][(Len(S[h]) - i) + 1]]
      BY <1>4 DEF Reverse
    <2>2. \A i \in 1 .. Len(S[h]) : (Len(S[h]) - i) + 1 \in 1 .. Len(S[h])
      BY <1>0
    <2>3. D \in [1 .. Len(S[h]) -> Items]
      BY <1>0, <2>1, <2>2
    <2>4. D \in Seq(Items) /\ Len(D) = Len(S[h])
      BY <1>0, <2>3
    <2>5. \A i \in 1 .. Len(D) : D[i] = S[h][(Len(S[h]) - i) + 1]
      BY <2>1, <2>4
    <2>6. \A i \in 1 .. Len(D) : D[i] = S[h][Ahead(S[h], dir, Len(D), i)]
      BY <1>4, <2>4, <2>5 DEF Ahead
    <2>7. m.prev[h] = Found(D, h, 0)
      <3>1. 0 < Len(S[h]) => 1 \in 1 .. Len(D) /\ (Len(S[h]) - 1) + 1 = Len(S[h])
        BY <1>0, <2>4
      <3> QED
        BY <1>2, <2>0, <2>4, <2>5, <3>1 DEF Found
    <2>8. ASSUME NEW i \in 1 .. Len(D) PROVE m.prev[D[i]] = Found(D, h, i)
      <3> DEFINE j == (Len(S[h]) - i) + 1
      <3>1. j \in 1 .. Len(S[h]) /\ D[i] = S[h][j]
        BY <2>2, <2>4, <2>5
      <3>2. m.prev[D[i]] = IF j > 1 THEN S[h][j - 1] ELSE h
        BY <1>1, <2>0, <3>1
      <3>3. i < Len(D) => i + 1 \in 1 .. Len(D) /\ (Len(S[h]) - (i + 1)) + 1 = j - 1 /\ j > 1
        BY <1>0, <2>4
      <3>4. ~(i < Len(D)) => ~(j > 1)
        BY <1>0, <2>4
      <3> HIDE DEF j
      <3> QED
        BY <2>5, <3>2, <3>3, <3>4 DEF Found
    <2> QED
      BY <1>4, <2>0, <2>4, <2>6, <2>7, <2>8
  <1> QED
    BY <1>3, <1>4

LEMMA DueFrom ==
    ASSUME NEW s \in Seq(Items), NEW D \in Seq(Items), Len(D) = Len(s), NEW dir \in {"next", "prev"},
           \A i \in 1 .. Len(D) : D[i] = s[Ahead(s, dir, Len(D), i)],
           NEW i \in 0 .. Len(D), NEW end
    PROVE  /\ SubSeq(D, i + 1, Len(D)) \in Seq(Items)
           /\ Sees(s, dir, <<>>, SubSeq(D, i + 1, Len(D)))
           /\ Found(SubSeq(D, i + 1, Len(D)), end, 0) = Found(D, end, i)
  <1> DEFINE due == SubSeq(D, i + 1, Len(D))
  <1>1. Len(s) \in Nat /\ Len(D) \in Nat /\ i \in Nat /\ i <= Len(D)
    OBVIOUS
  <1>2. /\ due \in Seq(Items) /\ Len(due) = Len(D) - i
        /\ \A j \in 1 .. Len(D) - i : due[j] = D[i + j]
    <2>1. due = [j \in 1 .. Len(D) - i |-> D[i + j]]
      BY <1>1
    <2>2. due \in [1 .. Len(D) - i -> Items] /\ Len(D) - i \in Nat
      <3>1. \A j \in 1 .. Len(D) - i : i + j \in 1 .. Len(D)
        BY <1>1
      <3>2. \A j \in 1 .. Len(D) : D[j] \in Items
        BY <1>1
      <3>3. \A j \in 1 .. Len(D) - i : D[i + j] \in Items
        BY <3>1, <3>2, Zenon
      <3>4. Len(D) - i \in Nat
        BY <1>1
      <3> HIDE DEF due
      <3> QED
        BY <2>1, <3>3, <3>4
    <2>3. \A j \in 1 .. Len(D) - i : due[j] = D[i + j]
      BY <2>1
    <2> HIDE DEF due
    <2>4. due \in Seq(Items) /\ Len(due) = Len(D) - i
      BY <2>2, AsSequence
    <2> QED
      BY <2>3, <2>4
  <1> HIDE DEF due
  <1>3. ASSUME NEW j \in 1 .. Len(D) - i PROVE due[j] = s[Ahead(s, dir, Len(D) - i, j)]
    <2>1. i + j \in 1 .. Len(D) /\ Ahead(s, dir, Len(D) - i, j) = Ahead(s, dir, Len(D), i + j)
      BY <1>1 DEF Ahead
    <2> QED
      BY <1>2, <2>1
  <1>4. Sees(s, dir, <<>>, due)
    <2>1. Len(<<>>) = 0 /\ Len(due) - 0 = Len(D) - i /\ Len(due) \in Nat
      BY <1>1, <1>2
    <2>2. \A j \in 1 .. Len(D) - i : 0 + j = j
      OBVIOUS
    <2> QED
      BY <1>1, <1>2, <1>3, <2>1, <2>2 DEF Sees
  <1>5. Found(due, end, 0) = Found(D, end, i)
    <2>1. i < Len(D) => 1 \in 1 .. Len(D) - i /\ 0 < Len(due)
      BY <1>1, <1>2
    <2>2. ~(i < Len(D)) => ~(0 < Len(due))
      BY <1>1, <1>2
    <2> QED
      BY <1>2, <2>1, <2>2 DEF Found
  <1> QED
    BY <1>2, <1>4, <1>5 DEF due

LEMMA Unmoved ==
    ASSUME l' = l, kind' = kind, Holds(kind, l, Content)
    PROVE  Content' = Content /\ Holds(kind, l, Content)'
  BY DEF Content, Sequence, Holds

LEMMA StepLeads ==
    ASSUME NEW m \in Links, NEW dir \in {"next", "prev"}, NEW p \in Nodes \cup {NULL}
    PROVE  Step(m[dir], p) \in Nodes \cup {NULL, Poison1, Poison2}
  BY DEF Links, Step

LEMMA BeginHolds ==
    ASSUME Holds(kind, l, Content), NEW h \in Heads, NEW dir \in Dirs, NEW safe \in BOOLEAN, NEW pos,
           NEW due \in Seq(Items), Begin(h, dir, safe, pos, due),
           Sees(Content[h], dir, <<>>, due), pos = Found(due, EndOf(kind, h), 0)
    PROVE  /\ Content' = Content /\ op' = op /\ l' = l /\ kind' = kind
           /\ Holds(kind, l, Content)' /\ LoopHolds'
  <1>0. l' = l /\ op' = op /\ kind' = kind /\ dir \in {"next", "prev"} /\ (kind = "hlist" => dir = "next")
    BY DEF Begin, Dirs
  <1>1. Content' = Content /\ Holds(kind, l, Content)'
    BY <1>0, Unmoved
  <1> DEFINE r == [head |-> h, dir |-> dir, safe |-> safe, pos |-> pos,
                   n |-> Step(l[dir], pos), seen |-> <<>>, due |-> due]
  <1>2. loop' = <<r>>
    BY DEF Begin
  <1>3. pos \in Nodes \cup {NULL}
    BY DEF Found, EndOf, Nodes
  <1>4. Step(l[dir], pos) \in Nodes \cup {NULL, Poison1, Poison2}
    BY <1>0, <1>3, Reads, StepLeads
  <1>5. r \in Loops
    BY <1>0, <1>3, <1>4 DEF Loops
  <1>6. /\ r.head = h /\ r.dir = dir /\ r.seen = <<>> /\ r.due = due /\ r.pos = pos
        /\ r.n = Step(l[dir], pos) /\ Len(<<>>) = 0
    OBVIOUS
  <1> HIDE DEF r
  <1>7. Looping(kind, Content, r) /\ r.n = Step(l[r.dir], r.pos)
    BY <1>0, <1>5, <1>6 DEF Looping
  <1>8. Looping(kind', Content', r) /\ r.n = Step(l'[r.dir], r.pos)
    BY <1>0, <1>1, <1>7
  <1> QED
    BY <1>0, <1>1, <1>2, <1>8 DEF LoopHolds

LEMMA BeginAtHeadHolds ==
    ASSUME Holds(kind, l, Content), BeginAtHead
    PROVE  /\ Content' = Content /\ op' = op /\ l' = l /\ kind' = kind
           /\ Holds(kind, l, Content)' /\ LoopHolds'
  <1>1. PICK h \in Heads, dir \in Dirs, safe \in BOOLEAN : Begin(h, dir, safe, l[dir][h], Due(h, dir))
    BY DEF BeginAtHead
  <1>2. dir \in {"next", "prev"} /\ (kind = "hlist" => dir = "next")
    BY DEF Dirs
  <1> DEFINE D == Due(h, dir)
  <1>3. (IF dir = "next" THEN Content[h] ELSE Reverse(Content[h])) = D
    BY ContentRead DEF Due
  <1>4. Content[h] \in Seq(Items)
    BY Reads DEF Contents
  <1> HIDE DEF D
  <1>5. /\ D \in Seq(Items) /\ Len(D) = Len(Content[h])
        /\ \A i \in 1 .. Len(D) : D[i] = Content[h][Ahead(Content[h], dir, Len(D), i)]
        /\ l[dir][h] = Found(D, EndOf(kind, h), 0)
    BY <1>2, <1>3, DueLeads
  <1>6. 0 \in 0 .. Len(D) /\ SubSeq(D, 0 + 1, Len(D)) = D
    BY <1>5
  <1>7. \A end : Sees(Content[h], dir, <<>>, SubSeq(D, 0 + 1, Len(D)))
    BY <1>2, <1>4, <1>5, <1>6, DueFrom
  <1>8. Sees(Content[h], dir, <<>>, D)
    BY <1>6, <1>7
  <1> QED
    BY <1>1, <1>5, <1>8, BeginHolds DEF D

LEMMA BeginAtEntryHolds ==
    ASSUME Holds(kind, l, Content), BeginAtEntry
    PROVE  /\ Content' = Content /\ op' = op /\ l' = l /\ kind' = kind
           /\ Holds(kind, l, Content)' /\ LoopHolds'
  <1>1. PICK h \in Heads, dir \in Dirs, safe \in BOOLEAN :
            \E i \in DOMAIN Sequence(h) :
               \/ Begin(h, dir, safe, l[dir][Due(h, dir)[i]], SubSeq(Due(h, dir), i + 1, Len(Due(h, dir))))
               \/ Begin(h, dir, safe, Due(h, dir)[i], SubSeq(Due(h, dir), i, Len(Due(h, dir))))
    BY DEF BeginAtEntry
  <1> DEFINE D == Due(h, dir)
  <1>2. PICK i \in DOMAIN Sequence(h) :
               \/ Begin(h, dir, safe, l[dir][D[i]], SubSeq(D, i + 1, Len(D)))
               \/ Begin(h, dir, safe, D[i], SubSeq(D, i, Len(D)))
    BY <1>1
  <1>3. dir \in {"next", "prev"} /\ (kind = "hlist" => dir = "next")
    BY DEF Dirs
  <1>4. (IF dir = "next" THEN Content[h] ELSE Reverse(Content[h])) = D
    BY ContentRead DEF Due
  <1>5. Content[h] \in Seq(Items) /\ Sequence(h) = Content[h]
    BY Reads, ContentRead DEF Contents
  <1> HIDE DEF D
  <1>6. /\ D \in Seq(Items) /\ Len(D) = Len(Content[h])
        /\ \A j \in 1 .. Len(D) : D[j] = Content[h][Ahead(Content[h], dir, Len(D), j)]
        /\ \A j \in 1 .. Len(D) : l[dir][D[j]] = Found(D, EndOf(kind, h), j)
    BY <1>3, <1>4, DueLeads
  <1>7. i \in 1 .. Len(D) /\ i \in 0 .. Len(D) /\ i - 1 \in 0 .. Len(D) /\ (i - 1) + 1 = i
    BY <1>5, <1>6
  <1>8. ASSUME NEW j \in 0 .. Len(D)
        PROVE  /\ SubSeq(D, j + 1, Len(D)) \in Seq(Items)
               /\ Sees(Content[h], dir, <<>>, SubSeq(D, j + 1, Len(D)))
               /\ Found(SubSeq(D, j + 1, Len(D)), EndOf(kind, h), 0) = Found(D, EndOf(kind, h), j)
    <2> DEFINE s == Content[h]
               end == EndOf(kind, h)
    <2>1. s \in Seq(Items) /\ Len(D) = Len(s) /\ \A x \in 1 .. Len(D) : D[x] = s[Ahead(s, dir, Len(D), x)]
      BY <1>5, <1>6
    <2> HIDE DEF s, end
    <2>2. dir \in {"next", "prev"} /\ D \in Seq(Items)
      BY <1>3, <1>6
    <2>3. \A e : /\ SubSeq(D, j + 1, Len(D)) \in Seq(Items)
                 /\ Sees(s, dir, <<>>, SubSeq(D, j + 1, Len(D)))
                 /\ Found(SubSeq(D, j + 1, Len(D)), e, 0) = Found(D, e, j)
      BY <2>1, <2>2, DueFrom
    <2> QED
      BY <2>3 DEF s, end
  <1>9. CASE Begin(h, dir, safe, l[dir][D[i]], SubSeq(D, i + 1, Len(D)))
    <2>1. l[dir][D[i]] = Found(SubSeq(D, i + 1, Len(D)), EndOf(kind, h), 0)
      BY <1>6, <1>7, <1>8
    <2> QED
      BY <1>7, <1>8, <1>9, <2>1, BeginHolds
  <1>10. CASE Begin(h, dir, safe, D[i], SubSeq(D, i, Len(D)))
    <2>1. D[i] = Found(D, EndOf(kind, h), i - 1)
      BY <1>6, <1>7 DEF Found
    <2>2. /\ SubSeq(D, i, Len(D)) \in Seq(Items)
          /\ Sees(Content[h], dir, <<>>, SubSeq(D, i, Len(D)))
          /\ D[i] = Found(SubSeq(D, i, Len(D)), EndOf(kind, h), 0)
      BY <1>7, <1>8, <2>1
    <2> QED
      BY <1>10, <2>2, BeginHolds
  <1> QED
    BY <1>2, <1>9, <1>10

(* What a body does to the lists: nothing, or what Effect says of a call   *)
(* that takes the entry of the turn away; never anything else to the list  *)
(* the loop goes over.                                                     *)
LEMMA BodyHolds ==
    ASSUME Holds(kind, l, Content), UNCHANGED kind, Body, loop # <<>>, NEW h \in Heads,
           loop[1].head = h, NEW i \in 1 .. Len(Content[h]), Content[h][i] = At
    PROVE  /\ ~loop[1].safe => UNCHANGED <<l, op>>
           /\ \/ UNCHANGED <<l, op>>
              \/ /\ Obeys
                 /\ Abstract!Effect(Content, op')[h] = Abstract!Drop(Content, At)[h]
  <1> DEFINE S == Content
             e == S[h][i]
  <1>0. S \in Contents
    BY Reads
  <1>1. CASE UNCHANGED <<l, op>>
    BY <1>1
  <1>2. CASE /\ loop[1].safe /\ kind = "list"
             /\ \/ TakeOut(list_del(l, At)) \/ TakeOut(list_del_init(l, At))
                \/ \E g \in Heads \ {loop[1].head} : Depart(list_move(l, At, g), g)
    <2>1. ListHolds(l, S)
      BY <1>2 DEF Holds
    <2> HIDE DEF S
    <2>2. CASE TakeOut(list_del(l, At)) \/ TakeOut(list_del_init(l, At))
      <3>1. ListHolds(list_del(l, e), Abstract!Drop(S, e)) /\ ListHolds(list_del_init(l, e), Abstract!Drop(S, e))
        BY <2>1, HeldDel DEF S
      <3>2. At = e
        BY DEF S
      <3>3. op' = <<"del", e>> /\ ListHolds(l', Abstract!Drop(S, e))
        BY <2>2, <3>1, <3>2 DEF TakeOut
      <3>4. Abstract!Effect(S, <<"del", e>>) = Abstract!Drop(S, e)
        BY DEF Abstract!Effect
      <3> QED
        BY <1>2, <3>2, <3>3, <3>4 DEF Obeys, Holds, S
    <2>3. CASE \E g \in Heads \ {loop[1].head} : Depart(list_move(l, At, g), g)
      <3>1. PICK g \in Heads \ {h} : Depart(list_move(l, At, g), g)
        BY <2>3
      <3> DEFINE T == [Abstract!Drop(S, e) EXCEPT ![g] = <<e>> \o @]
      <3>2. ListHolds(list_move(l, e, g), T)
        BY <2>1, HeldMove DEF S
      <3>3. At = e
        BY DEF S
      <3>4. op' = <<"move", e, g>> /\ ListHolds(l', T)
        BY <3>1, <3>2, <3>3 DEF Depart
      <3>5. Abstract!Effect(S, <<"move", e, g>>) = T
        BY DEF Abstract!Effect
      <3>6. T[h] = Abstract!Drop(S, e)[h]
        <4>1. g # h /\ DOMAIN Abstract!Drop(S, e) = Heads
          BY <3>1 DEF Abstract!Drop
        <4> QED
          BY <4>1
      <3> HIDE DEF T
      <3> QED
        BY <1>2, <3>3, <3>4, <3>5, <3>6 DEF Obeys, Holds, S
    <2> QED
      BY <1>2, <2>2, <2>3
  <1>3. CASE loop[1].safe /\ kind = "hlist" /\ (TakeOut(hlist_del(l, At)) \/ TakeOut(hlist_del_init(l, At)))
    <2>1. HlistHolds(l, S)
      BY <1>3 DEF Holds
    <2> HIDE DEF S
    <2>2. HlistHolds(hlist_del(l, e), Abstract!Drop(S, e)) /\ HlistHolds(hlist_del_init(l, e), Abstract!Drop(S, e))
      BY <2>1, HashedDel DEF S
    <2>3. At = e
      BY DEF S
    <2>4. op' = <<"del", e>> /\ HlistHolds(l', Abstract!Drop(S, e))
      BY <1>3, <2>2, <2>3 DEF TakeOut
    <2>5. Abstract!Effect(S, <<"del", e>>) = Abstract!Drop(S, e)
      BY DEF Abstract!Effect
    <2> QED
      BY <1>3, <2>3, <2>4, <2>5 DEF Obeys, Holds, S
  <1>4. Body <=> \/ UNCHANGED <<l, op>>
                 \/ /\ loop[1].safe /\ kind = "list"
                    /\ \/ TakeOut(list_del(l, At)) \/ TakeOut(list_del_init(l, At))
                       \/ \E g \in Heads \ {loop[1].head} : Depart(list_move(l, At, g), g)
                 \/ loop[1].safe /\ kind = "hlist" /\ (TakeOut(hlist_del(l, At)) \/ TakeOut(hlist_del_init(l, At)))
    BY Zenon DEF Body
  <1> QED
    BY <1>1, <1>2, <1>3, <1>4

LEMMA TurnHolds ==
    ASSUME Holds(kind, l, Content), LoopHolds, Turn
    PROVE  /\ Holds(kind, l, Content)' /\ LoopHolds' /\ kind' = kind
           /\ UNCHANGED <<l, op>> \/ Content' = Abstract!Effect(Content, op')
  <1>0. loop # <<>> /\ kind' = kind /\ Body /\ At # End(loop[1].head)
    BY DEF Turn, Running
  <1>1. PICK r : loop = <<r>> /\ Looping(kind, Content, r) /\ r.n = Step(l[r.dir], r.pos)
    BY <1>0 DEF LoopHolds
  <1> DEFINE h == r.head
             s == Content[h]
             d == Len(r.seen)
             end == EndOf(kind, h)
             p == Ahead(s, r.dir, Len(r.due) - d, 1)
             after == Found(r.due, end, d + 1)
  <1>2. loop[1] = r /\ At = r.pos /\ r.pos # end
    BY <1>0, <1>1 DEF At, End, EndOf
  <1>3. /\ r \in Loops /\ (kind = "hlist" => r.dir = "next") /\ h \in Heads /\ r.dir \in {"next", "prev"}
        /\ r.seen \in Seq(Items) /\ r.due \in Seq(Items) /\ Sees(s, r.dir, r.seen, r.due)
    BY <1>1 DEF Looping, Loops
  <1>4. /\ p \in 1 .. Len(s) /\ r.pos = s[p] /\ r.pos \in Items
        /\ d < Len(r.due) /\ r.pos = r.due[d + 1]
        /\ l[r.dir][r.pos] = after
    <2>1. Holds(kind, l, Content) /\ Looping(kind, Content, r) /\ r.pos # EndOf(kind, r.head)
      BY <1>1, <1>2
    <2>2. d < Len(r.due) /\ r.pos \in Items /\ p \in 1 .. Len(s)
      BY <2>1, LoopAt
    <2>3. r.pos = r.due[d + 1]
      BY <2>1, LoopDue
    <2>4. r.pos = s[p]
      BY <2>1, LoopPlace
    <2>5. l[r.dir][r.pos] = after
      BY <2>1, LoopLeads
    <2> HIDE DEF d, p, s, after
    <2> QED
      BY <2>2, <2>3, <2>4, <2>5
  <1>5. Content \in Contents /\ Apart(Content) /\ l \in Links /\ s \in Seq(Items) /\ Len(s) \in Nat
    BY <1>3, Reads DEF Contents
  <1>6. PICK T : /\ Holds(kind, l', T)
                 /\ (UNCHANGED <<l, op>> /\ T = Content) \/ T = Abstract!Effect(Content, op')
                 /\ T[h] = s \/ T[h] = Abstract!Drop(Content, s[p])[h]
                 /\ ~r.safe => UNCHANGED <<l, op>>
    <2>1. s[p] = At
      BY <1>2, <1>4
    <2>2. /\ ~loop[1].safe => UNCHANGED <<l, op>>
          /\ \/ UNCHANGED <<l, op>>
             \/ /\ Obeys
                /\ Abstract!Effect(Content, op')[h] = Abstract!Drop(Content, At)[h]
      BY <1>0, <1>2, <1>3, <1>4, <2>1, BodyHolds
    <2>3. CASE UNCHANGED <<l, op>>
      BY <2>3
    <2>4. CASE Obeys /\ Abstract!Effect(Content, op')[h] = Abstract!Drop(Content, At)[h]
      BY <1>2, <2>1, <2>2, <2>4 DEF Obeys
    <2> QED
      BY <2>2, <2>3, <2>4
  <1>7. Content' = T /\ Holds(kind, l, Content)'
    BY <1>0, <1>6, AfterCall
  <1>8. /\ T[h] \in Seq(Items)
        /\ \/ T[h] = s
           \/ /\ Len(T[h]) = Len(s) - 1
              /\ \A j \in 1 .. Len(T[h]) : T[h][j] = IF j < p THEN s[j] ELSE s[j + 1]
    <2>1. T \in Contents
      BY <1>6, Reads
    <2>2. Removed(Content, Abstract!Drop(Content, s[p]), h, p)
      BY <1>3, <1>4, <1>5, DropOne
    <2> QED
      BY <1>3, <1>6, <2>1, <2>2 DEF Removed, Contents
  <1>9. Sees(T[h], r.dir, Append(r.seen, r.due[d + 1]), r.due)
    <2> DEFINE t == T[h]
    <2>1. /\ t \in Seq(Items)
          /\ \/ t = s
             \/ Len(t) = Len(s) - 1 /\ \A j \in 1 .. Len(t) : t[j] = IF j < p THEN s[j] ELSE s[j + 1]
      BY <1>8
    <2>2. Ahead(s, r.dir, Len(r.due) - Len(r.seen), 1) = p
      OBVIOUS
    <2>3. s \in Seq(Items) /\ d < Len(r.due)
      BY <1>4, <1>5
    <2> DEFINE due == r.due
               seen == r.seen
    <2>4. /\ due \in Seq(Items) /\ seen \in Seq(Items) /\ r.dir \in {"next", "prev"}
          /\ Sees(s, r.dir, seen, due) /\ Len(seen) < Len(due)
          /\ Ahead(s, r.dir, Len(due) - Len(seen), 1) = p
      BY <1>3, <2>2, <2>3
    <2> HIDE DEF t, s, p, due, seen
    <2>5. CASE t = s
      BY <2>1, <2>3, <2>4, <2>5, SeesMore DEF t, due, seen
    <2>6. CASE Len(t) = Len(s) - 1 /\ \A j \in 1 .. Len(t) : t[j] = IF j < p THEN s[j] ELSE s[j + 1]
      <3>1. Sees(t, r.dir, Append(seen, due[Len(seen) + 1]), due)
        BY <2>1, <2>3, <2>4, <2>6, SeesMore
      <3> QED
        BY <3>1 DEF t, due, seen
    <2> QED
      BY <2>1, <2>5, <2>6
  <1>10. AfterTurn(l'[r.dir]) = after
    <2>1. Step(l[r.dir], r.pos) = after
      BY <1>4 DEF Step, Nodes
    <2>2. r.n = after
      BY <1>1, <2>1
    <2>3. ~r.safe => l' = l
      BY <1>6
    <2> QED
      BY <1>2, <2>1, <2>2, <2>3 DEF AfterTurn
  <1> DEFINE n == Step(l'[r.dir], after)
             q == [r EXCEPT !.pos = after, !.n = n, !.seen = Append(@, r.pos)]
  <1>11. loop' = <<q>>
    BY <1>2, <1>10 DEF Turn
  <1>12. after \in Nodes \cup {NULL}
    <2>1. d \in Nat /\ Len(r.due) \in Nat /\ \A x \in 1 .. Len(r.due) : r.due[x] \in Nodes
      BY <1>3 DEF Nodes
    <2>2. end \in Nodes \cup {NULL}
      BY <1>3 DEF EndOf, Nodes
    <2> QED
      BY <2>1, <2>2 DEF Found
  <1>13. n \in Nodes \cup {NULL, Poison1, Poison2}
    <2>1. l' \in Links
      BY <1>6, Reads
    <2> HIDE DEF after
    <2> QED
      BY <1>3, <1>12, <2>1, StepLeads
  <1>14. /\ q \in Loops /\ q.head = h /\ q.dir = r.dir /\ q.due = r.due /\ q.pos = after /\ q.n = n
         /\ q.seen = Append(r.seen, r.due[d + 1])
    <2>1. Append(r.seen, r.pos) \in Seq(Items)
      BY <1>3, <1>4
    <2> HIDE DEF after, n
    <2> QED
      BY <1>3, <1>4, <1>12, <1>13, <2>1 DEF Loops
  <1>15. Len(q.seen) = d + 1
    BY <1>3, <1>14
  <1> HIDE DEF n, q
  <1>16. Looping(kind, T, q)
    BY <1>3, <1>9, <1>14, <1>15 DEF Looping
  <1>17. LoopHolds'
    <2>1. Looping(kind', Content', q) /\ q.n = Step(l'[q.dir], q.pos)
      BY <1>0, <1>7, <1>14, <1>16 DEF n
    <2> QED
      BY <1>11, <2>1 DEF LoopHolds
  <1> QED
    BY <1>0, <1>6, <1>7, <1>17

-----------------------------------------------------------------------------
(* The invariant: the links hold the sequences they read as, and a loop    *)
(* has seen what was due and is where it should be.                        *)

ListInv == Holds(kind, l, Content) /\ LoopHolds

LEMMA InitHolds ==
    ASSUME Init
    PROVE  ListInv /\ Content = [h \in Heads |-> <<>>]
  <1> DEFINE S == [h \in Heads |-> <<>>]
  <1>1. S \in Contents /\ Apart(S) /\ \A h \in Heads : S[h] = <<>> /\ Len(S[h]) = 0
    BY DEF Contents, Apart
  <1> HIDE DEF S
  <1>2. \A i : \A h \in Heads : ~(i \in 1 .. Len(S[h]))
    BY <1>1
  <1>3. \A i : \A h \in Heads : Place(S, h, i) = h
    BY <1>2 DEF Place
  <1>4. \A h \in Heads : h \in Nodes
    BY DEF Nodes
  <1>5. Holds(kind, l, S)
    <2>1. CASE kind = "list"
      <3>1. l = [next |-> [n \in Nodes |-> n], prev |-> [n \in Nodes |-> n]]
        BY <2>1 DEF Init
      <3>2. l \in Links /\ \A n \in Nodes : l.next[n] = n /\ l.prev[n] = n
        BY <3>1 DEF Links
      <3>3. Rings(l, S)
        BY <1>1, <1>3, <1>4, <3>2 DEF Rings, Ring
      <3> QED
        BY <2>1, <3>2, <3>3 DEF Holds, ListHolds, Off, Nodes
    <2>2. CASE kind = "hlist"
      <3>1. l = [next |-> [n \in Nodes |-> NULL], prev |-> [n \in Nodes |-> NULL]]
        BY <2>2 DEF Init
      <3>2. l \in Links /\ \A n \in Nodes : l.next[n] = NULL /\ l.prev[n] = NULL
        BY <3>1 DEF Links
      <3>3. \A h \in Heads : \A i \in 0 .. Len(S[h]) : After(S, h, i) = NULL
        BY <1>1 DEF After
      <3>4. Chains(l, S)
        BY <1>1, <1>2, <1>3, <1>4, <3>2, <3>3 DEF Chains, Chain
      <3> QED
        BY <2>2, <3>2, <3>4 DEF Holds, HlistHolds, Spare, Nodes
    <2> QED
      BY <2>1, <2>2 DEF Init
  <1>6. Content = S
    BY <1>5, Reads DEF Content, Sequence
  <1>7. LoopHolds
    BY DEF LoopHolds, Init
  <1> QED
    BY <1>5, <1>6, <1>7 DEF ListInv, S

LEMMA StepHolds ==
    ASSUME ListInv, [Next]_vars
    PROVE  /\ ListInv'
           /\ (Content' = Content /\ op' = op) \/ Content' = Abstract!Effect(Content, op')
  <1>0. Holds(kind, l, Content) /\ LoopHolds
    BY DEF ListInv
  <1>1. CASE Calls
    <2>1. Obeys /\ kind' = kind /\ loop' = <<>>
      BY <1>0, <1>1, CallsObey
    <2>2. Content' = Abstract!Effect(Content, op') /\ Holds(kind, l, Content)'
      BY <2>1, AfterCall DEF Obeys
    <2> QED
      BY <2>1, <2>2 DEF ListInv, LoopHolds
  <1>2. CASE BeginAtHead
    BY <1>0, <1>2, BeginAtHeadHolds DEF ListInv
  <1>3. CASE BeginAtEntry
    BY <1>0, <1>3, BeginAtEntryHolds DEF ListInv
  <1>4. CASE Turn
    <2>1. /\ Holds(kind, l, Content)' /\ LoopHolds' /\ kind' = kind
          /\ UNCHANGED <<l, op>> \/ Content' = Abstract!Effect(Content, op')
      BY <1>0, <1>4, TurnHolds
    <2>2. UNCHANGED <<l, op>> => Content' = Content
      BY DEF Content, Sequence
    <2> QED
      BY <2>1, <2>2 DEF ListInv
  <1>5. CASE EndLoop
    <2>1. l' = l /\ op' = op /\ kind' = kind /\ loop' = <<>>
      BY <1>5 DEF EndLoop
    <2>2. Content' = Content /\ Holds(kind, l, Content)'
      BY <1>0, <2>1, Unmoved
    <2> QED
      BY <2>1, <2>2 DEF ListInv, LoopHolds
  <1>6. CASE UNCHANGED vars
    <2>1. l' = l /\ op' = op /\ kind' = kind /\ loop' = loop
      BY <1>6 DEF vars
    <2>2. Content' = Content /\ Holds(kind, l, Content)'
      BY <1>0, <2>1, Unmoved
    <2>3. LoopHolds'
      BY <1>0, <2>1, <2>2 DEF LoopHolds, Step
    <2> QED
      BY <2>1, <2>2, <2>3 DEF ListInv
  <1> QED
    BY <1>1, <1>2, <1>3, <1>4, <1>5, <1>6, Zenon DEF Next, Calls

LEMMA ListsHeld == Spec => []ListInv
  <1>1. Init => ListInv
    BY InitHolds
  <1>2. ListInv /\ [Next]_vars => ListInv'
    BY StepHolds
  <1> QED
    BY <1>1, <1>2, PTL DEF Spec

-----------------------------------------------------------------------------
(* What the invariant says *)

(* Every link leads to a node, to the end or to a mark: no call stores one *)
(* it did not read or was not given.                                       *)
THEOREM ListTypeCorrect == Spec => []TypeOK
  <1>1. ListInv => TypeOK
    <2> SUFFICES ASSUME ListInv PROVE TypeOK
      OBVIOUS
    <2>1. l \in Links /\ kind \in {"list", "hlist"}
      BY Reads DEF ListInv, Holds
    <2> QED
      BY <2>1 DEF TypeOK, Links
  <1> QED
    BY <1>1, ListsHeld, PTL

(* The links back are the links forth reversed, on every list, after every *)
(* call: no call leaves a prev or pprev behind.                            *)
THEOREM LinksGoBothWays == Spec => []WayBack
  <1>1. ListInv => WayBack
    <2> SUFFICES ASSUME ListInv, NEW h \in Heads
                 PROVE  IF kind = "list"
                        THEN /\ Follow(l.prev, h) = Reverse(Sequence(h))
                             /\ l.next[l.prev[h]] = h /\ l.prev[l.next[h]] = h
                        ELSE \A n \in On(h) \cup {h} :
                                 IF l.next[n] = NULL THEN TRUE
                                 ELSE l.next[n] \in Items /\ l.prev[l.next[n]] = n
      BY DEF WayBack
    <2> DEFINE S == Content
    <2>0. Holds(kind, l, S)
      BY DEF ListInv
    <2>1. Sequence(h) = S[h] /\ On(h) = ToSet(S[h])
      BY <2>0, ContentRead
    <2> HIDE DEF S
    <2>2. S \in Contents /\ Len(S[h]) \in Nat /\ DOMAIN S[h] = 1 .. Len(S[h])
      BY <2>0, Reads DEF Contents
    <2>3. CASE kind = "list"
      <3>1. Rings(l, S)
        BY <2>0, <2>3 DEF Holds, ListHolds
      <3>2. Follow(l.prev, h) = Reverse(S[h])
        BY <3>1, RingReads
      <3>3. /\ Place(S, h, 0) = h /\ Place(S, h, Len(S[h]) + 1) = h
            /\ l.next[h] = Place(S, h, 1) /\ l.prev[h] = Place(S, h, Len(S[h]))
        BY <2>2, <3>1, Places, RingEnds
      <3>4. l.next[Place(S, h, Len(S[h]))] = Place(S, h, Len(S[h]) + 1)
        BY <2>2, <3>1 DEF Rings, Ring
      <3>5. l.prev[Place(S, h, 0 + 1)] = Place(S, h, 0) /\ 0 + 1 = 1
        BY <2>2, <3>1 DEF Rings, Ring
      <3> QED
        BY <2>1, <2>3, <3>2, <3>3, <3>4, <3>5
    <2>4. CASE kind = "hlist"
      <3>1. Chains(l, S)
        BY <2>0, <2>4 DEF Holds, HlistHolds
      <3>2. ASSUME NEW i \in 0 .. Len(S[h]), l.next[Place(S, h, i)] # NULL
            PROVE  /\ l.next[Place(S, h, i)] \in Items
                   /\ l.prev[l.next[Place(S, h, i)]] = Place(S, h, i)
        <4>1. l.next[Place(S, h, i)] = After(S, h, i)
          BY <3>1 DEF Chains, Chain
        <4>2. i + 1 \in 1 .. Len(S[h]) /\ After(S, h, i) = S[h][i + 1] /\ (i + 1) - 1 = i
          BY <2>2, <3>2, <4>1 DEF After
        <4>3. S[h][i + 1] \in Items /\ l.prev[S[h][i + 1]] = Place(S, h, (i + 1) - 1)
          BY <3>1, <4>2, ChainLinks
        <4> QED
          BY <4>1, <4>2, <4>3
      <3>3. ASSUME NEW n \in On(h) \cup {h} PROVE \E i \in 0 .. Len(S[h]) : Place(S, h, i) = n
        <4>1. CASE n = h
          BY <2>2, <3>1, <4>1, ChainLinks
        <4>2. CASE n \in ToSet(S[h])
          <5>1. PICK i \in 1 .. Len(S[h]) : S[h][i] = n
            BY <2>2, <4>2 DEF ToSet
          <5>2. Place(S, h, i) = n /\ i \in 0 .. Len(S[h])
            BY <2>2, <5>1 DEF Place
          <5> QED
            BY <5>2
        <4> QED
          BY <2>1, <4>1, <4>2
      <3> QED
        BY <2>4, <3>2, <3>3
    <2> QED
      BY <2>0, <2>3, <2>4 DEF Holds
  <1> QED
    BY <1>1, ListsHeld, PTL

(* list_empty, list_empty_careful, list_is_singular, list_is_last and      *)
(* hlist_empty say of a list what its sequence says, and no entry of an    *)
(* hlist passes for unhashed.                                              *)
THEOREM TestsTellTheTruth == Spec => []TestsAgree
  <1>1. ListInv => TestsAgree
    <2> SUFFICES ASSUME ListInv PROVE TestsAgree
      OBVIOUS
    <2> DEFINE S == Content
    <2>0. Holds(kind, l, S) /\ \A h \in Heads : Sequence(h) = S[h] /\ On(h) = ToSet(S[h])
      BY ContentRead DEF ListInv
    <2>1. \A n \in Linked : \E h \in Heads : \E i \in 1 .. Len(S[h]) : S[h][i] = n
      BY <2>0, ContentRead
    <2> HIDE DEF S
    <2>2. S \in Contents /\ Apart(S)
      BY <2>0, Reads
    <2>3. ASSUME kind = "list", NEW h \in Heads
          PROVE  /\ list_empty(l, h) <=> Sequence(h) = <<>>
                 /\ list_empty_careful(l, h) <=> Sequence(h) = <<>>
                 /\ list_is_singular(l, h) <=> Len(Sequence(h)) = 1
                 /\ \A n \in On(h) : list_is_last(l, n, h) <=> n = Last(Sequence(h))
      <3> DEFINE s == S[h]
      <3>1. Rings(l, S) /\ Sequence(h) = s /\ On(h) = ToSet(s)
        BY <2>0, <2>3 DEF Holds, ListHolds
      <3>2. /\ Len(s) \in Nat /\ DOMAIN s = 1 .. Len(s) /\ (s = <<>> <=> Len(s) = 0)
            /\ l.next[h] = h <=> s = <<>>
            /\ s = <<>> => l.prev[h] = h
            /\ \A i \in 1 .. Len(s) : s[i] \in Items
        BY <2>2, <3>1, RingEnds, Places DEF Contents
      <3>3. s # <<>> => 1 \in 1 .. Len(s) /\ Len(s) \in 1 .. Len(s) /\ l.next[h] = s[1] /\ l.prev[h] = s[Len(s)]
        BY <3>1, <3>2, RingEnds DEF Place
      <3>4. \A i, j \in 1 .. Len(s) : s[i] = s[j] <=> i = j
        BY <2>2 DEF Apart
      <3>5. ASSUME NEW i \in 1 .. Len(s) PROVE l.next[s[i]] = h <=> i = Len(s)
        <4>1. l.next[s[i]] = IF i < Len(s) THEN s[i + 1] ELSE h
          BY <2>0, <2>3, EntryLeads DEF EndOf
        <4>2. i < Len(s) => s[i + 1] # h
          <5>1. i < Len(s) => i + 1 \in 1 .. Len(s)
            BY <3>2
          <5> QED
            BY <3>2, <5>1, ListAssumption
        <4> QED
          BY <3>2, <4>1, <4>2
      <3> HIDE DEF s
      <3>6. (list_empty(l, h) <=> s = <<>>) /\ (list_empty_careful(l, h) <=> s = <<>>)
        BY <3>2 DEF list_empty, list_empty_careful
      <3>7. list_is_singular(l, h) <=> Len(s) = 1
        <4>1. CASE s = <<>>
          BY <3>2, <3>6, <4>1 DEF list_is_singular
        <4>2. CASE s # <<>>
          BY <3>2, <3>3, <3>4, <3>6, <4>2 DEF list_is_singular
        <4> QED
          BY <4>1, <4>2
      <3>8. ASSUME NEW n \in ToSet(s) PROVE list_is_last(l, n, h) <=> n = Last(s)
        <4>1. PICK i \in 1 .. Len(s) : s[i] = n
          BY <3>2 DEF ToSet
        <4>2. Last(s) = s[Len(s)] /\ Len(s) \in 1 .. Len(s)
          BY <3>2, <4>1 DEF Last
        <4> QED
          BY <3>4, <3>5, <4>1, <4>2 DEF list_is_last
      <3> QED
        BY <3>1, <3>6, <3>7, <3>8
    <2>4. ASSUME kind = "hlist"
          PROVE  /\ \A h \in Heads : hlist_empty(l, h) <=> Sequence(h) = <<>>
                 /\ \A n \in Linked : ~hlist_unhashed(l, n)
      <3>1. HlistHolds(l, S) /\ Chains(l, S)
        BY <2>0, <2>4 DEF Holds, HlistHolds
      <3>2. ASSUME NEW h \in Heads PROVE hlist_empty(l, h) <=> Sequence(h) = <<>>
        <4>1. /\ l.next[h] = After(S, h, 0) /\ Len(S[h]) \in Nat /\ (S[h] = <<>> <=> Len(S[h]) = 0)
              /\ \A i \in 1 .. Len(S[h]) : S[h][i] \in Items
          BY <2>2, <3>1, ChainLinks DEF Contents
        <4>2. After(S, h, 0) = NULL <=> S[h] = <<>>
          <5>1. S[h] # <<>> => 1 \in 1 .. Len(S[h]) /\ After(S, h, 0) = S[h][1]
            BY <4>1 DEF After
          <5>2. S[h] = <<>> => After(S, h, 0) = NULL
            BY <4>1 DEF After
          <5> QED
            BY <4>1, <5>1, <5>2, ListAssumption
        <4> QED
          BY <2>0, <4>1, <4>2 DEF hlist_empty
      <3>3. ASSUME NEW n \in Linked PROVE ~hlist_unhashed(l, n)
        <4>1. PICK h \in Heads : \E i \in 1 .. Len(S[h]) : S[h][i] = n
          BY <2>1
        <4> QED
          BY <3>1, <4>1, HashedDel
      <3> QED
        BY <3>2, <3>3
    <2> QED
      BY <2>3, <2>4 DEF TestsAgree
  <1> QED
    BY <1>1, ListsHeld, PTL

(* A loop over a list, in either direction, from the head or from within,  *)
(* sees every entry that was due, once and in order, though the body of a  *)
(* _safe loop deletes the entry of the turn or moves it to another list.   *)
THEOREM LoopsSeeAll == Spec => []LoopSeesAll
  <1>1. ListInv => LoopSeesAll
    <2> SUFFICES ASSUME ListInv, loop # <<>>
                 PROVE  /\ IsPrefix(loop[1].seen, loop[1].due)
                        /\ ~Running => loop[1].seen = loop[1].due
      BY DEF LoopSeesAll
    <2>1. PICK r : loop = <<r>> /\ Looping(kind, Content, r)
      BY DEF ListInv, LoopHolds
    <2>2. loop[1] = r /\ (Running <=> r.pos # EndOf(kind, r.head))
      BY <2>1 DEF Running, At, End, EndOf
    <2>3. /\ r.seen \in Seq(Items) /\ r.due \in Seq(Items) /\ r.head \in Heads
          /\ Len(r.seen) \in Nat /\ Len(r.due) \in Nat /\ Len(r.seen) <= Len(r.due)
          /\ \A i \in 1 .. Len(r.seen) : r.seen[i] = r.due[i]
      BY <2>1 DEF Looping, Loops, Sees
    <2>4. SubSeq(r.seen, 1, Len(r.seen)) = SubSeq(r.due, 1, Len(r.seen))
      <3> DEFINE a == r.seen
                 b == SubSeq(r.due, 1, Len(r.seen))
      <3>1. b \in Seq(Items) /\ Len(b) = Len(a) /\ \A i \in 1 .. Len(a) : b[i] = r.due[i]
        BY <2>3
      <3>2. SubSeq(a, 1, Len(a)) = a
        BY <2>3
      <3> HIDE DEF b
      <3>3. a = b
        BY <2>3, <3>1, SequencesEqual
      <3> QED
        BY <3>2, <3>3 DEF b
    <2>5. ASSUME ~Running PROVE r.seen = r.due
      <3>1. Found(r.due, EndOf(kind, r.head), Len(r.seen)) = EndOf(kind, r.head)
        BY <2>1, <2>2, <2>5 DEF Looping
      <3>2. EndOf(kind, r.head) \notin Items
        BY <2>3, ListAssumption DEF EndOf
      <3>3. Len(r.seen) < Len(r.due) => r.due[Len(r.seen) + 1] \in Items
        BY <2>3
      <3>4. Len(r.seen) = Len(r.due)
        BY <2>3, <3>1, <3>2, <3>3 DEF Found
      <3> QED
        BY <2>3, <3>4, SequencesEqual
    <2> QED
      BY <2>2, <2>3, <2>4, <2>5 DEF IsPrefix
  <1> QED
    BY <1>1, ListsHeld, PTL

(* The links implement the sequences of module Lists: each call of list.h  *)
(* does to the sequence of its list what its name says, and nothing to any *)
(* other.                                                                  *)
THEOREM LinksImplementLists == Spec => ImplementsLists
  <1>1. Init => Abstract!Init
    BY InitHolds DEF Abstract!Init, Content, Init
  <1>2. ListInv /\ [Next]_vars => [Abstract!Next]_<<Content, op>>
    <2> SUFFICES ASSUME ListInv, [Next]_vars PROVE [Abstract!Next]_<<Content, op>>
      OBVIOUS
    <2>1. (Content' = Content /\ op' = op) \/ Content' = Abstract!Effect(Content, op')
      BY StepHolds
    <2> QED
      BY <2>1 DEF Abstract!Next, Content
  <1> QED
    BY <1>1, <1>2, ListsHeld, PTL DEF Spec, ImplementsLists, Abstract!Spec, Content
=============================================================================
