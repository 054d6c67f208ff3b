----------------------------- MODULE Heap_proofs -----------------------------
(***************************************************************************)
(* The heap of malloc.c for every size of the memory, of a page and of the *)
(* bins, every request and every order of calls: HeapInv is an inductive   *)
(* invariant, and what the heap promises follows from it.                  *)
(*                                                                         *)
(* The lemmas go up from the data to the calls: how chunks lie side by     *)
(* side (Laid), bins (Binned), tags (Tagged), a heap between two calls     *)
(* (Good), and then the break, free, malloc, realloc and memalign, each    *)
(* from a good heap to a good heap.  At the end are the steps of the       *)
(* program, the theorems, and the arithmetic of sizes at its edges.        *)
(***************************************************************************)
EXTENDS HeapInvariant, FiniteSetTheorems, SequenceTheorems, WellFoundedInduction, TLAPS

-----------------------------------------------------------------------------
(* The layout of a heap *)

LEMMA Constants ==
    /\ Start \in Nat \ {0} /\ End \in Nat /\ Start + 8 <= End
    /\ Word \in Nat /\ Half \in Nat /\ Word = 2 * Half
    /\ Page \in Nat \ {0} /\ Page % 2 = 0 /\ Word % Page = 0 /\ End + Page < Half
    /\ MaxSmall \in Nat /\ MaxSmall % 2 = 0 /\ MaxSmall > 6
    /\ LargeWidth \in Nat \ {0} /\ LastBin \in Nat /\ MaxSmall \div 2 + 2 <= LastBin
  BY MallocAssumption DEF Half

(* A chunk cut in two *)
LEMMA SplitLaid ==
    ASSUME NEW C, NEW S, NEW z, NEW top, NEW brk, NEW heads, NEW F,
           Laid(C, S, z, top, brk, heads, F),
           NEW p \in C, NEW nb \in Nat, nb >= MINSIZE, nb % 2 = 0, z[p] - nb >= MINSIZE
    PROVE  /\ Laid(C \cup {p + nb}, S, [z EXCEPT ![p] = nb, ![p + nb] = z[p] - nb],
                   top, brk, heads, F)
           /\ p + nb \notin Pieces(C, S, top)
<1> DEFINE q == p + nb
           z2 == [z EXCEPT ![p] = nb, ![q] = z[p] - nb]
           P == Pieces(C, S, top)
<1>1. p \in Nat /\ q \in Nat /\ q # p /\ P \subseteq Nat /\ p \in P /\ z[p] \in Nat
      /\ brk \in Nat BY Constants DEF Laid, Pieces, MINSIZE
<1>2. q \notin P BY <1>1 DEF Laid, Pieces, Beyond, MINSIZE
<1>3. z2[p] = nb /\ z2[q] = z[p] - nb /\ \A x \in P \ {p} : z2[x] = z[x]
  BY <1>1, <1>2 DEF Laid
<1>4. Pieces(C \cup {q}, S, top) = P \cup {q} BY DEF Pieces
<1>5. p \notin S /\ q \notin S /\ top # p /\ top # q
  BY <1>1, <1>2, Constants DEF Laid, Pieces, TopAt, InitialTop, MINSIZE
<1>6. /\ Beyond(S, z2, p) = q /\ Beyond(S, z2, q) = Beyond(S, z, p)
      /\ \A x \in P \ {p} : Beyond(S, z2, x) = Beyond(S, z, x)
  <2>1. z2[p] = nb /\ z2[q] = z[p] - nb /\ \A x \in P \ {p} : z2[x] = z[x] BY <1>3
  <2> HIDE DEF z2, P
  <2> QED BY <1>1, <1>5, <2>1 DEF Beyond
<1>7. z2 \in [Nat -> Nat] BY <1>1 DEF Laid, MINSIZE
<1>8. /\ p < q /\ q < Beyond(S, z, p) /\ Beyond(S, z, p) = p + z[p]
      /\ \A x, y \in P : x < y => Beyond(S, z, x) <= y
      /\ \A x \in P : Beyond(S, z, x) <= brk BY <1>1, <1>5 DEF Laid, Beyond, MINSIZE
<1>9. \A x \in P : Beyond(S, z, x) \in Nat /\ x < Beyond(S, z, x)
  BY <1>1 DEF Laid, Beyond, IsChunk, Pieces, MINSIZE
<1> HIDE DEF z2, q, P
<1>10. \A x, y \in P \cup {q} : x < y => Beyond(S, z2, x) <= y
  <2>1. \A x \in P : x < q => x = p \/ Beyond(S, z, x) <= q BY <1>1, <1>8, <1>9
  <2>2. \A y \in P : q < y => Beyond(S, z, p) <= y BY <1>1, <1>8
  <2> QED BY <1>1, <1>2, <1>6, <1>8, <2>1, <2>2
<1>11. \A x \in P \cup {q} : Beyond(S, z2, x) <= brk BY <1>1, <1>2, <1>6, <1>8, <1>9
<1>12. P \cup {q} \subseteq Start .. End BY <1>1, <1>8, Constants DEF Laid, P
<1>13. \A x \in (C \cup {q}) \cup TopAt(top) : IsChunk(z2, x)
  <2>1. p % 2 = 0 /\ z[p] % 2 = 0 /\ q % 2 = 0 /\ (z[p] - nb) % 2 = 0
    BY <1>1 DEF Laid, IsChunk, q
  <2>2. IsChunk(z2, q) /\ IsChunk(z2, p) BY <1>3, <2>1 DEF IsChunk
  <2>3. \A x \in C \cup TopAt(top) : x \in P BY DEF P, Pieces
  <2> QED BY <1>3, <2>2, <2>3 DEF Laid, IsChunk
<1>14. \A x \in S : z2[x] = z[x] BY <1>3, <1>5 DEF P, Pieces
<1>15. \A c \in C \cup {q} : c + z2[c] \in P \cup {q}
  <2>1. q + z2[q] = p + z[p] /\ p + z2[p] = q BY <1>1, <1>3 DEF q
  <2> QED BY <1>3, <2>1 DEF Laid, P, Pieces
<1>16. \A w \in F : \A x \in P \cup {q} : w < x \/ w >= Beyond(S, z2, x)
  BY <1>1, <1>2, <1>6, <1>8, <1>9, Constants DEF Laid, P
<1>17. \A c \in C \cup {q} : c + z2[c] \notin heads
  <2>1. q + z2[q] = p + z[p] /\ p + z2[p] = q BY <1>1, <1>3 DEF q
  <2>2. q \notin heads BY <1>2 DEF Laid, P
  <2> QED BY <1>3, <2>1, <2>2 DEF Laid, P, Pieces
<1>18. \A x \in P \cup {q} : x \in heads \/ \E c \in C \cup {q} : c + z2[c] = x
  <2>1. q + z2[q] = p + z[p] /\ p + z2[p] = q BY <1>1, <1>3 DEF q
  <2>2. \A c \in C \ {p} : z2[c] = z[c] BY <1>3 DEF P, Pieces
  <2>3. ASSUME NEW x \in P, x \notin heads PROVE \E c \in C \cup {q} : c + z2[c] = x
    <3>1. PICK c \in C : c + z[c] = x BY <2>3 DEF Laid, P
    <3> QED BY <2>1, <2>2, <3>1
  <2> QED BY <2>1, <2>3
<1>19. top # InitialTop => (top + z2[top]) % Page = 0
  BY <1>3, <1>5 DEF Laid, P, Pieces, TopAt
<1>20. Laid(C \cup {q}, S, z2, top, brk, heads, F)
  <2>1. (C \cup {q}) \cap S = {} /\ top \notin (C \cup {q}) \cup S BY <1>2, <1>5 DEF Laid
  <2> QED
    BY <1>4, <1>7, <1>10, <1>11, <1>12, <1>13, <1>14, <1>15, <1>16, <1>17, <1>18, <1>19, <2>1
       DEF Laid, P
<1> QED BY <1>2, <1>20 DEF q, z2, P

(* A chunk joined with the one after it *)
LEMMA JoinLaid ==
    ASSUME NEW C, NEW S, NEW z, NEW top, NEW brk, NEW heads, NEW F,
           Laid(C, S, z, top, brk, heads, F),
           NEW p \in C, p + z[p] \in C
    PROVE  Laid(C \ {p + z[p]}, S, [z EXCEPT ![p] = z[p] + z[p + z[p]]], top, brk, heads, F)
<1> DEFINE q == p + z[p]
           z2 == [z EXCEPT ![p] = z[p] + z[q]]
           P == Pieces(C, S, top)
<1>1. /\ p \in Nat /\ q \in Nat /\ P \subseteq Nat /\ p \in P /\ q \in P /\ brk \in Nat
      /\ z[p] \in Nat /\ z[q] \in Nat /\ p < q
  BY Constants DEF Laid, Pieces, IsChunk, MINSIZE
<1>2. z2 \in [Nat -> Nat] /\ z2[p] = z[p] + z[q] /\ \A x \in P \ {p} : z2[x] = z[x]
  BY <1>1 DEF Laid
<1>3. Pieces(C \ {q}, S, top) = P \ {q} BY DEF Laid, Pieces, TopAt
<1>4. p \notin S /\ q \notin S /\ top # p /\ top # q BY DEF Laid
<1>5. /\ Beyond(S, z, p) = q /\ Beyond(S, z2, p) = Beyond(S, z, q)
      /\ \A x \in P \ {p} : Beyond(S, z2, x) = Beyond(S, z, x)
  <2>1. z2[p] = z[p] + z[q] /\ \A x \in P \ {p} : z2[x] = z[x] BY <1>2
  <2> HIDE DEF z2, P
  <2> QED BY <1>1, <1>4, <2>1 DEF Beyond
<1>6. /\ \A x, y \in P : x < y => Beyond(S, z, x) <= y
      /\ \A x \in P : Beyond(S, z, x) <= brk BY DEF Laid
<1>7. \A x \in P : Beyond(S, z, x) \in Nat /\ x < Beyond(S, z, x)
  BY <1>1 DEF Laid, Beyond, IsChunk, Pieces, MINSIZE
<1>8. q + z[q] = p + z2[p] BY <1>1, <1>2
<1> HIDE DEF z2, q, P
<1>9. \A x, y \in P \ {q} : x < y => Beyond(S, z2, x) <= y
  <2>1. \A y \in P \ {q} : p < y => q < y BY <1>1, <1>5, <1>6
  <2>2. \A y \in P : q < y => Beyond(S, z, q) <= y BY <1>1, <1>6
  <2> QED BY <1>1, <1>5, <1>6, <2>1, <2>2
<1>10. \A x \in P : Beyond(S, z2, x) <= brk BY <1>1, <1>5, <1>6
<1>11. \A x \in (C \ {q}) \cup TopAt(top) : IsChunk(z2, x)
  <2>1. IsChunk(z, p) /\ IsChunk(z, q) BY DEF Laid, q
  <2>2. IsChunk(z2, p) BY <1>1, <1>2, <2>1 DEF IsChunk, MINSIZE
  <2>3. \A x \in C \cup TopAt(top) : x \in P BY DEF P, Pieces
  <2> QED BY <1>2, <2>2, <2>3 DEF Laid, IsChunk
<1>12. \A x \in S : z2[x] = z[x] BY <1>2, <1>4 DEF P, Pieces
<1>13. \A c \in C \ {q} : c + z2[c] \in P \ {q}
  <2>1. \A c \in C : c + z[c] = Beyond(S, z, c) /\ c + z[c] \in P /\ c \in P
    BY DEF Laid, Beyond, P, Pieces
  <2>2. \A c \in C \ {p} : c + z[c] # q BY <1>1, <1>5, <1>6, <1>7, <2>1
  <2>3. q + z[q] # q BY <1>1, <1>7, <2>1 DEF q
  <2> QED BY <1>1, <1>2, <1>8, <2>1, <2>2, <2>3
<1>14. \A w \in F : \A x \in P \ {q} : w < x \/ w >= Beyond(S, z2, x)
  <2>1. \A w \in F : w \in Nat /\ \A x \in P : w < x \/ w >= Beyond(S, z, x)
    BY Constants DEF Laid, P
  <2> QED BY <1>1, <1>5, <1>7, <2>1
<1>15. heads \subseteq P \ {q} BY DEF Laid, P, q
<1>16. \A c \in C \ {q} : c + z2[c] \notin heads BY <1>2, <1>8 DEF Laid, P, Pieces, q
<1>17. \A x \in P \ {q} : x \in heads \/ \E c \in C \ {q} : c + z2[c] = x
  <2>1. \A c \in C \ {p} : z2[c] = z[c] BY <1>2 DEF P, Pieces
  <2>2. ASSUME NEW x \in P \ {q}, x \notin heads PROVE \E c \in C \ {q} : c + z2[c] = x
    <3>1. PICK c \in C : c + z[c] = x BY <2>2 DEF Laid, P
    <3>2. CASE c = q BY <1>1, <1>8, <3>1, <3>2
    <3>3. CASE c # q BY <2>1, <2>2, <3>1, <3>3 DEF q
    <3> QED BY <3>2, <3>3
  <2> QED BY <2>2
<1>18. top # InitialTop => (top + z2[top]) % Page = 0
  BY <1>2, <1>4 DEF Laid, P, Pieces, TopAt
<1>19. Laid(C \ {q}, S, z2, top, brk, heads, F)
  BY <1>2, <1>3, <1>9, <1>10, <1>11, <1>12, <1>13, <1>14, <1>15, <1>16, <1>17, <1>18
     DEF Laid, P
<1> QED BY <1>19 DEF q, z2

(* The first words of the top become a chunk. *)
LEMMA CutTopLaid ==
    ASSUME NEW C, NEW S, NEW z, NEW top, NEW brk, NEW heads, NEW F,
           Laid(C, S, z, top, brk, heads, F), top # InitialTop,
           NEW nb \in Nat, nb >= MINSIZE, nb % 2 = 0, z[top] - nb >= MINSIZE
    PROVE  /\ Laid(C \cup {top}, S, [z EXCEPT ![top] = nb, ![top + nb] = z[top] - nb],
                   top + nb, brk, heads, F)
           /\ top + nb \notin Pieces(C, S, top)
<1> DEFINE q == top + nb
           z2 == [z EXCEPT ![top] = nb, ![q] = z[top] - nb]
           P == Pieces(C, S, top)
<1>1. /\ top \in Nat /\ q \in Nat /\ P \subseteq Nat /\ top \in P /\ z[top] \in Nat
      /\ brk \in Nat /\ top \in TopAt(top) /\ IsChunk(z, top)
  BY Constants DEF Laid, Pieces, TopAt
<1>2. q \notin P BY <1>1 DEF Laid, Beyond, MINSIZE
<1>3. /\ z2 \in [Nat -> Nat] /\ z2[top] = nb /\ z2[q] = z[top] - nb
      /\ \A x \in P \ {top} : z2[x] = z[x] BY <1>1, <1>2 DEF Laid, MINSIZE
<1>4. TopAt(q) = {q} /\ Pieces(C \cup {top}, S, q) = P \cup {q}
  BY <1>1 DEF Pieces, TopAt, InitialTop, MINSIZE
<1>5. top \notin S /\ q \notin S /\ top \notin C /\ q \notin C /\ q # top
  BY <1>1, <1>2 DEF Laid, Pieces, MINSIZE
<1>6. /\ Beyond(S, z2, top) = q /\ Beyond(S, z2, q) = Beyond(S, z, top)
      /\ Beyond(S, z, top) = top + z[top]
      /\ \A x \in P \ {top} : Beyond(S, z2, x) = Beyond(S, z, x)
  <2>1. z2[top] = nb /\ z2[q] = z[top] - nb /\ \A x \in P \ {top} : z2[x] = z[x] BY <1>3
  <2> HIDE DEF z2, P
  <2> QED BY <1>1, <1>5, <2>1 DEF Beyond
<1>7. /\ top < q /\ q < Beyond(S, z, top)
      /\ \A x, y \in P : x < y => Beyond(S, z, x) <= y
      /\ \A x \in P : Beyond(S, z, x) <= brk BY <1>1, <1>6 DEF Laid, MINSIZE
<1>8. \A x \in P : Beyond(S, z, x) \in Nat /\ x < Beyond(S, z, x)
  BY <1>1 DEF Laid, Beyond, IsChunk, Pieces, MINSIZE
<1>9. q + z2[q] = top + z[top] /\ top + z2[top] = q BY <1>1, <1>3
<1> HIDE DEF z2, q, P
<1>10. \A x, y \in P \cup {q} : x < y => Beyond(S, z2, x) <= y
  <2>1. \A x \in P : x < q => x = top \/ Beyond(S, z, x) <= q BY <1>1, <1>7, <1>8
  <2>2. \A y \in P : q < y => Beyond(S, z, top) <= y BY <1>1, <1>7
  <2> QED BY <1>1, <1>2, <1>6, <1>7, <2>1, <2>2
<1>11. \A x \in P \cup {q} : Beyond(S, z2, x) <= brk BY <1>1, <1>2, <1>6, <1>7, <1>8
<1>12. P \cup {q} \subseteq Start .. End
  <2>1. top >= Start /\ Beyond(S, z, top) <= End
    BY <1>1, <1>7, <1>8, Constants DEF Laid, P
  <2>2. q \in Start .. End BY <1>1, <1>7, <1>8, <2>1, Constants
  <2> QED BY <2>2 DEF Laid, P
<1>13. \A x \in (C \cup {top}) \cup {q} : IsChunk(z2, x)
  <2>1. top % 2 = 0 /\ z[top] % 2 = 0 /\ q % 2 = 0 /\ (z[top] - nb) % 2 = 0
    BY <1>1 DEF IsChunk, q
  <2>2. IsChunk(z2, q) /\ IsChunk(z2, top) BY <1>3, <2>1 DEF IsChunk
  <2>3. \A x \in C : x \in P BY DEF P, Pieces
  <2> QED BY <1>3, <2>2, <2>3 DEF Laid, IsChunk
<1>14. \A x \in S : z2[x] = z[x] BY <1>3, <1>5 DEF P, Pieces
<1>15. \A c \in C \cup {top} : c + z2[c] \in P \cup {q}
  BY <1>3, <1>5, <1>9 DEF Laid, P, Pieces
<1>16. \A w \in F : \A x \in P \cup {q} : w < x \/ w >= Beyond(S, z2, x)
  BY <1>1, <1>2, <1>6, <1>7, <1>8, Constants DEF Laid, P
<1>17. q \notin heads /\ heads \subseteq P BY <1>2 DEF Laid, P
<1>18. \A c \in C \cup {top} : c + z2[c] \notin heads
  BY <1>3, <1>5, <1>9, <1>17 DEF Laid, P, Pieces
<1>19. \A x \in P \cup {q} : x \in heads \/ \E c \in C \cup {top} : c + z2[c] = x
  <2>1. \A c \in C : z2[c] = z[c] BY <1>3, <1>5 DEF P, Pieces
  <2>2. ASSUME NEW x \in P, x \notin heads PROVE \E c \in C \cup {top} : c + z2[c] = x
    <3>1. PICK c \in C : c + z[c] = x BY <2>2 DEF Laid, P
    <3> QED BY <2>1, <3>1
  <2> QED BY <1>9, <2>2
<1>20. (q + z2[q]) % Page = 0 BY <1>9 DEF Laid
<1>21. Laid(C \cup {top}, S, z2, q, brk, heads, F)
  <2>1. (C \cup {top}) \cap S = {} /\ q \notin (C \cup {top}) \cup S
    BY <1>2, <1>5 DEF Laid
  <2> QED
    BY <1>1, <1>3, <1>4, <1>10, <1>11, <1>12, <1>13, <1>14, <1>15, <1>16, <1>17, <1>18, <1>19,
       <1>20, <2>1 DEF Laid, P
<1> QED BY <1>2, <1>21 DEF q, z2, P

(* A chunk before the top joined with it *)
LEMMA JoinTopLaid ==
    ASSUME NEW C, NEW S, NEW z, NEW top, NEW brk, NEW heads, NEW F,
           Laid(C, S, z, top, brk, heads, F), top # InitialTop,
           NEW p \in C, p + z[p] = top
    PROVE  Laid(C \ {p}, S, [z EXCEPT ![p] = z[p] + z[top]], p, brk, heads, F)
<1> DEFINE z2 == [z EXCEPT ![p] = z[p] + z[top]]
           P == Pieces(C, S, top)
<1>1. /\ p \in Nat /\ top \in Nat /\ P \subseteq Nat /\ p \in P /\ top \in P /\ brk \in Nat
      /\ z[p] \in Nat /\ z[top] \in Nat /\ p < top /\ IsChunk(z, p) /\ IsChunk(z, top)
  BY Constants DEF Laid, Pieces, IsChunk, MINSIZE, TopAt
<1>2. z2 \in [Nat -> Nat] /\ z2[p] = z[p] + z[top] /\ \A x \in P \ {p} : z2[x] = z[x]
  BY <1>1 DEF Laid
<1>3. p # InitialTop /\ TopAt(p) = {p} /\ Pieces(C \ {p}, S, p) = P \ {top}
  BY Constants DEF Laid, Pieces, TopAt, InitialTop
<1>4. p \notin S /\ top \notin S /\ top \notin C BY DEF Laid
<1>5. /\ Beyond(S, z, p) = top /\ Beyond(S, z2, p) = Beyond(S, z, top)
      /\ \A x \in P \ {p} : Beyond(S, z2, x) = Beyond(S, z, x)
  <2>1. z2[p] = z[p] + z[top] /\ \A x \in P \ {p} : z2[x] = z[x] BY <1>2
  <2> HIDE DEF z2, P
  <2> QED BY <1>1, <1>4, <2>1 DEF Beyond
<1>6. /\ \A x, y \in P : x < y => Beyond(S, z, x) <= y
      /\ \A x \in P : Beyond(S, z, x) <= brk BY DEF Laid
<1>7. \A x \in P : Beyond(S, z, x) \in Nat /\ x < Beyond(S, z, x)
  BY <1>1 DEF Laid, Beyond, IsChunk, Pieces, MINSIZE
<1>8. p + z2[p] = top + z[top] BY <1>1, <1>2
<1> HIDE DEF z2, P
<1>9. \A x, y \in P \ {top} : x < y => Beyond(S, z2, x) <= y
  <2>1. \A y \in P \ {top} : p < y => top < y BY <1>1, <1>5, <1>6
  <2>2. \A y \in P : top < y => Beyond(S, z, top) <= y BY <1>1, <1>6
  <2> QED BY <1>1, <1>5, <1>6, <2>1, <2>2
<1>10. \A x \in P : Beyond(S, z2, x) <= brk BY <1>1, <1>5, <1>6
<1>11. \A x \in C : IsChunk(z2, x)
  <2>1. IsChunk(z2, p) BY <1>1, <1>2 DEF IsChunk, MINSIZE
  <2>2. \A x \in C : x \in P BY DEF P, Pieces
  <2> QED BY <1>2, <2>1, <2>2 DEF Laid, IsChunk
<1>12. \A x \in S : z2[x] = z[x] BY <1>2, <1>4 DEF P, Pieces
<1>13. \A c \in C \ {p} : c + z2[c] \in P \ {top}
  <2>1. \A c \in C : c + z[c] = Beyond(S, z, c) /\ c + z[c] \in P /\ c \in P
    BY DEF Laid, Beyond, P, Pieces
  <2>2. \A c \in C \ {p} : c + z[c] # top BY <1>1, <1>5, <1>6, <1>7, <2>1
  <2> QED BY <1>2, <2>1, <2>2
<1>14. \A w \in F : \A x \in P \ {top} : w < x \/ w >= Beyond(S, z2, x)
  <2>1. \A w \in F : w \in Nat /\ \A x \in P : w < x \/ w >= Beyond(S, z, x)
    BY Constants DEF Laid, P
  <2> QED BY <1>1, <1>5, <1>7, <2>1
<1>15. heads \subseteq P \ {top} BY DEF Laid, P
<1>16. \A c \in C \ {p} : c + z2[c] \notin heads BY <1>2 DEF Laid, P, Pieces
<1>17. \A x \in P \ {top} : x \in heads \/ \E c \in C \ {p} : c + z2[c] = x
  <2>1. \A c \in C \ {p} : z2[c] = z[c] BY <1>2 DEF P, Pieces
  <2>2. ASSUME NEW x \in P \ {top}, x \notin heads PROVE \E c \in C \ {p} : c + z2[c] = x
    <3>1. PICK c \in C : c + z[c] = x BY <2>2 DEF Laid, P
    <3> QED BY <2>1, <2>2, <3>1
  <2> QED BY <2>2
<1>18. (p + z2[p]) % Page = 0 BY <1>8 DEF Laid
<1>19. Laid(C \ {p}, S, z2, p, brk, heads, F)
  <2>1. /\ (C \ {p}) \cap S = {} /\ p \notin (C \ {p}) \cup S
        /\ (C \ {p}) \cup TopAt(p) \subseteq C
        /\ P \ {top} \subseteq Start .. End /\ \A x \in S : z2[x] \in 1 .. 2
        /\ \A w \in F : w \in Start .. brk - 1 BY <1>3, <1>4, <1>12 DEF Laid, P
  <2> QED
    BY <2>1,  <1>1, <1>2, <1>3, <1>4, <1>9, <1>10, <1>11, <1>12, <1>13, <1>14, <1>15, <1>16, <1>17, <1>18
       DEF Laid, P
<1> QED BY <1>19 DEF z2

(* The top of another size that ends where the break now is *)
LEMMA TopLaid ==
    ASSUME NEW C, NEW S, NEW z, NEW top, NEW brk, NEW heads, NEW F,
           Laid(C, S, z, top, brk, heads, F), top # InitialTop, brk = top + z[top],
           NEW n \in Nat, n >= MINSIZE, n % 2 = 0, top + n <= End, (top + n) % Page = 0
    PROVE  Laid(C, S, [z EXCEPT ![top] = n], top, top + n, heads, F)
<1> DEFINE z2 == [z EXCEPT ![top] = n]
           P == Pieces(C, S, top)
<1>1. /\ top \in Nat /\ P \subseteq Nat /\ top \in P /\ brk \in Nat
      /\ z[top] \in Nat /\ IsChunk(z, top) /\ top \in Start .. End
  BY Constants DEF Laid, Pieces, IsChunk, MINSIZE, TopAt
<1>2. z2 \in [Nat -> Nat] /\ z2[top] = n /\ \A x \in P \ {top} : z2[x] = z[x]
  BY <1>1 DEF Laid
<1>3. top \notin S /\ top \notin C BY DEF Laid
<1>4. /\ Beyond(S, z, top) = brk /\ Beyond(S, z2, top) = top + n
      /\ \A x \in P \ {top} : Beyond(S, z2, x) = Beyond(S, z, x)
  <2>1. z2[top] = n /\ \A x \in P \ {top} : z2[x] = z[x] BY <1>2
  <2> HIDE DEF z2, P
  <2> QED BY <1>1, <1>3, <2>1 DEF Beyond
<1>5. /\ \A x, y \in P : x < y => Beyond(S, z, x) <= y
      /\ \A x \in P : Beyond(S, z, x) <= brk BY DEF Laid
<1>6. \A x \in P : Beyond(S, z, x) \in Nat /\ x < Beyond(S, z, x)
  BY <1>1 DEF Laid, Beyond, IsChunk, Pieces, MINSIZE
<1> HIDE DEF z2, P
<1>7. \A x \in P \ {top} : x < top /\ Beyond(S, z, x) <= top BY <1>1, <1>4, <1>5, <1>6
<1>8. \A x, y \in P : x < y => Beyond(S, z2, x) <= y BY <1>1, <1>4, <1>5, <1>7
<1>9. \A x \in P : Beyond(S, z2, x) <= top + n BY <1>1, <1>4, <1>6, <1>7
<1>10. \A x \in C \cup TopAt(top) : IsChunk(z2, x)
  <2>1. IsChunk(z2, top) BY <1>1, <1>2 DEF IsChunk, MINSIZE
  <2>2. \A x \in C \cup TopAt(top) : x \in P BY DEF P, Pieces
  <2> QED BY <1>2, <2>1, <2>2 DEF Laid, IsChunk
<1>11. \A x \in C \cup S : z2[x] = z[x] BY <1>2, <1>3 DEF P, Pieces
<1>12. \A w \in F : /\ w \in Start .. top + n - 1
                    /\ \A x \in P : w < x \/ w >= Beyond(S, z2, x)
  <2>1. \A w \in F : /\ w \in Nat /\ w < brk /\ w >= Start
                     /\ \A x \in P : w < x \/ w >= Beyond(S, z, x)
    BY <1>1, Constants DEF Laid, P
  <2>2. \A w \in F : w < top BY <1>1, <1>4, <2>1
  <2> QED BY <1>1, <1>2, <1>4, <2>1, <2>2, Constants
<1>13. top + n \in Start .. End /\ (top + z2[top]) % Page = 0 BY <1>1, <1>2, Constants
<1>14. \A x \in P : x \in heads \/ \E c \in C : c + z2[c] = x BY <1>11 DEF Laid, P
<1>15. Laid(C, S, z2, top, top + n, heads, F)
  BY <1>1, <1>2, <1>3, <1>8, <1>9, <1>10, <1>11, <1>12, <1>13, <1>14 DEF Laid, P
<1> QED BY <1>15 DEF z2

(* The break moves up, and others take some of the words. *)
LEMMA BreakLaid ==
    ASSUME NEW C, NEW S, NEW z, NEW top, NEW brk, NEW heads, NEW F,
           Laid(C, S, z, top, brk, heads, F),
           NEW b \in Nat, brk <= b, b <= End, NEW G, G \subseteq F \cup brk .. b - 1
    PROVE  Laid(C, S, z, top, b, heads, G)
<1>1. brk \in Nat /\ Start <= brk /\ Pieces(C, S, top) \subseteq Nat BY Constants DEF Laid
<1>2. \A x \in Pieces(C, S, top) : Beyond(S, z, x) <= brk /\ Beyond(S, z, x) \in Nat
  BY <1>1 DEF Laid, Beyond
<1>3. \A w \in G : w \in Start .. b - 1 BY <1>1, Constants DEF Laid
<1>4. \A w \in G : \A x \in Pieces(C, S, top) : w < x \/ w >= Beyond(S, z, x)
  BY <1>1, <1>2, Constants DEF Laid
<1> QED BY <1>1, <1>2, <1>3, <1>4, Constants DEF Laid

(* The old top becomes a stop: the region ends. *)
LEMMA StopLaid ==
    ASSUME NEW C, NEW S, NEW z, NEW top, NEW brk, NEW heads, NEW F,
           Laid(C, S, z, top, brk, heads, F), top # InitialTop,
           NEW n \in 1 .. 2, n + 2 <= z[top]
    PROVE  Laid(C, S \cup {top}, [z EXCEPT ![top] = n], InitialTop, brk, heads, F)
<1> DEFINE z2 == [z EXCEPT ![top] = n]
           P == Pieces(C, S, top)
           S2 == S \cup {top}
<1>1. /\ top \in Nat /\ P \subseteq Nat /\ top \in P /\ brk \in Nat /\ z[top] \in Nat
  BY Constants DEF Laid, Pieces, TopAt
<1>2. z2 \in [Nat -> Nat] /\ z2[top] = n /\ \A x \in P \ {top} : z2[x] = z[x]
  BY <1>1 DEF Laid
<1>3. top \notin S /\ top \notin C /\ Pieces(C, S2, InitialTop) = P
  BY DEF Laid, Pieces, TopAt
<1>4. /\ Beyond(S2, z2, top) = top + n + 2 /\ Beyond(S, z, top) = top + z[top]
      /\ \A x \in P \ {top} : Beyond(S2, z2, x) = Beyond(S, z, x)
  <2>1. z2[top] = n /\ \A x \in P \ {top} : z2[x] = z[x] BY <1>2
  <2> HIDE DEF z2, P
  <2> QED BY <1>1, <1>3, <2>1 DEF Beyond
<1>5. /\ \A x, y \in P : x < y => Beyond(S, z, x) <= y
      /\ \A x \in P : Beyond(S, z, x) <= brk BY DEF Laid
<1>6. \A x \in P : Beyond(S, z, x) \in Nat /\ x < Beyond(S, z, x)
  BY <1>1 DEF Laid, Beyond, IsChunk, Pieces, MINSIZE
<1> HIDE DEF z2, P, S2
<1>7. \A x \in P : Beyond(S2, z2, x) <= Beyond(S, z, x) /\ Beyond(S2, z2, x) \in Nat
  BY <1>1, <1>4, <1>6
<1>8. \A x, y \in P : x < y => Beyond(S2, z2, x) <= y BY <1>1, <1>5, <1>6, <1>7
<1>9. \A x \in P : Beyond(S2, z2, x) <= brk BY <1>1, <1>5, <1>6, <1>7
<1>10. \A x \in C \cup S : z2[x] = z[x] BY <1>2, <1>3 DEF P, Pieces
<1>11. (\A x \in C : IsChunk(z2, x)) /\ \A x \in S2 : z2[x] \in 1 .. 2
  BY <1>2, <1>10 DEF Laid, IsChunk, S2
<1>12. \A w \in F : \A x \in P : w < x \/ w >= Beyond(S2, z2, x)
  <2>1. \A w \in F : w \in Nat /\ \A x \in P : w < x \/ w >= Beyond(S, z, x)
    BY Constants DEF Laid, P
  <2> QED BY <1>1, <1>6, <1>7, <2>1
<1>13. \A x \in P : x \in heads \/ \E c \in C : c + z2[c] = x BY <1>10 DEF Laid, P
<1>14. \A c \in C : c + z2[c] \in P /\ c + z2[c] \notin heads BY <1>10 DEF Laid, P
<1>15. Laid(C, S2, z2, InitialTop, brk, heads, F)
  <2>1. C \cap S2 = {} /\ InitialTop \notin C \cup S2
    BY <1>3, Constants DEF Laid, InitialTop, Pieces, S2
  <2>2. C \cup TopAt(InitialTop) = C BY DEF TopAt
  <2>3. InitialTop \in Nat BY DEF InitialTop
  <2> QED
    BY <1>2, <1>3, <1>8, <1>9, <1>11, <1>12, <1>13, <1>14, <2>1, <2>2, <2>3 DEF Laid, P
<1> QED BY <1>15 DEF z2, S2

(* A new region with nothing but the top, beyond all that was there *)
LEMMA RegionLaid ==
    ASSUME NEW C, NEW S, NEW z, NEW brk, NEW heads, NEW F,
           Laid(C, S, z, InitialTop, brk, heads, F),
           NEW t \in Nat, brk <= t, t % 2 = 0,
           NEW n \in Nat, n >= MINSIZE, n % 2 = 0, t + n <= End, (t + n) % Page = 0
    PROVE  /\ Laid(C, S, [z EXCEPT ![t] = n], t, t + n, heads \cup {t}, F)
           /\ t \notin C \cup S
<1> DEFINE z2 == [z EXCEPT ![t] = n]
           P == C \cup S
<1>1. /\ P \subseteq Nat /\ brk \in Nat /\ Start <= t /\ t # InitialTop
      /\ Pieces(C, S, InitialTop) = P /\ Pieces(C, S, t) = P \cup {t} /\ TopAt(t) = {t}
  BY Constants DEF Laid, Pieces, TopAt, InitialTop
<1>2. \A x \in P : Beyond(S, z, x) \in Nat /\ x < Beyond(S, z, x) /\ Beyond(S, z, x) <= brk
  <2>1. \A x \in C : z[x] \in Nat /\ z[x] > 0 BY <1>1 DEF Laid, IsChunk, MINSIZE
  <2>2. \A x \in S : z[x] \in Nat BY DEF Laid
  <2>3. \A x \in P : Beyond(S, z, x) <= brk BY <1>1 DEF Laid
  <2>4. \A x \in P : x \in Nat /\ (x \in S \/ (x \in C /\ x \notin S)) BY <1>1
  <2> HIDE DEF P
  <2> QED BY <2>1, <2>2, <2>3, <2>4 DEF Beyond
<1>3. t \notin P BY <1>1, <1>2
<1>4. z2 \in [Nat -> Nat] /\ z2[t] = n /\ \A x \in P : z2[x] = z[x] BY <1>1, <1>3 DEF Laid
<1>5. Beyond(S, z2, t) = t + n /\ \A x \in P : Beyond(S, z2, x) = Beyond(S, z, x)
  <2>1. z2[t] = n /\ \A x \in P : z2[x] = z[x] BY <1>4
  <2>2. t \notin S BY <1>3
  <2> HIDE DEF z2, P
  <2> QED BY <2>1, <2>2 DEF Beyond
<1>6. \A x, y \in P : x < y => Beyond(S, z, x) <= y BY <1>1 DEF Laid
<1>7. C \cap S = {} /\ t \notin C \cup S /\ t + n \in Start .. End /\ t \in Start .. End
  BY <1>1, <1>3, Constants DEF Laid
<1>8. (t + z2[t]) % Page = 0 /\ IsChunk(z2, t) BY <1>4 DEF IsChunk
<1>9. (\A x \in C : IsChunk(z2, x)) /\ (\A x \in S : z2[x] \in 1 .. 2)
  BY <1>4 DEF Laid, IsChunk
<1>10. \A c \in C : c + z2[c] \in P /\ c + z2[c] \notin heads \cup {t}
  BY <1>1, <1>3, <1>4 DEF Laid
<1>11. \A x \in P \cup {t} : x \in heads \cup {t} \/ \E c \in C : c + z2[c] = x
  BY <1>1, <1>4 DEF Laid
<1>12. heads \cup {t} \subseteq P \cup {t} /\ P \cup {t} \subseteq Start .. End
  BY <1>1, <1>7 DEF Laid
<1> HIDE DEF z2, P
<1>13. \A x, y \in P \cup {t} : x < y => Beyond(S, z2, x) <= y BY <1>1, <1>2, <1>5, <1>6
<1>14. \A x \in P \cup {t} : Beyond(S, z2, x) <= t + n BY <1>1, <1>2, <1>5
<1>15. \A w \in F : w \in Start .. t + n - 1 /\ \A x \in P \cup {t} : w < x \/ w >= Beyond(S, z2, x)
  <2>1. \A w \in F : /\ w \in Nat /\ w >= Start /\ w < brk
                     /\ \A x \in P : w < x \/ w >= Beyond(S, z, x)
    BY <1>1, Constants DEF Laid
  <2> QED BY <1>1, <1>5, <2>1, Constants
<1>16. Laid(C, S, z2, t, t + n, heads \cup {t}, F)
  BY <1>1, <1>4, <1>7, <1>8, <1>9, <1>10, <1>11, <1>12, <1>13, <1>14, <1>15 DEF Laid, P
<1> QED BY <1>7, <1>16 DEF z2

-----------------------------------------------------------------------------
(* Bins *)

LEMMA Least ==
    ASSUME NEW B \in SUBSET Nat, B # {}
    PROVE  /\ Min(B) \in B /\ \A y \in B : Min(B) <= y
<1>1. \E x \in B : \A y \in B : ~(<<y, x>> \in OpToRel(<, Nat))
  BY NatLessThanWellFounded, WFMin, Zenon
<1>2. \A x, y \in Nat : (<<y, x>> \in OpToRel(<, Nat)) <=> y < x
  <2>1. \A x, y \in Nat : (<<y, x>> \in {ss \in Nat \X Nat : ss[1] < ss[2]}) <=> y < x
    OBVIOUS
  <2> QED BY <2>1, Zenon DEF OpToRel
<1>3. \E x \in B : \A y \in B : x <= y
  <2>1. \E x \in B : \A y \in B : ~(y < x) BY <1>1, <1>2, Zenon
  <2> QED BY <2>1
<1> QED BY <1>3 DEF Min

LEMMA BinLength ==
    ASSUME NEW T, NEW bin, IsBin(bin, T)
    PROVE  \E n \in Nat : /\ Run(bin, n, T) /\ n = Len(bin) /\ DOMAIN bin = 1 .. n
                          /\ n = 0 <=> bin = <<>> BY DEF IsBin, Run

LEMMA IsBinOf ==
    ASSUME NEW T, NEW n, NEW bin, Run(bin, n, T)
    PROVE  IsBin(bin, T) /\ Len(bin) = n
  BY DEF IsBin, Run

LEMMA RemoveFacts ==
    ASSUME NEW T, NEW s \in Seq(T), NEW k \in 1 .. Len(s)
    PROVE  /\ RemoveAt(s, k) \in Seq(T) /\ Len(RemoveAt(s, k)) = Len(s) - 1
           /\ \A j \in 1 .. Len(s) - 1 : RemoveAt(s, k)[j] = IF j < k THEN s[j] ELSE s[j + 1]
<1> DEFINE a == SubSeq(s, 1, k - 1)
           b == SubSeq(s, k + 1, Len(s))
<1>1. /\ a \in Seq(T) /\ Len(a) = k - 1 /\ \A j \in 1 .. k - 1 : a[j] = s[j]
  <2>1. \A j \in 1 .. k - 1 : s[j] \in T OBVIOUS
  <2> QED BY <2>1, SubSeqProperties
<1>2. /\ b \in Seq(T) /\ Len(b) = Len(s) - k
      /\ \A j \in 1 .. Len(s) - k : b[j] = s[j + k]
  <2>1. \A j \in k + 1 .. Len(s) : s[j] \in T OBVIOUS
  <2> QED BY <2>1, SubSeqProperties
<1>3. RemoveAt(s, k) = a \o b BY DEF RemoveAt
<1> HIDE DEF a, b
<1> QED
  <2>1. /\ a \o b \in Seq(T) /\ Len(a \o b) = Len(a) + Len(b)
        /\ \A j \in 1 .. Len(a) + Len(b) : (a \o b)[j] = IF j <= Len(a) THEN a[j] ELSE b[j - Len(a)]
    BY <1>1, <1>2, ConcatProperties
  <2>2. \A j \in k .. Len(s) - 1 : b[j - (k - 1)] = s[j + 1] BY <1>2
  <2> QED BY <1>1, <1>2, <1>3, <2>1, <2>2

LEMMA InsertFacts ==
    ASSUME NEW T, NEW s \in Seq(T), NEW n, Len(s) = n, NEW k \in 1 .. n + 1, NEW e \in T
    PROVE  /\ InsertAt(s, k, e) \in Seq(T) /\ Len(InsertAt(s, k, e)) = n + 1
           /\ \A j \in 1 .. n + 1 :
                  InsertAt(s, k, e)[j] = IF j < k THEN s[j] ELSE IF j = k THEN e ELSE s[j - 1]
<1> DEFINE a == SubSeq(s, 1, k - 1)
           b == SubSeq(s, k, Len(s))
<1>1. /\ a \in Seq(T) /\ Len(a) = k - 1 /\ \A j \in 1 .. k - 1 : a[j] = s[j]
  <2>1. \A j \in 1 .. k - 1 : s[j] \in T OBVIOUS
  <2> QED BY <2>1, SubSeqProperties
<1>2. /\ b \in Seq(T) /\ Len(b) = Len(s) - k + 1
      /\ \A j \in 1 .. Len(s) - k + 1 : b[j] = s[j + k - 1]
  <2>1. \A j \in k .. Len(s) : s[j] \in T OBVIOUS
  <2> QED BY <2>1, SubSeqProperties
<1>3. InsertAt(s, k, e) = a \o <<e>> \o b BY DEF InsertAt
<1> DEFINE c == a \o <<e>>
<1>4. c \in Seq(T) /\ Len(c) = k /\ \A j \in 1 .. k : c[j] = IF j < k THEN s[j] ELSE e
  <2> HIDE DEF a
  <2> QED BY <1>1
<1> HIDE DEF c, a, b
<1>5. InsertAt(s, k, e) = c \o b BY <1>3 DEF c
<1> QED
  <2>1. /\ c \o b \in Seq(T) /\ Len(c \o b) = Len(c) + Len(b)
        /\ \A j \in 1 .. Len(c) + Len(b) : (c \o b)[j] = IF j <= Len(c) THEN c[j] ELSE b[j - Len(c)]
    BY <1>2, <1>4, ConcatProperties
  <2>2. \A j \in k + 1 .. Len(s) + 1 : b[j - k] = s[j - 1] BY <1>2
  <2> QED BY <1>2, <1>4, <1>5, <2>1, <2>2

LEMMA BinIndex ==
    ASSUME NEW n \in Nat, n >= MINSIZE
    PROVE  bin_index(n) \in 2 .. LastBin - 1
<1>1. CASE n < MaxSmall BY <1>1, Constants DEF bin_index, MINSIZE
<1>2. CASE ~(n < MaxSmall)
  <2>1. \A a \in Nat, b \in Nat \ {0} : a \div b \in Nat OBVIOUS
  <2>2. (n - MaxSmall) \div LargeWidth \in Nat BY <1>2, <2>1, Constants
  <2>3. bin_index(n) = Smaller(MaxSmall \div 2 + (n - MaxSmall) \div LargeWidth, LastBin - 1)
    BY <1>2 DEF bin_index
  <2>4. MaxSmall \div 2 \in Nat /\ MaxSmall \div 2 >= 3 BY Constants
  <2> DEFINE q == (n - MaxSmall) \div LargeWidth
             s == MaxSmall \div 2
  <2>5. q \in Nat /\ s \in Nat /\ s >= 3 /\ s + 2 <= LastBin BY <2>2, <2>4, Constants
  <2> HIDE DEF q, s
  <2>6. Smaller(s + q, LastBin - 1) \in 2 .. LastBin - 1 BY <2>5, Constants DEF Smaller
  <2> QED BY <2>3, <2>6 DEF q, s
<1> QED BY <1>1, <1>2

(* What is left of a bin when a chunk that is there once goes *)
LEMMA WithoutFacts ==
    ASSUME NEW T, NEW n, NEW bin, Run(bin, n, T), NEW p, Once(bin)
    PROVE  /\ ~In(p, bin) => Without(bin, p) = bin
           /\ \A m \in 1 .. n : bin[m] = p =>
                  Without(bin, p) = Gap(bin, n, m)
<1> USE DEF Run
<1> DEFINE at == {k \in DOMAIN bin : bin[k] = p}
           left == Without(bin, p)
<1>1. ASSUME ~In(p, bin) PROVE left = bin BY <1>1 DEF Without, In
<1>2. ASSUME NEW m \in 1 .. n, bin[m] = p
      PROVE  left = [j \in 1 .. n - 1 |-> IF j < m THEN bin[j] ELSE bin[j + 1]]
  <2>1. at = {m} BY <1>2 DEF Once
  <2>2. Min({m}) = m BY Least
  <2>3. left = RemoveAt(bin, m) BY <2>1, <2>2 DEF Without
  <2>4. IsBin(bin, T) /\ Len(bin) = n BY IsBinOf
  <2>5. /\ left \in Seq(T) /\ Len(left) = n - 1
        /\ \A j \in 1 .. n - 1 : left[j] = IF j < m THEN bin[j] ELSE bin[j + 1]
    BY <2>3, <2>4, RemoveFacts DEF IsBin
  <2>6. left = [j \in 1 .. n - 1 |-> left[j]]
    <3> HIDE DEF left
    <3>1. DOMAIN left = 1 .. n - 1 /\ left = [j \in DOMAIN left |-> left[j]] BY <2>5
    <3> QED BY <3>1
  <2> HIDE DEF left
  <2> QED BY <2>5, <2>6
<1> QED BY <1>1, <1>2 DEF Gap

LEMMA GapFacts ==
    ASSUME NEW T, NEW n, NEW bin, Run(bin, n, T), NEW m \in 1 .. n, Once(bin)
    PROVE  /\ Run(Gap(bin, n, m), n - 1, T \ {bin[m]}) /\ Once(Gap(bin, n, m))
           /\ \A f : In(f, Gap(bin, n, m)) <=> In(f, bin) /\ f # bin[m]
<1> USE DEF Run
<1> DEFINE w == Gap(bin, n, m)
           At(j) == IF j < m THEN j ELSE j + 1
<1>1. \A j \in 1 .. n - 1 : At(j) \in 1 .. n /\ At(j) # m /\ w[j] = bin[At(j)] BY DEF Gap
<1>2. DOMAIN w = 1 .. n - 1 /\ w = [j \in 1 .. n - 1 |-> w[j]] BY DEF Gap
<1>3. \A k \in 1 .. n : k # m => \E j \in 1 .. n - 1 : At(j) = k
  <2>1. TAKE k \in 1 .. n
  <2>2. HAVE k # m
  <2>3. CASE k < m
    <3>1. k \in 1 .. n - 1 /\ At(k) = k BY <2>3
    <3> QED BY <3>1
  <2>4. CASE k > m
    <3>1. k - 1 \in 1 .. n - 1 /\ At(k - 1) = k BY <2>4
    <3> QED BY <3>1
  <2> QED BY <2>2, <2>3, <2>4
<1>4. \A k, l \in 1 .. n - 1 : At(k) = At(l) => k = l OBVIOUS
<1> HIDE DEF w, At
<1>5. \A k \in 1 .. n : bin[k] = bin[m] => k = m BY DEF Once
<1>6. Run(w, n - 1, T \ {bin[m]}) BY <1>1, <1>2, <1>5
<1>7. Once(w) BY <1>1, <1>2, <1>4 DEF Once
<1>8. \A f : In(f, w) <=> In(f, bin) /\ f # bin[m] BY <1>1, <1>2, <1>3, <1>5 DEF In
<1> QED BY <1>6, <1>7, <1>8 DEF w

LEMMA GapInOrder ==
    ASSUME NEW T, NEW n, NEW bin, Run(bin, n, T), NEW m \in 1 .. n,
           NEW z, \A t \in T : z[t] \in Nat, NEW i, InOrder(bin, z, i)
    PROVE  InOrder(Gap(bin, n, m), z, i)
<1> USE DEF Run
<1> DEFINE w == Gap(bin, n, m)
<1>1. \A k \in 2 .. n : z[bin[k - 1]] >= z[bin[k]] BY DEF InOrder
<1>2. \A k \in 1 .. n : z[bin[k]] \in Nat /\ bin_index(z[bin[k]]) = i BY DEF InOrder
<1>3. \A k \in 2 .. n - 1 : z[bin[k - 1]] >= z[bin[k + 1]]
  <2>1. TAKE k \in 2 .. n - 1
  <2>2. z[bin[k - 1]] >= z[bin[k]] /\ z[bin[k]] >= z[bin[k + 1]] BY <1>1
  <2> QED BY <1>2, <2>2
<1>4. \A j \in 1 .. n - 1 : w[j] = IF j < m THEN bin[j] ELSE bin[j + 1] BY DEF Gap
<1>5. DOMAIN w = 1 .. n - 1 BY DEF Gap
<1> HIDE DEF w
<1>6. \A j \in 1 .. n - 1 : bin_index(z[w[j]]) = i BY <1>2, <1>4
<1>7. \A j \in 1 .. n - 1 : j > 1 => z[w[j - 1]] >= z[w[j]]
  <2>1. TAKE j \in 1 .. n - 1
  <2>2. HAVE j > 1
  <2>3. w[j] = (IF j < m THEN bin[j] ELSE bin[j + 1])
        /\ w[j - 1] = (IF j - 1 < m THEN bin[j - 1] ELSE bin[j]) BY <1>4, <2>2
  <2>4. /\ z[bin[j - 1]] >= z[bin[j]] /\ z[bin[j]] >= z[bin[j + 1]]
        /\ z[bin[j - 1]] >= z[bin[j + 1]] BY <1>1, <1>3, <2>2
  <2> QED BY <2>3, <2>4
<1> QED BY <1>5, <1>6, <1>7 DEF InOrder, w

(* What one bin is after Unlink *)
LEMMA WithoutBin ==
    ASSUME NEW T, NEW bin, IsBin(bin, T), Once(bin), NEW p
    PROVE  /\ ~In(p, bin) => Without(bin, p) = bin
           /\ IsBin(Without(bin, p), T \ {p}) /\ Once(Without(bin, p))
           /\ \A f : In(f, Without(bin, p)) <=> In(f, bin) /\ f # p
           /\ \A z, i : (\A t \in T : z[t] \in Nat) /\ InOrder(bin, z, i) =>
                  InOrder(Without(bin, p), z, i)
<1>1. PICK n \in Nat : Run(bin, n, T) /\ DOMAIN bin = 1 .. n BY BinLength
<1>2. CASE ~In(p, bin)
  <2>1. Without(bin, p) = bin BY <1>1, <1>2, WithoutFacts
  <2>2. Run(bin, n, T \ {p}) BY <1>1, <1>2 DEF In, Run
  <2>3. IsBin(bin, T \ {p}) BY <2>2, IsBinOf
  <2>4. \A f : In(f, bin) => f # p BY <1>2
  <2> QED BY <2>1, <2>3, <2>4
<1>3. CASE In(p, bin)
  <2>1. PICK m \in 1 .. n : bin[m] = p BY <1>1, <1>3 DEF In
  <2>2. Without(bin, p) = Gap(bin, n, m) BY <1>1, <2>1, WithoutFacts
  <2>3. /\ Run(Gap(bin, n, m), n - 1, T \ {p}) /\ Once(Gap(bin, n, m))
        /\ \A f : In(f, Gap(bin, n, m)) <=> In(f, bin) /\ f # p BY <1>1, <2>1, GapFacts
  <2>4. n - 1 \in Nat BY <1>1, <2>1
  <2>5. IsBin(Gap(bin, n, m), T \ {p}) BY <2>3, <2>4, IsBinOf
  <2>6. \A z, i : (\A t \in T : z[t] \in Nat) /\ InOrder(bin, z, i) =>
            InOrder(Gap(bin, n, m), z, i)
    <3>1. TAKE z, i
    <3>2. HAVE (\A t \in T : z[t] \in Nat) /\ InOrder(bin, z, i)
    <3> QED BY <1>1, <3>2, GapInOrder
  <2> QED BY <1>3, <2>2, <2>3, <2>5, <2>6
<1> QED BY <1>2, <1>3

LEMMA UnlinkedBinned ==
    ASSUME NEW bins, NEW marked, NEW z, NEW idle, Binned(bins, marked, z, idle),
           NEW p \in idle, NatSizes(z, idle)
    PROVE  /\ Binned(Unlinked(bins, p), marked, z, idle \ {p})
           /\ RemainderWithout(Unlinked(bins, p), bins, p)
<1> USE DEF NatSizes
<1> DEFINE b2 == Unlinked(bins, p)
<1>1. 0 \in 0 .. LastBin /\ 1 \in 0 .. LastBin /\ 2 .. LastBin \subseteq 0 .. LastBin
  BY Constants
<1>2. \A i \in 0 .. LastBin :
          /\ ~In(p, bins[i]) => b2[i] = bins[i]
          /\ IsBin(b2[i], idle \ {p}) /\ Once(b2[i])
          /\ \A f : In(f, b2[i]) <=> In(f, bins[i]) /\ f # p
          /\ InOrder(bins[i], z, i) => InOrder(b2[i], z, i)
  <2>1. TAKE i \in 0 .. LastBin
  <2>2. IsBin(bins[i], idle) /\ Once(bins[i]) /\ b2[i] = Without(bins[i], p)
    BY DEF Binned, Unlinked
  <2> QED BY <2>2, WithoutBin
<1>3. b2 = [i \in 0 .. LastBin |-> b2[i]] BY DEF Unlinked
<1> HIDE DEF b2
<1>4. \A f : ~In(f, <<>>) BY DEF In
<1>5. \A f : In(f, <<p>>) <=> f = p BY DEF In
<1>6. b2[0] = <<>>
  <2>1. bins[0] = <<>> BY DEF Binned
  <2> QED BY <1>1, <1>2, <1>4, <2>1
<1>7. \A T, bin : IsBin(bin, T) /\ bin # <<>> => \E f \in T : In(f, bin)
  <2>1. TAKE T, bin
  <2>2. HAVE IsBin(bin, T) /\ bin # <<>>
  <2>3. PICK n \in Nat : Run(bin, n, T) /\ DOMAIN bin = 1 .. n /\ (n = 0 <=> bin = <<>>)
    BY <2>2, BinLength
  <2>4. 1 \in 1 .. n BY <2>2, <2>3
  <2>5. bin[1] \in T /\ In(bin[1], bin) BY <2>3, <2>4 DEF In, Run
  <2> QED BY <2>5
<1>8. bins[1] = <<p>> => b2[1] = <<>>
  <2>1. HAVE bins[1] = <<p>>
  <2>2. \A f : ~(In(f, b2[1]) /\ f \in idle \ {p}) BY <1>1, <1>2, <1>5, <2>1
  <2>3. IsBin(b2[1], idle \ {p}) BY <1>1, <1>2
  <2> QED BY <1>7, <2>2, <2>3
<1>9. bins[1] # <<p>> => b2[1] = bins[1]
  <2>1. HAVE bins[1] # <<p>>
  <2>2. CASE bins[1] = <<>> BY <1>1, <1>2, <1>4, <2>2
  <2>3. CASE \E f \in idle : bins[1] = <<f>>
    <3>1. PICK f \in idle : bins[1] = <<f>> BY <2>3
    <3>2. ~In(p, bins[1]) BY <2>1, <3>1 DEF In
    <3> QED BY <1>1, <1>2, <3>2
  <2> QED BY <2>2, <2>3 DEF Binned
<1>10. b2[1] = <<>> \/ \E f \in idle \ {p} : b2[1] = <<f>>
  <2>1. bins[1] = <<>> \/ \E f \in idle : bins[1] = <<f>> BY DEF Binned
  <2> QED BY <1>8, <1>9, <2>1
<1>11. \A i \in 0 .. LastBin : b2[i] # <<>> => bins[i] # <<>> BY <1>2, <1>4, <1>7
<1>12. \A f \in idle \ {p} : \E i \in 0 .. LastBin : In(f, b2[i])
  <2>1. \A f \in idle : \E i \in 0 .. LastBin : In(f, bins[i]) BY DEF Binned
  <2> QED BY <1>2, <2>1
<1>13. \A i, j \in 0 .. LastBin : \A f \in idle \ {p} : In(f, b2[i]) /\ In(f, b2[j]) => i = j
  <2>1. \A i, j \in 0 .. LastBin : \A f \in idle : In(f, bins[i]) /\ In(f, bins[j]) => i = j
    BY DEF Binned
  <2> QED BY <1>2, <2>1
<1>14. \A i \in 2 .. LastBin : InOrder(b2[i], z, i) /\ (b2[i] # <<>> => BlockOf(i) \in marked)
  BY <1>1, <1>2, <1>11 DEF Binned
<1>15. Binned(b2, marked, z, idle \ {p})
  BY <1>2, <1>3, <1>6, <1>10, <1>12, <1>13, <1>14 DEF Binned
<1> QED BY <1>8, <1>9, <1>15 DEF b2, RemainderWithout

LEMMA RoomFacts ==
    ASSUME NEW T, NEW n, NEW bin, Run(bin, n, T), NEW m \in 1 .. n + 1, NEW p, p \notin T, Once(bin)
    PROVE  /\ Run(Room(bin, n, m, p), n + 1, T \cup {p}) /\ Once(Room(bin, n, m, p))
           /\ \A f : In(f, Room(bin, n, m, p)) <=> In(f, bin) \/ f = p
<1> USE DEF Run
<1> DEFINE w == Room(bin, n, m, p)
           At(j) == IF j < m THEN j ELSE j - 1
<1>1. \A j \in 1 .. n + 1 : j # m => At(j) \in 1 .. n /\ w[j] = bin[At(j)] BY DEF Room
<1>2. DOMAIN w = 1 .. n + 1 /\ w = [j \in 1 .. n + 1 |-> w[j]] /\ w[m] = p BY DEF Room
<1>3. \A k \in 1 .. n : \E j \in 1 .. n + 1 : j # m /\ At(j) = k
  <2>1. TAKE k \in 1 .. n
  <2>2. CASE k < m
    <3>1. k \in 1 .. n + 1 /\ k # m /\ At(k) = k BY <2>2
    <3> QED BY <3>1
  <2>3. CASE ~(k < m)
    <3>1. k + 1 \in 1 .. n + 1 /\ k + 1 # m /\ At(k + 1) = k BY <2>3
    <3> QED BY <3>1
  <2> QED BY <2>2, <2>3
<1>4. \A k, l \in 1 .. n + 1 : k # m /\ l # m /\ At(k) = At(l) => k = l OBVIOUS
<1> HIDE DEF w, At
<1>5. \A k \in 1 .. n : bin[k] \in T /\ bin[k] # p OBVIOUS
<1>6. Run(w, n + 1, T \cup {p}) BY <1>1, <1>2, <1>5
<1>7. Once(w) BY <1>1, <1>2, <1>4, <1>5 DEF Once
<1>8. \A f : In(f, w) <=> In(f, bin) \/ f = p BY <1>1, <1>2, <1>3, <1>5 DEF In
<1> QED BY <1>6, <1>7, <1>8 DEF w

LEMMA RoomInOrder ==
    ASSUME NEW T, NEW n, NEW bin, Run(bin, n, T), NEW m \in 1 .. n + 1, NEW p, NEW z, NEW i,
           InOrder(bin, z, i), bin_index(z[p]) = i,
           \A k \in 1 .. n : k < m => z[bin[k]] >= z[p],
           m <= n => z[p] >= z[bin[m]]
    PROVE  InOrder(Room(bin, n, m, p), z, i)
<1> USE DEF Run
<1> DEFINE w == Room(bin, n, m, p)
<1>1. \A k \in 2 .. n : z[bin[k - 1]] >= z[bin[k]] BY DEF InOrder
<1>2. \A k \in 1 .. n : bin_index(z[bin[k]]) = i BY DEF InOrder
<1>3. DOMAIN w = 1 .. n + 1 BY DEF Room
<1>4. \A j \in 1 .. n + 1 : w[j] = IF j < m THEN bin[j] ELSE IF j = m THEN p ELSE bin[j - 1]
  BY DEF Room
<1> HIDE DEF w
<1>5. \A j \in 1 .. n + 1 : bin_index(z[w[j]]) = i BY <1>2, <1>4
<1>6. \A j \in 1 .. n + 1 : j > 1 => z[w[j - 1]] >= z[w[j]]
  <2>1. TAKE j \in 1 .. n + 1
  <2>2. HAVE j > 1
  <2>3. CASE j < m BY <1>1, <1>4, <2>2, <2>3
  <2>4. CASE j = m
    <3>1. j - 1 \in 1 .. n /\ j - 1 < m /\ w[j - 1] = bin[j - 1] /\ w[j] = p
      BY <1>4, <2>2, <2>4
    <3> QED BY <3>1
  <2>5. CASE j = m + 1
    <3>1. j - 1 = m /\ m <= n /\ w[j - 1] = p /\ w[j] = bin[m] BY <1>4, <2>2, <2>5
    <3> QED BY <3>1
  <2>6. CASE j > m + 1
    <3>1. j - 1 \in 2 .. n /\ w[j] = bin[j - 1] /\ w[j - 1] = bin[j - 1 - 1]
      BY <1>4, <2>2, <2>6
    <3> QED BY <1>1, <3>1
  <2> QED BY <2>3, <2>4, <2>5, <2>6
<1> QED BY <1>3, <1>5, <1>6 DEF InOrder, w

LEMMA InsertIsRoom ==
    ASSUME NEW T, NEW n, NEW bin, Run(bin, n, T), NEW m \in 1 .. n + 1, NEW p
    PROVE  InsertAt(bin, m, p) = Room(bin, n, m, p)
<1> DEFINE U == T \cup {p}
           w == InsertAt(bin, m, p)
<1>1. bin \in Seq(U) /\ Len(bin) = n /\ p \in U /\ m \in 1 .. n + 1 BY DEF Run
<1> HIDE DEF U
<1>2. /\ w \in Seq(U) /\ Len(w) = n + 1
      /\ \A j \in 1 .. n + 1 : w[j] = IF j < m THEN bin[j] ELSE IF j = m THEN p ELSE bin[j - 1]
  <2>1. w \in Seq(U) /\ Len(w) = n + 1 BY <1>1, InsertFacts
  <2>2. \A j \in 1 .. n + 1 : InsertAt(bin, m, p)[j] = IF j < m THEN bin[j] ELSE IF j = m THEN p ELSE bin[j - 1]
    BY <1>1, InsertFacts
  <2> QED BY <2>1, <2>2
<1> HIDE DEF w
<1>3. w = [j \in 1 .. n + 1 |-> w[j]]
  <2>1. DOMAIN w = 1 .. n + 1 /\ w = [j \in DOMAIN w |-> w[j]] BY <1>2 DEF Run
  <2> QED BY <2>1
<1> QED BY <1>2, <1>3 DEF w, Room

-----------------------------------------------------------------------------
(* The bins of a heap *)

LEMMA SmallBin ==
    ASSUME NEW n \in Nat, n >= MINSIZE, n % 2 = 0, n < MaxSmall,
           NEW m \in Nat, m >= MINSIZE, m % 2 = 0, bin_index(m) = bin_index(n)
    PROVE  m = n
<1>1. bin_index(n) = n \div 2 BY DEF bin_index
<1>2. n \div 2 < MaxSmall \div 2 BY Constants
<1>3. CASE m < MaxSmall
  <2>1. bin_index(m) = m \div 2 BY <1>3 DEF bin_index
  <2>2. n = 2 * (n \div 2) /\ m = 2 * (m \div 2) OBVIOUS
  <2> QED BY <1>1, <2>1, <2>2
<1>4. CASE ~(m < MaxSmall)
  <2>1. \A a \in Nat, b \in Nat \ {0} : a \div b \in Nat OBVIOUS
  <2> DEFINE q == (m - MaxSmall) \div LargeWidth
             s == MaxSmall \div 2
  <2>2. q \in Nat BY <1>4, <2>1, Constants
  <2>3. bin_index(m) = Smaller(s + q, LastBin - 1) BY <1>4 DEF bin_index
  <2>4. s \in Nat /\ s + 2 <= LastBin BY Constants
  <2>5. n \div 2 \in Nat /\ n \div 2 < s BY <1>2
  <2> HIDE DEF q, s
  <2>6. Smaller(s + q, LastBin - 1) > n \div 2 BY <2>2, <2>4, <2>5, Constants DEF Smaller
  <2> QED BY <1>1, <2>3, <2>5, <2>6
<1> QED BY <1>3, <1>4

(* Where a chunk goes in its bin *)
LEMMA PlaceInOrder ==
    ASSUME NEW h, NEW z, NEW T, NEW p, p \notin T, Sizes(h, z, T \cup {p}),
           NEW bin, NEW n, Run(bin, n, T), DOMAIN bin = 1 .. n, Len(bin) = n,
           InOrder(bin, z, bin_index(z[p]))
    PROVE  LET place == Place(h, bin, p)
           IN /\ place \in 1 .. n + 1
              /\ \A k \in 1 .. n : k < place => z[bin[k]] >= z[p]
              /\ place <= n => z[p] >= z[bin[place]]
<1> DEFINE notLarger == {k \in DOMAIN bin : Size(h, bin[k]) <= Size(h, p)}
           B == notLarger \cup {Len(bin) + 1}
           place == Place(h, bin, p)
<1>1. n \in Nat /\ \A k \in 1 .. n : bin[k] \in T BY DEF Run
<1>2. /\ z[p] \in Nat /\ z[p] >= MINSIZE /\ z[p] % 2 = 0 /\ Size(h, p) = z[p]
      /\ \A k \in 1 .. n : /\ z[bin[k]] \in Nat /\ z[bin[k]] >= MINSIZE /\ z[bin[k]] % 2 = 0
                           /\ Size(h, bin[k]) = z[bin[k]] BY <1>1 DEF Sizes
<1>3. CASE Size(h, p) < MaxSmall
  <2>1. place = 1 BY <1>3 DEF Place
  <2>2. n >= 1 => z[bin[1]] = z[p]
    <3>1. HAVE n >= 1
    <3>2. bin_index(z[bin[1]]) = bin_index(z[p]) BY <1>1, <3>1 DEF InOrder
    <3>3. /\ z[bin[1]] \in Nat /\ z[bin[1]] >= MINSIZE /\ z[bin[1]] % 2 = 0
      BY <1>1, <1>2, <3>1
    <3> QED BY <1>2, <1>3, <3>2, <3>3, SmallBin
  <2>3. 1 <= n => z[p] >= z[bin[1]] BY <1>1, <1>2, <2>2
  <2>4. \A k \in 1 .. n : ~(k < 1) BY <1>1
  <2> HIDE DEF place
  <2>5. place \in 1 .. n + 1 BY <1>1, <2>1
  <2>6. \A k \in 1 .. n : k < place => z[bin[k]] >= z[p] BY <2>1, <2>4
  <2>7. place <= n => z[p] >= z[bin[place]] BY <2>1, <2>3
  <2> QED BY <2>5, <2>6, <2>7 DEF place
<1>4. CASE ~(Size(h, p) < MaxSmall)
  <2>1. B \in SUBSET Nat /\ B # {} /\ B \subseteq 1 .. n + 1 BY <1>1
  <2>2. Min(B) \in B /\ \A y \in B : Min(B) <= y BY <2>1, Least
  <2>3. place = Min(B) BY <1>4 DEF Place
  <2>4. \A k \in 1 .. n : k \in B <=> z[bin[k]] <= z[p] BY <1>1, <1>2
  <2>5. Min(B) \in 1 .. n + 1 BY <2>1, <2>2
  <2> HIDE DEF B, place
  <2>6. \A k \in 1 .. n : k < Min(B) => z[bin[k]] >= z[p] BY <1>1, <1>2, <2>2, <2>4, <2>5
  <2>7. Min(B) <= n => z[p] >= z[bin[Min(B)]] BY <1>1, <1>2, <2>2, <2>4, <2>5
  <2> QED BY <2>3, <2>5, <2>6, <2>7 DEF B, place
<1> QED BY <1>3, <1>4

LEMMA BinIsFree ==
    ASSUME NEW T, NEW bin, IsBin(bin, T), bin # <<>>
    PROVE  \E f \in T : In(f, bin)
<1>1. PICK n \in Nat : Run(bin, n, T) /\ DOMAIN bin = 1 .. n /\ (n = 0 <=> bin = <<>>)
  BY BinLength
<1>2. 1 \in 1 .. n BY <1>1
<1>3. bin[1] \in T /\ In(bin[1], bin) BY <1>1, <1>2 DEF In, Run
<1> QED BY <1>3

(* One bin after a chunk has come in at its place *)
LEMMA FrontlinkBin ==
    ASSUME NEW h, NEW z, NEW T, NEW p, p \notin T, Sizes(h, z, T \cup {p}),
           NEW bin, IsBin(bin, T), Once(bin), InOrder(bin, z, bin_index(z[p]))
    PROVE  LET b2 == InsertAt(bin, Place(h, bin, p), p)
           IN /\ IsBin(b2, T \cup {p}) /\ Once(b2) /\ InOrder(b2, z, bin_index(z[p]))
              /\ \A f : In(f, b2) <=> In(f, bin) \/ f = p
<1> DEFINE place == Place(h, bin, p)
           b2 == InsertAt(bin, place, p)
<1>1. PICK n \in Nat : Run(bin, n, T) /\ DOMAIN bin = 1 .. n /\ Len(bin) = n BY BinLength
<1>2. /\ place \in 1 .. n + 1
      /\ \A k \in 1 .. n : k < place => z[bin[k]] >= z[p]
      /\ place <= n => z[p] >= z[bin[place]] BY <1>1, PlaceInOrder
<1> HIDE DEF place
<1>3. b2 = Room(bin, n, place, p) BY <1>1, <1>2, InsertIsRoom
<1>4. /\ Run(Room(bin, n, place, p), n + 1, T \cup {p}) /\ Once(Room(bin, n, place, p))
      /\ \A f : In(f, Room(bin, n, place, p)) <=> In(f, bin) \/ f = p
  BY <1>1, <1>2, RoomFacts
<1>5. IsBin(Room(bin, n, place, p), T \cup {p})
  <2>1. n + 1 \in Nat BY <1>1
  <2> QED BY <1>4, <2>1, IsBinOf
<1>6. InOrder(Room(bin, n, place, p), z, bin_index(z[p])) BY <1>1, <1>2, RoomInOrder
<1> QED BY <1>3, <1>4, <1>5, <1>6 DEF place

LEMMA FrontlinkBinned ==
    ASSUME NEW h, IsHeap(h), NEW z, NEW idle, NEW p, p \notin idle,
           Sizes(h, z, idle \cup {p}), Binned(h.bins, h.marked, z, idle)
    PROVE  LET k == Frontlink(h, p)
           IN Linked(k, h) /\ Binned(k.bins, k.marked, z, idle \cup {p})
<1> DEFINE size == Size(h, p)
           idx == bin_index(size)
           bin == h.bins[idx]
           b2 == InsertAt(bin, Place(h, bin, p), p)
           bins2 == [h.bins EXCEPT ![idx] = b2]
           marked2 == IF size < MaxSmall \/ bin = <<>> THEN h.marked \cup {BlockOf(idx)}
                      ELSE h.marked
           k == Frontlink(h, p)
<1>1. Linked(k, h) /\ k.bins = bins2 /\ k.marked = marked2
  <2>1. k = [h EXCEPT !.bins[idx] = b2,
                      !.marked = IF size < MaxSmall \/ bin = <<>>
                                 THEN @ \cup {BlockOf(idx)} ELSE @] BY DEF Frontlink
  <2> HIDE DEF k, b2, idx
  <2> QED BY <2>1 DEF IsHeap, Linked, Settings
<1>2. size = z[p] /\ size \in Nat /\ size >= MINSIZE BY DEF Sizes
<1>3. idx \in 2 .. LastBin - 1 BY <1>2, BinIndex
<1>4. idx \in 0 .. LastBin /\ idx \in 2 .. LastBin /\ idx # 0 /\ idx # 1
      /\ 1 \in 0 .. LastBin /\ 0 \in 0 .. LastBin /\ 2 .. LastBin \subseteq 0 .. LastBin
  BY <1>3, Constants
<1>5. /\ h.bins = [i \in 0 .. LastBin |-> h.bins[i]] /\ DOMAIN h.bins = 0 .. LastBin
      /\ \A i \in 0 .. LastBin : IsBin(h.bins[i], idle) /\ Once(h.bins[i])
      /\ \A f \in idle : \E i \in 0 .. LastBin : In(f, h.bins[i])
      /\ \A i, j \in 0 .. LastBin : \A f \in idle : In(f, h.bins[i]) /\ In(f, h.bins[j]) => i = j
      /\ h.bins[0] = <<>> /\ (h.bins[1] = <<>> \/ \E f \in idle : h.bins[1] = <<f>>)
      /\ \A i \in 2 .. LastBin : /\ InOrder(h.bins[i], z, i)
                                 /\ h.bins[i] # <<>> => BlockOf(i) \in h.marked
  BY DEF Binned
<1>6. /\ IsBin(b2, idle \cup {p}) /\ Once(b2) /\ InOrder(b2, z, idx)
      /\ \A f : In(f, b2) <=> In(f, bin) \/ f = p
  <2>1. idx = bin_index(z[p]) BY <1>2
  <2> HIDE DEF idx
  <2>2. IsBin(bin, idle) /\ Once(bin) /\ InOrder(bin, z, bin_index(z[p]))
    BY <1>4, <1>5, <2>1
  <2> HIDE DEF bin
  <2> QED BY <2>1, <2>2, FrontlinkBin
<1> HIDE DEF b2
<1>7. bins2[idx] = b2 /\ \A i \in 0 .. LastBin : i # idx => bins2[i] = h.bins[i]
  BY <1>4, <1>5
<1>8. bins2 = [i \in 0 .. LastBin |-> bins2[i]] BY <1>5
<1>9. /\ BlockOf(idx) \in marked2 /\ h.marked \subseteq marked2 BY <1>4, <1>5
<1>17. marked2 \subseteq 0 .. BlockOf(LastBin)
  <2>1. BlockOf(idx) \in 0 .. BlockOf(LastBin)
    BY <1>4, Constants DEF BlockOf, BINBLOCKWIDTH
  <2>2. h.marked \subseteq 0 .. BlockOf(LastBin) BY DEF Binned
  <2> QED BY <2>1, <2>2
<1> HIDE DEF bins2, marked2, k
<1>10. \A i \in 0 .. LastBin : IsBin(bins2[i], idle \cup {p}) /\ Once(bins2[i])
  <2>1. \A T, b : IsBin(b, T) => IsBin(b, T \cup {p})
    <3>1. TAKE T, b
    <3>2. HAVE IsBin(b, T)
    <3>3. PICK n \in Nat : Run(b, n, T) BY <3>2, BinLength
    <3>4. Run(b, n, T \cup {p}) BY <3>3 DEF Run
    <3> QED BY <3>4, IsBinOf
  <2> QED BY <1>5, <1>6, <1>7, <2>1
<1>11. \A i \in 0 .. LastBin : ~In(p, h.bins[i])
  <2>1. \A T, b : IsBin(b, T) /\ p \notin T => ~In(p, b)
    <3>1. TAKE T, b
    <3>2. HAVE IsBin(b, T) /\ p \notin T
    <3>3. PICK n \in Nat : Run(b, n, T) /\ DOMAIN b = 1 .. n BY <3>2, BinLength
    <3> QED BY <3>2, <3>3 DEF In, Run
  <2> QED BY <1>5, <2>1
<1>12. \A f \in idle \cup {p} : \E i \in 0 .. LastBin : In(f, bins2[i])
  <2>1. In(p, bins2[idx]) BY <1>6, <1>7
  <2>2. \A f \in idle : \E i \in 0 .. LastBin : In(f, h.bins[i]) BY <1>5
  <2> QED BY <1>4, <1>6, <1>7, <2>1, <2>2
<1>13. \A i, j \in 0 .. LastBin : \A f \in idle \cup {p} :
           In(f, bins2[i]) /\ In(f, bins2[j]) => i = j
  <2>1. \A i \in 0 .. LastBin : \A f : In(f, bins2[i]) <=> In(f, h.bins[i]) \/ (f = p /\ i = idx)
    BY <1>6, <1>7
  <2>2. TAKE i, j \in 0 .. LastBin
  <2>3. TAKE f \in idle \cup {p}
  <2>4. HAVE In(f, bins2[i]) /\ In(f, bins2[j])
  <2>5. CASE f = p BY <1>11, <2>1, <2>4, <2>5
  <2>6. CASE f # p
    <3>1. f \in idle /\ In(f, h.bins[i]) /\ In(f, h.bins[j]) BY <2>1, <2>4, <2>6
    <3> QED BY <1>5, <3>1
  <2> QED BY <2>5, <2>6
<1>14. bins2[0] = <<>> /\ (bins2[1] = <<>> \/ \E f \in idle \cup {p} : bins2[1] = <<f>>)
  BY <1>4, <1>5, <1>7
<1>15. \A i \in 2 .. LastBin : /\ InOrder(bins2[i], z, i)
                               /\ bins2[i] # <<>> => BlockOf(i) \in marked2
  BY <1>4, <1>5, <1>6, <1>7, <1>9
<1>16. Binned(bins2, marked2, z, idle \cup {p})
  BY <1>8, <1>10, <1>12, <1>13, <1>14, <1>15, <1>17 DEF Binned
<1> QED BY <1>1, <1>16 DEF k

(* Bins do not depend on the sizes of chunks that are not free. *)
LEMMA BinnedSizes ==
    ASSUME NEW bins, NEW marked, NEW z, NEW z2, NEW idle, Binned(bins, marked, z, idle),
           \A f \in idle : z2[f] = z[f]
    PROVE  Binned(bins, marked, z2, idle)
<1>1. \A i \in 0 .. LastBin : \A k \in DOMAIN bins[i] : bins[i][k] \in idle
  <2>1. TAKE i \in 0 .. LastBin
  <2>2. IsBin(bins[i], idle) BY DEF Binned
  <2>3. PICK n \in Nat : Run(bins[i], n, idle) /\ DOMAIN bins[i] = 1 .. n
    BY <2>2, BinLength
  <2> QED BY <2>3 DEF Run
<1>2. \A i \in 2 .. LastBin : InOrder(bins[i], z2, i)
  <2>1. TAKE i \in 2 .. LastBin
  <2>2. InOrder(bins[i], z, i) /\ i \in 0 .. LastBin
    <3>1. InOrder(bins[i], z, i) BY DEF Binned
    <3> QED BY <3>1, Constants
  <2>3. PICK n \in Nat : DOMAIN bins[i] = 1 .. n
    <3>1. IsBin(bins[i], idle) BY <2>2 DEF Binned
    <3> QED BY <3>1, BinLength
  <2>4. \A k \in 1 .. n : k > 1 => k - 1 \in 1 .. n OBVIOUS
  <2> QED BY <1>1, <2>2, <2>3, <2>4 DEF InOrder
<1> QED BY <1>2 DEF Binned

(* The last remainder comes and goes. *)
LEMMA RemainderBinned ==
    ASSUME NEW bins, NEW marked, NEW z, NEW idle, Binned(bins, marked, z, idle)
    PROVE  /\ \A p : bins[1] = <<>> /\ p \notin idle =>
                  Binned([bins EXCEPT ![1] = <<p>>], marked, z, idle \cup {p})
           /\ \A p : bins[1] = <<p>> =>
                  /\ p \in idle /\ Binned([bins EXCEPT ![1] = <<>>], marked, z, idle \ {p})
<1>1. /\ 0 \in 0 .. LastBin /\ 1 \in 0 .. LastBin
      /\ \A i \in 2 .. LastBin : i # 0 /\ i # 1 /\ i \in 0 .. LastBin BY Constants
<1>2. \A p : /\ IsBin(<<p>>, {p}) /\ Once(<<p>>) /\ \A f : In(f, <<p>>) <=> f = p
             /\ <<p>> # <<>> BY DEF IsBin, Once, In
<1>3. \A T : IsBin(<<>>, T) /\ Once(<<>>) /\ \A f : ~In(f, <<>>) BY DEF IsBin, Once, In
<1>4. \A T, U, b : IsBin(b, T) /\ T \subseteq U => IsBin(b, U)
  <2>1. TAKE T, U, b
  <2>2. HAVE IsBin(b, T) /\ T \subseteq U
  <2>3. PICK n \in Nat : Run(b, n, T) BY <2>2, BinLength
  <2>4. Run(b, n, U) BY <2>2, <2>3 DEF Run
  <2> QED BY <2>4, IsBinOf
<1>5. \A T, b, p : IsBin(b, T) => (~In(p, b) => IsBin(b, T \ {p})) /\ (p \notin T => ~In(p, b))
  <2>1. TAKE T, b, p
  <2>2. HAVE IsBin(b, T)
  <2>3. PICK n \in Nat : Run(b, n, T) /\ DOMAIN b = 1 .. n BY <2>2, BinLength
  <2>4. p \notin T => ~In(p, b) BY <2>3 DEF Run, In
  <2>5. ~In(p, b) => Run(b, n, T \ {p}) BY <2>3 DEF Run, In
  <2> QED BY <2>4, <2>5, IsBinOf
<1>6. /\ bins = [i \in 0 .. LastBin |-> bins[i]] /\ DOMAIN bins = 0 .. LastBin
      /\ \A i \in 0 .. LastBin : IsBin(bins[i], idle) /\ Once(bins[i])
      /\ \A f \in idle : \E i \in 0 .. LastBin : In(f, bins[i])
      /\ \A i, j \in 0 .. LastBin : \A f \in idle : In(f, bins[i]) /\ In(f, bins[j]) => i = j
      /\ bins[0] = <<>>
      /\ \A i \in 2 .. LastBin : /\ InOrder(bins[i], z, i)
                                 /\ bins[i] # <<>> => BlockOf(i) \in marked BY DEF Binned
<1>7. ASSUME NEW p, bins[1] = <<>>, p \notin idle
      PROVE  Binned([bins EXCEPT ![1] = <<p>>], marked, z, idle \cup {p})
  <2> DEFINE b2 == [bins EXCEPT ![1] = <<p>>]
  <2>1. /\ b2 = [i \in 0 .. LastBin |-> b2[i]]
        /\ b2[1] = <<p>> /\ \A i \in 0 .. LastBin : i # 1 => b2[i] = bins[i] BY <1>1, <1>6
  <2> HIDE DEF b2
  <2>2. \A i \in 0 .. LastBin : \A f : In(f, b2[i]) <=> In(f, bins[i]) \/ (i = 1 /\ f = p)
    <3>1. \A f : (In(f, b2[1]) <=> f = p) /\ ~In(f, bins[1]) BY <1>2, <1>3, <1>7, <2>1
    <3> QED BY <2>1, <3>1
  <2>3. \A i \in 0 .. LastBin : IsBin(b2[i], idle \cup {p}) /\ Once(b2[i])
    <3>1. IsBin(<<p>>, idle \cup {p})
      <4>1. IsBin(<<p>>, {p}) /\ {p} \subseteq idle \cup {p} BY <1>2
      <4> QED BY <1>4, <4>1
    <3>2. \A i \in 0 .. LastBin : IsBin(bins[i], idle \cup {p})
      <4>1. idle \subseteq idle \cup {p} OBVIOUS
      <4> QED BY <1>4, <1>6, <4>1
    <3> QED BY <1>2, <1>6, <2>1, <3>1, <3>2
  <2>4. \A i \in 0 .. LastBin : ~In(p, bins[i]) BY <1>5, <1>6, <1>7
  <2>5. \A f \in idle \cup {p} : \E i \in 0 .. LastBin : In(f, b2[i]) BY <1>1, <1>6, <2>2
  <2>6. \A i, j \in 0 .. LastBin : \A f \in idle \cup {p} : In(f, b2[i]) /\ In(f, b2[j]) => i = j
    BY <1>6, <2>2, <2>4
  <2>7. Binned(b2, marked, z, idle \cup {p})
    BY <1>1, <1>6, <2>1, <2>3, <2>5, <2>6 DEF Binned
  <2> QED BY <2>7 DEF b2
<1>8. ASSUME NEW p, bins[1] = <<p>>
      PROVE  p \in idle /\ Binned([bins EXCEPT ![1] = <<>>], marked, z, idle \ {p})
  <2> DEFINE b2 == [bins EXCEPT ![1] = <<>>]
  <2>1. /\ b2 = [i \in 0 .. LastBin |-> b2[i]]
        /\ b2[1] = <<>> /\ \A i \in 0 .. LastBin : i # 1 => b2[i] = bins[i] BY <1>1, <1>6
  <2> HIDE DEF b2
  <2>2. p \in idle /\ In(p, bins[1])
    <3>1. In(p, bins[1]) BY <1>2, <1>8
    <3>2. IsBin(bins[1], idle) BY <1>1, <1>6
    <3> QED BY <1>5, <3>1, <3>2
  <2>3. \A i \in 0 .. LastBin : i # 1 => ~In(p, bins[i]) BY <1>1, <1>6, <2>2
  <2>4. \A i \in 0 .. LastBin : \A f \in idle \ {p} : In(f, b2[i]) <=> In(f, bins[i])
    <3>1. \A f \in idle \ {p} : ~In(f, b2[1]) /\ ~In(f, bins[1])
      <4>1. TAKE f \in idle \ {p}
      <4>2. ~In(f, <<p>>) BY <1>2
      <4>3. ~In(f, <<>>) BY <1>3
      <4> QED BY <1>8, <2>1, <4>2, <4>3
    <3> QED BY <2>1, <3>1
  <2>5. \A i \in 0 .. LastBin : IsBin(b2[i], idle \ {p}) /\ Once(b2[i])
    BY <1>3, <1>5, <1>6, <2>1, <2>3
  <2>6. \A f \in idle \ {p} : \E i \in 0 .. LastBin : In(f, b2[i]) BY <1>6, <2>4
  <2>7. \A i, j \in 0 .. LastBin : \A f \in idle \ {p} : In(f, b2[i]) /\ In(f, b2[j]) => i = j
    BY <1>6, <2>4
  <2>8. Binned(b2, marked, z, idle \ {p}) BY <1>1, <1>6, <2>1, <2>5, <2>6, <2>7 DEF Binned
  <2> QED BY <2>2, <2>8 DEF b2
<1> QED BY <1>7, <1>8

LEMMA RemainderResized ==
    ASSUME NEW bins, NEW marked, NEW z, NEW z2, NEW idle, Binned(bins, marked, z, idle),
           NEW p, bins[1] = <<p>>, \A f \in idle \ {p} : z2[f] = z[f]
    PROVE  Binned(bins, marked, z2, idle)
<1> DEFINE b1 == [bins EXCEPT ![1] = <<>>]
<1>1. p \in idle /\ Binned(b1, marked, z, idle \ {p}) BY RemainderBinned
<1>2. Binned(b1, marked, z2, idle \ {p}) BY <1>1, BinnedSizes
<1>3. 1 \in 0 .. LastBin /\ bins = [i \in 0 .. LastBin |-> bins[i]]
  BY Constants DEF Binned
<1>4. b1[1] = <<>> BY <1>3
<1>5. Binned([b1 EXCEPT ![1] = <<p>>], marked, z2, (idle \ {p}) \cup {p})
  BY <1>2, <1>4, RemainderBinned
<1>6. (idle \ {p}) \cup {p} = idle BY <1>1
<1>7. [b1 EXCEPT ![1] = <<p>>] = bins BY <1>3
<1> QED BY <1>5, <1>6, <1>7

-----------------------------------------------------------------------------
(* The tags: sizes and use bits *)

LEMMA HeaderParts ==
    ASSUME NEW n \in Nat, NEW b \in {0, 1}
    PROVE  Header(n, b) \in Int /\ Header(n, b) \div 2 = n /\ Header(n, b) % 2 = b
  BY DEF Header

(* Tags do not share a word, and none is among the words of a chunk.       *)
LEMMA WordsApart ==
    ASSUME NEW C, NEW S, NEW z, NEW top, NEW brk, NEW heads, NEW F,
           Laid(C, S, z, top, brk, heads, F)
    PROVE  LET P == Pieces(C, S, top) IN
           /\ P \subseteq Nat \ {0}
           /\ \A x \in P : z[x] \in Nat /\ x + 1 \in Start .. End - 1
           /\ \A c \in C : c + z[c] \in P /\ z[c] >= MINSIZE
           /\ \A x, y \in P : x + 1 # y
           /\ \A x, y \in C : x + z[x] = y + z[y] => x = y
           /\ \A s \in S : /\ s + z[s] + 1 \in Start .. End - 1
                           /\ \A x \in P : s + z[s] + 1 # x + 1 /\ s + z[s] + 1 # x
                           /\ \A t \in S : s + z[s] + 1 = t + z[t] + 1 => s = t
<1> DEFINE P == Pieces(C, S, top)
<1>1. P \subseteq Start .. End /\ P \subseteq Nat /\ P \subseteq Nat \ {0} /\ brk \in Nat /\ brk <= End
  BY Constants DEF Laid
<1>2. \A x \in P : z[x] \in Nat BY <1>1 DEF Laid
<1>3. /\ \A x, y \in P : x < y => Beyond(S, z, x) <= y
      /\ \A x \in P : Beyond(S, z, x) <= brk BY DEF Laid
<1>4. \A x \in P : Beyond(S, z, x) \in Nat /\ Beyond(S, z, x) >= x + 3
  BY <1>1, <1>2 DEF Laid, Beyond, IsChunk, Pieces, MINSIZE
<1>5. \A c \in C : /\ c \in P /\ c \notin S /\ Beyond(S, z, c) = c + z[c]
                   /\ c + z[c] \in P /\ z[c] >= MINSIZE
  BY DEF Laid, Pieces, Beyond, IsChunk
<1>6. \A s \in S : s \in P /\ Beyond(S, z, s) = s + z[s] + 2 /\ z[s] \in 1 .. 2
  BY DEF Laid, Pieces, Beyond
<1> HIDE DEF P
<1>7. \A x \in P : x + 1 \in Start .. End - 1 BY <1>1, <1>3, <1>4, Constants
<1>8. \A x, y \in P : x + 1 # y BY <1>1, <1>3, <1>4
<1>9. \A x, y \in C : x + z[x] = y + z[y] => x = y
  <2>1. \A x, y \in P : Beyond(S, z, x) = Beyond(S, z, y) => x = y BY <1>1, <1>3, <1>4
  <2> QED BY <1>5, <2>1
<1>10. \A s \in S : /\ s + z[s] + 1 \in Start .. End - 1
                    /\ \A x \in P : s + z[s] + 1 # x + 1 /\ s + z[s] + 1 # x
                    /\ \A t \in S : s + z[s] + 1 = t + z[t] + 1 => s = t
  <2>1. TAKE s \in S
  <2>2. s \in Nat /\ z[s] \in 1 .. 2 /\ s >= Start /\ s + z[s] + 2 <= brk
    <3>1. s \in P /\ Beyond(S, z, s) = s + z[s] + 2 /\ z[s] \in 1 .. 2 BY <1>6
    <3>2. Beyond(S, z, s) <= brk /\ s \in Start .. End BY <1>1, <1>3, <3>1
    <3> QED BY <3>1, <3>2, Constants
  <2>3. \A x \in P : s < x => s + z[s] + 2 <= x BY <1>3, <1>6
  <2>4. \A x \in P : x < s => x + 3 <= s
    <3>1. s \in P BY <1>6
    <3> QED BY <1>1, <1>3, <1>4, <3>1
  <2>5. \A t \in S : t \in P /\ z[t] \in 1 .. 2 /\ (t < s => t + z[t] + 2 <= s)
    BY <1>3, <1>6
  <2>6. s + z[s] + 1 \in Start .. End - 1 BY <1>1, <2>2, Constants
  <2>7. \A x \in P : s + z[s] + 1 # x + 1 /\ s + z[s] + 1 # x BY <1>1, <2>2, <2>3, <2>4
  <2>8. \A t \in S : s + z[s] + 1 = t + z[t] + 1 => s = t BY <1>1, <2>2, <2>3, <2>5
  <2> QED BY <2>6, <2>7, <2>8
<1> QED BY <1>1, <1>2, <1>5, <1>7, <1>8, <1>9, <1>10 DEF P

(* The words of a chunk in use, and all of the top but its header          *)
LEMMA WordsInside ==
    ASSUME NEW C, NEW S, NEW z, NEW top, NEW brk, NEW heads, NEW F,
           Laid(C, S, z, top, brk, heads, F), NEW idle \in SUBSET C
    PROVE  /\ \A p \in C \ idle : \A a \in p + 2 .. p + z[p] : a \notin TagWords(C, S, z, top, idle)
           /\ top # InitialTop =>
                  \A a \in Nat : a >= top + 2 /\ a <= top + z[top] => a \notin TagWords(C, S, z, top, idle)
           /\ \A a \in F : a \notin TagWords(C, S, z, top, idle)
           /\ \A a \in Nat : a >= brk => a \notin TagWords(C, S, z, top, idle)
<1> DEFINE P == Pieces(C, S, top)
<1>1. P \subseteq Nat /\ brk \in Nat /\ F \subseteq Nat BY Constants DEF Laid
<1>2. \A x \in P : z[x] \in Nat BY <1>1 DEF Laid
<1>3. /\ \A x, y \in P : x < y => Beyond(S, z, x) <= y
      /\ \A x \in P : Beyond(S, z, x) <= brk
      /\ \A a \in F : \A x \in P : a < x \/ a >= Beyond(S, z, x)
      /\ \A a \in F : a < brk BY Constants DEF Laid
<1>4. \A x \in P : Beyond(S, z, x) \in Nat /\ Beyond(S, z, x) >= x + 3
  <2>1. \A x \in C \cup TopAt(top) : z[x] >= MINSIZE BY DEF Laid, IsChunk
  <2>2. \A x \in S : z[x] \in 1 .. 2 BY DEF Laid
  <2>3. \A x \in P : x \in S \/ (x \in C \cup TopAt(top) /\ x \notin S) BY DEF Pieces
  <2> HIDE DEF P
  <2> QED BY <1>1, <1>2, <2>1, <2>2, <2>3 DEF Beyond, MINSIZE
<1>5. \A c \in C : c \in P /\ Beyond(S, z, c) = c + z[c] /\ c + z[c] \in P
  BY DEF Laid, Pieces, Beyond
<1>6. \A s \in S : s \in P /\ Beyond(S, z, s) = s + z[s] + 2 /\ z[s] \in 1 .. 2
  BY DEF Laid, Pieces, Beyond
<1>7. top # InitialTop => top \in P /\ Beyond(S, z, top) = top + z[top]
  BY DEF Laid, Pieces, Beyond, TopAt
<1> HIDE DEF P
<1>8. \A p \in P : p \notin S => \A a \in p + 2 .. p + z[p] : \A x \in P : a # x + 1
  <2>1. TAKE p \in P
  <2>2. HAVE p \notin S
  <2>3. Beyond(S, z, p) = p + z[p] BY <2>2 DEF Beyond
  <2>4. \A x \in P : p < x => p + z[p] <= x BY <1>3, <2>3
  <2> QED BY <1>1, <1>2, <2>4
<1>9. \A p \in P : p \notin S => \A a \in p + 2 .. p + z[p] : \A s \in S : a # s + z[s] + 1
  <2>1. TAKE p \in P
  <2>2. HAVE p \notin S
  <2>3. Beyond(S, z, p) = p + z[p] BY <2>2 DEF Beyond
  <2>4. \A x \in P : p < x => p + z[p] <= x BY <1>3, <2>3
  <2>5. \A s \in S : s \in Nat /\ z[s] \in Nat /\ (s < p => s + z[s] + 2 <= p)
    BY <1>1, <1>2, <1>3, <1>6
  <2> QED BY <1>1, <1>2, <1>6, <2>2, <2>4, <2>5
<1>10. \A p \in P : p \notin S =>
           \A a \in p + 2 .. p + z[p] : \A f \in C : a = f + z[f] => f = p \/ a = p + z[p]
  <2>1. TAKE p \in P
  <2>2. HAVE p \notin S
  <2>3. Beyond(S, z, p) = p + z[p] BY <2>2 DEF Beyond
  <2>4. \A x \in P : p < x => p + z[p] <= x BY <1>3, <2>3
  <2> QED BY <1>1, <1>2, <1>5, <2>4
<1>11. \A p, f \in P : p # f => Beyond(S, z, p) # Beyond(S, z, f) BY <1>1, <1>3, <1>4
<1>12. ASSUME NEW p \in P, p \notin S, p \notin idle, NEW a \in p + 2 .. p + z[p]
       PROVE  a \notin TagWords(C, S, z, top, idle)
  <2>1. \A f \in idle : a # f + z[f]
    <3>1. TAKE f \in idle
    <3>2. SUFFICES ASSUME a = f + z[f] PROVE FALSE OBVIOUS
    <3>3. a = p + z[p] BY <1>10, <1>12, <3>2
    <3>4. Beyond(S, z, p) = p + z[p] /\ Beyond(S, z, f) = f + z[f] /\ f \in P /\ f # p
      BY <1>5, <1>12 DEF Beyond
    <3> QED BY <1>11, <3>2, <3>3, <3>4
  <2> QED BY <1>8, <1>9, <1>12, <2>1 DEF TagWords, P
<1>13. \A p \in C \ idle : \A a \in p + 2 .. p + z[p] : a \notin TagWords(C, S, z, top, idle)
  BY <1>5, <1>12 DEF Laid
<1>14. top # InitialTop =>
          \A a \in Nat : a >= top + 2 /\ a <= top + z[top] => a \notin TagWords(C, S, z, top, idle)
  <2>1. HAVE top # InitialTop
  <2>2. top \in P /\ top \notin S /\ top \notin idle /\ top \in Nat /\ z[top] \in Nat
    BY <1>1, <1>2, <1>7, <2>1 DEF Laid
  <2>3. \A a \in Nat : a >= top + 2 /\ a <= top + z[top] => a \in top + 2 .. top + z[top]
    BY <2>2
  <2> QED BY <1>12, <2>2, <2>3
<1>15. \A a \in F : a \notin TagWords(C, S, z, top, idle)
  <2>1. TAKE a \in F
  <2>2. \A x \in P : a # x + 1 BY <1>1, <1>3, <1>4
  <2>3. \A x \in P : a # x BY <1>1, <1>3, <1>4
  <2>4. \A s \in S : a # s + z[s] + 1
    <3>1. TAKE s \in S
    <3>2. a \in Nat /\ s \in Nat /\ z[s] \in 1 .. 2 BY <1>1, <1>6
    <3>3. a < s \/ a >= s + z[s] + 2 BY <1>3, <1>6
    <3> QED BY <3>2, <3>3
  <2> QED BY <1>5, <2>2, <2>3, <2>4 DEF TagWords, P
<1>16. \A a \in Nat : a >= brk => a \notin TagWords(C, S, z, top, idle)
  <2>1. TAKE a \in Nat
  <2>2. HAVE a >= brk
  <2>3. \A x \in P : x + 3 <= brk BY <1>1, <1>3, <1>4
  <2>4. \A x \in P : a # x + 1 /\ a # x BY <1>1, <2>2, <2>3
  <2>5. \A s \in S : a # s + z[s] + 1
    <3>1. TAKE s \in S
    <3>2. s \in Nat /\ z[s] \in 1 .. 2 BY <1>1, <1>6
    <3>3. s + z[s] + 2 <= brk BY <1>3, <1>6
    <3> QED BY <1>1, <2>2, <3>2, <3>3
  <2> QED BY <1>5, <2>4, <2>5 DEF TagWords, P
<1> QED BY <1>13, <1>14, <1>15, <1>16

(* Other words than the tags do not matter. *)
LEMMA SameTags ==
    ASSUME NEW m, NEW C, NEW S, NEW z, NEW top, NEW idle, NEW L, NEW M,
           Tagged(m, C, S, z, top, idle, L, M),
           NEW m2 \in [Start .. End - 1 -> Int],
           \A a \in TagWords(C, S, z, top, idle) : m2[a] = m[a]
    PROVE  Tagged(m2, C, S, z, top, idle, L, M)
  BY DEF Tagged, TagWords

(* A header is written. *)
LEMMA HeadWritten ==
    ASSUME NEW C, NEW S, NEW z, NEW top, NEW brk, NEW heads, NEW F,
           Laid(C, S, z, top, brk, heads, F), NEW idle \in SUBSET C,
           NEW m, NEW L, NEW M, Tagged(m, C, S, z, top, idle, L, M),
           NEW p \in Pieces(C, S, top), NEW b \in {0, 1}, b = Bit(z, idle, p)
    PROVE  Tagged([m EXCEPT ![p + 1] = Header(z[p], b)], C, S, z, top, idle, L \ {p}, M \ {p})
<1> DEFINE P == Pieces(C, S, top)
           m2 == [m EXCEPT ![p + 1] = Header(z[p], b)]
<1>1. /\ P \subseteq Nat /\ p + 1 \in Start .. End - 1 /\ z[p] \in Nat
      /\ \A f \in idle : f + z[f] # p + 1
      /\ \A s \in S : s + z[s] + 1 # p + 1 BY WordsApart
<1>2. Header(z[p], b) \in Int /\ Header(z[p], b) \div 2 = z[p] /\ Header(z[p], b) % 2 = b
  BY <1>1, HeaderParts
<1>3. m \in [Start .. End - 1 -> Int] BY DEF Tagged
<1>4. m2 \in [Start .. End - 1 -> Int] /\ m2[p + 1] = Header(z[p], b)
      /\ \A a : a # p + 1 => m2[a] = m[a] BY <1>1, <1>2, <1>3
<1> HIDE DEF m2
<1>5. \A x \in P : x # p => x + 1 # p + 1 BY <1>1
<1>6. \A x \in P \ (L \ {p}) : m2[x + 1] \div 2 = z[x] BY <1>2, <1>4, <1>5 DEF Tagged
<1>7. \A x \in P \ (M \ {p}) : m2[x + 1] % 2 = Bit(z, idle, x)
  BY <1>2, <1>4, <1>5 DEF Tagged
<1>8. /\ \A f \in idle : m2[f + z[f]] = z[f]
      /\ \A s \in S : m2[s + z[s] + 1] % 2 = 1 BY <1>1, <1>4 DEF Tagged
<1> QED BY <1>4, <1>6, <1>7, <1>8 DEF Tagged, m2

(* The size of a chunk is written at its end. *)
LEMMA FootWritten ==
    ASSUME NEW C, NEW S, NEW z, NEW top, NEW brk, NEW heads, NEW F,
           Laid(C, S, z, top, brk, heads, F), NEW idle \in SUBSET C,
           NEW m, NEW L, NEW M, Tagged(m, C, S, z, top, idle, L, M), NEW p \in C,
           NEW m2, WordStored(m2, m, p + z[p], z[p])
    PROVE  Tagged(m2, C, S, z, top, idle, L, M) /\ OnlyWord(m2, m, p + z[p], z[p])
<1> DEFINE P == Pieces(C, S, top)
           w == p + z[p]
<1>1. /\ P \subseteq Nat /\ w \in P /\ w + 1 \in Start .. End - 1 /\ z[p] \in Nat /\ p \in P
      /\ \A x \in P : x + 1 # w
      /\ \A f \in idle : f + z[f] = w => f = p
      /\ \A s \in S : s + z[s] + 1 # w BY WordsApart DEF Pieces
<1>2. w \in Start .. End - 1
  <2>1. w \in Start .. End /\ w + 1 <= End BY <1>1, Constants DEF Laid
  <2> QED BY <1>1, <2>1, Constants
<1>3. m \in [Start .. End - 1 -> Int] BY DEF Tagged
<1> HIDE DEF w
<1>4. m2 \in [Start .. End - 1 -> Int] /\ m2[w] = z[p] /\ \A a : a # w => m2[a] = m[a]
  BY <1>1, <1>2, <1>3 DEF w, WordStored
<1>5. \A f \in idle : m2[f + z[f]] = z[f]
  <2>1. TAKE f \in idle
  <2>2. CASE f = p BY <1>4, <2>2 DEF w
  <2>3. CASE f # p BY <1>1, <1>4, <2>3 DEF Tagged
  <2> QED BY <2>2, <2>3
<1>6. \A x \in P : m2[x + 1] = m[x + 1] BY <1>1, <1>4
<1>7. Tagged(m2, C, S, z, top, idle, L, M) BY <1>1, <1>4, <1>5, <1>6 DEF Tagged
<1> QED BY <1>4, <1>7 DEF w, OnlyWord

(* A chunk with its size at the end and its use bit cleared is free. *)
LEMMA MarkedFree ==
    ASSUME NEW C, NEW S, NEW z, NEW top, NEW brk, NEW heads, NEW F,
           Laid(C, S, z, top, brk, heads, F), NEW idle \in SUBSET C,
           NEW m, NEW L, NEW M, Tagged(m, C, S, z, top, idle, L, M),
           NEW p \in C \ idle, m[p + z[p]] = z[p], m[p + z[p] + 1] % 2 = 0
    PROVE  Tagged(m, C, S, z, top, idle \cup {p}, L, M \ {p + z[p]})
<1>1. \A x : x # p + z[p] => Bit(z, idle \cup {p}, x) = Bit(z, idle, x) BY DEF Bit
<1>2. Bit(z, idle \cup {p}, p + z[p]) = 0 BY DEF Bit
<1> QED BY <1>1, <1>2 DEF Tagged

LEMMA MarkedUsed ==
    ASSUME NEW C, NEW S, NEW z, NEW top, NEW idle,
           NEW m, NEW L, NEW M, Tagged(m, C, S, z, top, idle, L, M), NEW p \in idle
    PROVE  Tagged(m, C, S, z, top, idle \ {p}, L, M \cup {p + z[p]})
<1>1. \A x : x # p + z[p] => Bit(z, idle \ {p}, x) = Bit(z, idle, x) BY DEF Bit
<1> QED BY <1>1 DEF Tagged

(* Chunks are joined or cut: the header of the whole is to be written, or  *)
(* those of the parts.                                                     *)
LEMMA JoinTagged ==
    ASSUME NEW C, NEW S, NEW z, NEW top, NEW brk, NEW heads, NEW F,
           Laid(C, S, z, top, brk, heads, F), NEW idle \in SUBSET C,
           NEW m, NEW L, NEW M, Tagged(m, C, S, z, top, idle, L, M),
           NEW p \in C \ idle, p + z[p] \in C \ idle
    PROVE  Tagged(m, C \ {p + z[p]}, S, [z EXCEPT ![p] = z[p] + z[p + z[p]]], top, idle,
                  L \cup {p}, M)
<1> DEFINE q == p + z[p]
           z2 == [z EXCEPT ![p] = z[p] + z[q]]
<1>1. p \notin S /\ z \in [Nat -> Nat] BY DEF Laid
<1>2. \A x : x # p => z2[x] = z[x] BY <1>1
<1>3. Pieces(C \ {q}, S, top) \subseteq Pieces(C, S, top) BY DEF Pieces
<1> HIDE DEF z2, q
<1>4. \A x : Bit(z2, idle, x) = Bit(z, idle, x) BY <1>2 DEF Bit
<1>5. /\ \A f \in idle : z2[f] = z[f]
      /\ \A s \in S : z2[s] = z[s] BY <1>1, <1>2
<1>6. Tagged(m, C \ {q}, S, z2, top, idle, L \cup {p}, M)
  BY <1>2, <1>3, <1>4, <1>5 DEF Tagged
<1> QED BY <1>6 DEF z2, q

LEMMA JoinTopTagged ==
    ASSUME NEW C, NEW S, NEW z, NEW top, NEW brk, NEW heads, NEW F,
           Laid(C, S, z, top, brk, heads, F), NEW idle \in SUBSET C,
           NEW m, NEW L, NEW M, Tagged(m, C, S, z, top, idle, L, M),
           NEW p \in C \ idle, NEW n
    PROVE  Tagged(m, C \ {p}, S, [z EXCEPT ![p] = n], p, idle, L \cup {p}, M)
<1> DEFINE z2 == [z EXCEPT ![p] = n]
<1>1. p \notin S /\ z \in [Nat -> Nat] BY DEF Laid
<1>2. \A x : x # p => z2[x] = z[x] BY <1>1
<1>3. Pieces(C \ {p}, S, p) \subseteq Pieces(C, S, top) BY DEF Pieces, TopAt
<1> HIDE DEF z2
<1>4. \A x : Bit(z2, idle, x) = Bit(z, idle, x) BY <1>2 DEF Bit
<1>5. /\ \A f \in idle : z2[f] = z[f]
      /\ \A s \in S : z2[s] = z[s] BY <1>1, <1>2
<1>6. Tagged(m, C \ {p}, S, z2, p, idle, L \cup {p}, M)
  BY <1>2, <1>3, <1>4, <1>5 DEF Tagged
<1> QED BY <1>6 DEF z2

LEMMA CutTagged ==
    ASSUME NEW C, NEW S, NEW z, NEW top, NEW brk, NEW heads, NEW F,
           Laid(C, S, z, top, brk, heads, F), NEW idle \in SUBSET C,
           NEW m, NEW L, NEW M, Tagged(m, C, S, z, top, idle, L, M),
           NEW p, NEW q, NEW n, NEW r, NEW D, NEW t, NEW z2,
           IsCut(C, S, z, top, idle, p, q, n, r, D, t, z2)
    PROVE  /\ Tagged(m, D, S, z2, t, idle, L \cup {p, q}, M \cup {q})
           /\ SameBits(z2, z, idle)
<1> USE DEF IsCut
<1>1. z \in [Nat -> Nat] /\ Pieces(C, S, top) \subseteq Nat BY Constants DEF Laid
<1>2. \A x \in Nat : x # p /\ x # q => z2[x] = z[x] BY <1>1
<1>3. \A f \in idle : z2[f] = z[f] BY <1>1, <1>2 DEF Pieces
<1>4. \A s \in S : z2[s] = z[s] BY <1>1, <1>2 DEF Pieces
<1>5. \A x : Bit(z2, idle, x) = Bit(z, idle, x) BY <1>3 DEF Bit
<1>6. \A x \in Pieces(D, S, t) \ (L \cup {p, q}) : m[x + 1] \div 2 = z2[x]
  BY <1>1, <1>2 DEF Tagged
<1>7. \A x \in Pieces(D, S, t) \ (M \cup {q}) : m[x + 1] % 2 = Bit(z2, idle, x)
  BY <1>5 DEF Tagged
<1>8. Tagged(m, D, S, z2, t, idle, L \cup {p, q}, M \cup {q})
  BY <1>3, <1>4, <1>6, <1>7 DEF Tagged
<1> QED BY <1>5, <1>8 DEF SameBits

(* A header is written with its use bit cleared. *)
LEMMA ClearWritten ==
    ASSUME NEW C, NEW S, NEW z, NEW top, NEW brk, NEW heads, NEW F,
           Laid(C, S, z, top, brk, heads, F), NEW idle \in SUBSET C,
           NEW m, NEW L, NEW M, Tagged(m, C, S, z, top, idle, L, M),
           NEW p \in Pieces(C, S, top)
    PROVE  /\ Tagged([m EXCEPT ![p + 1] = Header(z[p], 0)], C, S, z, top, idle, L \ {p}, M \cup {p})
           /\ [m EXCEPT ![p + 1] = Header(z[p], 0)][p + 1] % 2 = 0
<1> DEFINE P == Pieces(C, S, top)
           m2 == [m EXCEPT ![p + 1] = Header(z[p], 0)]
<1>1. /\ P \subseteq Nat /\ p + 1 \in Start .. End - 1 /\ z[p] \in Nat
      /\ \A f \in idle : f + z[f] # p + 1
      /\ \A s \in S : s + z[s] + 1 # p + 1 BY WordsApart
<1>2. Header(z[p], 0) \in Int /\ Header(z[p], 0) \div 2 = z[p] /\ Header(z[p], 0) % 2 = 0
  BY <1>1, HeaderParts
<1>3. m \in [Start .. End - 1 -> Int] BY DEF Tagged
<1>4. m2 \in [Start .. End - 1 -> Int] /\ m2[p + 1] = Header(z[p], 0)
      /\ \A a : a # p + 1 => m2[a] = m[a] BY <1>1, <1>2, <1>3
<1> HIDE DEF m2
<1>5. \A x \in P : x # p => x + 1 # p + 1 BY <1>1
<1>6. \A x \in P \ (L \ {p}) : m2[x + 1] \div 2 = z[x] BY <1>2, <1>4, <1>5 DEF Tagged
<1>7. \A x \in P \ (M \cup {p}) : m2[x + 1] % 2 = Bit(z, idle, x) BY <1>4, <1>5 DEF Tagged
<1>8. /\ \A f \in idle : m2[f + z[f]] = z[f]
      /\ \A s \in S : m2[s + z[s] + 1] % 2 = 1 BY <1>1, <1>4 DEF Tagged
<1> QED BY <1>2, <1>4, <1>6, <1>7, <1>8 DEF Tagged, m2

LEMMA MoreTagged ==
    ASSUME NEW m, NEW C, NEW S, NEW z, NEW top, NEW idle, NEW L, NEW M,
           Tagged(m, C, S, z, top, idle, L, M), NEW L2, NEW M2,
           L \cap Pieces(C, S, top) \subseteq L2, M \cap Pieces(C, S, top) \subseteq M2
    PROVE  Tagged(m, C, S, z, top, idle, L2, M2)
  BY DEF Tagged

(* A chunk in use with what is free after it *)
LEMMA JoinedForth ==
    ASSUME NEW m, NEW C, NEW S, NEW z, NEW top, NEW brk, NEW heads, NEW F, NEW idle,
           Whole(m, C, S, z, top, brk, heads, F, idle), NEW p \in C \ idle
    PROVE  \E C2, z2, free2 :
               /\ Pending(m, C2, S, z2, top, brk, heads, F, free2, p)
               /\ JoinForth(m, C, S, z, top, idle, p, C2, z2, free2)
<1> DEFINE next == p + z[p]
<1> USE DEF Whole
<1>1. /\ z \in [Nat -> Nat] /\ p \in Nat /\ next \in Nat /\ C \subseteq Nat /\ p # next
      /\ S \subseteq Nat /\ p \notin S
  <2>1. z \in [Nat -> Nat] /\ C \subseteq Nat /\ z[p] >= MINSIZE /\ S \subseteq Nat /\ p \notin S
    BY Constants DEF Laid, IsChunk, Pieces
  <2> QED BY <2>1 DEF MINSIZE
<1>2. CASE next \notin idle
  <2>1. TagsBut(m, C, S, z, top, idle, p)
    <3>1. Tagged(m, C, S, z, top, idle, {}, {}) BY DEF AllTags
    <3> QED BY <3>1, MoreTagged DEF TagsBut
  <2>2. Pending(m, C, S, z, top, brk, heads, F, idle, p) BY <1>2, <2>1 DEF Pending
  <2>3. JoinForth(m, C, S, z, top, idle, p, C, z, idle) BY <1>2 DEF JoinForth
  <2> QED BY <2>2, <2>3
<1>3. CASE next \in idle
  <2> DEFINE C2 == C \ {next}
             z2 == [z EXCEPT ![p] = z[p] + z[next]]
             free2 == idle \ {next}
  <2>1. Laid(C2, S, z2, top, brk, heads, F) BY <1>3, JoinLaid
  <2>2. Tagged(m, C, S, z, top, free2, {}, {} \cup {next + z[next]})
    BY <1>3, MarkedUsed DEF AllTags
  <2>3. free2 \in SUBSET C /\ p \in C \ free2 /\ next \in C \ free2 BY <1>3
  <2>4. Tagged(m, C2, S, z2, top, free2, {} \cup {p}, {} \cup {next + z[next]})
    BY <2>2, <2>3, JoinTagged
  <2>5. /\ z2[p] = z[p] + z[next] /\ p + z2[p] = next + z[next]
        /\ \A x \in (C \ {p}) \cup S : z2[x] = z[x] BY <1>1
  <2> HIDE DEF z2
  <2>6. {} \cup {p} = {p} /\ {} \cup {next + z[next]} = {next + z[next]} OBVIOUS
  <2>7. \A f \in free2 : z2[f] = z[f] BY <1>1, <2>5
  <2>8. Merged(z2, top, free2) BY <2>7 DEF Merged
  <2>9. next + z[next] \notin idle /\ next + z[next] # top BY <1>3 DEF Merged
  <2>10. m[next + z[next] + 1] % 2 = 0
    <3>1. next + z[next] \in Pieces(C, S, top) BY <1>3 DEF Laid
    <3>2. Bit(z, idle, next + z[next]) = 0 BY <1>3 DEF Bit
    <3> QED BY <3>1, <3>2 DEF Tagged, AllTags
  <2>11. \A x : Bit(z2, free2, x) = 0 => Bit(z, idle, x) = 0 BY <2>7 DEF Bit
  <2>12. p \in C2 \ free2 /\ free2 \in SUBSET C2 /\ C2 \ free2 = C \ idle BY <1>1, <1>3
  <2>13. TagsBut(m, C2, S, z2, top, free2, p) BY <2>4, <2>5, <2>6 DEF TagsBut
  <2>14. Pending(m, C2, S, z2, top, brk, heads, F, free2, p)
    BY <2>1, <2>5, <2>8, <2>9, <2>12, <2>13 DEF Pending
  <2>15. JoinForth(m, C, S, z, top, idle, p, C2, z2, free2)
    BY <1>3, <2>5, <2>9, <2>10, <2>11, <2>12 DEF JoinForth
  <2> QED BY <2>14, <2>15
<1> QED BY <1>2, <1>3

(* A chunk in use with the free chunk before it *)
LEMMA JoinedBack ==
    ASSUME NEW m, NEW C, NEW S, NEW z, NEW top, NEW brk, NEW heads, NEW F, NEW idle, NEW p,
           Pending(m, C, S, z, top, brk, heads, F, idle, p), NEW f \in idle, f + z[f] = p
    PROVE  \E C2, z2, free2 :
               /\ Pending(m, C2, S, z2, top, brk, heads, F, free2, f)
               /\ JoinBack(m, C, S, z, idle, p, f, C2, z2, free2)
<1> DEFINE C2 == C \ {p}
           z2 == [z EXCEPT ![f] = z[f] + z[p]]
           free2 == idle \ {f}
<1> USE DEF Pending
<1>1. /\ z \in [Nat -> Nat] /\ p \in Nat /\ f \in Nat /\ C \subseteq Nat /\ p # f
      /\ S \subseteq Nat /\ f \notin S BY Constants DEF Laid, Pieces
<1>2. Laid(C2, S, z2, top, brk, heads, F) BY JoinLaid
<1>3. Tagged(m, C, S, z, top, free2, {p}, {p + z[p]} \cup {p}) BY MarkedUsed DEF TagsBut
<1>4. f \in C \ free2 /\ f + z[f] \in C \ free2 /\ free2 \in SUBSET C OBVIOUS
<1>5. Tagged(m, C2, S, z2, top, free2, {p} \cup {f}, {p + z[p]} \cup {p})
  BY <1>2, <1>3, <1>4, JoinTagged
<1>6. /\ z2[f] = z[f] + z[p] /\ f + z2[f] = p + z[p]
      /\ \A x \in (C \ {f}) \cup S : z2[x] = z[x] BY <1>1
<1> HIDE DEF z2
<1>7. p \notin Pieces(C2, S, top) BY DEF Pieces, TopAt, Laid
<1>8. TagsBut(m, C2, S, z2, top, free2, f) BY <1>5, <1>6, <1>7, MoreTagged DEF TagsBut
<1>9. \A g \in free2 : z2[g] = z[g] BY <1>1, <1>6
<1>10. Merged(z2, top, free2) BY <1>9 DEF Merged
<1>11. Bit(z2, free2, f) = 1 BY <1>9 DEF Bit, Merged
<1>12. m[p] = z[f] BY DEF Tagged, TagsBut
<1>13. f \in C2 \ free2 /\ free2 \in SUBSET C2 /\ C2 \ free2 = ((C \ idle) \ {p}) \cup {f}
  BY <1>1
<1>14. Pending(m, C2, S, z2, top, brk, heads, F, free2, f)
  BY <1>2, <1>6, <1>8, <1>10, <1>13
<1>15. JoinBack(m, C, S, z, idle, p, f, C2, z2, free2)
  BY <1>6, <1>11, <1>12, <1>13 DEF JoinBack
<1> QED BY <1>14, <1>15

LEMMA FreedTags ==
    ASSUME NEW m, NEW C, NEW S, NEW z, NEW top, NEW brk, NEW heads, NEW F, NEW idle, NEW p,
           Pending(m, C, S, z, top, brk, heads, F, idle, p),
           p + z[p] # top, Bit(z, idle, p) = 1, m[p + z[p] + 1] % 2 = 0
    PROVE  Whole(FreedMem(m, z, p), C, S, z, top, brk, heads, F, idle \cup {p})
<1> USE DEF Pending
<1> DEFINE m1 == [m EXCEPT ![p + 1] = Header(z[p], 1)]
           m2 == [m1 EXCEPT ![p + z[p]] = z[p]]
           after == p + z[p]
<1>1. p \in Pieces(C, S, top) /\ after \in Pieces(C, S, top) /\ after # p /\ p \in Nat /\ after \in Nat
      /\ after + 1 # p + 1 /\ m \in [Start .. End - 1 -> Int]
  <2>1. z[p] >= MINSIZE /\ z[p] \in Nat /\ p \in Nat BY WordsApart DEF Pieces
  <2>2. p \in Pieces(C, S, top) /\ after \in Pieces(C, S, top) BY WordsApart DEF Pieces
  <2>3. m \in [Start .. End - 1 -> Int] BY DEF Tagged, TagsBut
  <2> QED BY <2>1, <2>2, <2>3 DEF MINSIZE
<1>2. Tagged(m1, C, S, z, top, idle, {p} \ {p}, {after} \ {p})
  BY <1>1, HeadWritten DEF TagsBut
<1>3. m1[after + 1] % 2 = 0 BY <1>1
<1> HIDE DEF m1
<1>4. Tagged(m2, C, S, z, top, idle, {p} \ {p}, {after} \ {p}) /\ m2[after] = z[p]
      /\ m2[after + 1] = m1[after + 1]
  <2>1. Laid(C, S, z, top, brk, heads, F) /\ idle \in SUBSET C /\ p \in C /\ p \notin idle OBVIOUS
  <2> DEFINE L == {p} \ {p}
             M == {after} \ {p}
  <2>2. Tagged(m1, C, S, z, top, idle, L, M) BY <1>2
  <2>3. WordStored(m2, m1, p + z[p], z[p]) BY DEF WordStored
  <2> HIDE DEF L, M, m2
  <2>4. Tagged(m2, C, S, z, top, idle, L, M) /\ OnlyWord(m2, m1, p + z[p], z[p])
    BY <2>1, <2>2, <2>3, FootWritten
  <2> QED BY <1>1, <2>4 DEF L, M, OnlyWord
<1> HIDE DEF m2
<1>5. Tagged(m2, C, S, z, top, idle \cup {p}, {p} \ {p}, ({after} \ {p}) \ {after})
  BY <1>3, <1>4, MarkedFree
<1>6. {p} \ {p} = {} /\ ({after} \ {p}) \ {after} = {} OBVIOUS
<1>7. \A f \in idle : f + z[f] # p BY DEF Bit
<1>8. Merged(z, top, idle \cup {p}) BY <1>1, <1>7 DEF Merged
<1> QED BY <1>5, <1>6, <1>8 DEF m1, m2, AllTags, FreedMem, Whole

LEMMA SetHeadIs ==
    ASSUME NEW h, IsHeap(h), NEW p, NEW n, NEW b
    PROVE  Rewritten(SetHead(h, p, n, b), h, [h.mem EXCEPT ![p + 1] = Header(n, b)])
  BY DEF Rewritten, SetHead, IsHeap, Settings

LEMMA SetFootIs ==
    ASSUME NEW h, IsHeap(h), NEW p, NEW n
    PROVE  Rewritten(SetFoot(h, p, n), h, [h.mem EXCEPT ![p + n] = n])
  BY DEF Rewritten, SetFoot, IsHeap, Settings

LEMMA MemoryIs ==
    ASSUME NEW h, IsHeap(h), NEW m
    PROVE  Rewritten([h EXCEPT !.mem = m], h, m)
  BY DEF Rewritten, IsHeap, Settings

LEMMA UnlinkIs ==
    ASSUME NEW h, IsHeap(h), NEW p
    PROVE  Relinked(Unlink(h, p), h, Unlinked(h.bins, p))
<1>1. Unlink(h, p) = [h EXCEPT !.bins = Unlinked(h.bins, p)] BY DEF Unlink, Unlinked
<1> QED BY <1>1 DEF Relinked, Linked, IsHeap, Settings

LEMMA LinkIs ==
    ASSUME NEW h, IsHeap(h), NEW p
    PROVE  Relinked(LinkLastRemainder(h, p), h, [h.bins EXCEPT ![1] = <<p>>])
  BY DEF Relinked, LinkLastRemainder, Linked, IsHeap, Settings

LEMMA RetireIs ==
    ASSUME NEW h, IsHeap(h)
    PROVE  Relinked([h EXCEPT !.bins[1] = <<>>], h, [h.bins EXCEPT ![1] = <<>>])
  BY DEF Relinked, Linked, IsHeap, Settings

LEMMA TopIs ==
    ASSUME NEW h, IsHeap(h), NEW p
    PROVE  LET k == [h EXCEPT !.top = p] IN
           /\ Settings(k, h) /\ k.top = p
           /\ k.bins = h.bins /\ k.marked = h.marked /\ k.mem = h.mem
  BY DEF IsHeap, Settings

-----------------------------------------------------------------------------
(* A heap between two calls *)

(* What a call reads *)
LEMMA Readings ==
    ASSUME NEW h, NEW C, NEW S, NEW z, NEW idle, NEW F, Good(h, C, S, z, idle, F)
    PROVE  /\ \A x \in Pieces(C, S, h.top) : /\ Size(h, x) = z[x] /\ Next_(h, x) = x + z[x]
                                             /\ PrevInUse(h, x) = Bit(z, idle, x)
           /\ \A x \in C \cup S : InUse(h, x) <=> x \notin idle
           /\ \A f \in idle : h.mem[f + z[f]] = z[f]
<1>1. /\ Laid(C, S, z, h.top, h.brk, ToSet(h.regions), F) /\ idle \in SUBSET C
      /\ AllTags(h.mem, C, S, z, h.top, idle) BY DEF Good, Whole
<1>2. \A x \in Pieces(C, S, h.top) : /\ Size(h, x) = z[x] /\ Next_(h, x) = x + z[x]
                                     /\ PrevInUse(h, x) = Bit(z, idle, x)
  <2>1. \A x \in Pieces(C, S, h.top) : Size(h, x) = z[x]
    <3>1. \A x \in Pieces(C, S, h.top) : x # InitialTop BY <1>1, WordsApart DEF InitialTop
    <3> QED BY <1>1, <3>1 DEF AllTags, Tagged, Size
  <2> QED BY <1>1, <2>1 DEF Next_, PrevInUse, Tagged, AllTags
<1>3. \A x \in C : InUse(h, x) <=> x \notin idle
  <2>1. TAKE x \in C
  <2>2. x \in Pieces(C, S, h.top) /\ x + z[x] \in Pieces(C, S, h.top)
    BY <1>1 DEF Laid, Pieces
  <2>3. Bit(z, idle, x + z[x]) = 1 <=> x \notin idle
    <3>1. \A f \in idle : f + z[f] = x + z[x] => f = x BY <1>1, WordsApart
    <3> QED BY <3>1 DEF Bit
  <2> QED BY <1>2, <2>2, <2>3 DEF InUse
<1>4. \A x \in S : InUse(h, x) /\ x \notin idle
  <2>1. TAKE x \in S
  <2>2. x \in Pieces(C, S, h.top) /\ x \notin idle BY <1>1 DEF Laid, Pieces
  <2>3. h.mem[x + z[x] + 1] % 2 = 1 BY <1>1 DEF Tagged, AllTags
  <2> QED BY <1>2, <2>2, <2>3 DEF InUse, PrevInUse
<1> QED BY <1>1, <1>2, <1>3, <1>4 DEF Tagged, AllTags

LEMMA JoinedAround ==
    ASSUME NEW m, NEW C, NEW S, NEW z, NEW top, NEW brk, NEW heads, NEW F, NEW idle,
           Whole(m, C, S, z, top, brk, heads, F, idle), NEW p \in C \ idle
    PROVE  \E first, C2, z2, free2 :
               /\ Pending(m, C2, S, z2, top, brk, heads, F, free2, first)
               /\ JoinAround(m, C, S, z, top, idle, p, first, C2, z2, free2)
<1> DEFINE next == p + z[p]
<1>1. PICK C1, z1, free1 :
          /\ Pending(m, C1, S, z1, top, brk, heads, F, free1, p)
          /\ JoinForth(m, C, S, z, top, idle, p, C1, z1, free1) BY JoinedForth
<1>2. /\ p \in Nat /\ z[p] \in Nat /\ C \subseteq Nat /\ p \notin S /\ \A x \in C : z[x] \in Nat
      /\ z[p] >= MINSIZE /\ idle \subseteq C /\ S \cap C = {}
  BY Constants DEF Whole, Laid, Pieces, IsChunk
<1>3. /\ C1 \ free1 = C \ idle /\ free1 = idle \ {next}
      /\ \A x \in (C1 \ {p}) \cup S : z1[x] = z[x]
      /\ \A x : Bit(z1, free1, x) = 0 => Bit(z, idle, x) = 0
      /\ p + z1[p] = IF next \in idle THEN next + z[next] ELSE next
      /\ next \in idle => p + z1[p] # top /\ m[p + z1[p] + 1] % 2 = 0
  BY <1>1 DEF JoinForth
<1>4. /\ p \in C1 \ free1 /\ free1 \subseteq C1 BY <1>1 DEF Pending
<1>5. Bit(z, idle, p) \in {0, 1} /\ Bit(z1, free1, p) \in {0, 1} BY DEF Bit
<1>6. p # next BY <1>2 DEF MINSIZE
<1>7. CASE Bit(z, idle, p) = 1
  <2>1. idle \ {next, p} = free1 /\ C1 \ (free1 \cup {p}) = (C \ idle) \ {p}
    BY <1>2, <1>3, <1>4
  <2>2. Bit(z1, free1, p) = 1 BY <1>3, <1>5, <1>7
  <2>3. JoinAround(m, C, S, z, top, idle, p, p, C1, z1, free1)
    BY <1>2, <1>3, <1>7, <2>1, <2>2 DEF JoinAround
  <2> QED BY <1>1, <2>3
<1>8. CASE Bit(z, idle, p) = 0
  <2>1. PICK f \in idle : f + z[f] = p BY <1>8 DEF Bit
  <2>2. f # next /\ f \in Nat /\ f # p /\ z[f] \in Nat /\ f <= p BY <1>2, <2>1 DEF MINSIZE
  <2>3. f \in free1 /\ z1[f] = z[f] /\ f + z1[f] = p BY <1>3, <1>4, <2>1, <2>2
  <2>4. PICK C2, z2, free2 :
            /\ Pending(m, C2, S, z2, top, brk, heads, F, free2, f)
            /\ JoinBack(m, C1, S, z1, free1, p, f, C2, z2, free2)
    BY <1>1, <2>3, JoinedBack
  <2>5. /\ C2 \ free2 = ((C1 \ free1) \ {p}) \cup {f} /\ free2 = free1 \ {f}
        /\ \A x \in (C2 \ {f}) \cup S : z2[x] = z1[x]
        /\ Bit(z2, free2, f) = 1 /\ m[p] = z1[f] /\ f + z2[f] = p + z1[p]
    BY <2>4 DEF JoinBack
  <2>6. f \in C2 \ free2 /\ free2 \subseteq C2 BY <2>4 DEF Pending
  <2>7. p - m[p] = f BY <2>1, <2>2, <2>3, <2>5
  <2>8. free2 = idle \ {next, f} /\ C2 \ (free2 \cup {f}) = (C \ idle) \ {p}
    BY <1>2, <1>3, <2>1, <2>5, <2>6
  <2>9. \A x \in (C2 \ {f}) \cup S : z2[x] = z[x]
    <3>1. \A x \in C2 \ {f} : x \in C1 \ {p} BY <1>3, <1>4, <2>5, <2>6
    <3> QED BY <1>3, <2>5, <3>1
  <2>10. JoinAround(m, C, S, z, top, idle, p, f, C2, z2, free2)
    BY <1>3, <1>8, <2>1, <2>2, <2>5, <2>7, <2>8, <2>9 DEF JoinAround
  <2> QED BY <2>4, <2>10
<1> QED BY <1>5, <1>7, <1>8

(* The use bit of the chunk after them is cleared, or it was clear and the *)
(* header that is changed is within them.                                  *)
LEMMA ClearedAfter ==
    ASSUME NEW m, NEW C, NEW S, NEW z, NEW top, NEW brk, NEW heads, NEW F, NEW idle, NEW first,
           Pending(m, C, S, z, top, brk, heads, F, idle, first), NEW next \in Nat, NEW n \in Nat,
           \/ next = first + z[first] /\ n = z[next]
           \/ /\ next >= first + 1 /\ next + 1 <= first + z[first]
              /\ m[first + z[first] + 1] % 2 = 0
    PROVE  LET m1 == [m EXCEPT ![next + 1] = Header(n, 0)]
           IN /\ Pending(m1, C, S, z, top, brk, heads, F, idle, first)
              /\ m1[first + z[first] + 1] % 2 = 0
<1> DEFINE m1 == [m EXCEPT ![next + 1] = Header(n, 0)]
           after == first + z[first]
<1> USE DEF Pending
<1>1. Tagged(m, C, S, z, top, idle, {first}, {after}) BY DEF TagsBut
<1>2. /\ first \in Nat /\ z[first] \in Nat /\ z[first] >= 4 /\ first \in C \ idle
      /\ after \in Pieces(C, S, top)
      /\ first \in Pieces(C, S, top) /\ after # first /\ after \in Nat
  <2>1. first \in Pieces(C, S, top) /\ first \in C BY DEF Pieces
  <2>2. first \in Nat /\ z[first] \in Nat /\ z[first] >= MINSIZE /\ after \in Pieces(C, S, top)
    BY <2>1, WordsApart
  <2> QED BY <2>1, <2>2 DEF MINSIZE
<1>3. CASE next = after /\ n = z[next]
  <2>1. Tagged(m1, C, S, z, top, idle, {first} \ {after}, {after} \cup {after}) /\ m1[after + 1] % 2 = 0
    <3>1. m1 = [m EXCEPT ![after + 1] = Header(z[after], 0)] BY <1>3
    <3> DEFINE L == {first}
               M == {after}
    <3>2. Tagged(m, C, S, z, top, idle, L, M) BY <1>1
    <3> HIDE DEF L, M, after
    <3>3. /\ Tagged([m EXCEPT ![after + 1] = Header(z[after], 0)], C, S, z, top, idle,
                    L \ {after}, M \cup {after})
          /\ [m EXCEPT ![after + 1] = Header(z[after], 0)][after + 1] % 2 = 0
      BY <1>2, <3>2, ClearWritten
    <3> QED BY <3>1, <3>3 DEF L, M
  <2>2. {first} \ {after} = {first} /\ {after} \cup {after} = {after} BY <1>2
  <2>3. TagsBut(m1, C, S, z, top, idle, first) BY <2>1, <2>2 DEF TagsBut
  <2> HIDE DEF m1
  <2> QED BY <2>1, <2>3 DEF m1
<1>4. CASE next >= first + 1 /\ next + 1 <= after /\ m[after + 1] % 2 = 0
  <2>1. \A a \in first + 2 .. after : a \notin TagWords(C, S, z, top, idle)
    BY <1>2, WordsInside
  <2>2. next + 1 \in first + 2 .. after /\ next + 1 # after + 1 BY <1>2, <1>4
  <2>3. m \in [Start .. End - 1 -> Int] /\ Header(n, 0) \in Int BY <1>1 DEF Tagged, Header
  <2>8. next + 1 \in Start .. End - 1
    <3>1. first >= Start /\ after + 1 \in Start .. End - 1
      <4>1. after + 1 \in Start .. End - 1 BY <1>2, WordsApart
      <4>2. first >= Start BY <1>2, Constants DEF Laid
      <4> QED BY <4>1, <4>2
    <3> QED BY <1>2, <1>4, <3>1, Constants
  <2>4. m1 \in [Start .. End - 1 -> Int] /\ \A a : a # next + 1 => m1[a] = m[a]
    BY <2>3, <2>8
  <2> HIDE DEF m1
  <2>5. \A a \in TagWords(C, S, z, top, idle) : m1[a] = m[a] BY <2>1, <2>2, <2>4
  <2>6. Tagged(m1, C, S, z, top, idle, {first}, {after}) BY <1>1, <2>4, <2>5, SameTags
  <2>7. m1[after + 1] % 2 = 0 BY <1>4, <2>2, <2>4
  <2> QED BY <2>6, <2>7 DEF TagsBut, m1
<1> QED BY <1>3, <1>4

LEMMA WholeSizes ==
    ASSUME NEW m, NEW C, NEW S, NEW z, NEW top, NEW brk, NEW heads, NEW F, NEW idle,
           Whole(m, C, S, z, top, brk, heads, F, idle), NEW h, h.mem = m
    PROVE  Sizes(h, z, idle)
<1>1. idle \subseteq C /\ idle \subseteq Pieces(C, S, top) BY DEF Whole, Pieces
<1>2. \A x \in Pieces(C, S, top) : x # InitialTop /\ z[x] \in Nat
  BY WordsApart DEF InitialTop, Whole
<1>3. \A x \in Pieces(C, S, top) : m[x + 1] \div 2 = z[x] BY DEF Whole, AllTags, Tagged
<1>4. \A x \in idle : IsChunk(z, x) BY <1>1 DEF Whole, Laid
<1> QED BY <1>1, <1>2, <1>3, <1>4 DEF Sizes, Size, IsChunk

LEMMA SettingsTrans ==
    ASSUME NEW a, NEW b, NEW c, Settings(a, b), Settings(b, c)
    PROVE  Settings(a, c)
  BY DEF Settings

LEMMA FreeIntoBinGood ==
    ASSUME NEW h, NEW C, NEW S, NEW z, NEW idle, NEW F, Good(h, C, S, z, idle, F),
           NEW p \in C \ idle, p + z[p] # h.top
    PROVE  Sound(FreeIntoBin(h, p), (C \ idle) \ {p}, z, F)
<1> DEFINE heads == ToSet(h.regions)
           next == p + z[p]
<1>1. /\ IsHeap(h) /\ Whole(h.mem, C, S, z, h.top, h.brk, heads, F, idle)
      /\ Binned(h.bins, h.marked, z, idle) BY DEF Good
<1>2. PICK first, C2, z2, fr :
          /\ Pending(h.mem, C2, S, z2, h.top, h.brk, heads, F, fr, first)
          /\ JoinAround(h.mem, C, S, z, h.top, idle, p, first, C2, z2, fr)
  BY <1>1, JoinedAround
<1>3. /\ first = IF Bit(z, idle, p) = 0 THEN p - h.mem[p] ELSE p
      /\ fr = idle \ {next, first}
      /\ C2 \ (fr \cup {first}) = (C \ idle) \ {p}
      /\ \A x \in (C2 \ {first}) \cup S : z2[x] = z[x]
      /\ first + z2[first] = IF next \in idle THEN next + z[next] ELSE next
      /\ next \in idle => h.mem[first + z2[first] + 1] % 2 = 0
      /\ Bit(z2, fr, first) = 1 /\ first <= p
      /\ IF Bit(z, idle, p) = 0 THEN first \in idle /\ first + z[first] = p ELSE first \notin idle
      /\ first + z2[first] = h.top => next = h.top BY <1>2 DEF JoinAround
<1>4. /\ C \subseteq Nat /\ p \in Nat /\ z[p] \in Nat /\ z[p] >= 4 /\ next \in C \cup S
      /\ next \in Nat /\ z[next] \in Nat
      /\ next \in idle => z[next] >= 4
      /\ \A f \in idle : z[f] \in Nat
  <2>1. Laid(C, S, z, h.top, h.brk, heads, F) /\ idle \subseteq C BY <1>1 DEF Whole
  <2>2. p \in Pieces(C, S, h.top) /\ next \in Pieces(C, S, h.top)
        /\ \A c \in C : c \in Pieces(C, S, h.top) /\ z[c] >= 4
    BY <2>1, WordsApart DEF Pieces, MINSIZE
  <2>3. \A x \in Pieces(C, S, h.top) : x \in Nat /\ z[x] \in Nat BY <2>1, WordsApart
  <2> QED BY <2>1, <2>2, <2>3 DEF Pieces, TopAt
<1>5. /\ first \in C2 \ fr /\ fr \subseteq C2 /\ first \in Nat /\ z2[first] \in Nat
      /\ first + z2[first] \in C2 \cup S /\ first + z2[first] # first
  <2>1. Laid(C2, S, z2, h.top, h.brk, heads, F) /\ first \in C2 \ fr /\ fr \subseteq C2
    BY <1>2 DEF Pending
  <2>2. first + z2[first] \in Pieces(C2, S, h.top) /\ z2[first] >= 4
        /\ first \in Pieces(C2, S, h.top) BY <2>1, WordsApart DEF Pieces, MINSIZE
  <2>3. first \in Nat /\ z2[first] \in Nat BY <2>1, <2>2, WordsApart
  <2> QED BY <1>3, <2>1, <2>2, <2>3 DEF Pieces, TopAt
<1> DEFINE m1 == [h.mem EXCEPT ![next + 1] = Header(z[next], 0)]
           m4 == FreedMem(m1, z2, first)
<1>6. Whole(m4, C2, S, z2, h.top, h.brk, heads, F, fr \cup {first})
  <2>1. /\ Pending(m1, C2, S, z2, h.top, h.brk, heads, F, fr, first)
        /\ m1[first + z2[first] + 1] % 2 = 0
    <3>1. \/ next = first + z2[first] /\ z[next] = z2[next]
          \/ /\ next >= first + 1 /\ next + 1 <= first + z2[first]
             /\ h.mem[first + z2[first] + 1] % 2 = 0 BY <1>3, <1>4, <1>5
    <3> HIDE DEF next
    <3> QED BY <1>2, <1>4, <3>1, ClearedAfter
  <2>2. first + z2[first] # h.top /\ Bit(z2, fr, first) = 1 BY <1>3
  <2> HIDE DEF m1
  <2> QED BY <2>1, <2>2, FreedTags
<1> DEFINE back == Bit(z, idle, p) = 0
           forth == next \in idle
           keep == back /\ IsLastRemainder(h, first)
           move == ~keep /\ forth /\ IsLastRemainder(h, next)
           h1 == SetHead(h, next, z[next], 0)
           h2 == IF back /\ ~keep THEN Unlink(h1, first) ELSE h1
           h3 == IF ~forth THEN h2
                 ELSE IF move THEN LinkLastRemainder(h2, first) ELSE Unlink(h2, next)
           h4 == SetFoot(SetHead(h3, first, z2[first], 1), first, z2[first])
<1>7. FreeIntoBin(h, p) = IF keep \/ move THEN h4 ELSE Frontlink(h4, first)
  <2>1. /\ Next_(h, p) = next /\ PrevInUse(h, p) = Bit(z, idle, p) /\ (InUse(h, next) <=> ~forth)
        /\ Next_(h, next) = next + z[next] /\ Size(h, next) = z[next]
    BY <1>4, Readings DEF Pieces
  <2>2. (IF forth THEN Next_(h, next) ELSE next) - first = z2[first] BY <1>3, <1>5, <2>1
  <2>3. first = IF back THEN p - h.mem[p] ELSE p BY <1>3
  <2> HIDE DEF next, back, forth
  <2> QED BY <2>1, <2>2, <2>3 DEF FreeIntoBin, ClearInUse, back
<1>8. Rewritten(h1, h, m1) BY <1>1, SetHeadIs
<1>9. Relinked(h2, h1, IF back /\ ~keep THEN Unlinked(h.bins, first) ELSE h.bins)
  <2>1. IsHeap(h1) /\ h1.bins = h.bins /\ Relinked(h1, h1, h1.bins)
    BY <1>8 DEF Rewritten, Relinked, Settings, Linked
  <2> HIDE DEF h1, keep, back
  <2> QED BY <2>1, UnlinkIs
<1> HIDE DEF h1, h2
<1>10. Relinked(h3, h2, IF ~forth THEN h2.bins
                        ELSE IF move THEN [h2.bins EXCEPT ![1] = <<first>>]
                        ELSE Unlinked(h2.bins, next))
  <2>1. IsHeap(h2) /\ Relinked(h2, h2, h2.bins)
    BY <1>9 DEF Rewritten, Relinked, Settings, Linked
  <2> HIDE DEF h1, move, next, forth
  <2> QED BY <2>1, UnlinkIs, LinkIs
<1> HIDE DEF h3
<1>11. Settings(h3, h) /\ h3.mem = m1 /\ h3.top = h.top /\ h3.marked = h.marked
  BY <1>8, <1>9, <1>10 DEF Rewritten, Relinked, Linked, Settings
<1>12. /\ Settings(h4, h) /\ h4.mem = m4 /\ h4.top = h.top
       /\ h4.bins = h3.bins /\ h4.marked = h.marked
  <2> DEFINE g == SetHead(h3, first, z2[first], 1)
  <2>1. Rewritten(g, h3, [m1 EXCEPT ![first + 1] = Header(z2[first], 1)])
    BY <1>11, SetHeadIs DEF Settings
  <2> HIDE DEF g
  <2>2. Rewritten(h4, g, m4)
    <3>1. IsHeap(g) /\ g.mem = [m1 EXCEPT ![first + 1] = Header(z2[first], 1)]
      BY <2>1 DEF Rewritten, Settings
    <3> HIDE DEF m1
    <3> QED BY <3>1, SetFootIs DEF FreedMem, g
  <2> HIDE DEF h4, m4, m1
  <2> QED BY <1>11, <2>1, <2>2 DEF Rewritten, Settings
<1>13. first # next /\ fr = (idle \ {first}) \ {next} /\ fr \subseteq C2 \ {first}
       /\ \A f \in fr : z2[f] = z[f] BY <1>3, <1>4, <1>5
<1>14. Binned(h2.bins, h.marked, z, IF keep THEN idle ELSE idle \ {first})
       /\ (h2.bins[1] = h.bins[1] \/ h.bins[1] = <<first>>)
  <2>1. CASE back /\ ~keep
    <3>1. first \in idle /\ h2.bins = Unlinked(h.bins, first)
      BY <1>3, <1>9, <2>1 DEF Relinked
    <3>2. /\ Binned(Unlinked(h.bins, first), h.marked, z, idle \ {first})
          /\ h.bins[1] # <<first>> => Unlinked(h.bins, first)[1] = h.bins[1]
      BY <1>1, <1>4, <3>1, UnlinkedBinned DEF RemainderWithout, NatSizes
    <3> QED BY <2>1, <3>1, <3>2
  <2>2. CASE keep BY <1>1, <1>9, <2>2 DEF Relinked
  <2>3. CASE ~back
    <3>1. idle \ {first} = idle BY <1>3, <2>3
    <3> QED BY <1>1, <1>9, <2>3, <3>1 DEF Relinked
  <2> QED BY <2>1, <2>2, <2>3
<1> DEFINE b3 == h3.bins
<1>15. b3 = IF ~forth THEN h2.bins
            ELSE IF move THEN [h2.bins EXCEPT ![1] = <<first>>]
            ELSE Unlinked(h2.bins, next) BY <1>10 DEF Relinked
<1> HIDE DEF b3, next
<1>16. keep => Binned(b3, h.marked, z2, fr \cup {first})
  <2>1. HAVE keep
  <2>2. first \in idle /\ h.bins[1] = <<first>> BY <1>3, <2>1 DEF IsLastRemainder
  <2>3. h2.bins[1] = <<first>> /\ Binned(h2.bins, h.marked, z, idle)
    BY <1>9, <1>14, <2>1, <2>2 DEF Relinked
  <2>4. Binned(b3, h.marked, z, fr \cup {first}) /\ b3[1] = <<first>>
    <3>1. CASE ~forth
      <4>1. fr \cup {first} = idle BY <1>13, <2>2, <3>1
      <4> QED BY <1>15, <2>3, <3>1, <4>1
    <3>2. CASE forth
      <4>1. fr \cup {first} = idle \ {next} BY <1>13, <2>2, <3>2
      <4>2. <<first>> # <<next>> BY <1>13
      <4>3. b3 = Unlinked(h2.bins, next) BY <1>15, <2>1, <3>2
      <4>4. next \in idle /\ NatSizes(z, idle) BY <1>4, <3>2 DEF NatSizes
      <4>5. /\ Binned(Unlinked(h2.bins, next), h.marked, z, idle \ {next})
            /\ RemainderWithout(Unlinked(h2.bins, next), h2.bins, next)
        BY <2>3, <4>4, UnlinkedBinned
      <4> QED BY <2>3, <4>1, <4>2, <4>3, <4>5 DEF RemainderWithout
    <3> QED BY <3>1, <3>2
  <2>5. \A f \in (fr \cup {first}) \ {first} : z2[f] = z[f] BY <1>13
  <2> QED BY <2>4, <2>5, RemainderResized
<1>17. move => Binned(b3, h.marked, z2, fr \cup {first})
  <2>1. HAVE move
  <2>2. h.bins[1] = <<next>> /\ <<first>> # <<next>> BY <1>13, <2>1 DEF IsLastRemainder
  <2>3. h2.bins[1] = <<next>> /\ Binned(h2.bins, h.marked, z, idle \ {first})
    BY <1>14, <2>1, <2>2
  <2> DEFINE b4 == [h2.bins EXCEPT ![1] = <<>>]
  <2>4. Binned(b4, h.marked, z, fr) BY <1>13, <2>3, RemainderBinned
  <2>5. h2.bins = [i \in 0 .. LastBin |-> h2.bins[i]] /\ 1 \in 0 .. LastBin
    BY <2>3, Constants DEF Binned
  <2>6. b4[1] = <<>> /\ b3 = [b4 EXCEPT ![1] = <<first>>] BY <1>15, <2>1, <2>5
  <2> HIDE DEF b4
  <2>7. Binned(b4, h.marked, z2, fr) BY <1>13, <2>4, BinnedSizes
  <2> QED BY <1>13, <2>6, <2>7, RemainderBinned
<1>18. ~keep /\ ~move => Binned(b3, h.marked, z2, fr)
  <2>1. HAVE ~keep /\ ~move
  <2>2. Binned(h2.bins, h.marked, z, idle \ {first}) BY <1>14, <2>1
  <2>3. Binned(b3, h.marked, z, fr)
    <3>1. CASE ~forth
      <4>1. fr = idle \ {first} BY <1>13, <3>1
      <4> QED BY <1>15, <2>2, <3>1, <4>1
    <3>2. CASE forth
      <4>1. next \in idle \ {first} /\ NatSizes(z, idle \ {first})
        BY <1>4, <1>13, <3>2 DEF NatSizes
      <4>2. b3 = Unlinked(h2.bins, next) BY <1>15, <2>1, <3>2
      <4> QED BY <1>13, <2>2, <4>1, <4>2, UnlinkedBinned
    <3> QED BY <3>1, <3>2
  <2> QED BY <1>13, <2>3, BinnedSizes
<1>19. /\ C2 \ (fr \cup {first}) = (C \ idle) \ {p}
       /\ \A x \in C2 \ (fr \cup {first}) : z2[x] = z[x] BY <1>3
<1>20. /\ h.trim \in Nat /\ h.pad \in Pads /\ IsBin(h.regions, Nat) /\ h.ready
       /\ h.top # InitialTop => h.based BY DEF Good
<1> HIDE DEF h4, m4, keep, move
<1>21. CASE keep \/ move
  <2>1. Good(h4, C2, S, z2, fr \cup {first}, F)
    BY <1>6, <1>12, <1>16, <1>17, <1>20, <1>21 DEF Good, Settings, b3
  <2> QED BY <1>7, <1>19, <1>21, <2>1 DEF Sound
<1>22. CASE ~keep /\ ~move
  <2> DEFINE k == Frontlink(h4, first)
  <2>1. Linked(k, h4) /\ Binned(k.bins, k.marked, z2, fr \cup {first})
    <3>1. Sizes(h4, z2, fr \cup {first}) /\ IsHeap(h4)
      BY <1>6, <1>12, WholeSizes DEF Settings
    <3>2. Binned(h4.bins, h4.marked, z2, fr) /\ first \notin fr
      BY <1>5, <1>12, <1>18, <1>22 DEF b3
    <3> QED BY <3>1, <3>2, FrontlinkBinned
  <2> HIDE DEF k
  <2>2. Good(k, C2, S, z2, fr \cup {first}, F)
    BY <1>6, <1>12, <1>20, <2>1 DEF Good, Settings, Linked
  <2> QED BY <1>7, <1>19, <1>22, <2>2 DEF k, Sound
<1> QED BY <1>21, <1>22

-----------------------------------------------------------------------------
(* The break *)

LEMMA Division ==
    ASSUME NEW a \in Nat, NEW b \in Nat \ {0}
    PROVE  a \div b \in Nat /\ b * (a \div b) <= a /\ a < b * (a \div b) + b
  OBVIOUS

LEMMA Remainder ==
    ASSUME NEW a \in Nat, NEW b \in Nat \ {0}
    PROVE  a % b \in 0 .. b - 1
  OBVIOUS

LEMMA NoWrap ==
    ASSUME NEW a \in Nat, NEW b \in Nat \ {0}, a < b
    PROVE  a % b = a
  OBVIOUS

LEMMA WrapOnce ==
    ASSUME NEW a \in Nat, NEW b \in Nat \ {0}, a >= b, a < 2 * b
    PROVE  a % b = a - b
  OBVIOUS

LEMMA WrapBelow ==
    ASSUME NEW a \in Int, NEW b \in Nat \ {0}, a < 0, a >= -b
    PROVE  a % b = a + b
  OBVIOUS

LEMMA Bounds ==
    /\ Start \in Nat \ {0} /\ End \in Nat /\ Start + 8 <= End
    /\ Word \in Nat \ {0} /\ Half \in Nat \ {0} /\ Word = 2 * Half
    /\ Page \in Nat \ {0} /\ End + Page < Half BY Constants

LEMMA MovedIs ==
    ASSUME NEW h, IsHeap(h), NEW m, NEW b
    PROVE  Moved([[h EXCEPT !.mem = m] EXCEPT !.brk = b], h, m, b)
<1> DEFINE k == [h EXCEPT !.mem = m]
<1>1. Rewritten(k, h, m) BY MemoryIs
<1> HIDE DEF k
<1>2. IsHeap(k) BY <1>1 DEF Rewritten, Settings
<1> DEFINE l == [k EXCEPT !.brk = b]
<1>3. IsHeap(l) /\ l.brk = b /\ l.mem = k.mem /\ l.ready = k.ready /\ l.based = k.based
      /\ l.top = k.top /\ l.bins = k.bins /\ l.marked = k.marked /\ l.trim = k.trim
      /\ l.pad = k.pad /\ l.regions = k.regions BY <1>2 DEF IsHeap
<1> HIDE DEF l
<1>4. Moved(l, h, m, b) BY <1>1, <1>3 DEF Moved, Rewritten, Settings
<1> QED BY <1>4 DEF l, k

LEMMA SbrkUp ==
    ASSUME NEW h, IsHeap(h), h.mem \in [Start .. End - 1 -> Int], h.brk \in Start .. End,
           NEW inc \in Nat, inc < Half
    PROVE  LET r == sbrk(h, inc) IN
           IF h.brk + inc <= End THEN r.got = h.brk /\ Moved(r.heap, h, h.mem, h.brk + inc)
           ELSE r.got = Failure /\ r.heap = h
<1> DEFINE new == (h.brk + inc) % Word
           cleared == [h EXCEPT !.mem = [a \in DOMAIN @ |-> IF (a - new) % Word < 0 THEN 0 ELSE @[a]]]
<1>1. sbrk(h, inc) = IF InMemory(new) THEN [heap |-> [cleared EXCEPT !.brk = new], got |-> h.brk]
                     ELSE [heap |-> cleared, got |-> Failure] BY DEF sbrk
<1>2. new = h.brk + inc /\ new \in Nat
  <2> DEFINE a == h.brk + inc
  <2>1. a \in Nat /\ a < Word BY Bounds
  <2> HIDE DEF a
  <2>2. a % Word = a BY <2>1, Bounds, NoWrap
  <2> QED BY <2>1, <2>2 DEF a
<1> HIDE DEF new
<1>3. cleared = h
  <2>1. \A a \in Start .. End - 1 : ~((a - new) % Word < 0)
    <3>1. TAKE a \in Start .. End - 1
    <3>2. a - new \in Int /\ a - new < Word /\ (a - new < 0 => a - new >= -Word)
      BY <1>2, Bounds
    <3>3. CASE a - new < 0
      <4>1. (a - new) % Word = a - new + Word BY <3>2, <3>3, Bounds, WrapBelow
      <4> QED BY <3>2, <3>3, <4>1, Bounds
    <3>4. CASE a - new >= 0 BY <3>2, <3>4, Bounds, NoWrap
    <3> QED BY <3>2, <3>3, <3>4
  <2>2. [a \in DOMAIN h.mem |-> IF (a - new) % Word < 0 THEN 0 ELSE h.mem[a]] = h.mem
    BY <2>1
  <2>3. [h EXCEPT !.mem = h.mem] = h BY DEF IsHeap
  <2> QED BY <2>2, <2>3
<1>4. InMemory(new) <=> h.brk + inc <= End BY <1>2, Bounds DEF InMemory
<1>5. Moved([h EXCEPT !.brk = new], h, h.mem, new) BY DEF IsHeap, Moved
<1> HIDE DEF cleared
<1> QED BY <1>1, <1>2, <1>3, <1>4, <1>5

LEMMA SbrkDown ==
    ASSUME NEW h, IsHeap(h), h.mem \in [Start .. End - 1 -> Int], h.brk \in Start .. End,
           NEW x \in Nat \ {0}, x < Half, h.brk - x >= Start
    PROVE  LET r == sbrk(h, (Word - x) % Word) IN
           r.got = h.brk /\ Moved(r.heap, h, Below(h.mem, h.brk - x, h.brk), h.brk - x)
<1> DEFINE inc == Word - x
           new == (h.brk + inc) % Word
           cleared == [h EXCEPT !.mem = [a \in DOMAIN @ |-> IF (a - new) % Word < x THEN 0 ELSE @[a]]]
<1>1. inc \in Nat /\ ~(inc < Half) /\ Word - inc = x /\ (Word - x) % Word = inc
  <2>1. inc \in Nat /\ inc < Word /\ ~(inc < Half) /\ Word - inc = x BY Bounds
  <2> QED BY <2>1, Bounds, NoWrap
<1> HIDE DEF inc
<1>2. new = h.brk - x /\ new \in Nat /\ new >= Start /\ new < h.brk
  <2>1. /\ h.brk + inc \in Nat /\ h.brk + inc >= Word /\ h.brk + inc < 2 * Word
        /\ h.brk + inc - Word = h.brk - x
    <3>1. inc = Word - x /\ h.brk \in Nat /\ h.brk <= End BY Bounds DEF inc
    <3>2. h.brk - x \in Nat /\ End < Word /\ Word \in Nat BY <3>1, Bounds
    <3> DEFINE b == h.brk
    <3>3. b \in Nat /\ b <= End /\ b - x \in Nat BY <3>1, <3>2
    <3> HIDE DEF new, cleared, b
    <3>4. b + inc = Word + (b - x) BY <3>1, <3>2, <3>3
    <3>5. b + inc \in Nat /\ b + inc >= Word /\ b + inc < 2 * Word
      BY <1>1, <3>2, <3>3, <3>4, Bounds
    <3>6. b + inc - Word = b - x BY <1>1, <3>2, <3>3, <3>4
    <3> QED BY <3>5, <3>6 DEF b
  <2>2. new = h.brk + inc - Word
    <3> DEFINE a == h.brk + inc
    <3>1. a \in Nat /\ a >= Word /\ a < 2 * Word BY <2>1
    <3> HIDE DEF a, new
    <3>2. a % Word = a - Word BY <3>1, Bounds, WrapOnce
    <3>3. new = a % Word BY DEF new, a
    <3>4. new = a - Word BY <3>2, <3>3
    <3>5. inc \in Nat BY <1>1
    <3>6. h.brk \in Nat
      <4>1. h.brk \in Start .. End /\ Start \in Nat BY Bounds
      <4> QED BY <4>1
    <3>7. a = h.brk + inc BY DEF a
    <3> QED BY <3>4, <3>5, <3>6, <3>7, Bounds
  <2> QED BY <2>1, <2>2, Bounds
<1> HIDE DEF new
<1>3. InMemory(new) BY <1>2, Bounds DEF InMemory
<1>4. sbrk(h, (Word - x) % Word) = [heap |-> [cleared EXCEPT !.brk = new], got |-> h.brk]
  <2>1. sbrk(h, inc) = [heap |-> [cleared EXCEPT !.brk = new], got |-> h.brk]
    BY <1>1, <1>3 DEF sbrk, new
  <2> QED BY <1>1, <2>1
<1>5. \A a \in Start .. End - 1 : (a - new) % Word < x <=> a >= new /\ a < h.brk
  <2>1. TAKE a \in Start .. End - 1
  <2>2. a \in Nat /\ a <= End /\ h.brk \in Nat /\ h.brk <= End BY Bounds
  <2>3. CASE a >= new
    <3>1. a - new \in Nat /\ a - new < Word BY <1>2, <2>2, <2>3, Bounds
    <3>2. (a - new) % Word = a - new BY <3>1, Bounds, NoWrap
    <3> DEFINE r == (a - new) % Word
    <3>3. r = a - new BY <3>2
    <3> HIDE DEF r
    <3>4. r < x <=> a >= new /\ a < h.brk BY <1>2, <2>2, <2>3, <3>3
    <3> QED BY <3>4 DEF r
  <2>4. CASE ~(a >= new)
    <3>1. a - new \in Int /\ a - new < 0 /\ a - new >= -Word BY <1>2, <2>2, <2>4, Bounds
    <3>2. (a - new) % Word = a - new + Word BY <3>1, Bounds, WrapBelow
    <3>3. a - new + Word >= Half BY <1>2, <2>2, Bounds
    <3> DEFINE r == (a - new) % Word
    <3>4. r \in Int /\ r >= Half BY <1>2, <2>2, <3>1, <3>2, <3>3, Bounds
    <3> HIDE DEF r
    <3>5. ~(r < x) BY <3>4, Bounds
    <3> QED BY <2>4, <3>5 DEF r
  <2> QED BY <2>3, <2>4
<1>6. [a \in DOMAIN h.mem |-> IF (a - new) % Word < x THEN 0 ELSE h.mem[a]] = Below(h.mem, new, h.brk)
  BY <1>5 DEF Below
<1> DEFINE m2 == [a \in DOMAIN h.mem |-> IF (a - new) % Word < x THEN 0 ELSE h.mem[a]]
<1>7. Moved([[h EXCEPT !.mem = m2] EXCEPT !.brk = new], h, m2, new)
  <2> HIDE DEF m2
  <2> QED BY MovedIs
<1>8. cleared = [h EXCEPT !.mem = m2] OBVIOUS
<1> HIDE DEF cleared, m2, new
<1> QED BY <1>2, <1>4, <1>6, <1>7, <1>8 DEF m2

(* Only tags matter to malloc; other words may be written. *)
LEMMA WordsWritten ==
    ASSUME NEW h, NEW C, NEW S, NEW z, NEW idle, NEW F, Good(h, C, S, z, idle, F),
           NEW m \in [Start .. End - 1 -> Int],
           \A a \in TagWords(C, S, z, h.top, idle) : m[a] = h.mem[a],
           NEW k, Rewritten(k, h, m)
    PROVE  Good(k, C, S, z, idle, F)
<1>1. AllTags(m, C, S, z, h.top, idle) BY SameTags DEF Good, Whole, AllTags
<1>2. Whole(m, C, S, z, h.top, h.brk, ToSet(h.regions), F, idle) BY <1>1 DEF Good, Whole
<1> QED BY <1>2 DEF Good, Rewritten, Settings

(* A piece that is not free gets another size. *)
LEMMA ResizedTagged ==
    ASSUME NEW C, NEW S, NEW z, NEW top, NEW brk, NEW heads, NEW F,
           Laid(C, S, z, top, brk, heads, F), NEW idle \in SUBSET C,
           NEW m, NEW L, NEW M, Tagged(m, C, S, z, top, idle, L, M),
           NEW p, p \notin idle \cup S, NEW n
    PROVE  Tagged(m, C, S, [z EXCEPT ![p] = n], top, idle, L \cup {p}, M)
<1> DEFINE z2 == [z EXCEPT ![p] = n]
<1>1. z \in [Nat -> Nat] /\ Pieces(C, S, top) \subseteq Nat BY Constants DEF Laid
<1>2. \A x \in Nat : x # p => z2[x] = z[x] BY <1>1
<1> HIDE DEF z2
<1>3. /\ \A f \in idle : z2[f] = z[f]
      /\ \A s \in S : z2[s] = z[s] BY <1>1, <1>2 DEF Pieces
<1>4. \A x : Bit(z2, idle, x) = Bit(z, idle, x) BY <1>3 DEF Bit
<1>5. \A x \in Pieces(C, S, top) \ (L \cup {p}) : m[x + 1] \div 2 = z2[x]
  BY <1>1, <1>2 DEF Tagged
<1>6. Tagged(m, C, S, z2, top, idle, L \cup {p}, M) BY <1>3, <1>4, <1>5 DEF Tagged
<1> QED BY <1>6 DEF z2

(* The top ends at the break and both move. *)
LEMMA TopResized ==
    ASSUME NEW h, NEW C, NEW S, NEW z, NEW idle, NEW F, Good(h, C, S, z, idle, F),
           h.top # InitialTop, h.brk = h.top + z[h.top],
           NEW n \in Nat, n >= MINSIZE, n % 2 = 0, h.top + n <= End, (h.top + n) % Page = 0,
           NEW m \in [Start .. End - 1 -> Int],
           \A a \in TagWords(C, S, z, h.top, idle) : m[a] = h.mem[a],
           NEW k, Moved(k, h, [m EXCEPT ![h.top + 1] = Header(n, 1)], h.top + n)
    PROVE  Sound(k, C \ idle, z, F)
<1> DEFINE top == h.top
           heads == ToSet(h.regions)
           z2 == [z EXCEPT ![top] = n]
           m2 == [m EXCEPT ![top + 1] = Header(n, 1)]
<1>1. /\ Laid(C, S, z, top, h.brk, heads, F) /\ idle \in SUBSET C /\ Merged(z, top, idle)
      /\ Tagged(h.mem, C, S, z, top, idle, {}, {}) /\ Binned(h.bins, h.marked, z, idle)
  BY DEF Good, Whole, AllTags
<1>2. Laid(C, S, z2, top, top + n, heads, F) BY <1>1, TopLaid DEF top
<1> HIDE DEF top, heads
<1>3. top \notin idle \cup S /\ z \in [Nat -> Nat] /\ C \subseteq Nat /\ S \subseteq Nat /\ top \in Nat
      /\ top \in Pieces(C, S, top) /\ top \notin C \cup S
  <2>1. z \in [Nat -> Nat] /\ top \in Nat /\ top \notin C \cup S BY <1>1 DEF Laid
  <2>2. top \in Pieces(C, S, top) BY DEF Pieces, TopAt, top
  <2>3. C \subseteq Nat /\ S \subseteq Nat
    <3>1. Pieces(C, S, top) \subseteq Nat BY <1>1, WordsApart
    <3> QED BY <3>1 DEF Pieces
  <2> QED BY <1>1, <2>1, <2>2, <2>3
<1>4. Tagged(m, C, S, z, top, idle, {}, {}) BY <1>1, SameTags DEF top
<1>5. Tagged(m, C, S, z2, top, idle, {} \cup {top}, {}) BY <1>1, <1>3, <1>4, ResizedTagged
<1>7. z2[top] = n /\ \A x \in C \cup S : z2[x] = z[x] BY <1>3
<1> HIDE DEF z2
<1>6. Bit(z2, idle, top) = 1 BY <1>1, <1>7 DEF Merged, Bit
<1>8. Tagged([m EXCEPT ![top + 1] = Header(z2[top], 1)], C, S, z2, top, idle,
             ({} \cup {top}) \ {top}, {} \ {top})
  BY <1>1, <1>2, <1>3, <1>5, <1>6, HeadWritten
<1>9. ({} \cup {top}) \ {top} = {} /\ {} \ {top} = {} OBVIOUS
<1>10. AllTags(m2, C, S, z2, top, idle) BY <1>7, <1>8, <1>9 DEF AllTags
<1>11. Merged(z2, top, idle) /\ \A f \in idle : z2[f] = z[f] BY <1>1, <1>7 DEF Merged
<1>12. Binned(h.bins, h.marked, z2, idle) BY <1>1, <1>11, BinnedSizes
<1>13. Whole(m2, C, S, z2, top, top + n, heads, F, idle)
  BY <1>1, <1>2, <1>10, <1>11 DEF Whole
<1>14. Good(k, C, S, z2, idle, F) BY <1>12, <1>13 DEF Good, Moved, top, heads
<1> QED BY <1>7, <1>14 DEF Sound

(* What malloc_trim gives back leaves the smallest chunk at least. *)
LEMMA TrimBound ==
    ASSUME NEW n \in Nat, n <= End, NEW pad \in Nat, pad + 2 * Page + 16 <= Half
    PROVE  LET extra == TrimExtra(n, pad) % Word IN
           \/ Signed(extra) < Page
           \/ /\ extra \in Nat \ {0} /\ extra < Half /\ n - extra >= MINSIZE
              /\ \E q \in Nat : extra = q * Page
<1> DEFINE w == n - pad - 4 + (Page - 1)
           x == w % Word
           q == x \div Page
           e == (q - 1) * Page
<1>1. TrimExtra(n, pad) = e BY DEF TrimExtra, MINSIZE
<1>2. w \in Int /\ w < Word /\ w >= -Word BY Bounds
<1>3. w >= 0 => x = w
  <2> HIDE DEF w
  <2> QED BY <1>2, Bounds, NoWrap
<1>4. w < 0 => x = w + Word
  <2> HIDE DEF w
  <2> QED BY <1>2, Bounds, WrapBelow
<1>5. w = n - pad - 4 + (Page - 1) OBVIOUS
<1> HIDE DEF w, x
<1>6. x \in Nat BY <1>2, <1>3, <1>4, Bounds
<1>7. q \in Nat /\ Page * q <= x /\ x < Page * q + Page BY <1>6, Bounds, Division
<1> HIDE DEF q
<1>8. e \in Int /\ e = Page * q - Page BY <1>7, Bounds
<1> DEFINE y == Page * q
<1>9. y \in Nat /\ y <= x /\ x < y + Page /\ e = y - Page BY <1>7, <1>8, Bounds
<1> HIDE DEF e, y
<1>10. CASE w >= 0 /\ q = 0
  <2>1. e = -Page BY <1>7, <1>10, Bounds DEF e
  <2>2. e % Word = Word - Page
    <3>1. e < 0 /\ e >= -Word /\ e \in Int BY <2>1, Bounds
    <3>2. e % Word = e + Word BY <3>1, Bounds, WrapBelow
    <3> QED BY <2>1, <3>2, Bounds
  <2>3. Signed(Word - Page) = -Page BY Bounds DEF Signed
  <2> QED BY <1>1, <2>2, <2>3, Bounds
<1>11. CASE w >= 0 /\ q # 0
  <2>1. q >= 1 /\ q - 1 \in Nat BY <1>7, <1>11
  <2>2. e \in Nat BY <2>1, Bounds DEF e
  <2>3. e <= x - Page /\ e < Half BY <1>3, <1>5, <1>6, <1>9, <1>11, <2>2, Bounds
  <2>4. e % Word = e BY <2>2, <2>3, Bounds, NoWrap
  <2>5. Signed(e) = e BY <2>3 DEF Signed
  <2>6. CASE e < Page BY <1>1, <2>4, <2>5, <2>6
  <2>7. CASE ~(e < Page)
    <3>1. e \in Nat \ {0} /\ e < Half BY <2>2, <2>3, <2>7, Bounds
    <3>2. n - e >= MINSIZE BY <1>3, <1>5, <1>11, <2>2, <2>3, Bounds DEF MINSIZE
    <3>3. \E r \in Nat : e = r * Page BY <2>1 DEF e
    <3> QED BY <1>1, <2>4, <3>1, <3>2, <3>3
  <2> QED BY <2>6, <2>7
<1>12. CASE ~(w >= 0)
  <2>1. x = w + Word /\ x >= Word - pad - 5 BY <1>2, <1>4, <1>5, <1>12, Bounds
  <2>2. e > x - 2 * Page /\ e <= x /\ e \in Int BY <1>6, <1>9, Bounds
  <2>3. e \in Nat /\ e >= Half /\ e < Word BY <1>2, <1>12, <2>1, <2>2, Bounds
  <2>4. e % Word = e BY <2>3, Bounds, NoWrap
  <2>5. Signed(e) < 0 BY <2>3, Bounds DEF Signed
  <2> QED BY <1>1, <2>3, <2>4, <2>5, Bounds DEF Signed
<1> QED BY <1>2, <1>10, <1>11, <1>12

LEMMA Quotient ==
    ASSUME NEW a \in Int, NEW b \in Nat \ {0}, NEW q \in Int, NEW r \in 0 .. b - 1, a = b * q + r
    PROVE  a % b = r
  OBVIOUS

LEMMA Multiple ==
    ASSUME NEW a \in Nat, NEW b \in Nat \ {0}, a % b = 0
    PROVE  a = b * (a \div b) /\ a \div b \in Nat
  OBVIOUS

LEMMA PagesLess ==
    ASSUME NEW a \in Nat, a % Page = 0, NEW q \in Nat
    PROVE  (a - q * Page) % Page = 0 /\ (q * Page) % 2 = 0
<1> DEFINE c == a \div Page
           d == Page \div 2
<1>1. a = Page * c /\ c \in Nat BY Bounds, Multiple
<1>2. Page = 2 * d /\ d \in Nat BY Constants
<1> HIDE DEF c, d
<1>3. a - q * Page = Page * (c - q) + 0 /\ a - q * Page \in Int /\ c - q \in Int /\ 0 \in 0 .. Page - 1
  BY <1>1, Bounds
<1>4. (a - q * Page) % Page = 0 BY <1>3, Bounds, Quotient
<1>5. q * Page = 2 * (q * d) + 0 /\ q * d \in Int /\ q * Page \in Int
  <2>1. q * (2 * d) = 2 * (q * d) /\ q * d \in Int BY <1>2
  <2> QED BY <1>2, <2>1, Bounds
<1>6. (q * Page) % 2 = 0 BY <1>5, Quotient
<1> QED BY <1>4, <1>6

(* Tags lie in the memory. *)
LEMMA TagWordsInside ==
    ASSUME NEW C, NEW S, NEW z, NEW top, NEW brk, NEW heads, NEW F,
           Laid(C, S, z, top, brk, heads, F), NEW idle \in SUBSET C
    PROVE  TagWords(C, S, z, top, idle) \subseteq Start .. End - 1
<1>1. \A x \in Pieces(C, S, top) : x \in Nat /\ x >= Start /\ x + 1 \in Start .. End - 1
  <2>1. Pieces(C, S, top) \subseteq Start .. End BY DEF Laid
  <2> QED BY <2>1, WordsApart, Bounds
<1>2. \A f \in idle : f + z[f] \in Start .. End - 1
  <2>1. \A f \in C : f + z[f] \in Pieces(C, S, top) BY WordsApart
  <2> QED BY <1>1, <2>1, Bounds
<1>3. \A s \in S : s + z[s] + 1 \in Start .. End - 1 BY WordsApart
<1> QED BY <1>1, <1>2, <1>3 DEF TagWords

LEMMA PadBound ==
    ASSUME NEW pad \in Pads
    PROVE  pad \in Nat /\ pad + 2 * Page + 16 <= Half
<1>1. (0 >= Half /\ 0 + Page <= Word) \/ Modest(0) BY HeapAssumption
<1>2. Page \in Alignments \cup {Page} OBVIOUS
<1>3. pad \in Nat BY HeapAssumption
<1> QED BY <1>1, <1>2, <1>3, Bounds DEF Modest

LEMMA GoodTop ==
    ASSUME NEW h, NEW C, NEW S, NEW z, NEW idle, NEW F, Good(h, C, S, z, idle, F)
    PROVE  /\ h.brk \in Start .. End /\ h.mem \in [Start .. End - 1 -> Int]
           /\ h.top = InitialTop => Size(h, h.top) = 0
           /\ h.top # InitialTop =>
                  /\ h.top \in Start .. End /\ z[h.top] \in Nat /\ Size(h, h.top) = z[h.top]
                  /\ z[h.top] >= MINSIZE /\ z[h.top] % 2 = 0 /\ h.top % 2 = 0
                  /\ h.top + z[h.top] <= h.brk /\ (h.top + z[h.top]) % Page = 0
<1>1. /\ Laid(C, S, z, h.top, h.brk, ToSet(h.regions), F) /\ AllTags(h.mem, C, S, z, h.top, idle)
  BY DEF Good, Whole
<1>2. h.top = InitialTop => Size(h, h.top) = 0 BY DEF Size
<1>3. ASSUME h.top # InitialTop
      PROVE  /\ h.top \in Start .. End /\ z[h.top] \in Nat /\ Size(h, h.top) = z[h.top]
             /\ z[h.top] >= MINSIZE /\ z[h.top] % 2 = 0 /\ h.top % 2 = 0
             /\ h.top + z[h.top] <= h.brk /\ (h.top + z[h.top]) % Page = 0
  <2>1. h.top \in Pieces(C, S, h.top) /\ h.top \in TopAt(h.top) BY <1>3 DEF Pieces, TopAt
  <2>2. Beyond(S, z, h.top) = h.top + z[h.top] /\ IsChunk(z, h.top)
    BY <1>1, <2>1 DEF Laid, Beyond
  <2>3. Size(h, h.top) = z[h.top] BY <2>1, Readings
  <2>4. h.top \in Start .. End /\ z[h.top] \in Nat BY <1>1, <2>1, WordsApart DEF Laid
  <2> QED BY <1>1, <1>3, <2>1, <2>2, <2>3, <2>4 DEF Laid, IsChunk
<1> QED BY <1>1, <1>2, <1>3 DEF Laid, AllTags, Tagged

LEMMA SoundItself ==
    ASSUME NEW h, NEW C, NEW S, NEW z, NEW idle, NEW F, Good(h, C, S, z, idle, F)
    PROVE  Sound(h, C \ idle, z, F)
  BY DEF Sound

LEMMA TrimGood ==
    ASSUME NEW h, NEW C, NEW S, NEW z, NEW idle, NEW F, Good(h, C, S, z, idle, F),
           NEW pad \in Pads
    PROVE  Sound(malloc_trim(h, pad), C \ idle, z, F)
<1> DEFINE n == Size(h, h.top)
           extra == TrimExtra(n, pad) % Word
           b == h.brk - extra
           r == sbrk(h, (Word - extra) % Word)
           m == Below(h.mem, b, h.brk)
<1>1. CASE Signed(extra) < Page \/ h.brk # h.top + n
  <2>1. malloc_trim(h, pad) = h BY <1>1 DEF malloc_trim
  <2> QED BY <2>1, SoundItself
<1>2. CASE ~(Signed(extra) < Page) /\ h.brk = h.top + n
  <2>1. n \in Nat /\ n <= End
    <3>1. CASE h.top = InitialTop BY <3>1, GoodTop, Bounds
    <3>2. CASE h.top # InitialTop
      <4>1. /\ h.top \in Start .. End /\ z[h.top] \in Nat /\ n = z[h.top]
            /\ h.top + z[h.top] <= h.brk /\ h.brk \in Start .. End BY <3>2, GoodTop
      <4> QED BY <4>1, Bounds
    <3> QED BY <3>1, <3>2
  <2>2. pad \in Nat /\ pad + 2 * Page + 16 <= Half BY PadBound
  <2>3. /\ extra \in Nat \ {0} /\ extra < Half /\ n - extra >= MINSIZE
        /\ \E q \in Nat : extra = q * Page
    <3> HIDE DEF n
    <3> QED BY <1>2, <2>1, <2>2, TrimBound
  <2> HIDE DEF extra
  <2>4. h.top # InitialTop BY <2>3, GoodTop DEF MINSIZE
  <2>5. /\ h.top \in Start .. End /\ n = z[h.top] /\ n % 2 = 0 /\ (h.top + n) % Page = 0
        /\ h.brk \in Start .. End /\ h.mem \in [Start .. End - 1 -> Int] /\ h.top + n <= h.brk
    BY <2>4, GoodTop
  <2>6. IsHeap(h) BY DEF Good
  <2> HIDE DEF n
  <2>7. b \in Nat /\ b >= h.top + MINSIZE /\ b >= Start /\ b < h.brk /\ b = h.top + (n - extra)
    <3>1. h.brk = h.top + n /\ extra \in Nat \ {0} /\ n - extra >= 4
      BY <1>2, <2>3 DEF MINSIZE
    <3>2. h.top \in Nat /\ h.top >= Start /\ Start \in Nat BY <2>5, Bounds
    <3> QED BY <2>1, <3>1, <3>2 DEF MINSIZE
  <2>8. r.got = h.brk /\ Moved(r.heap, h, m, b) BY <2>3, <2>5, <2>6, <2>7, SbrkDown
  <2> HIDE DEF b, r
  <2>15. m = [a \in Start .. End - 1 |-> IF a >= b /\ a < h.brk THEN 0 ELSE h.mem[a]]
    BY <2>5 DEF Below
  <2>9. m \in [Start .. End - 1 -> Int] /\ \A a \in Start .. End - 1 : ~(a >= b /\ a < h.brk) => m[a] = h.mem[a]
    <3>1. \A a \in Start .. End - 1 : h.mem[a] \in Int BY <2>5
    <3> HIDE DEF m
    <3> QED BY <2>15, <3>1
  <2>10. \A a \in TagWords(C, S, z, h.top, idle) : m[a] = h.mem[a]
    <3>1. /\ Laid(C, S, z, h.top, h.brk, ToSet(h.regions), F) /\ idle \in SUBSET C
      BY DEF Good, Whole
    <3>2. \A a \in Nat : a >= h.top + 2 /\ a <= h.top + z[h.top] => a \notin TagWords(C, S, z, h.top, idle)
      BY <2>4, <3>1, WordsInside
    <3>3. TagWords(C, S, z, h.top, idle) \subseteq Nat
      <4>1. Pieces(C, S, h.top) \subseteq Nat /\ \A x \in Pieces(C, S, h.top) : z[x] \in Nat
        BY <3>1, WordsApart
      <4> QED BY <3>1, <4>1 DEF TagWords, Pieces
    <3>4. \A a \in TagWords(C, S, z, h.top, idle) : ~(a >= b /\ a < h.brk)
      <4>1. h.brk = h.top + z[h.top] /\ b >= h.top + 2 /\ b \in Nat /\ h.top \in Nat
        BY <1>2, <2>5, <2>7, Bounds DEF MINSIZE
      <4>2. \A a \in Nat : a >= b /\ a < h.brk => a >= h.top + 2 /\ a <= h.top + z[h.top]
        BY <2>1, <2>5, <4>1
      <4> QED BY <3>2, <3>3, <4>2
    <3>5. m = [a \in Start .. End - 1 |-> m[a]] /\ h.mem = [a \in Start .. End - 1 |-> h.mem[a]]
      BY <2>5, <2>9
    <3>6. \A a \in TagWords(C, S, z, h.top, idle) : a \in Start .. End - 1
      BY <3>1, TagWordsInside
    <3> QED BY <2>9, <3>4, <3>6
  <2> DEFINE k == SetHead(r.heap, h.top, n - extra, 1)
  <2> HIDE DEF m
  <2>11. malloc_trim(h, pad) = k
    <3>1. r.got # Failure BY <2>5, <2>8, Bounds DEF Failure
    <3> QED BY <1>2, <3>1 DEF malloc_trim, n, extra, r
  <2>12. Moved(k, h, [m EXCEPT ![h.top + 1] = Header(n - extra, 1)], b)
    <3>1. Rewritten(k, r.heap, [m EXCEPT ![h.top + 1] = Header(n - extra, 1)])
      BY <2>8, SetHeadIs DEF Moved
    <3> HIDE DEF k
    <3> QED BY <2>8, <3>1 DEF Moved, Rewritten, Settings
  <2> HIDE DEF k
  <2>13. n - extra \in Nat /\ n - extra >= MINSIZE /\ (n - extra) % 2 = 0 /\ h.top + (n - extra) <= End
         /\ (h.top + (n - extra)) % Page = 0
    <3>1. PICK q \in Nat : extra = q * Page BY <2>3
    <3>2. ((h.top + n) - extra) % Page = 0 /\ extra % 2 = 0
      <4> DEFINE a == h.top + n
      <4>1. a \in Nat /\ a % Page = 0
        <5>1. n = z[h.top] /\ n \in Nat /\ h.top \in Nat BY <2>1, <2>5, Bounds
        <5>2. (h.top + z[h.top]) % Page = 0 BY <2>1, <2>5
        <5> QED BY <5>1, <5>2
      <4> HIDE DEF a
      <4>2. (a - q * Page) % Page = 0 /\ (q * Page) % 2 = 0 BY <4>1, PagesLess
      <4> QED BY <3>1, <4>2 DEF a
    <3>3. (h.top + n) - extra = h.top + (n - extra) BY <2>1, <2>3, <2>5, Bounds
    <3>4. n - extra \in Nat BY <2>1, <2>3 DEF MINSIZE
    <3>5. (n - extra) % 2 = 0
      <4>1. n \in Nat /\ n % 2 = 0 BY <2>1, <2>5
      <4>2. extra \in Nat /\ extra % 2 = 0 BY <2>3, <3>2
      <4> HIDE DEF n, extra
      <4> QED BY <4>1, <4>2
    <3>6. h.top + (n - extra) <= End BY <1>2, <2>1, <2>3, <2>5, <2>7, Bounds
    <3> QED BY <2>3, <3>2, <3>3, <3>4, <3>5, <3>6
  <2>14. Sound(k, C \ idle, z, F)
    BY <1>2, <2>4, <2>5, <2>7, <2>9, <2>10, <2>12, <2>13, TopResized
  <2> QED BY <2>11, <2>14
<1> QED BY <1>1, <1>2

LEMMA SoundSizes ==
    ASSUME NEW h, NEW U, NEW s, NEW F, Sound(h, U, s, F), NEW t, \A x \in U : t[x] = s[x]
    PROVE  Sound(h, U, t, F)
  BY DEF Sound

-----------------------------------------------------------------------------
(* free *)

LEMMA FreeIntoTopGood ==
    ASSUME NEW h, NEW C, NEW S, NEW z, NEW idle, NEW F, Good(h, C, S, z, idle, F),
           NEW p \in C \ idle, p + z[p] = h.top
    PROVE  Sound(FreeIntoTop(h, p), (C \ idle) \ {p}, z, F)
<1> DEFINE heads == ToSet(h.regions)
           top == h.top
<1>1. /\ IsHeap(h) /\ Whole(h.mem, C, S, z, top, h.brk, heads, F, idle)
      /\ Binned(h.bins, h.marked, z, idle) BY DEF Good
<1>2. PICK first, C2, z2, fr :
          /\ Pending(h.mem, C2, S, z2, top, h.brk, heads, F, fr, first)
          /\ JoinAround(h.mem, C, S, z, top, idle, p, first, C2, z2, fr)
  BY <1>1, JoinedAround
<1>3. top \notin C \cup S /\ top # InitialTop /\ idle \subseteq C /\ C \subseteq Nat
  <2>1. Laid(C, S, z, top, h.brk, heads, F) /\ idle \subseteq C BY <1>1 DEF Whole
  <2>2. p + z[p] \in Pieces(C, S, top) /\ Pieces(C, S, top) \subseteq Nat \ {0}
    BY <2>1, WordsApart
  <2> QED BY <2>1, <2>2 DEF Laid, InitialTop, Pieces
<1>4. /\ first = IF Bit(z, idle, p) = 0 THEN p - h.mem[p] ELSE p
      /\ fr = idle \ {top, first}
      /\ C2 \ (fr \cup {first}) = (C \ idle) \ {p}
      /\ \A x \in (C2 \ {first}) \cup S : z2[x] = z[x]
      /\ first + z2[first] = top
      /\ Bit(z2, fr, first) = 1 /\ first <= p
      /\ IF Bit(z, idle, p) = 0 THEN first \in idle /\ first + z[first] = p ELSE first \notin idle
  BY <1>2, <1>3 DEF JoinAround
<1>5. /\ Laid(C2, S, z2, top, h.brk, heads, F) /\ fr \in SUBSET C2 /\ Merged(z2, top, fr)
      /\ Tagged(h.mem, C2, S, z2, top, fr, {first}, {top}) /\ first \in C2 \ fr
  BY <1>2, <1>4 DEF Pending, TagsBut
<1> HIDE DEF top, heads
<1>6. top \in Pieces(C2, S, top) /\ top \in Pieces(C, S, top) /\ top \notin C2
  BY <1>3, <1>5 DEF Pieces, TopAt, Laid
<1>7. z2[top] = z[top]
  <2>1. h.mem[top + 1] \div 2 = z2[top] BY <1>5, <1>6 DEF Tagged
  <2>2. h.mem[top + 1] \div 2 = z[top] BY <1>1, <1>6 DEF Tagged, Whole, AllTags
  <2> QED BY <2>1, <2>2
<1> DEFINE z3 == [z2 EXCEPT ![first] = z2[first] + z2[top]]
           C3 == C2 \ {first}
           m3 == [h.mem EXCEPT ![first + 1] = Header(z3[first], 1)]
<1>8. Laid(C3, S, z3, first, h.brk, heads, F) BY <1>3, <1>4, <1>5, JoinTopLaid
<1>9. Tagged(h.mem, C3, S, z3, first, fr, {first} \cup {first}, {top})
  BY <1>5, JoinTopTagged
<1>10. /\ first \in Nat /\ z2[first] \in Nat /\ z2[top] \in Nat /\ z2 \in [Nat -> Nat] /\ C2 \subseteq Nat
       /\ S \subseteq Nat /\ first \notin S /\ top \in Nat /\ first # InitialTop
  <2>1. Pieces(C2, S, top) \subseteq Nat \ {0} /\ \A x \in Pieces(C2, S, top) : z2[x] \in Nat
    BY <1>5, WordsApart
  <2>2. first \in Pieces(C2, S, top) /\ C2 \subseteq Pieces(C2, S, top) /\ S \subseteq Pieces(C2, S, top)
    BY <1>5 DEF Pieces
  <2>3. z2 \in [Nat -> Nat] /\ C2 \cap S = {} BY <1>5 DEF Laid
  <2> QED BY <1>5, <1>6, <2>1, <2>2, <2>3 DEF InitialTop
<1>11. z3[first] = z2[first] + z2[top] /\ \A x \in C3 \cup S : z3[x] = z2[x] BY <1>10
<1> HIDE DEF z3
<1>12. /\ fr \in SUBSET C3 /\ first \in Pieces(C3, S, first) /\ top \notin Pieces(C3, S, first)
       /\ Bit(z3, fr, first) = 1 /\ Merged(z3, first, fr)
  <2>1. fr \in SUBSET C3 BY <1>5
  <2>2. first \in Pieces(C3, S, first) BY <1>10 DEF Pieces, TopAt
  <2>3. top # first /\ top \notin S BY <1>5, <1>6, <1>3
  <2>4. top \notin Pieces(C3, S, first) BY <1>6, <2>3 DEF Pieces, TopAt
  <2>5. \A f \in fr : z3[f] = z2[f] BY <1>11, <2>1
  <2>6. \A f \in fr : f + z2[f] # first BY <1>4 DEF Bit
  <2>7. Bit(z3, fr, first) = 1 BY <2>5, <2>6 DEF Bit
  <2>8. Merged(z3, first, fr) BY <1>5, <2>5, <2>6 DEF Merged
  <2> QED BY <2>1, <2>2, <2>4, <2>7, <2>8
<1>13. Tagged(h.mem, C3, S, z3, first, fr, {first}, {}) BY <1>9, <1>12, MoreTagged
<1>14. Tagged(m3, C3, S, z3, first, fr, {first} \ {first}, {} \ {first})
  BY <1>8, <1>12, <1>13, HeadWritten
<1>15. {first} \ {first} = {} /\ {} \ {first} = {} OBVIOUS
<1>16. Whole(m3, C3, S, z3, first, h.brk, heads, F, fr)
  BY <1>8, <1>12, <1>14, <1>15 DEF Whole, AllTags
<1> DEFINE h1 == IF first = p THEN h ELSE Unlink(h, first)
           g == SetHead(h1, first, z3[first], 1)
           h2 == [g EXCEPT !.top = first]
<1>17. FreeIntoTop(h, p) = IF z3[first] >= h.trim THEN malloc_trim(h2, h.pad) ELSE h2
  <2>1. PrevInUse(h, p) = Bit(z, idle, p) /\ Next_(h, top) = top + z[top]
    BY <1>6, Readings DEF Pieces, top
  <2>2. (IF PrevInUse(h, p) = 1 THEN p ELSE p - h.mem[p]) = first BY <1>4, <2>1 DEF Bit
  <2>3. Next_(h, h.top) - first = z3[first] BY <1>4, <1>7, <1>10, <1>11, <2>1 DEF top
  <2> DEFINE Join(merged, size) ==
                 LET k == [SetHead(IF merged = p THEN h ELSE Unlink(h, merged), merged, size, 1)
                              EXCEPT !.top = merged]
                 IN IF size >= h.trim THEN malloc_trim(k, h.pad) ELSE k
  <2>4. FreeIntoTop(h, p) =
            Join(IF PrevInUse(h, p) = 1 THEN p ELSE p - h.mem[p],
                 Next_(h, h.top) - IF PrevInUse(h, p) = 1 THEN p ELSE p - h.mem[p])
    BY DEF FreeIntoTop
  <2>5. Join(first, z3[first]) = IF z3[first] >= h.trim THEN malloc_trim(h2, h.pad) ELSE h2
    OBVIOUS
  <2> HIDE DEF Join, h1, g, h2
  <2> QED BY <2>2, <2>3, <2>4, <2>5
<1>18. Relinked(h1, h, IF first = p THEN h.bins ELSE Unlinked(h.bins, first))
  <2>1. Relinked(h, h, h.bins) BY <1>1 DEF Relinked, Linked, Settings
  <2> QED BY <1>1, <2>1, UnlinkIs
<1> HIDE DEF h1
<1>19. Binned(h1.bins, h.marked, z, fr)
  <2>1. top \notin idle BY <1>3
  <2>2. CASE first = p
    <3>1. fr = idle BY <1>4, <2>1, <2>2
    <3> QED BY <1>1, <1>18, <2>2, <3>1 DEF Relinked
  <2>3. CASE first # p
    <3>1. first \in idle /\ fr = idle \ {first} BY <1>4, <2>1, <2>3
    <3>2. NatSizes(z, idle) BY <1>1, <1>3, WordsApart DEF Whole, NatSizes, Pieces
    <3>3. Binned(Unlinked(h.bins, first), h.marked, z, idle \ {first})
      BY <1>1, <3>1, <3>2, UnlinkedBinned
    <3> QED BY <1>18, <2>3, <3>1, <3>3 DEF Relinked
  <2> QED BY <2>2, <2>3
<1>20. Binned(h1.bins, h.marked, z3, fr)
  <2>1. \A f \in fr : z3[f] = z[f] BY <1>4, <1>11, <1>12
  <2> QED BY <1>19, <2>1, BinnedSizes
<1>21. Rewritten(g, h1, m3)
  <2>1. IsHeap(h1) /\ h1.mem = h.mem BY <1>18 DEF Relinked, Linked, Settings
  <2> QED BY <2>1, SetHeadIs
<1> HIDE DEF g
<1>22. /\ Settings(h2, g) /\ h2.top = first
       /\ h2.bins = g.bins /\ h2.marked = g.marked /\ h2.mem = g.mem
  <2>1. IsHeap(g) BY <1>21 DEF Rewritten, Settings
  <2> QED BY <2>1, TopIs
<1> HIDE DEF h2
<1>23. Good(h2, C3, S, z3, fr, F)
  <2>1. /\ h.trim \in Nat /\ h.pad \in Pads /\ IsBin(h.regions, Nat) /\ h.ready /\ h.based
    BY <1>3 DEF Good, top
  <2>2. /\ Settings(h2, h) /\ h2.mem = m3 /\ h2.bins = h1.bins /\ h2.marked = h.marked
    BY <1>18, <1>21, <1>22 DEF Relinked, Rewritten, Linked, Settings
  <2> HIDE DEF m3
  <2> QED BY <1>16, <1>20, <1>22, <2>1, <2>2 DEF Good, Settings, heads
<1>24. C3 \ fr = (C \ idle) \ {p} /\ \A x \in (C \ idle) \ {p} : z[x] = z3[x]
  <2>1. C3 \ fr = (C \ idle) \ {p} BY <1>4
  <2> QED BY <1>4, <1>11, <2>1
<1>25. h.pad \in Pads BY DEF Good
<1>26. Sound(FreeIntoTop(h, p), C3 \ fr, z3, F)
  BY <1>17, <1>23, <1>25, TrimGood, SoundItself
<1> QED BY <1>24, <1>26, SoundSizes

(* A chunk in use is freed: it no longer is in use, and nothing else       *)
(* changes that the program knows.                                         *)
LEMMA FreeGood ==
    ASSUME NEW h, NEW C, NEW S, NEW z, NEW fr, NEW F, Good(h, C, S, z, fr, F),
           NEW p \in C \ fr
    PROVE  Sound(free(h, p), (C \ fr) \ {p}, z, F)
<1>1. Next_(h, p) = p + z[p] BY Readings DEF Pieces
<1>2. CASE p + z[p] = h.top BY <1>1, <1>2, FreeIntoTopGood DEF free
<1>3. CASE p + z[p] # h.top BY <1>1, <1>3, FreeIntoBinGood DEF free
<1> QED BY <1>2, <1>3

-----------------------------------------------------------------------------
(* malloc *)

(* A free chunk is taken as it is. *)
LEMMA UsedWhole ==
    ASSUME NEW m, NEW C, NEW S, NEW z, NEW top, NEW brk, NEW heads, NEW F, NEW idle,
           Whole(m, C, S, z, top, brk, heads, F, idle), NEW p \in idle
    PROVE  /\ p + z[p] \in Pieces(C, S, top) /\ p + z[p] \notin idle
           /\ Whole([m EXCEPT ![p + z[p] + 1] = Header(z[p + z[p]], 1)],
                    C, S, z, top, brk, heads, F, idle \ {p})
<1> DEFINE next == p + z[p]
<1>1. /\ Laid(C, S, z, top, brk, heads, F) /\ idle \in SUBSET C /\ Merged(z, top, idle)
      /\ Tagged(m, C, S, z, top, idle, {}, {}) BY DEF Whole, AllTags
<1>2. next \in Pieces(C, S, top) /\ next \notin idle BY <1>1, WordsApart DEF Merged
<1>3. Tagged(m, C, S, z, top, idle \ {p}, {}, {} \cup {next}) BY <1>1, MarkedUsed
<1>4. 1 = Bit(z, idle \ {p}, next)
  <2>1. \A f \in idle : f + z[f] = next => f = p BY <1>1, WordsApart
  <2> QED BY <2>1 DEF Bit
<1> HIDE DEF next
<1>5. Tagged([m EXCEPT ![next + 1] = Header(z[next], 1)], C, S, z, top, idle \ {p},
             {} \ {next}, ({} \cup {next}) \ {next})
  <2>1. idle \ {p} \in SUBSET C BY <1>1
  <2> QED BY <1>1, <1>2, <1>3, <1>4, <2>1, HeadWritten
<1>6. {} \ {next} = {} /\ ({} \cup {next}) \ {next} = {} OBVIOUS
<1>7. Merged(z, top, idle \ {p}) /\ idle \ {p} \in SUBSET C BY <1>1 DEF Merged
<1> QED BY <1>1, <1>2, <1>5, <1>6, <1>7 DEF Whole, AllTags, next

LEMMA CarvedWhole ==
    ASSUME NEW m, NEW C, NEW S, NEW z, NEW top, NEW brk, NEW heads, NEW F, NEW idle,
           Whole(m, C, S, z, top, brk, heads, F, idle), NEW p \in idle,
           NEW nb \in Nat, nb >= MINSIZE, nb % 2 = 0, z[p] - nb >= MINSIZE
    PROVE  /\ Whole(CarvedMem(m, z, p, nb), C \cup {p + nb}, S, CarvedSizes(z, p, nb),
                    top, brk, heads, F, (idle \ {p}) \cup {p + nb})
           /\ p + nb \notin C
<1> DEFINE rest == p + nb
           z2 == CarvedSizes(z, p, nb)
           used == idle \ {p}
           D == C \cup {rest}
           m1 == [m EXCEPT ![p + 1] = Header(z2[p], 1)]
           m2 == [m1 EXCEPT ![rest + 1] = Header(z2[rest], 1)]
           m3 == [m2 EXCEPT ![rest + z2[rest]] = z2[rest]]
           next == p + z[p]
<1>1. /\ Laid(C, S, z, top, brk, heads, F) /\ idle \in SUBSET C /\ Merged(z, top, idle)
      /\ Tagged(m, C, S, z, top, idle, {}, {}) /\ p \in C /\ used \in SUBSET D
  BY DEF Whole, AllTags
<1>2. Laid(D, S, z2, top, brk, heads, F) /\ rest \notin Pieces(C, S, top)
  BY <1>1, SplitLaid DEF CarvedSizes
<1>3. /\ p \in Nat /\ z[p] \in Nat /\ z \in [Nat -> Nat] /\ p \in C /\ p \notin S /\ p # top
      /\ next \in Pieces(C, S, top) /\ next \notin idle /\ C \subseteq Nat
      /\ rest \notin C /\ rest \notin S /\ next # top
  <2>1. next \in Pieces(C, S, top) /\ p \in Nat /\ z[p] \in Nat /\ C \subseteq Nat
    BY <1>1, WordsApart DEF Pieces
  <2>2. z \in [Nat -> Nat] /\ p \notin S /\ p # top BY <1>1 DEF Laid
  <2> QED BY <1>1, <1>2, <2>1, <2>2 DEF Pieces, Merged
<1>4. z2[p] = nb /\ z2[rest] = z[p] - nb /\ \A x \in (C \cup S) \ {p} : z2[x] = z[x]
  <2>1. rest \in Nat /\ rest # p /\ z2 = [[z EXCEPT ![p] = nb] EXCEPT ![rest] = z[p] - nb]
    BY <1>3 DEF MINSIZE, CarvedSizes
  <2>2. C \subseteq Nat /\ S \subseteq Nat BY <1>1, WordsApart DEF Pieces
  <2> HIDE DEF z2, rest
  <2> QED BY <1>3, <2>1, <2>2
<1>5. rest + z2[rest] = next /\ next # rest /\ next + 1 # p + 1 /\ next + 1 # rest + 1
  BY <1>3, <1>4 DEF MINSIZE
<1>6. Tagged(m, C, S, z, top, used, {}, {} \cup {next}) BY <1>1, MarkedUsed
<1>7. /\ Tagged(m, D, S, z2, top, used, {} \cup {p, rest}, ({} \cup {next}) \cup {rest})
      /\ \A x : Bit(z2, used, x) = Bit(z, used, x)
  <2>1. Pieces(D, S, top) \subseteq Pieces(C, S, top) \cup {rest} BY DEF Pieces
  <2>2. p \notin used \cup S /\ rest \notin C \cup S /\ used \in SUBSET C BY <1>1, <1>3
  <2>3. z2 = [z EXCEPT ![p] = nb, ![rest] = z[p] - nb] BY DEF CarvedSizes
  <2> DEFINE M0 == {} \cup {next}
             L0 == {}
             r == z[p] - nb
  <2> HIDE DEF used, D, rest, z2, next, M0, L0, r
  <2>4. Tagged(m, C, S, z, top, used, L0, M0) BY <1>6 DEF M0, L0
  <2>5. IsCut(C, S, z, top, used, p, rest, nb, r, D, top, z2)
    BY <2>1, <2>2, <2>3 DEF r, IsCut
  <2>6. /\ Tagged(m, D, S, z2, top, used, L0 \cup {p, rest}, M0 \cup {rest})
        /\ SameBits(z2, z, used) BY <1>1, <2>2, <2>4, <2>5, CutTagged
  <2> QED BY <2>6 DEF M0, L0, SameBits
<1>8. 1 = Bit(z2, used, p) /\ 1 = Bit(z2, used, rest)
  <2>1. \A f \in used : f + z[f] # p /\ f + z[f] # rest
    <3>1. \A f \in used : f + z[f] \in Pieces(C, S, top) BY <1>1, WordsApart
    <3> QED BY <1>1, <1>2, <3>1 DEF Merged
  <2>2. Bit(z, used, p) = 1 /\ Bit(z, used, rest) = 1 BY <2>1 DEF Bit
  <2> QED BY <1>7, <2>2
<1>9. p \in Pieces(D, S, top) /\ rest \in Pieces(D, S, top) /\ next \in Pieces(D, S, top)
      /\ rest \in D BY <1>1, <1>3 DEF Pieces
<1>10. /\ m[next + 1] % 2 = 0 /\ m \in [Start .. End - 1 -> Int]
       /\ next + 1 \in Start .. End - 1
  <2>1. Bit(z, idle, next) = 0 BY DEF Bit
  <2> QED BY <1>1, <1>3, <2>1, WordsApart DEF Tagged
<1> HIDE DEF z2, used, D, rest, next
<1> DEFINE L1 == {} \cup {p, rest}
           M1 == ({} \cup {next}) \cup {rest}
<1>11. Tagged(m1, D, S, z2, top, used, L1 \ {p}, M1 \ {p})
  <2> HIDE DEF L1, M1
  <2>1. Tagged(m, D, S, z2, top, used, L1, M1) BY <1>7 DEF L1, M1
  <2> QED BY <1>1, <1>2, <1>8, <1>9, <2>1, HeadWritten
<1>12. Tagged(m2, D, S, z2, top, used, (L1 \ {p}) \ {rest}, (M1 \ {p}) \ {rest})
  <2> HIDE DEF L1, M1, m1
  <2> QED BY <1>1, <1>2, <1>8, <1>9, <1>11, HeadWritten
<1>13. m2[next + 1] % 2 = 0 BY <1>5, <1>10
<1>14. (L1 \ {p}) \ {rest} = {} /\ ((M1 \ {p}) \ {rest}) \ {next} = {} OBVIOUS
<1>21. WordStored(m3, m2, rest + z2[rest], z2[rest]) BY DEF WordStored
<1> HIDE DEF L1, M1, m2, m3
<1>15. /\ Tagged(m3, D, S, z2, top, used, {}, (M1 \ {p}) \ {rest})
       /\ m3[rest + z2[rest]] = z2[rest] /\ m3[next + 1] = m2[next + 1]
  <2>1. Tagged(m2, D, S, z2, top, used, {}, (M1 \ {p}) \ {rest}) BY <1>12, <1>14
  <2> DEFINE M2 == (M1 \ {p}) \ {rest}
  <2> HIDE DEF M2
  <2>2. Tagged(m3, D, S, z2, top, used, {}, M2) /\ OnlyWord(m3, m2, rest + z2[rest], z2[rest])
    BY <1>1, <1>2, <1>9, <1>21, <2>1, FootWritten DEF M2
  <2>3. next \in Nat /\ next = rest + z2[rest] BY <1>1, <1>2, <1>5, <1>9, WordsApart
  <2> QED BY <2>2, <2>3 DEF M2, OnlyWord
<1>16. rest \in D \ used BY <1>1, <1>3, <1>9 DEF used
<1>17. Tagged(m3, D, S, z2, top, used \cup {rest}, {}, ((M1 \ {p}) \ {rest}) \ {rest + z2[rest]})
  <2>1. m3[rest + z2[rest] + 1] % 2 = 0 BY <1>5, <1>13, <1>15
  <2> QED BY <1>1, <1>2, <1>15, <1>16, <2>1, MarkedFree
<1>18. Merged(z2, top, used \cup {rest})
  <2>1. \A f \in used : z2[f] = z[f] /\ f + z[f] # rest
    <3>1. \A f \in used : f + z[f] \in Pieces(C, S, top) BY <1>1, WordsApart DEF used
    <3> QED BY <1>1, <1>2, <1>4, <3>1 DEF used
  <2>2. \A f \in used : f + z[f] \notin used /\ f + z[f] # top BY <1>1 DEF Merged, used
  <2>3. next \notin used /\ next # top BY <1>3 DEF used
  <2> QED BY <1>5, <2>1, <2>2, <2>3 DEF Merged
<1>19. m3 = CarvedMem(m, z, p, nb) BY <1>4 DEF CarvedMem, m3, m2, rest
<1>20. Whole(m3, D, S, z2, top, brk, heads, F, used \cup {rest})
  BY <1>1, <1>2, <1>5, <1>14, <1>16, <1>17, <1>18 DEF Whole, AllTags
<1> QED BY <1>3, <1>19, <1>20 DEF used, rest, z2, D

LEMMA SameMemory ==
    ASSUME NEW k, NEW h, k.mem = h.mem, NEW x
    PROVE  Size(k, x) = Size(h, x) /\ Next_(k, x) = Next_(h, x) /\ PrevInUse(k, x) = PrevInUse(h, x)
  BY DEF Size, Next_, PrevInUse

LEMMA GoodParts ==
    ASSUME NEW h, NEW C, NEW S, NEW z, NEW idle, NEW F, Good(h, C, S, z, idle, F)
    PROVE  /\ Laid(C, S, z, h.top, h.brk, ToSet(h.regions), F)
           /\ idle \in SUBSET C /\ Merged(z, h.top, idle) /\ NatSizes(z, idle)
           /\ Pieces(C, S, h.top) \subseteq Nat \ {0} /\ C \subseteq Nat \ {0} /\ S \subseteq Nat \ {0}
           /\ InitialTop \notin C /\ h.top \notin C /\ h.mem \in [Start .. End - 1 -> Int]
<1>1. /\ Laid(C, S, z, h.top, h.brk, ToSet(h.regions), F)
      /\ idle \in SUBSET C /\ Merged(z, h.top, idle) BY DEF Good, Whole
<1>2. /\ Pieces(C, S, h.top) \subseteq Nat \ {0} /\ \A x \in Pieces(C, S, h.top) : z[x] \in Nat
  BY <1>1, WordsApart
<1>3. C \subseteq Nat \ {0} /\ S \subseteq Nat \ {0} /\ NatSizes(z, idle)
  BY <1>1, <1>2 DEF Pieces, NatSizes
<1>4. h.top \notin C /\ h.mem \in [Start .. End - 1 -> Int]
  BY DEF Laid, Good, Whole, AllTags, Tagged
<1> QED BY <1>1, <1>2, <1>3, <1>4 DEF InitialTop

LEMMA TakenGood ==
    ASSUME NEW h, NEW C, NEW S, NEW z, NEW idle, NEW F, Good(h, C, S, z, idle, F), NEW p \in idle
    PROVE  Good(MarkInUse(Unlink(h, p), p + z[p]), C, S, z, idle \ {p}, F)
<1> DEFINE next == p + z[p]
           m == [h.mem EXCEPT ![next + 1] = Header(z[next], 1)]
           h1 == Unlink(h, p)
           k == MarkInUse(h1, next)
<1>1. /\ IsHeap(h) /\ Whole(h.mem, C, S, z, h.top, h.brk, ToSet(h.regions), F, idle)
      /\ Binned(h.bins, h.marked, z, idle) /\ NatSizes(z, idle) BY GoodParts DEF Good
<1>2. /\ next \in Pieces(C, S, h.top)
      /\ Whole(m, C, S, z, h.top, h.brk, ToSet(h.regions), F, idle \ {p})
  BY <1>1, UsedWhole
<1>3. Relinked(h1, h, Unlinked(h.bins, p)) BY <1>1, UnlinkIs
<1>4. Size(h1, next) = z[next]
  <2>1. Size(h, next) = z[next] BY <1>2, Readings
  <2> QED BY <1>3, <2>1, SameMemory DEF Relinked, Linked
<1> HIDE DEF h1, next
<1>5. Rewritten(k, h1, m)
  <2>1. k = SetHead(h1, next, z[next], 1) /\ h1.mem = h.mem /\ IsHeap(h1)
    BY <1>3, <1>4 DEF MarkInUse, Relinked, Linked, Settings
  <2> HIDE DEF k
  <2> QED BY <2>1, SetHeadIs
<1>6. Binned(Unlinked(h.bins, p), h.marked, z, idle \ {p}) BY <1>1, UnlinkedBinned
<1> HIDE DEF k, m
<1>7. /\ Settings(k, h) /\ k.mem = m /\ k.top = h.top /\ k.bins = Unlinked(h.bins, p)
      /\ k.marked = h.marked BY <1>3, <1>5 DEF Relinked, Rewritten, Linked, Settings
<1>8. Good(k, C, S, z, idle \ {p}, F) BY <1>2, <1>6, <1>7 DEF Good, Settings
<1> QED BY <1>8 DEF k, next, h1

LEMMA CarveGood ==
    ASSUME NEW h, NEW C, NEW S, NEW z, NEW idle, NEW F, Good(h, C, S, z, idle, F), NEW p \in idle,
           NEW nb \in Nat, nb >= MINSIZE, nb % 2 = 0, z[p] >= nb,
           h.bins[1] = <<>> \/ h.bins[1] = <<p>>
    PROVE  Given([heap |-> Carve(h, p, nb), got |-> p], C \ idle, z, F, nb)
<1> DEFINE next == p + z[p]
           rest == p + nb
           U == C \ idle
<1>1. /\ IsHeap(h) /\ Whole(h.mem, C, S, z, h.top, h.brk, ToSet(h.regions), F, idle)
      /\ Binned(h.bins, h.marked, z, idle) /\ NatSizes(z, idle) /\ p \in C /\ p \in Nat \ {0}
      /\ z[p] \in Nat /\ idle \subseteq C BY GoodParts DEF Good, NatSizes
<1>2. Size(h, p) = z[p] BY <1>1, Readings DEF Pieces
<1>3. SUFFICES \E t : /\ Sound(Carve(h, p, nb), U \cup {p}, t, F) /\ t[p] >= nb
                      /\ \A x \in U : t[x] = z[x] BY <1>1, <1>3 DEF Given, Null
<1>4. CASE z[p] - nb < MINSIZE
  <2> DEFINE k == MarkInUse(Unlink(h, p), p + z[p])
  <2>1. Carve(h, p, nb) = k BY <1>1, <1>2, <1>4 DEF Carve, MINSIZE
  <2>2. Good(k, C, S, z, idle \ {p}, F) BY TakenGood
  <2> HIDE DEF k
  <2>3. Sound(k, C \ (idle \ {p}), z, F) BY <2>2, SoundItself
  <2>4. C \ (idle \ {p}) = U \cup {p} BY <1>1
  <2> QED BY <2>1, <2>3, <2>4
<1>5. CASE z[p] - nb >= MINSIZE
  <2> DEFINE D == C \cup {rest}
             z2 == CarvedSizes(z, p, nb)
             fr == (idle \ {p}) \cup {rest}
             m == CarvedMem(h.mem, z, p, nb)
             n == z[p] - nb
             h1 == Unlink(h, p)
             m1 == [h.mem EXCEPT ![p + 1] = Header(nb, 1)]
             g1 == SetHead(h1, p, nb, 1)
             h2 == LinkLastRemainder(g1, rest)
             m2 == [m1 EXCEPT ![rest + 1] = Header(n, 1)]
             g2 == SetHead(h2, rest, n, 1)
             k == SetFoot(g2, rest, n)
             b1 == Unlinked(h.bins, p)
             b2 == [b1 EXCEPT ![1] = <<rest>>]
  <2>1. Whole(m, D, S, z2, h.top, h.brk, ToSet(h.regions), F, fr) /\ rest \notin C
    BY <1>1, <1>5, CarvedWhole
  <2>2. Carve(h, p, nb) = k BY <1>2, <1>5 DEF Carve
  <2>3. z2[p] = nb /\ \A x \in C \ {p} : z2[x] = z[x]
    <3>1. rest # p /\ C \subseteq Nat /\ z \in [Nat -> Nat]
      <4>1. Laid(C, S, z, h.top, h.brk, ToSet(h.regions), F) /\ C \subseteq Nat
        BY GoodParts
      <4>2. z \in [Nat -> Nat] BY <4>1 DEF Laid
      <4>3. p \in Nat BY <1>1
      <4>4. rest # p BY <4>3 DEF MINSIZE
      <4> QED BY <4>1, <4>2, <4>4
    <3> QED BY <1>1, <2>1, <3>1 DEF CarvedSizes
  <2> HIDE DEF rest, n
  <2>4. Relinked(h1, h, b1) BY <1>1, UnlinkIs
  <2> HIDE DEF h1
  <2>5. Rewritten(g1, h1, m1)
    <3>1. IsHeap(h1) /\ h1.mem = h.mem BY <2>4 DEF Relinked, Linked, Settings
    <3> QED BY <3>1, SetHeadIs
  <2> HIDE DEF g1
  <2>6. Relinked(h2, g1, b2)
    <3>1. IsHeap(g1) /\ g1.bins = b1 BY <2>4, <2>5 DEF Relinked, Rewritten, Settings
    <3> QED BY <3>1, LinkIs
  <2> HIDE DEF h2, m1, b2
  <2>7. Rewritten(g2, h2, m2)
    <3>1. IsHeap(h2) /\ h2.mem = m1
      BY <2>5, <2>6 DEF Relinked, Linked, Rewritten, Settings
    <3> QED BY <3>1, SetHeadIs
  <2> HIDE DEF g2, m2
  <2>8. Rewritten(k, g2, [m2 EXCEPT ![rest + n] = n])
    <3>1. IsHeap(g2) /\ g2.mem = m2 BY <2>7 DEF Rewritten, Settings
    <3> QED BY <3>1, SetFootIs
  <2> HIDE DEF k
  <2>9. m = [m2 EXCEPT ![rest + n] = n] BY DEF CarvedMem, m2, m1, rest, n
  <2> HIDE DEF m, b1
  <2>10. /\ Settings(k, h) /\ k.mem = m /\ k.top = h.top /\ k.bins = b2 /\ k.marked = h.marked
    <3>1. Settings(h1, h) /\ h1.top = h.top /\ h1.marked = h.marked
      BY <2>4 DEF Relinked, Linked
    <3>2. Settings(g1, h) /\ g1.top = h.top /\ g1.marked = h.marked
      BY <3>1, <2>5 DEF Rewritten, Settings
    <3>3. Settings(h2, h) /\ h2.top = h.top /\ h2.marked = h.marked /\ h2.bins = b2
      BY <3>2, <2>6 DEF Relinked, Linked, Settings
    <3>4. Settings(g2, h) /\ g2.top = h.top /\ g2.marked = h.marked /\ g2.bins = b2
      BY <3>3, <2>7 DEF Rewritten, Settings
    <3> QED BY <3>4, <2>8, <2>9 DEF Rewritten, Settings
  <2>11. Binned(b2, h.marked, z2, fr)
    <3>1. Binned(b1, h.marked, z, idle \ {p}) /\ b1[1] = <<>>
      <4>1. NatSizes(z, idle) /\ p \in idle /\ Binned(h.bins, h.marked, z, idle) BY <1>1
      <4>2. Binned(b1, h.marked, z, idle \ {p}) /\ RemainderWithout(b1, h.bins, p)
        BY <4>1, UnlinkedBinned DEF b1
      <4> QED BY <1>1, <4>2 DEF RemainderWithout
    <3>2. \A f \in idle \ {p} : z2[f] = z[f] BY <1>1, <2>3
    <3> HIDE DEF z2
    <3>3. Binned(b1, h.marked, z2, idle \ {p}) /\ rest \notin idle \ {p}
      BY <1>1, <2>1, <3>1, <3>2, BinnedSizes
    <3> QED BY <3>1, <3>3, RemainderBinned DEF b2
  <2> HIDE DEF D, z2, fr
  <2>12. Good(k, D, S, z2, fr, F) BY <2>1, <2>10, <2>11 DEF Good, Settings
  <2>13. D \ fr = U \cup {p} /\ \A x \in U : z2[x] = z[x] BY <1>1, <2>1, <2>3 DEF D, fr
  <2> QED BY <2>2, <2>3, <2>12, <2>13, SoundItself
<1>6. z[p] - nb < MINSIZE \/ z[p] - nb >= MINSIZE BY <1>1 DEF MINSIZE
<1> QED BY <1>4, <1>5, <1>6

(* The search for a chunk *)

LEMMA GoodSizes ==
    ASSUME NEW h, NEW C, NEW S, NEW z, NEW idle, NEW F, Good(h, C, S, z, idle, F)
    PROVE  Sizes(h, z, idle) /\ Binned(h.bins, h.marked, z, idle) /\ Null \notin idle
<1>1. Sizes(h, z, idle) /\ Binned(h.bins, h.marked, z, idle) BY WholeSizes DEF Good
<1> QED BY <1>1, GoodParts DEF Null, InitialTop

LEMMA Greatest ==
    ASSUME NEW n \in Nat, NEW B \in SUBSET (0 .. n), B # {}
    PROVE  Max(B) \in B /\ \A y \in B : y <= Max(B)
<1> DEFINE D == {n - y : y \in B}
<1>1. D \in SUBSET Nat /\ D # {}
  <2>1. PICK y \in B : TRUE OBVIOUS
  <2>2. n - y \in D OBVIOUS
  <2>3. \A x \in B : n - x \in Nat OBVIOUS
  <2> QED BY <2>2, <2>3
<1>2. Min(D) \in D /\ \A y \in D : Min(D) <= y BY <1>1, Least
<1>3. PICK x \in B : Min(D) = n - x BY <1>2
<1>4. \A y \in B : n - y \in D OBVIOUS
<1> HIDE DEF D
<1>5. \A y \in B : y <= x BY <1>2, <1>3, <1>4
<1> QED BY <1>5 DEF Max

LEMMA DivisionUp ==
    ASSUME NEW a \in Nat, NEW b \in Nat, a <= b, NEW c \in Nat \ {0}
    PROVE  a \div c \in Nat /\ b \div c \in Nat /\ a \div c <= b \div c
<1> DEFINE q == a \div c
           r == b \div c
<1>1. q \in Nat /\ c * q <= a /\ r \in Nat /\ b < c * r + c BY Division
<1> HIDE DEF q, r
<1>2. c * q < c * (r + 1) BY <1>1
<1>3. q < r + 1 BY <1>1, <1>2
<1> QED BY <1>1, <1>3 DEF q, r

(* A larger chunk is not in an earlier bin. *)
LEMMA BinsUp ==
    ASSUME NEW n \in Nat, NEW m \in Nat, n >= MINSIZE, n <= m
    PROVE  bin_index(n) <= bin_index(m)
<1> DEFINE s == MaxSmall \div 2
           Q(x) == (x - MaxSmall) \div LargeWidth
<1>1. MaxSmall \in Nat /\ LargeWidth \in Nat \ {0} /\ LastBin \in Nat /\ s + 2 <= LastBin /\ s \in Nat
  BY Constants
<1>2. CASE m < MaxSmall
  <2>1. bin_index(n) = n \div 2 /\ bin_index(m) = m \div 2 BY <1>1, <1>2 DEF bin_index
  <2> QED BY <2>1, DivisionUp
<1>3. CASE ~(m < MaxSmall)
  <2>1. bin_index(m) = Smaller(s + Q(m), LastBin - 1) BY <1>3 DEF bin_index
  <2>2. Q(m) \in Nat BY <1>1, <1>3, Division
  <2>3. CASE n < MaxSmall
    <3>1. bin_index(n) = n \div 2 BY <2>3 DEF bin_index
    <3>2. n \div 2 <= s /\ n \div 2 \in Nat BY <1>1, <2>3, DivisionUp
    <3> HIDE DEF s, Q
    <3> QED BY <1>1, <2>1, <2>2, <3>1, <3>2 DEF Smaller
  <2>4. CASE ~(n < MaxSmall)
    <3>1. bin_index(n) = Smaller(s + Q(n), LastBin - 1) BY <2>4 DEF bin_index
    <3>2. n - MaxSmall \in Nat /\ m - MaxSmall \in Nat /\ n - MaxSmall <= m - MaxSmall
      BY <1>1, <1>3, <2>4
    <3>3. Q(n) \in Nat /\ Q(n) <= Q(m) BY <1>1, <3>2, DivisionUp
    <3> HIDE DEF s, Q
    <3> QED BY <1>1, <2>1, <2>2, <3>1, <3>3 DEF Smaller
  <2> QED BY <2>3, <2>4
<1> QED BY <1>2, <1>3

LEMMA LastFitIs ==
    ASSUME NEW h, NEW z, NEW idle, Sizes(h, z, idle), Null \notin idle,
           NEW bin, IsBin(bin, idle), NEW nb \in Nat
    PROVE  LET f == LastFit(h, bin, nb) IN
           \/ f = Null /\ \A g \in idle : In(g, bin) => z[g] < nb
           \/ Fits(f, z, idle, nb) /\ In(f, bin)
<1> DEFINE fits == {k \in DOMAIN bin : Size(h, bin[k]) >= nb}
<1>1. PICK n \in Nat : Run(bin, n, idle) /\ DOMAIN bin = 1 .. n BY BinLength
<1>2. \A k \in 1 .. n : bin[k] \in idle /\ z[bin[k]] \in Nat /\ Size(h, bin[k]) = z[bin[k]]
  BY <1>1 DEF Run, Sizes
<1>3. CASE fits = {}
  <2>1. LastFit(h, bin, nb) = Null BY <1>3 DEF LastFit
  <2>2. \A k \in 1 .. n : z[bin[k]] < nb BY <1>1, <1>2, <1>3
  <2>3. \A g \in idle : In(g, bin) => z[g] < nb BY <1>1, <2>2 DEF In
  <2> QED BY <2>1, <2>3
<1>4. CASE fits # {}
  <2>1. fits \in SUBSET (0 .. n) BY <1>1
  <2> DEFINE k == Max(fits)
  <2>2. k \in fits BY <1>4, <2>1, Greatest
  <2>3. LastFit(h, bin, nb) = bin[k] BY <1>4 DEF LastFit
  <2>4. k \in DOMAIN bin /\ Size(h, bin[k]) >= nb BY <2>2
  <2> HIDE DEF k
  <2>5. Fits(bin[k], z, idle, nb) /\ In(bin[k], bin) BY <1>1, <1>2, <2>4 DEF Fits, In
  <2> QED BY <2>3, <2>5
<1> QED BY <1>3, <1>4

(* A free chunk that is not the last remainder is in the bin of its size. *)
LEMMA InItsBin ==
    ASSUME NEW bins, NEW marked, NEW z, NEW idle, Binned(bins, marked, z, idle),
           NEW f \in idle, bins[1] = <<>>
    PROVE  bin_index(z[f]) \in 2 .. LastBin /\ In(f, bins[bin_index(z[f])])
<1>1. PICK i \in 0 .. LastBin : In(f, bins[i]) BY DEF Binned
<1>2. i # 0 /\ i # 1 BY <1>1 DEF Binned, In
<1>3. LastBin \in Nat /\ i \in 2 .. LastBin BY <1>2, Constants
<1>4. InOrder(bins[i], z, i) BY <1>3 DEF Binned
<1>5. bin_index(z[f]) = i BY <1>1, <1>4 DEF InOrder, In
<1> QED BY <1>1, <1>3, <1>5

LEMMA FitInBlockIs ==
    ASSUME NEW h, NEW z, NEW idle, Sizes(h, z, idle), Null \notin idle,
           Binned(h.bins, h.marked, z, idle), NEW nb \in Nat, NEW idx \in Nat, NEW b \in h.marked
    PROVE  LET f == FitInBlock(h, nb, idx, b) IN
           \/ f = Null /\ \A i \in 4 * b .. 4 * b + 3 : i >= idx => LastFit(h, h.bins[i], nb) = Null
           \/ Fits(f, z, idle, nb)
<1> DEFINE bins == {i \in 4 * b .. 4 * b + 3 : i >= idx}
           full == {i \in bins : LastFit(h, h.bins[i], nb) # Null}
<1>1. b \in Nat /\ \A i \in 4 * b .. 4 * b + 3 : i \in 0 .. LastBin
  <2>1. b \in 0 .. BlockOf(LastBin) /\ LastBin \in Nat /\ LastBin % 4 = 3
    BY MallocAssumption DEF Binned
  <2>2. LastBin = 4 * (LastBin \div 4) + 3 /\ LastBin \div 4 \in Nat BY <2>1
  <2> DEFINE q == LastBin \div 4
  <2>3. b \in 0 .. q /\ LastBin = 4 * q + 3 /\ q \in Nat
    BY <2>1, <2>2 DEF BlockOf, BINBLOCKWIDTH
  <2> HIDE DEF q
  <2> QED BY <2>3
<1>2. FitInBlock(h, nb, idx, b) = IF full = {} THEN Null ELSE LastFit(h, h.bins[Min(full)], nb)
  BY DEF FitInBlock, BINBLOCKWIDTH
<1>3. CASE full = {} BY <1>2, <1>3
<1>4. CASE full # {}
  <2> DEFINE j == Min(full)
  <2>1. full \in SUBSET Nat BY <1>1
  <2>2. j \in full BY <1>4, <2>1, Least
  <2>3. j \in 0 .. LastBin /\ LastFit(h, h.bins[j], nb) # Null BY <1>1, <2>2
  <2> HIDE DEF j
  <2>4. IsBin(h.bins[j], idle) BY <2>3 DEF Binned
  <2>5. Fits(LastFit(h, h.bins[j], nb), z, idle, nb) BY <2>3, <2>4, LastFitIs
  <2> QED BY <1>2, <1>4, <2>5 DEF j
<1> QED BY <1>3, <1>4

(* Blocks of which all bins are empty lose their mark. *)
LEMMA BinnedMarks ==
    ASSUME NEW bins, NEW marked, NEW z, NEW idle, Binned(bins, marked, z, idle),
           NEW less \in SUBSET marked, \A i \in 2 .. LastBin : bins[i] # <<>> => BlockOf(i) \in less
    PROVE  Binned(bins, less, z, idle)
  BY DEF Binned

LEMMA MarkedIs ==
    ASSUME NEW h, IsHeap(h), NEW less
    PROVE  LET k == [h EXCEPT !.marked = less]
           IN Linked(k, h) /\ k.bins = h.bins /\ k.marked = less
  BY DEF IsHeap, Linked, Settings

LEMMA ScanGood ==
    ASSUME NEW h, NEW C, NEW S, NEW z, NEW idle, NEW F, Good(h, C, S, z, idle, F),
           h.bins[1] = <<>>, NEW nb \in Nat, NEW idx \in Nat,
           \/ idx > bin_index(nb)
           \/ idx = bin_index(nb) /\ \E f \in idle : z[f] >= nb /\ bin_index(z[f]) = idx
    PROVE  LET r == ScanBins(h, nb, idx) IN
           /\ Good(r.heap, C, S, z, idle, F) /\ r.heap.bins[1] = <<>>
           /\ r.victim = Null \/ Fits(r.victim, z, idle, nb)
<1> DEFINE ahead == {b \in h.marked : b >= BlockOf(idx)}
           with == {b \in ahead : FitInBlock(h, nb, idx, b) # Null}
           seen == {b \in ahead : \A c \in with : b < c}
           less == h.marked \ {b \in seen : NothingBelow(h, idx, b)}
           k == [h EXCEPT !.marked = less]
           victim == IF with = {} THEN Null ELSE FitInBlock(h, nb, idx, Min(with))
<1>1. ScanBins(h, nb, idx) = [heap |-> k, victim |-> victim] BY DEF ScanBins
<1>2. /\ Sizes(h, z, idle) /\ Null \notin idle /\ Binned(h.bins, h.marked, z, idle)
      /\ IsHeap(h) /\ h.marked \subseteq Nat
  <2>1. Sizes(h, z, idle) /\ Null \notin idle /\ Binned(h.bins, h.marked, z, idle) /\ IsHeap(h)
    BY GoodSizes DEF Good
  <2>2. h.marked \subseteq 0 .. BlockOf(LastBin) BY <2>1 DEF Binned
  <2> QED BY <2>1, <2>2
<1>3. victim = Null \/ Fits(victim, z, idle, nb)
  <2>1. CASE with # {}
    <3>1. with \in SUBSET Nat BY <1>2
    <3>2. Min(with) \in with BY <2>1, <3>1, Least
    <3>3. Min(with) \in h.marked /\ FitInBlock(h, nb, idx, Min(with)) # Null BY <3>2
    <3> HIDE DEF with
    <3> QED BY <1>2, <2>1, <3>3, FitInBlockIs
  <2> QED BY <2>1
<1>4. ASSUME NEW i \in 2 .. LastBin, h.bins[i] # <<>>
      PROVE  BlockOf(i) \in less
  <2> DEFINE b == BlockOf(i)
  <2>1. b \in h.marked BY <1>2, <1>4 DEF Binned
  <2>2. LastBin \in Nat /\ i \in Nat /\ i \in 0 .. LastBin BY <1>4, Constants
  <2>3. b \in Nat /\ i \in 4 * b .. 4 * b + 3 BY <2>2 DEF BlockOf, BINBLOCKWIDTH
  <2>4. SUFFICES ASSUME b \in seen, NothingBelow(h, idx, b) PROVE FALSE BY <2>1
  <2>5. i >= idx BY <1>4, <2>2, <2>3, <2>4 DEF NothingBelow, BINBLOCKWIDTH
  <2>6. b \in ahead BY <2>4
  <2>7. b \notin with
    <3>1. b \in with => b < b BY <2>4
    <3> QED BY <2>3, <3>1
  <2>8. FitInBlock(h, nb, idx, b) = Null BY <2>6, <2>7
  <2> HIDE DEF b, seen, with, ahead, less
  <2>9. LastFit(h, h.bins[i], nb) = Null
    BY <1>2, <2>1, <2>3, <2>5, <2>8, FitInBlockIs DEF Fits
  <2>10. IsBin(h.bins[i], idle) /\ InOrder(h.bins[i], z, i) BY <1>2, <2>2 DEF Binned
  <2>11. PICK f \in idle : In(f, h.bins[i]) BY <1>4, <2>10, BinIsFree
  <2>12. \A g \in idle : In(g, h.bins[i]) => z[g] < nb
    BY <1>2, <2>9, <2>10, LastFitIs DEF Fits
  <2>13. bin_index(z[f]) = i /\ z[f] < nb /\ z[f] \in Nat /\ z[f] >= MINSIZE
    BY <1>2, <2>10, <2>11, <2>12 DEF InOrder, In, Sizes
  <2>14. i <= bin_index(nb) BY <2>13, BinsUp
  <2>15. nb >= MINSIZE BY <2>13 DEF MINSIZE
  <2>16. bin_index(nb) \in Nat
    <3>1. bin_index(nb) \in 2 .. LastBin - 1 BY <2>15, BinIndex
    <3> QED BY <2>2, <3>1
  <2>17. idx = bin_index(nb) /\ i = idx BY <2>2, <2>5, <2>14, <2>16
  <2>18. PICK g \in idle : z[g] >= nb /\ bin_index(z[g]) = idx BY <2>16, <2>17
  <2>19. In(g, h.bins[i]) BY <1>2, <2>17, <2>18, InItsBin
  <2> QED BY <1>2, <2>12, <2>18, <2>19 DEF Sizes
<1> HIDE DEF with, seen, victim
<1>5. Binned(h.bins, less, z, idle)
  <2>1. less \in SUBSET h.marked OBVIOUS
  <2> HIDE DEF less
  <2> QED BY <1>2, <1>4, <2>1, BinnedMarks
<1> HIDE DEF less
<1>6. Linked(k, h) /\ k.bins = h.bins /\ k.marked = less BY <1>2, MarkedIs
<1> HIDE DEF k
<1>7. Good(k, C, S, z, idle, F) BY <1>5, <1>6 DEF Good, Linked, Settings
<1> QED BY <1>1, <1>3, <1>6, <1>7

LEMMA RetireGood ==
    ASSUME NEW h, NEW C, NEW S, NEW z, NEW idle, NEW F, Good(h, C, S, z, idle, F)
    PROVE  Good(RetireRemainder(h), C, S, z, idle, F) /\ RetireRemainder(h).bins[1] = <<>>
<1>1. CASE h.bins[1] = <<>> BY <1>1 DEF RetireRemainder
<1>2. CASE h.bins[1] # <<>>
  <2>1. Sizes(h, z, idle) /\ Binned(h.bins, h.marked, z, idle) /\ IsHeap(h)
    BY GoodSizes DEF Good
  <2>2. PICK f \in idle : h.bins[1] = <<f>> BY <1>2, <2>1 DEF Binned
  <2> DEFINE h1 == [h EXCEPT !.bins[1] = <<>>]
             b1 == [h.bins EXCEPT ![1] = <<>>]
             k == Frontlink(h1, f)
  <2>3. RetireRemainder(h) = k BY <1>2, <2>2 DEF RetireRemainder
  <2>4. Relinked(h1, h, b1) BY <2>1, RetireIs
  <2>5. Binned(b1, h.marked, z, idle \ {f}) BY <2>1, <2>2, RemainderBinned
  <2>6. b1[1] = <<>>
    <3>1. 1 \in DOMAIN h.bins BY <2>1, Constants DEF Binned
    <3> QED BY <3>1
  <2> HIDE DEF b1, h1
  <2>7. Sizes(h1, z, (idle \ {f}) \cup {f})
    BY <2>1, <2>4, SameMemory DEF Sizes, Relinked, Linked
  <2>8. h1.bins = b1 /\ h1.marked = h.marked /\ IsHeap(h1)
    BY <2>4 DEF Relinked, Linked, Settings
  <2>9. Linked(k, h1) /\ Binned(k.bins, k.marked, z, (idle \ {f}) \cup {f})
    BY <2>5, <2>7, <2>8, FrontlinkBinned
  <2>10. k.bins[1] = <<>>
    <3> DEFINE idx == bin_index(Size(h1, f))
    <3>1. idx # 1
      <4>1. Size(h1, f) \in Nat /\ Size(h1, f) >= MINSIZE BY <2>7 DEF Sizes
      <4> QED BY <4>1, BinIndex, Constants
    <3> HIDE DEF idx
    <3>2. \E s : k.bins = [b1 EXCEPT ![idx] = s] BY <2>8 DEF Frontlink, IsHeap, idx
    <3> HIDE DEF k
    <3> QED BY <2>6, <3>1, <3>2
  <2>11. (idle \ {f}) \cup {f} = idle OBVIOUS
  <2> HIDE DEF k
  <2>12. Good(k, C, S, z, idle, F)
    BY <2>4, <2>9, <2>11 DEF Good, Relinked, Linked, Settings
  <2> QED BY <2>3, <2>10, <2>12
<1> QED BY <1>1, <1>2

LEMMA LastIn ==
    ASSUME NEW T, NEW bin, IsBin(bin, T), bin # <<>>
    PROVE  Last(bin) \in T /\ In(Last(bin), bin)
<1>1. PICK n \in Nat : /\ Run(bin, n, T) /\ n = Len(bin) /\ DOMAIN bin = 1 .. n
                       /\ n = 0 <=> bin = <<>> BY BinLength
<1>2. Last(bin) = bin[n] /\ n \in 1 .. n BY <1>1 DEF Last
<1> QED BY <1>1, <1>2 DEF In, Run

LEMMA ExactFitIs ==
    ASSUME NEW h, NEW C, NEW S, NEW z, NEW idle, NEW F, Good(h, C, S, z, idle, F),
           NEW nb \in Nat, nb >= MINSIZE, nb % 2 = 0
    PROVE  ExactFit(h, nb) = Null \/ Fits(ExactFit(h, nb), z, idle, nb)
<1> DEFINE idx == bin_index(nb)
           fit == LastFit(h, h.bins[idx], nb)
           small == h.bins[IF h.bins[idx] = <<>> THEN idx + 1 ELSE idx]
<1>1. /\ Sizes(h, z, idle) /\ Null \notin idle /\ Binned(h.bins, h.marked, z, idle)
  BY GoodSizes
<1>2. LastBin \in Nat /\ MaxSmall \in Nat BY Constants
<1>3. idx \in 2 .. LastBin - 1 BY BinIndex
<1>4. CASE IsSmallRequest(nb)
  <2>1. ExactFit(h, nb) = IF small = <<>> THEN Null ELSE Last(small) BY <1>4 DEF ExactFit
  <2> DEFINE i == IF h.bins[idx] = <<>> THEN idx + 1 ELSE idx
             f == Last(small)
  <2>2. nb < MaxSmall - 2 BY <1>4 DEF IsSmallRequest
  <2>3. SUFFICES ASSUME small # <<>> PROVE Fits(f, z, idle, nb) BY <2>1
  <2>4. idx = nb \div 2 /\ nb + 2 \in Nat /\ nb + 2 < MaxSmall /\ (nb + 2) % 2 = 0
    BY <1>2, <2>2 DEF bin_index
  <2>5. bin_index(nb + 2) = idx + 1
    <3>1. (nb + 2) \div 2 = (nb \div 2) + 1 OBVIOUS
    <3> QED BY <2>4, <3>1 DEF bin_index
  <2> HIDE DEF idx
  <2>6. i \in 2 .. LastBin /\ (i = idx \/ i = idx + 1) BY <1>2, <1>3
  <2>7. small = h.bins[i] OBVIOUS
  <2> HIDE DEF i, small
  <2>8. IsBin(small, idle) /\ InOrder(small, z, i)
    <3>1. i \in 0 .. LastBin /\ i \in 2 .. LastBin BY <1>2, <2>6
    <3>2. IsBin(h.bins[i], idle) /\ InOrder(h.bins[i], z, i) BY <1>1, <3>1 DEF Binned
    <3> QED BY <2>7, <3>2
  <2>9. f \in idle /\ In(f, small) BY <2>3, <2>8, LastIn
  <2> HIDE DEF f
  <2>10. bin_index(z[f]) = i BY <2>8, <2>9 DEF InOrder, In
  <2>11. z[f] \in Nat /\ z[f] >= MINSIZE /\ z[f] % 2 = 0 BY <1>1, <2>9 DEF Sizes
  <2>12. CASE i = idx
    <3>1. z[f] = nb BY <1>2, <2>2, <2>10, <2>11, <2>12, SmallBin DEF idx
    <3> QED BY <1>1, <2>9, <3>1 DEF Fits
  <2>13. CASE i = idx + 1
    <3>1. z[f] = nb + 2
      <4> DEFINE n == nb + 2
      <4>1. n >= MINSIZE BY DEF MINSIZE
      <4> HIDE DEF n
      <4>2. n \in Nat /\ n < MaxSmall /\ n % 2 = 0 /\ bin_index(n) = bin_index(z[f])
        BY <2>4, <2>5, <2>10, <2>13 DEF n
      <4>3. z[f] = n BY <2>11, <4>1, <4>2, SmallBin
      <4> QED BY <4>3 DEF n
    <3> QED BY <1>1, <2>9, <3>1 DEF Fits
  <2> QED BY <2>6, <2>12, <2>13
<1>5. CASE ~IsSmallRequest(nb)
  <2>1. ExactFit(h, nb) = Null \/ ExactFit(h, nb) = fit BY <1>5 DEF ExactFit
  <2>2. IsBin(h.bins[idx], idle) BY <1>1, <1>2, <1>3 DEF Binned
  <2>3. fit = Null \/ Fits(fit, z, idle, nb) BY <1>1, <2>2, LastFitIs
  <2> QED BY <2>1, <2>3
<1> QED BY <1>4, <1>5

(* Where the scan begins: past the bin of the size, or in it if a chunk    *)
(* there fits.                                                             *)
LEMMA ScanFromIs ==
    ASSUME NEW h, NEW C, NEW S, NEW z, NEW idle, NEW F, Good(h, C, S, z, idle, F),
           NEW nb \in Nat, nb >= MINSIZE, nb % 2 = 0
    PROVE  LET idx == ScanFrom(h, nb) IN
           /\ idx \in Nat
           /\ \/ idx > bin_index(nb)
              \/ idx = bin_index(nb) /\ \E f \in idle : z[f] >= nb /\ bin_index(z[f]) = idx
<1> DEFINE i == bin_index(nb)
<1>1. i \in 2 .. LastBin - 1 /\ LastBin \in Nat BY BinIndex, Constants
<1>2. /\ Sizes(h, z, idle) /\ Binned(h.bins, h.marked, z, idle) BY GoodSizes
<1>3. i \in 2 .. LastBin /\ i \in 0 .. LastBin /\ i \in Nat BY <1>1
<1> HIDE DEF i
<1>4. IsBin(h.bins[i], idle) /\ InOrder(h.bins[i], z, i) BY <1>2, <1>3 DEF Binned
<1>5. PICK n \in Nat : Run(h.bins[i], n, idle) /\ DOMAIN h.bins[i] = 1 .. n
  BY <1>4, BinLength
<1>6. CASE \E k \in DOMAIN h.bins[i] : Size(h, h.bins[i][k]) >= nb
  <2>1. PICK k \in DOMAIN h.bins[i] : Size(h, h.bins[i][k]) >= nb BY <1>6
  <2> DEFINE f == h.bins[i][k]
  <2>2. f \in idle /\ bin_index(z[f]) = i BY <1>4, <1>5, <2>1 DEF InOrder, Run
  <2>3. z[f] >= nb BY <1>2, <2>1, <2>2 DEF Sizes
  <2>4. ScanFrom(h, nb) = i + 2 \/ ScanFrom(h, nb) = i BY <1>6 DEF ScanFrom, i
  <2> HIDE DEF f
  <2> QED BY <1>3, <2>2, <2>3, <2>4 DEF i
<1>7. CASE ~\E k \in DOMAIN h.bins[i] : Size(h, h.bins[i][k]) >= nb
  <2>1. ScanFrom(h, nb) = i + 2 \/ ScanFrom(h, nb) = i + 1 BY <1>7 DEF ScanFrom, i
  <2> QED BY <1>3, <2>1 DEF i
<1> QED BY <1>6, <1>7

(* The top *)

LEMMA CutTopWhole ==
    ASSUME NEW m, NEW C, NEW S, NEW z, NEW top, NEW brk, NEW heads, NEW F, NEW idle,
           Whole(m, C, S, z, top, brk, heads, F, idle), NEW nb, Cuttable(z, top, nb)
    PROVE  \E z2, q : /\ Whole(TopCutMem(m, z, top, nb), C \cup {top}, S, z2, q, brk, heads, F, idle)
                      /\ TopCut(z, z2, C, S, top, q, nb)
<1> USE DEF Cuttable
<1> DEFINE q == top + nb
           D == C \cup {top}
           z2 == CarvedSizes(z, top, nb)
           m1 == [m EXCEPT ![top + 1] = Header(z2[top], 1)]
           m2 == [m1 EXCEPT ![q + 1] = Header(z2[q], 1)]
<1>1. /\ Laid(C, S, z, top, brk, heads, F) /\ idle \in SUBSET C /\ Merged(z, top, idle)
      /\ Tagged(m, C, S, z, top, idle, {}, {}) BY DEF Whole, AllTags
<1>2. Laid(D, S, z2, q, brk, heads, F) /\ q \notin Pieces(C, S, top)
  BY <1>1, CutTopLaid DEF CarvedSizes
<1>3. /\ top \in Nat /\ z \in [Nat -> Nat] /\ top \notin C /\ top \notin S /\ top \in Pieces(C, S, top)
      /\ q \notin C /\ q \notin S /\ C \subseteq Nat /\ S \subseteq Nat /\ idle \subseteq D
  <2>1. top \in Pieces(C, S, top) BY DEF Pieces, TopAt
  <2>2. Pieces(C, S, top) \subseteq Nat BY <1>1, WordsApart
  <2> QED BY <1>1, <1>2, <2>1, <2>2 DEF Laid, Pieces
<1>4. z2[top] = nb /\ z2[q] = z[top] - nb /\ \A x \in C \cup S : z2[x] = z[x]
  <2>1. q \in Nat /\ q # top /\ z2 = [[z EXCEPT ![top] = nb] EXCEPT ![q] = z[top] - nb]
    BY <1>3 DEF MINSIZE, CarvedSizes
  <2> HIDE DEF z2, q
  <2> QED BY <1>3, <2>1
<1>5. /\ Tagged(m, D, S, z2, q, idle, {} \cup {top, q}, {} \cup {q})
      /\ SameBits(z2, z, idle)
  <2> DEFINE L0 == {}
             r == z[top] - nb
  <2>1. q # InitialTop /\ Pieces(D, S, q) \subseteq Pieces(C, S, top) \cup {q}
    BY <1>3 DEF Pieces, TopAt, InitialTop, MINSIZE
  <2>2. IsCut(C, S, z, top, idle, top, q, nb, r, D, q, z2)
    BY <1>1, <1>3, <2>1 DEF IsCut, CarvedSizes
  <2>3. Tagged(m, C, S, z, top, idle, L0, L0) BY <1>1
  <2> HIDE DEF q, D, z2, r, L0
  <2>4. /\ Tagged(m, D, S, z2, q, idle, L0 \cup {top, q}, L0 \cup {q})
        /\ SameBits(z2, z, idle) BY <1>1, <2>2, <2>3, CutTagged
  <2> QED BY <2>4 DEF L0
<1>6. 1 = Bit(z2, idle, top) /\ 1 = Bit(z2, idle, q)
  <2>1. \A f \in idle : f + z[f] # top /\ f + z[f] # q
    <3>1. \A f \in idle : f + z[f] \in Pieces(C, S, top) BY <1>1, WordsApart
    <3> QED BY <1>1, <1>2, <3>1 DEF Merged
  <2>2. Bit(z, idle, top) = 1 /\ Bit(z, idle, q) = 1 BY <2>1 DEF Bit
  <2> QED BY <1>5, <2>2 DEF SameBits
<1>7. top \in Pieces(D, S, q) /\ q \in Pieces(D, S, q)
  <2>1. q # InitialTop BY <1>3 DEF InitialTop, MINSIZE
  <2> QED BY <2>1 DEF Pieces, TopAt
<1>8. Merged(z2, q, idle)
  <2>1. \A f \in idle : z2[f] = z[f] BY <1>1, <1>4
  <2>2. \A f \in idle : f + z[f] # q BY <1>1, <1>2, WordsApart
  <2> QED BY <1>1, <2>1, <2>2 DEF Merged
<1>9. m2 = TopCutMem(m, z, top, nb) BY <1>4 DEF TopCutMem
<1> HIDE DEF z2, D, q
<1> DEFINE L1 == {} \cup {top, q}
           M1 == {} \cup {q}
<1>10. Tagged(m1, D, S, z2, q, idle, L1 \ {top}, M1 \ {top})
  <2>1. Tagged(m, D, S, z2, q, idle, L1, M1) /\ idle \in SUBSET D BY <1>1, <1>5 DEF D
  <2> HIDE DEF L1, M1
  <2> QED BY <1>2, <1>6, <1>7, <2>1, HeadWritten
<1>11. Tagged(m2, D, S, z2, q, idle, (L1 \ {top}) \ {q}, (M1 \ {top}) \ {q})
  <2>1. idle \in SUBSET D BY <1>1 DEF D
  <2> HIDE DEF L1, M1, m1
  <2> QED BY <1>2, <1>6, <1>7, <1>10, <2>1, HeadWritten
<1>12. (L1 \ {top}) \ {q} = {} /\ (M1 \ {top}) \ {q} = {} /\ idle \in SUBSET D
  BY <1>1 DEF D
<1> HIDE DEF L1, M1, m2
<1>13. Whole(m2, D, S, z2, q, brk, heads, F, idle)
  BY <1>2, <1>8, <1>11, <1>12 DEF Whole, AllTags
<1>14. TopCut(z, z2, C, S, top, q, nb) BY <1>4 DEF TopCut, q
<1> QED BY <1>9, <1>13, <1>14 DEF D

LEMMA TakeTopGood ==
    ASSUME NEW h, NEW C, NEW S, NEW z, NEW idle, NEW F, Good(h, C, S, z, idle, F),
           NEW nb \in Nat, nb >= MINSIZE, nb % 2 = 0
    PROVE  Got(TakeTop(h, nb), C \ idle, z, F, nb)
<1> DEFINE U == C \ idle
           top == h.top
<1>1. CASE Size(h, top) - nb < MINSIZE
  <2>1. TakeTop(h, nb) = [heap |-> h, got |-> Null] BY <1>1 DEF TakeTop
  <2>2. Sound(h, U, z, F) BY SoundItself
  <2> QED BY <2>1, <2>2 DEF Got
<1>2. CASE ~(Size(h, top) - nb < MINSIZE)
  <2>1. top # InitialTop BY <1>2, GoodTop DEF MINSIZE
  <2>2. Size(h, top) = z[top] /\ z[top] \in Nat /\ top \in Nat /\ z[top] - nb >= MINSIZE
    <3>1. Size(h, top) = z[top] /\ z[top] \in Nat /\ top \in Start .. End BY <2>1, GoodTop
    <3> QED BY <1>2, <3>1, Bounds DEF MINSIZE
  <2> DEFINE q == top + nb
             D == C \cup {top}
             n == z[top] - nb
             g1 == SetHead(h, top, nb, 1)
             g2 == SetHead(g1, q, n, 1)
             k == [g2 EXCEPT !.top = q]
             m1 == [h.mem EXCEPT ![top + 1] = Header(nb, 1)]
             m2 == [m1 EXCEPT ![q + 1] = Header(n, 1)]
  <2>3. TakeTop(h, nb) = [heap |-> k, got |-> top] BY <1>2, <2>2 DEF TakeTop
  <2>4. IsHeap(h) /\ Whole(h.mem, C, S, z, top, h.brk, ToSet(h.regions), F, idle)
        /\ Binned(h.bins, h.marked, z, idle) /\ idle \subseteq C /\ top \notin C
    BY GoodParts DEF Good
  <2>5. PICK z2 : /\ Whole(TopCutMem(h.mem, z, top, nb), D, S, z2, q, h.brk, ToSet(h.regions), F, idle)
                  /\ z2[top] = nb /\ \A x \in C \cup S : z2[x] = z[x]
    <3> HIDE DEF top
    <3>1. Cuttable(z, top, nb) BY <2>1, <2>2 DEF Cuttable
    <3>2. PICK z2, q2 :
              /\ Whole(TopCutMem(h.mem, z, top, nb), C \cup {top}, S, z2, q2, h.brk,
                       ToSet(h.regions), F, idle)
              /\ TopCut(z, z2, C, S, top, q2, nb) BY <2>4, <3>1, CutTopWhole
    <3> QED BY <3>2 DEF TopCut
  <2>6. m2 = TopCutMem(h.mem, z, top, nb) BY DEF TopCutMem
  <2> HIDE DEF top, q, n
  <2>7. Rewritten(g1, h, m1) BY <2>4, SetHeadIs
  <2> HIDE DEF g1, m1
  <2>8. Rewritten(g2, g1, m2)
    <3>1. IsHeap(g1) /\ g1.mem = m1 BY <2>7 DEF Rewritten, Settings
    <3> QED BY <3>1, SetHeadIs
  <2> HIDE DEF g2, m2
  <2>9. /\ Settings(k, g2) /\ k.top = q
        /\ k.bins = g2.bins /\ k.marked = g2.marked /\ k.mem = g2.mem
    <3>1. IsHeap(g2) BY <2>8 DEF Rewritten, Settings
    <3> QED BY <3>1, TopIs
  <2> HIDE DEF k
  <2>10. Settings(k, h) /\ k.bins = h.bins /\ k.marked = h.marked /\ k.mem = m2
    BY <2>7, <2>8, <2>9 DEF Rewritten, Settings
  <2>11. Binned(h.bins, h.marked, z2, idle)
    <3>1. \A f \in idle : z2[f] = z[f] BY <2>4, <2>5
    <3> QED BY <2>4, <3>1, BinnedSizes
  <2> HIDE DEF D
  <2>12. Good(k, D, S, z2, idle, F)
    <3>1. h.based /\ h.ready /\ h.trim \in Nat /\ h.pad \in Pads /\ IsBin(h.regions, Nat)
      BY <2>1 DEF Good, top
    <3> QED BY <2>5, <2>6, <2>9, <2>10, <2>11, <3>1 DEF Good, Settings
  <2>13. D \ idle = U \cup {top} /\ \A x \in U : z2[x] = z[x] BY <2>4, <2>5 DEF D
  <2>14. Sound(k, U \cup {top}, z2, F) BY <2>12, <2>13, SoundItself
  <2>15. Given([heap |-> k, got |-> top], U, z, F, nb)
    <3>1. z2[top] >= nb /\ top \notin U BY <2>4, <2>5
    <3> HIDE DEF U
    <3> QED BY <2>1, <2>13, <2>14, <3>1 DEF Given, Null, InitialTop
  <2> QED BY <2>3, <2>15 DEF Got
<1> QED BY <1>1, <1>2

(* The top is extended. *)

LEMMA PageUpIs ==
    ASSUME NEW w \in Nat, w + Page < Word
    PROVE  PageUp(w) \in Nat /\ PageUp(w) % Page = 0 /\ w <= PageUp(w) /\ PageUp(w) < w + Page
<1> DEFINE x == w + Page - 1
           q == x \div Page
           r == x % Page
           y == x - r
<1>1. Page \in Nat \ {0} /\ Word \in Nat \ {0} /\ x \in Nat BY Bounds
<1>2. r \in 0 .. Page - 1
  <2> HIDE DEF x
  <2> QED BY <1>1, Remainder
<1>3. q \in Nat /\ x = Page * q + r
  <2> HIDE DEF x
  <2> QED BY <1>1
<1> HIDE DEF q, r
<1>4. y = Page * q + 0 /\ y \in Nat /\ y <= x /\ y + Page > x BY <1>1, <1>2, <1>3
<1>5. PageUp(w) = y % Word BY DEF PageUp, r
<1>6. x < Word /\ w <= y /\ y < w + Page BY <1>1, <1>4
<1> HIDE DEF x, y
<1>7. y % Word = y BY <1>1, <1>4, <1>6, NoWrap
<1>8. y % Page = 0
  <2>1. 0 \in 0 .. Page - 1 /\ y \in Int /\ q \in Int BY <1>1, <1>3, <1>4
  <2> QED BY <1>1, <1>4, <2>1, Quotient
<1> QED BY <1>4, <1>5, <1>6, <1>7, <1>8

LEMMA StopWhole ==
    ASSUME NEW m, NEW C, NEW S, NEW z, NEW top, NEW brk, NEW heads, NEW F, NEW idle,
           Whole(m, C, S, z, top, brk, heads, F, idle), NEW m2, NEW n,
           Stopped(m, m2, C, S, z, top, idle, n)
    PROVE  \E z2 : /\ Whole(m2, C, S \cup {top}, z2, InitialTop, brk, heads, F, idle)
                   /\ SizesKept(z2, z, C)
<1> DEFINE z2 == [z EXCEPT ![top] = n]
           T == S \cup {top}
<1>1. /\ Laid(C, S, z, top, brk, heads, F) /\ idle \in SUBSET C /\ Merged(z, top, idle)
      /\ Tagged(m, C, S, z, top, idle, {}, {}) BY DEF Whole, AllTags
<1>2. /\ m2 \in [Start .. End - 1 -> Int]
      /\ \A a \in TagWords(C, S, z, top, idle) : a # top + 1 => m2[a] = m[a]
      /\ m2[top + 1] = Header(n, 1) /\ m2[top + n + 1] % 2 = 1
      /\ n \in 1 .. 2 /\ n + 2 <= z[top] /\ top # InitialTop BY DEF Stopped
<1>3. Laid(C, T, z2, InitialTop, brk, heads, F) BY <1>1, <1>2, StopLaid
<1>4. Pieces(C, T, InitialTop) = Pieces(C, S, top) /\ top \in Pieces(C, S, top)
  BY <1>2 DEF Pieces, TopAt
<1>5. top \in Nat /\ top \notin C /\ top \notin S /\ Pieces(C, S, top) \subseteq Nat
      /\ z \in [Nat -> Nat]
  <2>1. Pieces(C, S, top) \subseteq Nat BY <1>1, WordsApart
  <2> QED BY <1>1, <1>4, <2>1 DEF Laid
<1>6. z2[top] = n /\ \A x \in Nat : x # top => z2[x] = z[x] BY <1>5
<1> HIDE DEF z2, T
<1>7. \A x \in Pieces(C, S, top) : x # top => z2[x] = z[x] BY <1>5, <1>6
<1>8. \A f \in idle : z2[f] = z[f] /\ f \in Pieces(C, S, top) /\ f \in Nat
  BY <1>1, <1>5, <1>7 DEF Pieces
<1>9. \A x : Bit(z2, idle, x) = Bit(z, idle, x) BY <1>8 DEF Bit
<1>10. \A x \in Pieces(C, S, top) : m2[x + 1] \div 2 = z2[x] /\ m2[x + 1] % 2 = Bit(z2, idle, x)
  <2>1. TAKE x \in Pieces(C, S, top)
  <2>2. CASE x = top
    <3>1. Header(n, 1) \div 2 = n /\ Header(n, 1) % 2 = 1
      <4>1. n \in Nat /\ 1 \in {0, 1} BY <1>2
      <4> QED BY <4>1, HeaderParts
    <3>2. Bit(z, idle, top) = 1 BY <1>1 DEF Bit, Merged
    <3> QED BY <1>2, <1>6, <1>9, <2>2, <3>1, <3>2
  <2>3. CASE x # top
    <3>1. x + 1 \in TagWords(C, S, z, top, idle) /\ x + 1 # top + 1
      BY <1>4, <1>5, <2>1, <2>3 DEF TagWords
    <3>2. m2[x + 1] = m[x + 1] BY <1>2, <3>1
    <3> QED BY <1>1, <1>7, <1>9, <2>1, <2>3, <3>2 DEF Tagged
  <2> QED BY <2>2, <2>3
<1>11. \A f \in idle : m2[f + z2[f]] = z2[f]
  <2>1. TAKE f \in idle
  <2>2. f + z[f] \in Pieces(C, S, top) BY <1>1, WordsApart
  <2>3. f + z[f] \in TagWords(C, S, z, top, idle) /\ f + z[f] # top + 1
    BY <1>1, <1>4, <2>2, WordsApart DEF TagWords
  <2> QED BY <1>1, <1>2, <1>8, <2>3 DEF Tagged
<1>12. \A s \in T : m2[s + z2[s] + 1] % 2 = 1
  <2>1. TAKE s \in T
  <2>2. CASE s = top BY <1>2, <1>6, <2>2
  <2>3. CASE s # top
    <3>1. s \in S /\ z2[s] = z[s] BY <1>7, <2>3 DEF T, Pieces
    <3>2. s + z[s] + 1 \in TagWords(C, S, z, top, idle) /\ s + z[s] + 1 # top + 1
      BY <1>1, <1>4, <3>1, WordsApart DEF TagWords
    <3> QED BY <1>1, <1>2, <3>1, <3>2 DEF Tagged
  <2> QED BY <2>2, <2>3
<1>13. Tagged(m2, C, T, z2, InitialTop, idle, {}, {})
  BY <1>2, <1>4, <1>10, <1>11, <1>12 DEF Tagged
<1>14. Merged(z2, InitialTop, idle)
  <2>1. \A f \in idle : f + z[f] # InitialTop
    <3>1. \A f \in idle : f + z[f] \in Pieces(C, S, top) BY <1>1, WordsApart
    <3>2. 0 \notin Pieces(C, S, top) BY <1>1, WordsApart
    <3> QED BY <3>1, <3>2 DEF InitialTop
  <2> QED BY <1>1, <1>8, <2>1 DEF Merged
<1>15. Whole(m2, C, T, z2, InitialTop, brk, heads, F, idle)
  BY <1>1, <1>3, <1>13, <1>14 DEF Whole, AllTags
<1>16. SizesKept(z2, z, C) BY <1>5, <1>7 DEF Pieces, SizesKept
<1> QED BY <1>15, <1>16 DEF T

(* A new region with the new top *)
LEMMA RegionWhole ==
    ASSUME NEW m, NEW C, NEW S, NEW z, NEW brk, NEW heads, NEW F, NEW idle,
           Whole(m, C, S, z, InitialTop, brk, heads, F, idle),
           NEW t, NEW n, IsPlace(t, n, brk), m[t + 1] = Header(n, 1)
    PROVE  \E z2 : /\ Whole(m, C, S, z2, t, t + n, heads \cup {t}, F, idle)
                   /\ SizesKept(z2, z, C)
<1> USE DEF IsPlace
<1> DEFINE z2 == [z EXCEPT ![t] = n]
<1>1. /\ Laid(C, S, z, InitialTop, brk, heads, F) /\ idle \in SUBSET C /\ Merged(z, InitialTop, idle)
      /\ Tagged(m, C, S, z, InitialTop, idle, {}, {}) BY DEF Whole, AllTags
<1>2. Laid(C, S, z2, t, t + n, heads \cup {t}, F) /\ t \notin C \cup S BY <1>1, RegionLaid
<1>3. Pieces(C, S, t) \subseteq Pieces(C, S, InitialTop) \cup {t} BY DEF Pieces, TopAt
<1>4. Pieces(C, S, InitialTop) = C \cup S /\ C \cup S \subseteq Nat /\ z \in [Nat -> Nat]
  <2>1. Pieces(C, S, InitialTop) = C \cup S BY DEF Pieces, TopAt
  <2>2. Pieces(C, S, InitialTop) \subseteq Nat BY <1>1, WordsApart
  <2> QED BY <1>1, <2>1, <2>2 DEF Laid
<1>5. z2[t] = n /\ \A x \in C \cup S : z2[x] = z[x] BY <1>2, <1>4
<1> HIDE DEF z2
<1>6. \A x : Bit(z2, idle, x) = Bit(z, idle, x) BY <1>1, <1>5 DEF Bit
<1>7. \A f \in idle : f + z[f] \in C \cup S BY <1>1, <1>4, WordsApart
<1>8. m[t + 1] \div 2 = n /\ m[t + 1] % 2 = 1 /\ Bit(z, idle, t) = 1
  <2>1. \A f \in idle : f + z[f] # t BY <1>2, <1>7
  <2> QED BY <2>1, HeaderParts DEF Bit
<1>9. Tagged(m, C, S, z2, t, idle, {}, {})
  <2>1. \A x \in Pieces(C, S, t) : m[x + 1] \div 2 = z2[x] /\ m[x + 1] % 2 = Bit(z2, idle, x)
    <3>1. TAKE x \in Pieces(C, S, t)
    <3>2. Bit(z2, idle, x) = Bit(z, idle, x) BY <1>6
    <3>3. CASE x = t BY <1>5, <1>8, <3>2, <3>3
    <3>4. CASE x # t
      <4>1. x \in C \cup S BY <1>3, <1>4, <3>1, <3>4
      <4>2. m[x + 1] \div 2 = z[x] /\ m[x + 1] % 2 = Bit(z, idle, x)
        BY <1>1, <1>4, <4>1 DEF Tagged
      <4> QED BY <1>5, <3>2, <4>1, <4>2
    <3> QED BY <3>3, <3>4
  <2> QED BY <1>1, <1>5, <2>1 DEF Tagged
<1>10. Merged(z2, t, idle) BY <1>1, <1>2, <1>5, <1>7 DEF Merged
<1>11. SizesKept(z2, z, C) BY <1>5 DEF SizesKept
<1> QED BY <1>1, <1>2, <1>9, <1>10, <1>11 DEF Whole, AllTags

LEMMA WholeSame ==
    ASSUME NEW m, NEW C, NEW S, NEW z, NEW top, NEW brk, NEW heads, NEW F, NEW idle,
           Whole(m, C, S, z, top, brk, heads, F, idle), NEW m2 \in [Start .. End - 1 -> Int],
           \A a \in TagWords(C, S, z, top, idle) : m2[a] = m[a]
    PROVE  Whole(m2, C, S, z, top, brk, heads, F, idle)
  BY SameTags DEF Whole, AllTags

LEMMA FenceStopped ==
    ASSUME NEW m, NEW C, NEW S, NEW z, NEW top, NEW brk, NEW heads, NEW F, NEW idle,
           Whole(m, C, S, z, top, brk, heads, F, idle), top # InitialTop,
           NEW M, NEW new, NEW n, Fenced(M, m, top, z[top] - 4, new, n), IsPlace(new, n, brk),
           z[top] = 4 \/ z[top] = 6
    PROVE  Stopped(m, M, C, S, z, top, idle, IF z[top] = 4 THEN 1 ELSE 2)
<1>1. /\ Laid(C, S, z, top, brk, heads, F) /\ idle \in SUBSET C
      /\ Tagged(m, C, S, z, top, idle, {}, {}) /\ top \in Nat BY DEF Whole, AllTags, Laid
<1>2. TagWords(C, S, z, top, idle) \subseteq Start .. End - 1 BY <1>1, TagWordsInside
<1>3. /\ \A a \in Nat : a >= top + 2 /\ a <= top + z[top] => a \notin TagWords(C, S, z, top, idle)
      /\ \A a \in Nat : a >= brk => a \notin TagWords(C, S, z, top, idle)
  BY <1>1, WordsInside
<1>4. Header(1, 1) % 2 = 1 BY DEF Header
<1>5. new \in Nat /\ brk <= new /\ brk \in Nat BY <1>1, Bounds DEF IsPlace, Laid
<1>6. new + 1 \notin TagWords(C, S, z, top, idle) BY <1>3, <1>5
<1>7. CASE z[top] = 4
  <2>1. z[top] - 4 = 0 /\ top + 0 + 1 = top + 1 /\ top + 0 + 2 = top + 2 /\ top + 1 + 1 = top + 2
    BY <1>1, <1>7
  <2>2. top + 2 \notin TagWords(C, S, z, top, idle) BY <1>1, <1>3, <1>7
  <2>3. \A a \in TagWords(C, S, z, top, idle) : a # top + 1 => M[a] = m[a]
    BY <1>2, <1>6, <2>1, <2>2 DEF Fenced
  <2> QED BY <1>4, <1>7, <2>1, <2>3 DEF Fenced, Stopped
<1>8. CASE z[top] = 6
  <2>1. z[top] - 4 = 2 /\ top + 2 + 1 = top + 3 /\ top + 2 + 2 = top + 4 BY <1>1, <1>8
  <2>2. top + 3 \notin TagWords(C, S, z, top, idle) /\ top + 4 \notin TagWords(C, S, z, top, idle)
    BY <1>1, <1>3, <1>8
  <2>3. \A a \in TagWords(C, S, z, top, idle) : a # top + 1 => M[a] = m[a]
    BY <1>2, <1>6, <2>1, <2>2 DEF Fenced
  <2> QED BY <1>4, <1>8, <2>1, <2>3 DEF Fenced, Stopped
<1> QED BY <1>7, <1>8

LEMMA FenceCut ==
    ASSUME NEW m, NEW C, NEW S, NEW z, NEW top, NEW brk, NEW heads, NEW F, NEW idle, NEW z1, NEW q,
           NEW nb, nb = z[top] - 4,
           Whole(TopCutMem(m, z, top, nb), C \cup {top}, S, z1, q, brk, heads, F, idle),
           TopCut(z, z1, C, S, top, q, nb), top \in Nat, z[top] \in Nat, nb >= MINSIZE,
           m \in [Start .. End - 1 -> Int],
           NEW M, NEW new, NEW n, Fenced(M, m, top, nb, new, n), IsPlace(new, n, brk)
    PROVE  Stopped(TopCutMem(m, z, top, nb), M, C \cup {top}, S, z1, q, idle, 1)
<1> DEFINE D == C \cup {top}
           m1 == TopCutMem(m, z, top, nb)
<1>1. /\ Laid(D, S, z1, q, brk, heads, F) /\ idle \in SUBSET D
      /\ q = top + nb /\ q \in Nat /\ nb \in Nat /\ z1[q] = 4 /\ q # InitialTop
  BY DEF Whole, TopCut, InitialTop, MINSIZE
<1>2. TagWords(D, S, z1, q, idle) \subseteq Start .. End - 1 BY <1>1, TagWordsInside
<1>3. /\ \A a \in Nat : a >= q + 2 /\ a <= q + z1[q] => a \notin TagWords(D, S, z1, q, idle)
      /\ \A a \in Nat : a >= brk => a \notin TagWords(D, S, z1, q, idle)
  BY <1>1, WordsInside
<1>4. Header(1, 1) % 2 = 1 BY DEF Header
<1>5. new \in Nat /\ brk <= new /\ brk \in Nat BY <1>1, Bounds DEF IsPlace, Laid
<1>6. new + 1 \notin TagWords(D, S, z1, q, idle)
  <2>1. new + 1 \in Nat /\ new + 1 >= brk BY <1>5
  <2> QED BY <1>3, <2>1
<1>7. q + 2 \notin TagWords(D, S, z1, q, idle) /\ q + 1 + 1 = q + 2
  <2>1. q + 2 \in Nat /\ q + 2 >= q + 2 /\ q + 2 <= q + z1[q] /\ q + 1 + 1 = q + 2 BY <1>1
  <2> QED BY <1>3, <2>1
<1>8. /\ M \in [Start .. End - 1 -> Int]
      /\ M[q + 1] = Header(1, 1) /\ M[q + 2] = Header(1, 1)
      /\ M[top + 1] = Header(nb, 1)
      /\ \A a \in Start .. End - 1 :
           a \notin {new + 1, top + 1, q + 1, q + 2} => M[a] = m[a]
  <2>1. nb # 0 BY DEF MINSIZE
  <2> QED BY <1>1, <2>1 DEF Fenced
<1>9. ASSUME NEW a \in TagWords(D, S, z1, q, idle), a # q + 1
      PROVE  M[a] = m1[a]
  <2>1. a \in Start .. End - 1 /\ a # new + 1 /\ a # q + 2 BY <1>2, <1>6, <1>7
  <2>2. CASE a = top + 1
    <3>1. m1[top + 1] = Header(nb, 1)
      <4>1. top + nb + 1 # top + 1 BY <1>1 DEF MINSIZE
      <4>2. top + 1 \in Start .. End - 1 BY <2>1, <2>2
      <4> QED BY <4>1, <4>2 DEF TopCutMem
    <3> QED BY <1>8, <2>2, <3>1
  <2>3. CASE a # top + 1
    <3>1. m1[a] = m[a] BY <1>1, <1>9, <2>1, <2>3 DEF TopCutMem
    <3> QED BY <1>8, <1>9, <2>1, <2>3, <3>1
  <2> QED BY <2>2, <2>3
<1> HIDE DEF m1, D
<1>10. 1 \in 1 .. 2 /\ 1 + 2 <= z1[q] /\ M[q + 1 + 1] % 2 = 1
  <2>1. M[q + 1 + 1] = Header(1, 1) BY <1>7, <1>8
  <2>2. 1 \in 1 .. 2 /\ 1 + 2 <= z1[q] BY <1>1
  <2> QED BY <1>4, <2>1, <2>2
<1> QED BY <1>1, <1>8, <1>9, <1>10 DEF Stopped, m1, D

LEMMA FenceWhole ==
    ASSUME NEW m, NEW C, NEW S, NEW z, NEW top, NEW brk, NEW heads, NEW F, NEW idle,
           Whole(m, C, S, z, top, brk, heads, F, idle),
           NEW M, NEW new, NEW n, TopFenced(M, m, z, top, new, n), IsPlace(new, n, brk)
    PROVE  Ended(M, C, z, top, new, n, heads, F, idle)
<1> USE DEF FenceChunks, TopFenced, Ended
<1>1. /\ Laid(C, S, z, top, brk, heads, F) /\ IsChunk(z, top) /\ top \in Pieces(C, S, top)
      /\ m \in [Start .. End - 1 -> Int]
  BY DEF Whole, Laid, TopAt, Pieces, AllTags, Tagged
<1>2. top \in Nat /\ z[top] \in Nat /\ z[top] >= 4 /\ z[top] % 2 = 0
  BY <1>1, WordsApart DEF IsChunk, MINSIZE
<1>3. \A D, T, z1 :
          Whole(M, D, T, z1, InitialTop, brk, heads, F, idle) =>
          \E z2 : /\ Whole(M, D, T, z2, new, new + n, heads \cup {new}, F, idle)
                  /\ SizesKept(z2, z1, D)
  <2>1. TAKE D, T, z1
  <2>2. HAVE Whole(M, D, T, z1, InitialTop, brk, heads, F, idle)
  <2>3. M[new + 1] = Header(n, 1) BY DEF Fenced
  <2> QED BY <2>2, <2>3, RegionWhole
<1>4. CASE z[top] - 4 >= MINSIZE
  <2> DEFINE nb == z[top] - 4
  <2>1. Cuttable(z, top, nb) BY <1>2, <1>4 DEF Cuttable, MINSIZE
  <2>2. PICK z1, q : /\ Whole(TopCutMem(m, z, top, nb), C \cup {top}, S, z1, q, brk, heads, F, idle)
                     /\ TopCut(z, z1, C, S, top, q, nb) BY <2>1, CutTopWhole
  <2>3. Stopped(TopCutMem(m, z, top, nb), M, C \cup {top}, S, z1, q, idle, 1)
    BY <1>1, <1>2, <1>4, <2>2, FenceCut
  <2> HIDE DEF nb
  <2>4. PICK z2 : /\ Whole(M, C \cup {top}, S \cup {q}, z2, InitialTop, brk, heads, F, idle)
                  /\ SizesKept(z2, z1, C \cup {top}) BY <2>2, <2>3, StopWhole
  <2>5. PICK z3 : /\ Whole(M, C \cup {top}, S \cup {q}, z3, new, new + n, heads \cup {new}, F, idle)
                  /\ SizesKept(z3, z2, C \cup {top}) BY <1>3, <2>4
  <2>6. SizesKept(z3, z, C) BY <2>2, <2>4, <2>5 DEF TopCut, SizesKept
  <2> QED BY <1>4, <2>5, <2>6
<1>5. CASE ~(z[top] - 4 >= MINSIZE)
  <2>1. z[top] = 4 \/ z[top] = 6 BY <1>2, <1>5 DEF MINSIZE
  <2> DEFINE k == IF z[top] = 4 THEN 1 ELSE 2
  <2>2. Stopped(m, M, C, S, z, top, idle, k) BY <2>1, FenceStopped
  <2> HIDE DEF k
  <2>3. PICK z2 : /\ Whole(M, C, S \cup {top}, z2, InitialTop, brk, heads, F, idle)
                  /\ SizesKept(z2, z, C) BY <2>2, StopWhole
  <2>4. PICK z3 : /\ Whole(M, C, S \cup {top}, z3, new, new + n, heads \cup {new}, F, idle)
                  /\ SizesKept(z3, z2, C) BY <1>3, <2>3
  <2>5. SizesKept(z3, z, C) BY <2>3, <2>4 DEF SizesKept
  <2> QED BY <1>5, <2>4, <2>5
<1> QED BY <1>4, <1>5

LEMMA BreakGood ==
    ASSUME NEW h, NEW C, NEW S, NEW z, NEW idle, NEW F, Good(h, C, S, z, idle, F),
           NEW b \in Nat, h.brk <= b, b <= End, NEW G, G \subseteq F \cup h.brk .. b - 1,
           NEW k, Broken(k, h, b)
    PROVE  Good(k, C, S, z, idle, G)
<1>1. Laid(C, S, z, h.top, h.brk, ToSet(h.regions), F) BY GoodParts
<1>2. Laid(C, S, z, h.top, b, ToSet(h.regions), G) BY <1>1, BreakLaid
<1>3. Whole(k.mem, C, S, z, k.top, k.brk, ToSet(k.regions), G, idle)
  BY <1>2 DEF Good, Whole, Broken
<1> QED BY <1>3 DEF Good, Broken

LEMMA ToSetAppend ==
    ASSUME NEW s, IsBin(s, Nat), NEW x \in Nat
    PROVE  IsBin(Append(s, x), Nat) /\ ToSet(Append(s, x)) = ToSet(s) \cup {x}
<1>1. s \in Seq(Nat) BY DEF IsBin
<1>2. Append(s, x) \in Seq(Nat) /\ Len(Append(s, x)) = Len(s) + 1 /\ Len(s) \in Nat
  BY <1>1
<1>3. DOMAIN s = 1 .. Len(s) /\ DOMAIN Append(s, x) = 1 .. Len(s) + 1 BY <1>1, <1>2
<1>4. \A i \in 1 .. Len(s) : Append(s, x)[i] = s[i] BY <1>1
<1>5. Append(s, x)[Len(s) + 1] = x BY <1>1
<1>6. ASSUME NEW y \in ToSet(Append(s, x)) PROVE y \in ToSet(s) \cup {x}
  BY <1>2, <1>3, <1>4, <1>5 DEF ToSet
<1>7. ASSUME NEW y \in ToSet(s) PROVE y \in ToSet(Append(s, x))
  BY <1>2, <1>3, <1>4 DEF ToSet
<1>8. x \in ToSet(Append(s, x)) BY <1>2, <1>3, <1>5 DEF ToSet
<1> QED BY <1>2, <1>6, <1>7, <1>8 DEF IsBin

LEMMA StartedIs ==
    ASSUME NEW h, IsHeap(h), NEW new, NEW n, NEW b
    PROVE  Started([h EXCEPT !.top = new, !.regions = Append(@, new), !.mem[new + 1] = Header(n, b)],
                   h, new, [h.mem EXCEPT ![new + 1] = Header(n, b)])
<1> DEFINE m == [h.mem EXCEPT ![new + 1] = Header(n, b)]
           r == Append(h.regions, new)
           k1 == [h EXCEPT !.top = new]
           k2 == [k1 EXCEPT !.regions = r]
           k3 == [k2 EXCEPT !.mem = m]
<1>1. k3 = [h EXCEPT !.top = new, !.regions = Append(@, new), !.mem[new + 1] = Header(n, b)]
  OBVIOUS
<1> HIDE DEF m, r
<1>2. /\ Settings(k1, h) /\ k1.top = new
      /\ k1.bins = h.bins /\ k1.marked = h.marked /\ k1.mem = h.mem BY TopIs
<1> HIDE DEF k1
<1>3. /\ IsHeap(k2) /\ k2.brk = k1.brk /\ k2.mem = k1.mem /\ k2.ready = k1.ready
      /\ k2.based = k1.based /\ k2.top = k1.top /\ k2.bins = k1.bins /\ k2.marked = k1.marked
      /\ k2.trim = k1.trim /\ k2.pad = k1.pad /\ k2.regions = r
  BY <1>2 DEF IsHeap, Settings
<1> HIDE DEF k2
<1>4. Rewritten(k3, k2, m) BY <1>3, MemoryIs
<1> HIDE DEF k3
<1>5. Started(k3, h, new, m) BY <1>2, <1>3, <1>4 DEF Started, Rewritten, Settings, r
<1> QED BY <1>1, <1>5 DEF m

LEMMA FenceHeapIs ==
    ASSUME NEW h, IsHeap(h), NEW top, NEW rest
    PROVE  Rewritten(FenceHeap(h, top, rest), h, FenceMem(h.mem, top, rest))
<1> DEFINE g1 == SetHead(h, top, rest, 1)
           g2 == SetHead(g1, top + rest, 1, 1)
           g3 == SetHead(g2, top + rest + 1, 1, 1)
           m1 == [h.mem EXCEPT ![top + 1] = Header(rest, 1)]
           m2 == [m1 EXCEPT ![top + rest + 1] = Header(1, 1)]
           m3 == [m2 EXCEPT ![top + rest + 1 + 1] = Header(1, 1)]
<1>1. Rewritten(g1, h, m1) BY SetHeadIs
<1> HIDE DEF g1, m1
<1>2. Rewritten(g2, g1, m2)
  <2>1. IsHeap(g1) /\ g1.mem = m1 BY <1>1 DEF Rewritten, Settings
  <2> QED BY <2>1, SetHeadIs
<1> HIDE DEF g2, m2
<1>3. Rewritten(g3, g2, m3)
  <2>1. IsHeap(g2) /\ g2.mem = m2 BY <1>2 DEF Rewritten, Settings
  <2> QED BY <2>1, SetHeadIs
<1> HIDE DEF g3, m3
<1>4. Rewritten(g3, h, m3) BY <1>1, <1>2, <1>3 DEF Rewritten, Settings
<1>5. g3 = FenceHeap(h, top, rest) /\ m3 = FenceMem(h.mem, top, rest)
  BY DEF FenceHeap, FenceMem, g1, g2, g3, m1, m2, m3
<1> QED BY <1>4, <1>5

LEMMA FencedMem ==
    ASSUME NEW m \in [Start .. End - 1 -> Int], NEW top \in Nat, NEW old \in Nat, old >= 4,
           NEW new \in Nat, NEW n \in Nat, n >= 4, top >= Start, top + old <= new, new + n <= End
    PROVE  Fenced(FenceMem([m EXCEPT ![new + 1] = Header(n, 1)], top, old - 4), m, top, old - 4, new, n)
<1> DEFINE rest == old - 4
           m0 == [m EXCEPT ![new + 1] = Header(n, 1)]
           m1 == [m0 EXCEPT ![top + 1] = Header(rest, 1)]
           m2 == [m1 EXCEPT ![top + rest + 1] = Header(1, 1)]
           m3 == [m2 EXCEPT ![top + rest + 1 + 1] = Header(1, 1)]
<1>1. Start \in Nat /\ End \in Nat /\ rest \in Nat BY Bounds
<1>2. /\ top + 1 \in Start .. End - 1 /\ top + rest + 1 \in Start .. End - 1
      /\ top + rest + 2 \in Start .. End - 1 /\ new + 1 \in Start .. End - 1
      /\ top + rest + 1 + 1 = top + rest + 2 BY <1>1
<1>3. Header(n, 1) \in Int /\ Header(rest, 1) \in Int /\ Header(1, 1) \in Int
  BY <1>1 DEF Header
<1>4. top + 1 # top + rest + 2 /\ top + rest + 1 # top + rest + 2
      /\ new + 1 # top + 1 /\ new + 1 # top + rest + 1 /\ new + 1 # top + rest + 2
      /\ (rest # 0 => top + 1 # top + rest + 1) BY <1>1
<1> DEFINE a1 == top + 1
           a2 == top + rest + 1
           a3 == top + rest + 2
           a0 == new + 1
<1>5. /\ a1 \in Start .. End - 1 /\ a2 \in Start .. End - 1 /\ a3 \in Start .. End - 1
      /\ a0 \in Start .. End - 1 /\ a1 # a3 /\ a2 # a3 /\ a0 # a1 /\ a0 # a2 /\ a0 # a3
      /\ rest # 0 => a1 # a2 BY <1>2, <1>4
<1>6. m3 = [m2 EXCEPT ![a3] = Header(1, 1)] BY <1>2
<1> HIDE DEF a0, a1, a2, a3, rest
<1>7. m0 = [m EXCEPT ![a0] = Header(n, 1)] /\ m1 = [m0 EXCEPT ![a1] = Header(rest, 1)]
      /\ m2 = [m1 EXCEPT ![a2] = Header(1, 1)] BY DEF a0, a1, a2
<1> HIDE DEF m0, m1, m2, m3
<1>8. m0 \in [Start .. End - 1 -> Int] /\ m1 \in [Start .. End - 1 -> Int]
      /\ m2 \in [Start .. End - 1 -> Int] /\ m3 \in [Start .. End - 1 -> Int]
  BY <1>3, <1>6, <1>7
<1>9. m3[a0] = Header(n, 1) /\ m3[a2] = Header(1, 1) /\ m3[a3] = Header(1, 1)
      /\ (rest # 0 => m3[a1] = Header(rest, 1)) BY <1>5, <1>6, <1>7, <1>8
<1>10. \A a \in Start .. End - 1 : a \notin {a0, a1, a2, a3} => m3[a] = m[a]
  BY <1>6, <1>7, <1>8
<1>11. Fenced(m3, m, top, rest, new, n) BY <1>8, <1>9, <1>10 DEF Fenced, a0, a1, a2, a3
<1>12. m3 = FenceMem(m0, top, rest) BY DEF m3, m2, m1, FenceMem
<1> QED BY <1>11, <1>12 DEF m0, rest

LEMMA EvenIs ==
    ASSUME NEW n \in Nat, n % 2 = 0, n >= 4
    PROVE  Even(n - 3) = n - 4
<1>1. (n - 3) % 2 = 1 OBVIOUS
<1> QED BY <1>1 DEF Even

LEMMA FenceIs ==
    ASSUME NEW k, NEW top, NEW old \in Nat, old >= 4, old % 2 = 0, PrevInUse(k, top) = 1
    PROVE  Fence(k, top, old) =
               IF old - 4 >= MINSIZE THEN free(FenceHeap(k, top, old - 4), top)
               ELSE FenceHeap(k, top, old - 4)
<1>1. Even(old - 3) = old - 4 /\ ~(old < MINSIZE) BY EvenIs DEF MINSIZE
<1> DEFINE rest == Even(old - 3)
<1>2. SetHeadSize(k, top, rest) = SetHead(k, top, rest, 1) BY DEF SetHeadSize
<1>3. Fence(k, top, old) =
         IF old < MINSIZE THEN SetHead(k, k.top, 0, 1)
         ELSE LET h1 == SetHeadSize(k, top, rest)
                  h2 == SetHead(SetHead(h1, top + rest, 1, 1), top + rest + 1, 1, 1)
              IN IF rest >= MINSIZE THEN free(h2, top) ELSE h2 BY DEF Fence
<1>4. rest = old - 4 BY <1>1
<1> HIDE DEF rest
<1>5. Fence(k, top, old) =
         LET h1 == SetHead(k, top, rest, 1)
             h2 == SetHead(SetHead(h1, top + rest, 1, 1), top + rest + 1, 1, 1)
         IN IF rest >= MINSIZE THEN free(h2, top) ELSE h2 BY <1>1, <1>2, <1>3
<1>6. Fence(k, top, old) =
         IF rest >= MINSIZE THEN free(FenceHeap(k, top, rest), top) ELSE FenceHeap(k, top, rest)
  BY <1>5 DEF FenceHeap
<1> QED BY <1>4, <1>6

(* A new region: k has it, h not. *)
LEMMA FirstRegionGood ==
    ASSUME NEW h, NEW C, NEW S, NEW z, NEW idle, NEW F, Good(h, C, S, z, idle, F),
           h.top = InitialTop, NEW new, NEW n, IsPlace(new, n, h.brk),
           NEW g, Broken(g, h, new + n), g.based,
           NEW k, Started(k, g, new, [h.mem EXCEPT ![new + 1] = Header(n, 1)])
    PROVE  Sound(k, C \ idle, z, F)
<1> DEFINE m == [h.mem EXCEPT ![new + 1] = Header(n, 1)]
           heads == ToSet(h.regions)
<1>1. /\ Whole(h.mem, C, S, z, InitialTop, h.brk, heads, F, idle) /\ IsBin(h.regions, Nat)
      /\ Binned(h.bins, h.marked, z, idle) BY DEF Good
<1>2. /\ Laid(C, S, z, InitialTop, h.brk, heads, F) /\ idle \in SUBSET C
      /\ h.mem \in [Start .. End - 1 -> Int] /\ h.brk \in Start .. End
  BY <1>1 DEF Whole, AllTags, Tagged, Laid
<1>3. new \in Nat /\ h.brk <= new /\ new + n <= End /\ n \in Nat /\ n >= 4
      /\ Start \in Nat /\ End \in Nat /\ h.brk \in Nat
  BY <1>2, Bounds DEF IsPlace, MINSIZE
<1>4. new + 1 \in Start .. End - 1 BY <1>2, <1>3
<1>5. m \in [Start .. End - 1 -> Int] /\ m[new + 1] = Header(n, 1)
  <2>1. Header(n, 1) \in Int BY <1>3 DEF Header
  <2> QED BY <1>2, <1>4, <2>1
<1>6. \A a \in TagWords(C, S, z, InitialTop, idle) : m[a] = h.mem[a]
  <2>1. new + 1 \in Nat /\ new + 1 >= h.brk BY <1>3
  <2>2. new + 1 \notin TagWords(C, S, z, InitialTop, idle) BY <1>2, <2>1, WordsInside
  <2>3. TagWords(C, S, z, InitialTop, idle) \subseteq Start .. End - 1
    BY <1>2, TagWordsInside
  <2> QED BY <1>2, <2>2, <2>3
<1> HIDE DEF m, heads
<1>7. Whole(m, C, S, z, InitialTop, h.brk, heads, F, idle) BY <1>1, <1>5, <1>6, WholeSame
<1>8. PICK z2 : /\ Whole(m, C, S, z2, new, new + n, heads \cup {new}, F, idle)
                /\ SizesKept(z2, z, C) BY <1>5, <1>7, RegionWhole
<1>9. /\ IsBin(k.regions, Nat) /\ ToSet(k.regions) = heads \cup {new}
      /\ k.mem = m /\ k.brk = new + n /\ k.top = new /\ k.bins = h.bins /\ k.marked = h.marked
      /\ IsHeap(k) /\ k.ready = h.ready /\ k.trim = h.trim /\ k.pad = h.pad /\ k.based
  BY <1>1, <1>3, ToSetAppend DEF Started, Broken, m, heads
<1>10. \A f \in C : z2[f] = z[f] BY <1>8 DEF SizesKept
<1>11. Binned(h.bins, h.marked, z2, idle) BY <1>1, <1>2, <1>10, BinnedSizes
<1>12. Good(k, C, S, z2, idle, F)
  <2>1. h.ready /\ h.trim \in Nat /\ h.pad \in Pads BY DEF Good
  <2> QED BY <1>8, <1>9, <1>11, <2>1 DEF Good
<1>13. Sound(k, C \ idle, z2, F) BY <1>12, SoundItself
<1>14. \A x \in C \ idle : z[x] = z2[x] BY <1>10
<1> QED BY <1>13, <1>14, SoundSizes

LEMMA NextRegionGood ==
    ASSUME NEW h, NEW C, NEW S, NEW z, NEW fr, NEW F, Good(h, C, S, z, fr, F),
           h.top # InitialTop, NEW new, NEW n, IsPlace(new, n, h.brk),
           NEW g, Broken(g, h, new + n), g.based,
           NEW k, Started(k, g, new, [h.mem EXCEPT ![new + 1] = Header(n, 1)])
    PROVE  Sound(Fence(k, h.top, Size(h, h.top)), C \ fr, z, F)
<1> DEFINE m0 == [h.mem EXCEPT ![new + 1] = Header(n, 1)]
           top == h.top
           old == z[top]
           heads == ToSet(h.regions)
           M == FenceMem(m0, top, old - 4)
           f == FenceHeap(k, top, old - 4)
           U == C \ fr
<1>1. /\ Whole(h.mem, C, S, z, top, h.brk, heads, F, fr) /\ IsBin(h.regions, Nat)
      /\ Binned(h.bins, h.marked, z, fr) BY DEF Good
<1>2. /\ fr \in SUBSET C /\ h.mem \in [Start .. End - 1 -> Int] /\ top \notin C
      /\ Merged(z, top, fr) BY <1>1 DEF Whole, AllTags, Tagged, Laid
<1>3. /\ top \in Start .. End /\ old \in Nat /\ Size(h, top) = old /\ old >= 4 /\ old % 2 = 0
      /\ top + old <= h.brk /\ h.brk \in Start .. End BY GoodTop DEF MINSIZE
<1>4. new \in Nat /\ h.brk <= new /\ new + n <= End /\ n \in Nat /\ n >= 4
      /\ Start \in Nat /\ End \in Nat /\ h.brk \in Nat /\ top \in Nat
  <2>1. Start \in Nat /\ End \in Nat BY Bounds
  <2> QED BY <1>3, <2>1 DEF IsPlace, MINSIZE
<1>5. PrevInUse(k, top) = 1
  <2>1. PrevInUse(h, top) = 1
    <3>1. Bit(z, fr, top) = 1 BY <1>2 DEF Bit, Merged
    <3>2. top \in Pieces(C, S, h.top) BY DEF Pieces, TopAt
    <3> QED BY <3>1, <3>2, Readings
  <2>2. top + 1 # new + 1 /\ k.mem = m0 BY <1>3, <1>4 DEF Started
  <2>3. k.mem[top + 1] = h.mem[top + 1]
    <3> HIDE DEF top
    <3> QED BY <1>2, <2>2
  <2> QED BY <2>1, <2>3 DEF PrevInUse
<1> HIDE DEF top, old, heads
<1>6. Fence(k, top, old) = IF old - 4 >= MINSIZE THEN free(f, top) ELSE f
  BY <1>3, <1>5, FenceIs
<1>7. Fenced(M, h.mem, top, old - 4, new, n)
  <2>1. top >= Start /\ top + old <= new BY <1>3, <1>4
  <2> QED BY <1>2, <1>3, <1>4, <2>1, FencedMem
<1>8. Rewritten(f, k, M)
  <2>1. IsHeap(k) /\ k.mem = m0 BY DEF Started
  <2> HIDE DEF m0
  <2> QED BY <2>1, FenceHeapIs
<1> HIDE DEF M, f, m0
<1>9. PICK C2, S2, z2 :
          /\ Whole(M, C2, S2, z2, new, new + n, heads \cup {new}, F, fr)
          /\ SizesKept(z2, z, C)
          /\ FenceChunks(C2, C, z, top)
  <2>1. top # InitialTop BY DEF top
  <2>2. TopFenced(M, h.mem, z, top, new, n) BY <1>7, <2>1 DEF old, TopFenced
  <2>3. Ended(M, C, z, top, new, n, heads, F, fr) BY <1>1, <2>2, FenceWhole
  <2> QED BY <2>3 DEF Ended
<1>10. /\ IsBin(f.regions, Nat) /\ ToSet(f.regions) = heads \cup {new}
      /\ f.mem = M /\ f.brk = new + n /\ f.top = new /\ f.bins = h.bins /\ f.marked = h.marked
      /\ IsHeap(f) /\ f.ready = h.ready /\ f.trim = h.trim /\ f.pad = h.pad /\ f.based
  <2>1. /\ f.regions = Append(h.regions, new) /\ f.brk = new + n /\ f.top = new
        /\ f.bins = h.bins /\ f.marked = h.marked /\ IsHeap(f) /\ f.ready = h.ready
        /\ f.trim = h.trim /\ f.pad = h.pad /\ f.based /\ f.mem = M
    BY <1>8 DEF Started, Broken, Rewritten, Settings
  <2> QED BY <1>1, <1>4, <2>1, ToSetAppend DEF heads
<1>11. \A x \in C : z2[x] = z[x] BY <1>9 DEF SizesKept
<1>12. Binned(h.bins, h.marked, z2, fr) BY <1>1, <1>2, <1>11, BinnedSizes
<1>13. Good(f, C2, S2, z2, fr, F)
  <2>1. h.ready /\ h.trim \in Nat /\ h.pad \in Pads BY DEF Good
  <2> QED BY <1>9, <1>10, <1>12, <2>1 DEF Good
<1>14. Sound(Fence(k, top, old), U, z2, F)
  <2>1. CASE old - 4 >= MINSIZE
    <3>1. top \in C2 \ fr /\ (C2 \ fr) \ {top} = U
      BY <1>2, <1>9, <2>1 DEF old, top, FenceChunks
    <3>2. Sound(free(f, top), (C2 \ fr) \ {top}, z2, F) BY <1>13, <3>1, FreeGood
    <3> HIDE DEF U
    <3> QED BY <1>6, <2>1, <3>1, <3>2
  <2>2. CASE ~(old - 4 >= MINSIZE)
    <3>1. C2 \ fr = U BY <1>9, <2>2 DEF old, top, FenceChunks
    <3>2. Sound(f, C2 \ fr, z2, F) BY <1>13, SoundItself
    <3> HIDE DEF U
    <3> QED BY <1>6, <2>2, <3>1, <3>2
  <2> QED BY <2>1, <2>2
<1>15. \A x \in U : z[x] = z2[x] BY <1>11
<1> HIDE DEF U
<1>16. Sound(Fence(k, top, old), U, z, F) BY <1>14, <1>15, SoundSizes
<1> QED BY <1>3, <1>16 DEF top, U

LEMMA BasedSet ==
    ASSUME NEW h, IsHeap(h), NEW v
    PROVE  LET k == [h EXCEPT !.based = v] IN
           /\ IsHeap(k) /\ k.mem = h.mem /\ k.brk = h.brk /\ k.ready = h.ready
           /\ k.based = v /\ k.top = h.top /\ k.bins = h.bins /\ k.marked = h.marked
           /\ k.trim = h.trim /\ k.pad = h.pad /\ k.regions = h.regions BY DEF IsHeap

LEMMA BasedIs ==
    ASSUME NEW h, NEW g, NEW b, Moved(g, h, h.mem, b)
    PROVE  Broken([g EXCEPT !.based = TRUE], h, b) /\ [g EXCEPT !.based = TRUE].based
<1> DEFINE k == [g EXCEPT !.based = TRUE]
<1>1. IsHeap(g) BY DEF Moved
<1>2. /\ IsHeap(k) /\ k.mem = g.mem /\ k.brk = g.brk /\ k.ready = g.ready
      /\ k.based = TRUE /\ k.top = g.top /\ k.bins = g.bins /\ k.marked = g.marked
      /\ k.trim = g.trim /\ k.pad = g.pad /\ k.regions = g.regions BY <1>1, BasedSet
<1> HIDE DEF k
<1>3. Broken(k, h, b) /\ k.based BY <1>2 DEF Broken, Moved
<1> QED BY <1>3 DEF k

(* Where NewRegion begins the new top, and what is missing to a page *)
LEMMA Correction ==
    ASSUME NEW brk \in Nat, NEW size \in Nat, size >= 4, brk + size <= End, size + Page <= Half
    PROVE  LET misalign == (brk + 2) % ALIGNMENT
               new == IF misalign > 0 THEN brk + ALIGNMENT - misalign ELSE brk
               correction == PageUp(new + size) - (brk + size)
           IN /\ new \in Nat /\ brk <= new /\ new % 2 = 0 /\ correction \in Nat /\ correction < Half
              /\ (brk + size + correction) % Page = 0 /\ new + size <= brk + size + correction
<1> DEFINE misalign == (brk + 2) % ALIGNMENT
           new == IF misalign > 0 THEN brk + ALIGNMENT - misalign ELSE brk
           up == PageUp(new + size)
<1>1. /\ End \in Nat /\ Page \in Nat \ {0} /\ Half \in Nat /\ Word = 2 * Half /\ End + Page < Half
  BY Bounds
<1>2. new \in Nat /\ brk <= new /\ new <= brk + 1 /\ new % 2 = 0
  <2>1. misalign = brk % 2 BY DEF ALIGNMENT
  <2>2. CASE brk % 2 = 0 BY <2>1, <2>2
  <2>3. CASE brk % 2 = 1
    <3>1. new = brk + 1 BY <2>1, <2>3 DEF ALIGNMENT
    <3> QED BY <2>3, <3>1
  <2> QED BY <2>2, <2>3
<1> HIDE DEF new
<1>3. new + size \in Nat /\ new + size + Page < Word BY <1>1, <1>2
<1>4. up \in Nat /\ up % Page = 0 /\ new + size <= up /\ up < new + size + Page
  <2> DEFINE w == new + size
  <2> HIDE DEF w
  <2>1. w \in Nat /\ w + Page < Word BY <1>3 DEF w
  <2>2. PageUp(w) \in Nat /\ PageUp(w) % Page = 0 /\ w <= PageUp(w) /\ PageUp(w) < w + Page
    BY <2>1, PageUpIs
  <2> QED BY <2>2 DEF w
<1> HIDE DEF up
<1> DEFINE correction == up - (brk + size)
<1>5. correction \in Nat /\ correction < Half /\ new + size <= brk + size + correction
  BY <1>1, <1>2, <1>4
<1>6. brk + size + correction = up BY <1>4
<1>7. (brk + size + correction) % Page = 0 BY <1>4, <1>6
<1> QED BY <1>2, <1>5, <1>7 DEF new, up

LEMMA NewRegionGood ==
    ASSUME NEW h, NEW C, NEW S, NEW z, NEW idle, NEW F, Good(h, C, S, z, idle, F),
           NEW size \in Nat, size >= 4, h.brk + size <= End, size + Page <= Half,
           NEW g, Moved(g, h, h.mem, h.brk + size)
    PROVE  Sound(NewRegion(g, h.brk, size), C \ idle, z, F)
<1> DEFINE brk == h.brk
           misalign == (brk + 2) % ALIGNMENT
           new == IF misalign > 0 THEN brk + ALIGNMENT - misalign ELSE brk
           correction == PageUp(new + size) - (brk + size)
           h0 == [g EXCEPT !.based = TRUE]
           second == sbrk(h0, correction)
           U == C \ idle
<1>1. NewRegion(g, brk, size) = EndRegion(g, new, correction, second) BY DEF NewRegion
<1>2. /\ brk \in Start .. End /\ Start \in Nat /\ End \in Nat /\ brk \in Nat
      /\ h.mem \in [Start .. End - 1 -> Int] BY GoodTop, Bounds
<1>3. /\ new \in Nat /\ brk <= new /\ new % 2 = 0 /\ correction \in Nat /\ correction < Half
      /\ (brk + size + correction) % Page = 0 /\ new + size <= brk + size + correction
  <2> HIDE DEF brk
  <2>1. brk + size <= End BY DEF brk
  <2> QED BY <1>2, <2>1, Correction
<1> HIDE DEF new, correction
<1>4. Broken(h0, h, brk + size) /\ h0.based BY BasedIs
<1> HIDE DEF h0
<1>5. IF brk + size + correction <= End
      THEN second.got = brk + size /\ Moved(second.heap, h0, h.mem, brk + size + correction)
      ELSE second.got = Failure /\ second.heap = h0
  <2>1. IsHeap(h0) /\ h0.mem = h.mem /\ h0.brk = brk + size BY <1>4 DEF Broken
  <2>2. h0.mem \in [Start .. End - 1 -> Int] /\ h0.brk \in Start .. End BY <1>2, <2>1
  <2>3. IF h0.brk + correction <= End
        THEN second.got = h0.brk /\ Moved(second.heap, h0, h0.mem, h0.brk + correction)
        ELSE second.got = Failure /\ second.heap = h0 BY <1>3, <2>1, <2>2, SbrkUp
  <2> HIDE DEF second
  <2> QED BY <2>1, <2>3
<1> HIDE DEF second
<1>6. CASE ~(brk + size + correction <= End)
  <2>1. EndRegion(g, new, correction, second) = h0 BY <1>5, <1>6 DEF EndRegion
  <2>2. Good(h0, C, S, z, idle, F)
    <3>1. brk + size \in Nat /\ h.brk <= brk + size /\ brk + size <= End
          /\ F \subseteq F \cup h.brk .. brk + size - 1 BY <1>2
    <3> QED BY <1>4, <3>1, BreakGood
  <2> QED BY <1>1, <2>1, <2>2, SoundItself
<1>7. CASE brk + size + correction <= End
  <2> DEFINE n == second.got - new + correction
             g2 == second.heap
             m == [h.mem EXCEPT ![new + 1] = Header(n, 1)]
             k == [g2 EXCEPT !.top = new, !.regions = Append(@, new),
                             !.mem[new + 1] = Header(n, 1)]
  <2>1. second.got = brk + size /\ Moved(g2, h0, h.mem, brk + size + correction)
    BY <1>5, <1>7
  <2>2. n \in Nat /\ new + n = brk + size + correction /\ n >= size
    <3> DEFINE got == second.got
    <3>1. got = brk + size BY <2>1
    <3>2. n = got - new + correction OBVIOUS
    <3> HIDE DEF got, n, brk, new, correction
    <3>3. got \in Nat /\ brk \in Nat /\ new \in Nat /\ correction \in Nat BY <1>2, <1>3, <3>1
    <3>4. n = brk + size - new + correction BY <3>1, <3>2, <3>3
    <3> QED BY <1>3, <3>3, <3>4
  <2>3. EndRegion(g, new, correction, second) =
            IF h.top = InitialTop THEN k ELSE Fence(k, h.top, Size(h, h.top))
    <3>1. second.got # Failure BY <1>2, <2>1 DEF Failure
    <3>2. g.top = h.top /\ g.mem = h.mem BY DEF Moved
    <3>3. Size(g, g.top) = Size(h, h.top) BY <3>2, SameMemory
    <3> QED BY <3>1, <3>2, <3>3 DEF EndRegion
  <2> HIDE DEF n, g2
  <2>4. IsPlace(new, n, h.brk)
    <3>1. new + n <= End /\ (new + n) % Page = 0 BY <1>3, <1>7, <2>2
    <3>2. n % 2 = 0
      <4>1. Page \in Nat \ {0} /\ Page % 2 = 0 /\ new + n \in Nat BY <1>3, <2>2, Constants
      <4> DEFINE e == new + n
      <4> HIDE DEF e
      <4>2. e = Page * (e \div Page) /\ e \div Page \in Nat BY <3>1, <4>1, Multiple DEF e
      <4>3. (e - 0 * Page) % Page = 0 /\ ((e \div Page) * Page) % 2 = 0
        BY <3>1, <4>1, <4>2, PagesLess DEF e
      <4>4. (e \div Page) * Page = e BY <4>1, <4>2
      <4>5. e % 2 = 0 BY <4>3, <4>4
      <4> QED BY <1>3, <2>2, <4>5 DEF e
    <3> QED BY <1>3, <2>2, <3>1, <3>2 DEF IsPlace, MINSIZE
  <2>5. Broken(g2, h, new + n) /\ g2.based BY <1>4, <2>1, <2>2 DEF Broken, Moved
  <2>6. Started(k, g2, new, m)
    <3>1. IsHeap(g2) /\ g2.mem = h.mem BY <2>1 DEF Moved
    <3> QED BY <3>1, StartedIs
  <2> HIDE DEF k
  <2>7. CASE h.top = InitialTop
    <3>1. Sound(k, U, z, F) BY <2>4, <2>5, <2>6, <2>7, FirstRegionGood
    <3> QED BY <1>1, <2>3, <2>7, <3>1
  <2>8. CASE h.top # InitialTop
    <3>1. Sound(Fence(k, h.top, Size(h, h.top)), U, z, F)
      BY <2>4, <2>5, <2>6, <2>8, NextRegionGood
    <3> QED BY <1>1, <2>3, <2>8, <3>1
  <2> QED BY <2>7, <2>8
<1> QED BY <1>6, <1>7

LEMMA AskedSizeIs ==
    ASSUME NEW h, NEW nb, Askable(nb), h.pad \in Pads
    PROVE  LET size == AskedSize(h, nb) IN
           /\ size \in Nat /\ size >= MINSIZE /\ size + Page <= Half
           /\ h.based => size % Page = 0
<1> DEFINE w == nb + h.pad + MINSIZE
<1>1. h.pad \in Nat /\ nb \in Nat /\ nb + h.pad + 2 * Page + MINSIZE <= Half
  BY PadBound DEF Askable
<1>2. w \in Nat /\ w >= MINSIZE /\ w + 2 * Page <= Half BY <1>1, Bounds DEF MINSIZE
<1> HIDE DEF w
<1>3. w + Page < Word /\ w % Word = w BY <1>2, Bounds, NoWrap
<1>4. CASE h.based
  <2>1. AskedSize(h, nb) = PageUp(w) BY <1>3, <1>4 DEF AskedSize, w
  <2>2. PageUp(w) \in Nat /\ PageUp(w) % Page = 0 /\ w <= PageUp(w) /\ PageUp(w) < w + Page
    BY <1>2, <1>3, PageUpIs
  <2> QED BY <1>2, <2>1, <2>2, Bounds DEF MINSIZE
<1>5. CASE ~h.based
  <2>1. AskedSize(h, nb) = w BY <1>3, <1>5 DEF AskedSize, w
  <2> QED BY <1>2, <1>5, <2>1, Bounds DEF MINSIZE
<1> QED BY <1>4, <1>5

LEMMA PagesMore ==
    ASSUME NEW a \in Nat, a % Page = 0, NEW b \in Nat, b % Page = 0
    PROVE  (a + b) % Page = 0 /\ b % 2 = 0
<1>1. Page \in Nat \ {0} /\ Page % 2 = 0 BY Constants
<1>2. a = Page * (a \div Page) /\ a \div Page \in Nat /\ b = Page * (b \div Page) /\ b \div Page \in Nat
  BY <1>1, Multiple
<1> DEFINE q == a \div Page
           r == b \div Page
<1> HIDE DEF q, r
<1>3. q \in Nat /\ r \in Nat /\ a = Page * q /\ b = Page * r BY <1>2 DEF q, r
<1>4. a + b = Page * (q + r) + 0 /\ q + r \in Nat BY <1>1, <1>3
<1>5. (a + b) % Page = 0
  <2>1. 0 \in 0 .. Page - 1 /\ a + b \in Int /\ q + r \in Int BY <1>1, <1>3
  <2> QED BY <1>1, <1>4, <2>1, Quotient
<1>6. b % 2 = 0
  <2>1. (r * Page) % 2 = 0
    <3>1. 0 % Page = 0 BY <1>1, NoWrap
    <3> QED BY <1>3, <3>1, PagesLess
  <2>2. b = r * Page BY <1>1, <1>3
  <2> QED BY <2>1, <2>2
<1> QED BY <1>5, <1>6

LEMMA ExtendTopGood ==
    ASSUME NEW h, NEW C, NEW S, NEW z, NEW idle, NEW F, Good(h, C, S, z, idle, F),
           NEW nb, Askable(nb)
    PROVE  Sound(malloc_extend_top(h, nb), C \ idle, z, F)
<1> DEFINE oldEnd == h.top + Size(h, h.top)
           size == AskedSize(h, nb)
           more == sbrk(h, size)
           U == C \ idle
<1>1. malloc_extend_top(h, nb) =
          IF more.got = Failure \/ (more.got < oldEnd /\ h.top # InitialTop) THEN more.heap
          ELSE IF more.got = oldEnd THEN SetHead(more.heap, h.top, size + Size(h, h.top), 1)
          ELSE NewRegion(more.heap, more.got, size) BY DEF malloc_extend_top, AskedSize
<1>2. /\ size \in Nat /\ size >= 4 /\ size + Page <= Half /\ size < Half
      /\ h.based => size % Page = 0
  <2>1. h.pad \in Pads BY DEF Good
  <2>2. /\ size \in Nat /\ size >= MINSIZE /\ size + Page <= Half
        /\ h.based => size % Page = 0 BY <2>1, AskedSizeIs
  <2> HIDE DEF size
  <2> QED BY <2>2, Bounds DEF MINSIZE
<1> HIDE DEF size
<1>3. h.brk \in Start .. End /\ h.mem \in [Start .. End - 1 -> Int] /\ IsHeap(h)
  BY GoodTop DEF Good
<1>4. IF h.brk + size <= End THEN more.got = h.brk /\ Moved(more.heap, h, h.mem, h.brk + size)
      ELSE more.got = Failure /\ more.heap = h BY <1>2, <1>3, SbrkUp
<1> HIDE DEF more
<1>5. CASE ~(h.brk + size <= End)
  <2>1. malloc_extend_top(h, nb) = h BY <1>1, <1>4, <1>5
  <2> QED BY <2>1, SoundItself
<1>6. CASE h.brk + size <= End
  <2>1. more.got = h.brk /\ Moved(more.heap, h, h.mem, h.brk + size) /\ more.got # Failure
    BY <1>3, <1>4, <1>6, Bounds DEF Failure
  <2>2. CASE h.brk = oldEnd
    <3>1. h.top # InitialTop BY <1>3, <2>2, GoodTop, Bounds DEF InitialTop
    <3>2. /\ h.top \in Start .. End /\ z[h.top] \in Nat /\ Size(h, h.top) = z[h.top]
          /\ z[h.top] >= MINSIZE /\ z[h.top] % 2 = 0 /\ (h.top + z[h.top]) % Page = 0
      BY <3>1, GoodTop
    <3> DEFINE n == z[h.top] + size
               k == SetHead(more.heap, h.top, n, 1)
    <3>3. malloc_extend_top(h, nb) = k
      <4>1. ~(more.got = Failure \/ (more.got < oldEnd /\ h.top # InitialTop)) /\ more.got = oldEnd
        BY <1>3, <2>1, <2>2, Bounds
      <4>2. size + Size(h, h.top) = n BY <1>2, <3>2
      <4> QED BY <1>1, <4>1, <4>2
    <3>4. h.based BY <3>1 DEF Good
    <3>5. size % Page = 0 BY <1>2, <3>4
    <3>6. h.top + z[h.top] \in Nat BY <3>2, Bounds
    <3>7. (h.top + z[h.top] + size) % Page = 0 /\ size % 2 = 0
      BY <1>2, <3>2, <3>5, <3>6, PagesMore
    <3>8. n \in Nat /\ n >= MINSIZE /\ n % 2 = 0 /\ h.top + n = h.top + z[h.top] + size
          /\ h.brk + size = h.top + n BY <1>2, <2>2, <3>2, <3>7, Bounds DEF MINSIZE
    <3>9. (h.top + n) % Page = 0 /\ h.top + n <= End BY <1>6, <3>7, <3>8
    <3> HIDE DEF n
    <3>10. Moved(k, h, [h.mem EXCEPT ![h.top + 1] = Header(n, 1)], h.top + n)
      <4>1. IsHeap(more.heap) BY <2>1 DEF Moved
      <4>2. Rewritten(k, more.heap, [more.heap.mem EXCEPT ![h.top + 1] = Header(n, 1)])
        BY <4>1, SetHeadIs
      <4> HIDE DEF k
      <4> QED BY <2>1, <3>8, <4>2 DEF Moved, Rewritten, Settings
    <3> HIDE DEF k
    <3>11. h.brk = h.top + z[h.top] BY <2>2, <3>2
    <3>12. Sound(k, U, z, F) BY <1>3, <3>1, <3>8, <3>9, <3>10, <3>11, TopResized
    <3> QED BY <3>3, <3>12
  <2>3. CASE h.brk # oldEnd
    <3>1. ~(h.brk < oldEnd /\ h.top # InitialTop) BY <1>3, GoodTop, Bounds
    <3>2. malloc_extend_top(h, nb) = NewRegion(more.heap, h.brk, size)
      BY <1>1, <2>1, <2>3, <3>1
    <3>3. Sound(NewRegion(more.heap, h.brk, size), U, z, F)
      BY <1>2, <1>6, <2>1, NewRegionGood
    <3> QED BY <3>2, <3>3
  <2> QED BY <2>2, <2>3
<1> QED BY <1>5, <1>6

LEMMA GivenSizes ==
    ASSUME NEW r, NEW U, NEW s, NEW F, NEW nb, Given(r, U, s, F, nb),
           NEW t, \A x \in U : s[x] = t[x]
    PROVE  Given(r, U, t, F, nb)
  BY DEF Given

LEMMA GotSizes ==
    ASSUME NEW r, NEW U, NEW s, NEW F, NEW nb, Got(r, U, s, F, nb),
           NEW t, \A x \in U : s[x] = t[x]
    PROVE  Got(r, U, t, F, nb)
<1>1. CASE Given(r, U, s, F, nb) BY <1>1, GivenSizes DEF Got
<1>2. CASE r.got = Null /\ Sound(r.heap, U, s, F) BY <1>2, SoundSizes DEF Got
<1> QED BY <1>1, <1>2 DEF Got

LEMMA TakeTopSound ==
    ASSUME NEW h, NEW U, NEW s, NEW F, Sound(h, U, s, F), NEW nb, Askable(nb)
    PROVE  Got(TakeTop(h, nb), U, s, F, nb)
<1>1. PICK C, S, z, fr : Good(h, C, S, z, fr, F) /\ C \ fr = U /\ \A x \in U : z[x] = s[x]
  BY DEF Sound
<1>2. nb \in Nat /\ nb >= MINSIZE /\ nb % 2 = 0 BY DEF Askable
<1>3. Got(TakeTop(h, nb), C \ fr, z, F, nb) BY <1>1, <1>2, TakeTopGood
<1> QED BY <1>1, <1>3, GotSizes

LEMMA FromTopGood ==
    ASSUME NEW h, NEW C, NEW S, NEW z, NEW idle, NEW F, Good(h, C, S, z, idle, F),
           NEW nb, Askable(nb)
    PROVE  Got(FromTop(h, nb), C \ idle, z, F, nb)
<1> DEFINE k == IF Size(h, h.top) - nb < MINSIZE THEN malloc_extend_top(h, nb) ELSE h
<1>1. Sound(k, C \ idle, z, F) BY ExtendTopGood, SoundItself
<1> HIDE DEF k
<1>2. Got(TakeTop(k, nb), C \ idle, z, F, nb) BY <1>1, TakeTopSound
<1> QED BY <1>2 DEF FromTop, k

LEMMA FromBinsOrTopGood ==
    ASSUME NEW r, NEW C, NEW S, NEW z, NEW idle, NEW F, Good(r.heap, C, S, z, idle, F),
           NEW nb, Askable(nb), r.heap.bins[1] = <<>>, r.victim = Null \/ Fits(r.victim, z, idle, nb)
    PROVE  Got(FromBinsOrTop(r, nb), C \ idle, z, F, nb)
<1>1. CASE r.victim = Null
  <2>1. FromBinsOrTop(r, nb) = FromTop(r.heap, nb) BY <1>1 DEF FromBinsOrTop
  <2> QED BY <2>1, FromTopGood
<1>2. CASE r.victim # Null
  <2>1. FromBinsOrTop(r, nb) = [heap |-> Carve(r.heap, r.victim, nb), got |-> r.victim]
    BY <1>2 DEF FromBinsOrTop
  <2>2. r.victim \in idle /\ z[r.victim] >= nb BY <1>2 DEF Fits
  <2>3. nb \in Nat /\ nb >= MINSIZE /\ nb % 2 = 0 BY DEF Askable
  <2>4. Given([heap |-> Carve(r.heap, r.victim, nb), got |-> r.victim], C \ idle, z, F, nb)
    BY <2>2, <2>3, CarveGood
  <2> QED BY <2>1, <2>4 DEF Got
<1> QED BY <1>1, <1>2

LEMMA FindGood ==
    ASSUME NEW h, NEW C, NEW S, NEW z, NEW idle, NEW F, Good(h, C, S, z, idle, F),
           NEW nb, Askable(nb)
    PROVE  Got(Find(h, nb), C \ idle, z, F, nb)
<1> DEFINE U == C \ idle
           exact == ExactFit(h, nb)
           last == h.bins[1]
<1>1. nb \in Nat /\ nb >= MINSIZE /\ nb % 2 = 0 BY DEF Askable
<1>2. CASE exact # Null
  <2> HIDE DEF exact
  <2>1. Fits(exact, z, idle, nb) BY <1>1, <1>2, ExactFitIs DEF exact
  <2>2. exact \in idle /\ z[exact] >= nb /\ idle \in SUBSET C /\ exact \in Pieces(C, S, h.top)
    BY <2>1, GoodParts DEF Fits, Pieces
  <2>3. Next_(h, exact) = exact + z[exact] BY <2>2, Readings
  <2> DEFINE k == MarkInUse(Unlink(h, exact), exact + z[exact])
  <2>4. Find(h, nb) = [heap |-> k, got |-> exact] BY <1>2, <2>3 DEF Find, exact
  <2>5. Good(k, C, S, z, idle \ {exact}, F) BY <2>2, TakenGood
  <2> HIDE DEF k
  <2>6. C \ (idle \ {exact}) = U \cup {exact} /\ exact \notin U BY <2>2
  <2>7. Sound(k, U \cup {exact}, z, F) BY <2>5, <2>6, SoundItself
  <2>8. Given([heap |-> k, got |-> exact], U, z, F, nb)
    BY <1>2, <2>2, <2>6, <2>7 DEF Given
  <2> QED BY <2>4, <2>8 DEF Got
<1>3. CASE exact = Null /\ last # <<>> /\ Size(h, last[1]) >= nb
  <2>1. PICK f \in idle : last = <<f>> BY <1>3 DEF Good, Binned
  <2>2. Find(h, nb) = [heap |-> Carve(h, f, nb), got |-> f] BY <1>3, <2>1 DEF Find
  <2>3. z[f] >= nb
    <3>1. f \in Pieces(C, S, h.top) BY GoodParts DEF Pieces
    <3>2. Size(h, f) = z[f] BY <3>1, Readings
    <3> QED BY <1>3, <2>1, <3>2
  <2>4. Given([heap |-> Carve(h, f, nb), got |-> f], U, z, F, nb)
    BY <1>1, <2>1, <2>3, CarveGood
  <2> QED BY <2>2, <2>4 DEF Got
<1>4. CASE exact = Null /\ ~(last # <<>> /\ Size(h, last[1]) >= nb)
  <2> DEFINE idx == ScanFrom(h, nb)
             k == RetireRemainder(h)
             r == ScanBins(k, nb, idx)
  <2>1. Find(h, nb) = FromBinsOrTop(r, nb) BY <1>4 DEF Find
  <2>2. Good(k, C, S, z, idle, F) /\ k.bins[1] = <<>> BY RetireGood
  <2>3. /\ idx \in Nat
        /\ \/ idx > bin_index(nb)
           \/ idx = bin_index(nb) /\ \E f \in idle : z[f] >= nb /\ bin_index(z[f]) = idx
    BY <1>1, ScanFromIs
  <2> HIDE DEF k, idx
  <2>4. /\ Good(r.heap, C, S, z, idle, F) /\ r.heap.bins[1] = <<>>
        /\ r.victim = Null \/ Fits(r.victim, z, idle, nb) BY <1>1, <2>2, <2>3, ScanGood
  <2> HIDE DEF r
  <2>5. Got(FromBinsOrTop(r, nb), U, z, F, nb) BY <2>4, FromBinsOrTopGood
  <2> QED BY <2>1, <2>5
<1> QED BY <1>2, <1>3, <1>4

LEMMA MallocGood ==
    ASSUME NEW h, NEW U, NEW s, NEW F, Sound(h, U, s, F), NEW bytes, Asking(bytes)
    PROVE  Got(malloc(h, bytes), U, s, F, request2size(bytes))
<1>1. PICK C, S, z, fr : Good(h, C, S, z, fr, F) /\ C \ fr = U /\ \A x \in U : z[x] = s[x]
  BY DEF Sound
<1> DEFINE nb == request2size(bytes)
<1>2. h.ready BY <1>1 DEF Good
<1>3. CASE bytes >= Half
  <2>1. malloc(h, bytes) = [heap |-> h, got |-> Null] BY <1>3 DEF malloc
  <2> QED BY <2>1 DEF Got
<1>4. CASE ~(bytes >= Half)
  <2>1. malloc(h, bytes) = Find(h, nb) BY <1>2, <1>4 DEF malloc
  <2>2. Askable(nb) BY <1>4, Bounds DEF Asking
  <2> HIDE DEF nb
  <2>3. Got(Find(h, nb), C \ fr, z, F, nb) BY <1>1, <2>2, FindGood
  <2>4. Got(Find(h, nb), U, s, F, nb) BY <1>1, <2>3, GotSizes
  <2> QED BY <2>1, <2>4 DEF nb
<1> QED BY <1>3, <1>4

LEMMA FreeSound ==
    ASSUME NEW h, NEW U, NEW s, NEW F, Sound(h, U, s, F), NEW p \in U
    PROVE  Sound(free(h, p), U \ {p}, s, F)
<1>1. PICK C, S, z, fr : Good(h, C, S, z, fr, F) /\ C \ fr = U /\ \A x \in U : z[x] = s[x]
  BY DEF Sound
<1>2. Sound(free(h, p), U \ {p}, z, F) BY <1>1, FreeGood
<1>3. \A x \in U \ {p} : z[x] = s[x] BY <1>1
<1> QED BY <1>2, <1>3, SoundSizes

LEMMA TrimSound ==
    ASSUME NEW h, NEW U, NEW s, NEW F, Sound(h, U, s, F), NEW pad \in Pads
    PROVE  Sound(malloc_trim(h, pad), U, s, F)
<1>1. PICK C, S, z, fr : Good(h, C, S, z, fr, F) /\ C \ fr = U /\ \A x \in U : z[x] = s[x]
  BY DEF Sound
<1>2. Sound(malloc_trim(h, pad), U, z, F) BY <1>1, TrimGood
<1> QED BY <1>1, <1>2, SoundSizes

-----------------------------------------------------------------------------
(* realloc *)

LEMMA TagsWritten ==
    ASSUME NEW C, NEW S, NEW z, NEW top, NEW brk, NEW heads, NEW F,
           Laid(C, S, z, top, brk, heads, F), NEW idle \in SUBSET C,
           NEW m, NEW L, NEW M, Tagged(m, C, S, z, top, idle, L, M),
           NEW m2, NEW N, HeadsWritten(m2, m, C, S, z, top, idle, N),
           L \cap Pieces(C, S, top) \subseteq N, M \cap Pieces(C, S, top) \subseteq N
    PROVE  AllTags(m2, C, S, z, top, idle)
<1> DEFINE P == Pieces(C, S, top)
<1>1. /\ P \subseteq Nat \ {0} /\ \A x \in P : z[x] \in Nat /\ x + 1 \in Start .. End - 1
      /\ \A c \in C : c + z[c] \in P
      /\ \A x, y \in P : x + 1 # y
      /\ \A s \in S : /\ s + z[s] + 1 \in Start .. End - 1
                      /\ \A x \in P : s + z[s] + 1 # x + 1 BY WordsApart
<1>2. TagWords(C, S, z, top, idle) \subseteq Start .. End - 1 BY TagWordsInside
<1>3. \A x \in P : /\ m2[x + 1] \div 2 = z[x]
                   /\ m2[x + 1] % 2 = Bit(z, idle, x)
  <2>1. TAKE x \in P
  <2>2. CASE x \in N
    <3>1. Bit(z, idle, x) \in {0, 1} /\ z[x] \in Nat BY <1>1 DEF Bit
    <3>2. m2[x + 1] = Header(z[x], Bit(z, idle, x)) BY <2>2 DEF HeadsWritten
    <3> QED BY <3>1, <3>2, HeaderParts
  <2>3. CASE x \notin N
    <3>1. x + 1 \in Start .. End - 1 /\ x \in Nat BY <1>1
    <3>2. \A y \in N : x + 1 # y + 1
      <4>1. \A y \in N : y \in Nat /\ y # x BY <1>1, <2>3 DEF HeadsWritten
      <4> QED BY <3>1, <4>1
    <3>3. m2[x + 1] = m[x + 1] BY <3>1, <3>2 DEF HeadsWritten
    <3>4. x \in P \ L /\ x \in P \ M BY <2>3
    <3> QED BY <3>3, <3>4 DEF Tagged
  <2> QED BY <2>2, <2>3
<1>4. \A f \in idle : m2[f + z[f]] = z[f]
  <2>1. TAKE f \in idle
  <2>2. f + z[f] \in P /\ f + z[f] \in TagWords(C, S, z, top, idle) BY <1>1 DEF TagWords
  <2>3. \A x \in N : f + z[f] # x + 1 BY <1>1, <2>2 DEF HeadsWritten
  <2>4. m2[f + z[f]] = m[f + z[f]] BY <1>2, <2>2, <2>3 DEF HeadsWritten
  <2> QED BY <2>4 DEF Tagged
<1>5. \A s \in S : m2[s + z[s] + 1] % 2 = 1
  <2>1. TAKE s \in S
  <2>2. \A x \in N : s + z[s] + 1 # x + 1 BY <1>1 DEF HeadsWritten
  <2>3. s + z[s] + 1 \in Start .. End - 1 BY <1>1
  <2>4. m2[s + z[s] + 1] = m[s + z[s] + 1] BY <2>2, <2>3 DEF HeadsWritten
  <2> QED BY <2>4 DEF Tagged
<1>6. m2 \in [Start .. End - 1 -> Int] BY DEF HeadsWritten
<1> QED BY <1>3, <1>4, <1>5, <1>6 DEF AllTags, Tagged

LEMMA GoodHeld ==
    ASSUME NEW h, NEW C, NEW S, NEW z, NEW idle, NEW F, Good(h, C, S, z, idle, F), NEW p \in C \ idle
    PROVE  Held(h, C, S, z, idle, F, p)
<1>1. TagsBut(h.mem, C, S, z, h.top, idle, p)
  <2>1. Tagged(h.mem, C, S, z, h.top, idle, {}, {}) BY DEF Good, Whole, AllTags
  <2>2. Tagged(h.mem, C, S, z, h.top, idle, {p}, {p + z[p]}) BY <2>1, MoreTagged
  <2> QED BY <2>2 DEF TagsBut
<1> QED BY <1>1 DEF Good, Held, Whole, Loose

LEMMA LooseFacts ==
    ASSUME NEW m, NEW C, NEW S, NEW z, NEW top, NEW brk, NEW heads, NEW F, NEW idle, NEW p,
           Loose(m, C, S, z, top, brk, heads, F, idle, p)
    PROVE  /\ p \in Nat /\ z[p] \in Nat /\ z[p] >= MINSIZE /\ z[p] % 2 = 0 /\ p % 2 = 0
           /\ p \in Pieces(C, S, top) /\ p \notin S /\ p # top /\ p # InitialTop
           /\ p + z[p] \in Pieces(C, S, top) /\ Bit(z, idle, p + z[p]) = 1
           /\ C \subseteq Nat /\ S \subseteq Nat
           /\ m \in [Start .. End - 1 -> Int] /\ p >= Start /\ p + z[p] + 1 <= End - 1
<1>1. Laid(C, S, z, top, brk, heads, F) /\ idle \in SUBSET C /\ p \in C \ idle
  BY DEF Loose
<1>2. /\ Pieces(C, S, top) \subseteq Nat \ {0} /\ \A c \in C : c + z[c] \in Pieces(C, S, top)
      /\ \A x \in Pieces(C, S, top) : z[x] \in Nat /\ x + 1 \in Start .. End - 1
      /\ \A x, y \in C : x + z[x] = y + z[y] => x = y BY <1>1, WordsApart
<1>3. p \in Pieces(C, S, top) /\ C \subseteq Nat /\ S \subseteq Nat /\ p # InitialTop
  BY <1>1, <1>2 DEF Pieces, InitialTop
<1>4. p \notin S /\ p # top /\ IsChunk(z, p) /\ p \in Start .. End BY <1>1, <1>3 DEF Laid
<1>5. Bit(z, idle, p + z[p]) = 1 BY <1>1, <1>2 DEF Bit
<1>6. m \in [Start .. End - 1 -> Int] BY DEF Loose, TagsBut, Tagged
<1>7. p >= Start /\ p + z[p] + 1 <= End - 1
  <2>1. p + z[p] + 1 \in Start .. End - 1 BY <1>1, <1>2
  <2> QED BY <1>4, <2>1, Bounds
<1>8. p \in Nat /\ z[p] \in Nat /\ p + z[p] \in Pieces(C, S, top) BY <1>1, <1>2, <1>3
<1> QED BY <1>3, <1>4, <1>5, <1>6, <1>7, <1>8 DEF IsChunk

LEMMA CutWhole ==
    ASSUME NEW m, NEW C, NEW S, NEW z, NEW top, NEW brk, NEW heads, NEW F, NEW idle, NEW p,
           Loose(m, C, S, z, top, brk, heads, F, idle, p), NEW nb, IsRest(z, p, nb),
           NEW m2, CutMem(m2, m, z, idle, p, nb)
    PROVE  /\ Whole(m2, C \cup {p + nb}, S, CarvedSizes(z, p, nb), top, brk, heads, F, idle)
           /\ p + nb \notin C
           /\ CarvedSizes(z, p, nb)[p] = nb /\ CarvedSizes(z, p, nb)[p + nb] = z[p] - nb
           /\ \A x \in C \ {p} : CarvedSizes(z, p, nb)[x] = z[x]
<1> DEFINE rest == p + nb
           z2 == CarvedSizes(z, p, nb)
           D == C \cup {rest}
           next == p + z[p]
           M0 == {next}
           L0 == {p}
           r == z[p] - nb
           N == {p, rest, next}
<1>1. /\ Laid(C, S, z, top, brk, heads, F) /\ idle \in SUBSET C /\ Merged(z, top, idle)
      /\ Tagged(m, C, S, z, top, idle, L0, M0) /\ p \in C \ idle /\ idle \in SUBSET D
  BY DEF Loose, TagsBut
<1>2. nb \in Nat /\ nb >= MINSIZE /\ nb % 2 = 0 /\ z[p] - nb >= MINSIZE BY DEF IsRest
<1>3. Laid(D, S, z2, top, brk, heads, F) /\ rest \notin Pieces(C, S, top)
  BY <1>1, <1>2, SplitLaid DEF CarvedSizes
<1>4. /\ p \in Nat /\ z[p] \in Nat /\ p \in Pieces(C, S, top) /\ p \notin S /\ p # top
      /\ next \in Pieces(C, S, top) /\ Bit(z, idle, next) = 1 /\ C \subseteq Nat /\ S \subseteq Nat
  BY LooseFacts
<1>5. z \in [Nat -> Nat] BY <1>1 DEF Laid
<1>6. z2[p] = nb /\ z2[rest] = z[p] - nb /\ \A x \in (C \cup S \cup TopAt(top)) \ {p} : z2[x] = z[x]
  <2>1. rest \in Nat /\ rest # p /\ z2 = [[z EXCEPT ![p] = nb] EXCEPT ![rest] = z[p] - nb]
    BY <1>2, <1>4 DEF MINSIZE, CarvedSizes
  <2>2. Pieces(C, S, top) \subseteq Nat BY <1>1, WordsApart
  <2>3. rest \notin C \cup S \cup TopAt(top) /\ C \cup S \cup TopAt(top) \subseteq Nat
    BY <1>3, <2>2 DEF Pieces
  <2> HIDE DEF z2, rest
  <2> QED BY <1>4, <1>5, <2>1, <2>3
<1>7. IsCut(C, S, z, top, idle, p, rest, nb, r, D, top, z2)
  <2>1. p \notin idle \cup S /\ rest \notin C \cup S BY <1>1, <1>3, <1>4 DEF Pieces
  <2>2. Pieces(D, S, top) \subseteq Pieces(C, S, top) \cup {rest} BY DEF Pieces
  <2> QED BY <2>1, <2>2 DEF IsCut, CarvedSizes
<1>8. rest \in Nat /\ rest # p /\ next # p /\ next # rest /\ r \in Nat
  BY <1>2, <1>4 DEF MINSIZE
<1>9. p \in Pieces(D, S, top) /\ rest \in Pieces(D, S, top) /\ next \in Pieces(D, S, top)
  BY <1>4 DEF Pieces
<1>10. z2[next] = z[next] BY <1>4, <1>6, <1>8 DEF Pieces
<1> HIDE DEF z2, D, rest, next, r, L0, M0
<1>11. Tagged(m, D, S, z2, top, idle, L0 \cup {p, rest}, M0 \cup {rest}) /\ SameBits(z2, z, idle)
  BY <1>1, <1>7, CutTagged
<1>12. /\ Bit(z2, idle, p) = Bit(z, idle, p) /\ Bit(z2, idle, next) = 1
       /\ Bit(z2, idle, rest) = 1
  <2>1. Bit(z, idle, rest) = 1
    <3>1. \A f \in idle : f + z[f] \in Pieces(C, S, top) BY <1>1, WordsApart
    <3> QED BY <1>3, <3>1 DEF Bit
  <2> QED BY <1>4, <1>11, <2>1 DEF SameBits
<1>13. HeadsWritten(m2, m, D, S, z2, top, idle, N)
  <2>1. /\ m2[p + 1] = Header(nb, Bit(z, idle, p)) /\ m2[rest + 1] = Header(z[p] - nb, 1)
        /\ m2[next + 1] = Header(z[next], 1) /\ m2 \in [Start .. End - 1 -> Int]
    BY DEF CutMem, rest, next
  <2>2. \A x \in N : m2[x + 1] = Header(z2[x], Bit(z2, idle, x))
    BY <1>6, <1>10, <1>12, <2>1
  <2>3. \A a \in Start .. End - 1 : (\A x \in N : a # x + 1) => m2[a] = m[a]
    BY DEF CutMem, rest, next
  <2> HIDE DEF N
  <2>4. N \subseteq Pieces(D, S, top) BY <1>9 DEF N
  <2> QED BY <2>1, <2>2, <2>3, <2>4 DEF HeadsWritten
<1>14. AllTags(m2, D, S, z2, top, idle)
  <2>1. L0 \cup {p, rest} \subseteq N /\ M0 \cup {rest} \subseteq N BY DEF L0, M0
  <2> HIDE DEF N
  <2>2. (L0 \cup {p, rest}) \cap Pieces(D, S, top) \subseteq N
        /\ (M0 \cup {rest}) \cap Pieces(D, S, top) \subseteq N BY <2>1
  <2> QED BY <1>1, <1>3, <1>11, <1>13, <2>2, TagsWritten
<1>15. Merged(z2, top, idle)
  <2>1. \A f \in idle : z2[f] = z[f] BY <1>1, <1>6
  <2> QED BY <1>1, <2>1 DEF Merged
<1>16. rest \notin C /\ \A x \in C \ {p} : z2[x] = z[x] BY <1>3, <1>6 DEF Pieces
<1> QED BY <1>1, <1>3, <1>6, <1>14, <1>15, <1>16 DEF Whole, D, rest, z2

LEMMA CutGood ==
    ASSUME NEW h, NEW C, NEW S, NEW z, NEW idle, NEW F, NEW p, Held(h, C, S, z, idle, F, p),
           NEW nb, IsRest(z, p, nb), NEW m2, CutMem(m2, h.mem, z, idle, p, nb),
           NEW k, Rewritten(k, h, m2)
    PROVE  Good(k, C \cup {p + nb}, S, CarvedSizes(z, p, nb), idle, F)
           /\ IsCarved(C, z, idle, p, nb)
<1> DEFINE heads == ToSet(h.regions)
           z2 == CarvedSizes(z, p, nb)
           D == C \cup {p + nb}
<1>1. Loose(h.mem, C, S, z, h.top, h.brk, heads, F, idle, p) /\ Binned(h.bins, h.marked, z, idle)
  BY DEF Held
<1>2. /\ Whole(m2, D, S, z2, h.top, h.brk, heads, F, idle)
      /\ p + nb \notin C
      /\ z2[p] = nb /\ z2[p + nb] = z[p] - nb
      /\ \A x \in C \ {p} : z2[x] = z[x]
  <2> HIDE DEF heads
  <2> QED BY <1>1, CutWhole
<1>3. p \in C \ idle /\ idle \in SUBSET C BY <1>1 DEF Loose
<1> HIDE DEF z2, D
<1>4. Binned(h.bins, h.marked, z2, idle)
  <2>1. \A f \in idle : z2[f] = z[f] BY <1>2, <1>3
  <2> QED BY <1>1, <2>1, BinnedSizes
<1>5. /\ IsHeap(k) /\ k.ready /\ k.trim \in Nat /\ k.pad \in Pads /\ IsBin(k.regions, Nat)
      /\ k.top # InitialTop => k.based BY DEF Rewritten, Settings, Held
<1>6. k.mem = m2 /\ k.top = h.top /\ k.brk = h.brk /\ k.regions = h.regions /\ k.bins = h.bins
      /\ k.marked = h.marked BY DEF Rewritten, Settings
<1>7. Good(k, D, S, z2, idle, F) BY <1>2, <1>4, <1>5, <1>6 DEF Good
<1> QED BY <1>2, <1>3, <1>7 DEF D, z2, IsCarved

LEMMA HeldReads ==
    ASSUME NEW h, NEW C, NEW S, NEW z, NEW idle, NEW F, NEW p, Held(h, C, S, z, idle, F, p)
    PROVE  PrevInUse(h, p) = Bit(z, idle, p) /\ Size(h, p + z[p]) = z[p + z[p]]
<1>1. Loose(h.mem, C, S, z, h.top, h.brk, ToSet(h.regions), F, idle, p) BY DEF Held
<1>2. p \in Nat /\ z[p] \in Nat /\ z[p] >= MINSIZE /\ p \in Pieces(C, S, h.top)
      /\ p + z[p] \in Pieces(C, S, h.top) BY <1>1, LooseFacts
<1>3. p + z[p] # p /\ p + z[p] # InitialTop BY <1>2 DEF MINSIZE, InitialTop
<1>4. Tagged(h.mem, C, S, z, h.top, idle, {p}, {p + z[p]}) BY <1>1 DEF Loose, TagsBut
<1>5. h.mem[p + 1] % 2 = Bit(z, idle, p) BY <1>2, <1>3, <1>4 DEF Tagged
<1>6. h.mem[p + z[p] + 1] \div 2 = z[p + z[p]] BY <1>2, <1>3, <1>4 DEF Tagged
<1> QED BY <1>3, <1>5, <1>6 DEF PrevInUse, Size

LEMMA RewrittenAgain ==
    ASSUME NEW l, NEW k, NEW h, NEW m, NEW m2, Rewritten(k, h, m), Rewritten(l, k, m2)
    PROVE  Rewritten(l, h, m2)
  BY SettingsTrans DEF Rewritten

(* The words of the headers of a chunk that is cut are in the memory. *)
LEMMA CutWords ==
    ASSUME NEW h, NEW C, NEW S, NEW z, NEW idle, NEW F, NEW p, Held(h, C, S, z, idle, F, p),
           NEW nb, IsRest(z, p, nb)
    PROVE  /\ p \in Nat /\ nb \in Nat /\ z[p] \in Nat /\ nb >= 4 /\ z[p] - nb >= 4
           /\ p + 1 \in Start .. End - 1 /\ p + nb + 1 \in Start .. End - 1
           /\ p + z[p] + 1 \in Start .. End - 1 /\ p + 1 # p + nb + 1 /\ p + 1 # p + z[p] + 1
           /\ p + nb + 1 # p + z[p] + 1 /\ h.mem \in [Start .. End - 1 -> Int]
           /\ z[p + z[p]] \in Nat /\ Bit(z, idle, p) \in {0, 1} /\ z[p] - nb \in Nat
<1>1. Loose(h.mem, C, S, z, h.top, h.brk, ToSet(h.regions), F, idle, p) BY DEF Held
<1>2. /\ p \in Nat /\ z[p] \in Nat /\ z[p] >= MINSIZE /\ p + z[p] \in Pieces(C, S, h.top)
      /\ h.mem \in [Start .. End - 1 -> Int] /\ p >= Start /\ p + z[p] + 1 <= End - 1
  BY <1>1, LooseFacts
<1>3. nb \in Nat /\ nb >= 4 /\ z[p] - nb >= 4 BY DEF IsRest, MINSIZE
<1>4. Start \in Nat /\ End \in Nat BY Bounds
<1>5. p + 1 \in Start .. End - 1 /\ p + nb + 1 \in Start .. End - 1 /\ p + z[p] + 1 \in Start .. End - 1
  BY <1>2, <1>3, <1>4
<1>6. z[p + z[p]] \in Nat
  <2>1. Laid(C, S, z, h.top, h.brk, ToSet(h.regions), F) BY <1>1 DEF Loose
  <2> QED BY <1>2, <2>1, WordsApart
<1>7. Bit(z, idle, p) \in {0, 1} BY DEF Bit
<1>8. p + 1 # p + nb + 1 /\ p + 1 # p + z[p] + 1 /\ p + nb + 1 # p + z[p] + 1 /\ z[p] - nb \in Nat
  BY <1>2, <1>3
<1> QED BY <1>2, <1>3, <1>5, <1>6, <1>7, <1>8

LEMMA HeaderInt ==
    ASSUME NEW n \in Nat, NEW b \in {0, 1}
    PROVE  Header(n, b) \in Int
  BY HeaderParts

LEMMA SplitCuts ==
    ASSUME NEW h, NEW C, NEW S, NEW z, NEW idle, NEW F, NEW p, Held(h, C, S, z, idle, F, p),
           NEW nb, IsRest(z, p, nb)
    PROVE  LET k == MarkInUse(SetHead(SetHeadSize(h, p, nb), p + nb, z[p] - nb, 1), p + z[p])
           IN CutMem(k.mem, h.mem, z, idle, p, nb) /\ Rewritten(k, h, k.mem)
<1> DEFINE rest == p + nb
           next == p + z[p]
           b == PrevInUse(h, p)
           m1 == [h.mem EXCEPT ![p + 1] = Header(nb, b)]
           m2 == [m1 EXCEPT ![rest + 1] = Header(z[p] - nb, 1)]
           h1 == SetHead(h, p, nb, b)
           h2 == SetHead(h1, rest, z[p] - nb, 1)
           n == Size(h2, next)
           h3 == SetHead(h2, next, n, 1)
           m3 == [m2 EXCEPT ![next + 1] = Header(n, 1)]
<1>1. b = Bit(z, idle, p) /\ Size(h, next) = z[next] BY HeldReads
<1>2. /\ p \in Nat /\ nb \in Nat /\ z[p] \in Nat /\ nb >= 4 /\ z[p] - nb >= 4
      /\ p + 1 \in Start .. End - 1 /\ rest + 1 \in Start .. End - 1
      /\ next + 1 \in Start .. End - 1 /\ p + 1 # rest + 1 /\ p + 1 # next + 1
      /\ rest + 1 # next + 1 /\ h.mem \in [Start .. End - 1 -> Int]
      /\ z[next] \in Nat /\ Bit(z, idle, p) \in {0, 1} /\ z[p] - nb \in Nat BY CutWords
<1>3. IsHeap(h) BY DEF Held
<1>4. Rewritten(h1, h, m1) BY <1>3, SetHeadIs
<1>5. IsHeap(h1) /\ h1.mem = m1 BY <1>4 DEF Rewritten, Settings
<1> HIDE DEF h1, b
<1>6. Rewritten(h2, h1, m2) BY <1>5, SetHeadIs
<1>7. IsHeap(h2) /\ h2.mem = m2 BY <1>6 DEF Rewritten, Settings
<1>8. n = z[next]
  <2>1. h2.mem[next + 1] = h.mem[next + 1] BY <1>2, <1>7
  <2> QED BY <1>1, <2>1 DEF Size
<1> HIDE DEF h2, n
<1>9. Rewritten(h3, h2, m3) BY <1>7, SetHeadIs
<1> HIDE DEF h3
<1>10. Rewritten(h3, h, m3) BY <1>4, <1>6, <1>9, RewrittenAgain
<1>11. Header(nb, b) \in Int /\ Header(z[p] - nb, 1) \in Int /\ Header(n, 1) \in Int
  BY <1>1, <1>2, <1>8, HeaderInt
<1>12. m1 \in [Start .. End - 1 -> Int] /\ m2 \in [Start .. End - 1 -> Int]
       /\ m3 \in [Start .. End - 1 -> Int] BY <1>2, <1>11
<1> HIDE DEF rest, next
<1>13. m3[p + 1] = Header(nb, b) /\ m3[rest + 1] = Header(z[p] - nb, 1) /\ m3[next + 1] = Header(n, 1)
       /\ \A a \in Start .. End - 1 : a \notin {p + 1, rest + 1, next + 1} => m3[a] = h.mem[a]
  BY <1>2, <1>12
<1> HIDE DEF m3
<1>14. CutMem(m3, h.mem, z, idle, p, nb)
  BY <1>1, <1>8, <1>12, <1>13 DEF CutMem, rest, next
<1>15. h3.mem = m3 BY <1>10 DEF Rewritten
<1>16. h3 = MarkInUse(SetHead(SetHeadSize(h, p, nb), p + nb, z[p] - nb, 1), p + z[p])
  BY DEF h3, h2, h1, n, b, MarkInUse, SetHeadSize, rest, next
<1> QED BY <1>10, <1>14, <1>15, <1>16

(* A chunk whose size and the bit after it are written *)
LEMMA TidyGood ==
    ASSUME NEW h, NEW C, NEW S, NEW z, NEW idle, NEW F, NEW p, Held(h, C, S, z, idle, F, p)
    PROVE  Good(MarkInUse(SetHeadSize(h, p, z[p]), p + z[p]), C, S, z, idle, F)
<1> DEFINE next == p + z[p]
           b == PrevInUse(h, p)
           m1 == [h.mem EXCEPT ![p + 1] = Header(z[p], b)]
           h1 == SetHead(h, p, z[p], b)
           n == Size(h1, next)
           h2 == SetHead(h1, next, n, 1)
           m2 == [m1 EXCEPT ![next + 1] = Header(n, 1)]
           N == {p, next}
           heads == ToSet(h.regions)
<1>1. b = Bit(z, idle, p) /\ Size(h, next) = z[next] BY HeldReads
<1>2. /\ Loose(h.mem, C, S, z, h.top, h.brk, heads, F, idle, p) /\ IsHeap(h)
      /\ Binned(h.bins, h.marked, z, idle) BY DEF Held
<1>3. /\ p \in Nat /\ z[p] \in Nat /\ z[p] >= MINSIZE
      /\ p \in Pieces(C, S, h.top) /\ next \in Pieces(C, S, h.top) /\ Bit(z, idle, next) = 1
      /\ h.mem \in [Start .. End - 1 -> Int] BY <1>2, LooseFacts
<1>4. /\ Laid(C, S, z, h.top, h.brk, heads, F) /\ idle \in SUBSET C /\ Merged(z, h.top, idle)
      /\ Tagged(h.mem, C, S, z, h.top, idle, {p}, {next}) BY <1>2 DEF Loose, TagsBut
<1>5. /\ p + 1 \in Start .. End - 1 /\ next + 1 \in Start .. End - 1 /\ z[next] \in Nat
  BY <1>3, <1>4, WordsApart
<1>6. p + 1 # next + 1 /\ p # next BY <1>3 DEF MINSIZE
<1>7. Rewritten(h1, h, m1) BY <1>2, SetHeadIs
<1>8. IsHeap(h1) /\ h1.mem = m1 BY <1>7 DEF Rewritten, Settings
<1>9. n = z[next]
  <2>1. m1[next + 1] = h.mem[next + 1] BY <1>3, <1>5, <1>6
  <2> HIDE DEF h1, m1
  <2> QED BY <1>1, <1>8, <2>1 DEF Size
<1> HIDE DEF h1, b, n
<1>10. Rewritten(h2, h1, m2) BY <1>8, SetHeadIs
<1> HIDE DEF h2
<1>11. Rewritten(h2, h, m2) BY <1>7, <1>10, RewrittenAgain
<1>12. Header(z[p], b) \in Int /\ Header(n, 1) \in Int
  <2>1. Bit(z, idle, p) \in {0, 1} BY DEF Bit
  <2> QED BY <1>1, <1>3, <1>5, <1>9, <2>1, HeaderInt
<1>13. m2 \in [Start .. End - 1 -> Int] /\ m2[p + 1] = Header(z[p], b) /\ m2[next + 1] = Header(n, 1)
       /\ \A a \in Start .. End - 1 : a # p + 1 /\ a # next + 1 => m2[a] = h.mem[a]
  <2> HIDE DEF next
  <2> QED BY <1>3, <1>5, <1>6, <1>12
<1> HIDE DEF m2
<1>14. HeadsWritten(m2, h.mem, C, S, z, h.top, idle, N)
  <2>1. \A x \in N : m2[x + 1] = Header(z[x], Bit(z, idle, x)) BY <1>1, <1>3, <1>9, <1>13
  <2>2. N \subseteq Pieces(C, S, h.top) BY <1>3
  <2>3. \A a \in Start .. End - 1 : (\A x \in N : a # x + 1) => m2[a] = h.mem[a] BY <1>13
  <2> QED BY <1>13, <2>1, <2>2, <2>3 DEF HeadsWritten
<1>15. AllTags(m2, C, S, z, h.top, idle)
  <2>1. {p} \cap Pieces(C, S, h.top) \subseteq N /\ {next} \cap Pieces(C, S, h.top) \subseteq N
    OBVIOUS
  <2> HIDE DEF N, heads, next
  <2> QED BY <1>4, <1>14, <2>1, TagsWritten
<1>16. Whole(h2.mem, C, S, z, h2.top, h2.brk, ToSet(h2.regions), F, idle)
  BY <1>4, <1>11, <1>15 DEF Whole, Rewritten, Settings
<1>17. Good(h2, C, S, z, idle, F)
  BY <1>2, <1>11, <1>16 DEF Good, Held, Rewritten, Settings
<1> QED BY <1>17 DEF h2, h1, n, b, MarkInUse, SetHeadSize, next

LEMMA SplitGood ==
    ASSUME NEW h, NEW U, NEW s, NEW F, NEW p, NEW n, Holding(h, U, s, F, p, n),
           NEW nb \in Nat, nb >= MINSIZE, nb % 2 = 0, nb <= n
    PROVE  Given([heap |-> Split(h, p, n, nb), got |-> p], U \ {p}, s, F, nb)
<1>1. PICK C, S, z, fr : /\ Held(h, C, S, z, fr, F, p)
                         /\ C \ fr = U /\ z[p] = n /\ \A x \in U \ {p} : z[x] = s[x]
  BY DEF Holding
<1>2. p \in U /\ p # Null /\ n \in Nat
  <2>1. Loose(h.mem, C, S, z, h.top, h.brk, ToSet(h.regions), F, fr, p) BY <1>1 DEF Held
  <2>2. p # InitialTop /\ z[p] \in Nat BY <2>1, LooseFacts
  <2>3. p \in C \ fr BY <2>1 DEF Loose
  <2> QED BY <1>1, <2>2, <2>3 DEF Null, InitialTop
<1>3. CASE n - nb >= MINSIZE
  <2> DEFINE k == MarkInUse(SetHead(SetHeadSize(h, p, nb), p + nb, n - nb, 1), p + n)
             z2 == CarvedSizes(z, p, nb)
             D == C \cup {p + nb}
  <2>1. Split(h, p, n, nb) = free(k, p + nb) BY <1>3 DEF Split
  <2>2. IsRest(z, p, nb) BY <1>1, <1>3 DEF IsRest
  <2>3. CutMem(k.mem, h.mem, z, fr, p, nb) /\ Rewritten(k, h, k.mem)
    BY <1>1, <2>2, SplitCuts
  <2> HIDE DEF k
  <2>4. /\ Good(k, D, S, z2, fr, F)
        /\ p + nb \notin C /\ p \in C \ fr /\ fr \in SUBSET C /\ z2[p] = nb
        /\ \A x \in C \ {p} : z2[x] = z[x]
    <3>1. Good(k, C \cup {p + nb}, S, CarvedSizes(z, p, nb), fr, F) /\ IsCarved(C, z, fr, p, nb)
      BY <1>1, <2>2, <2>3, CutGood
    <3> QED BY <3>1 DEF IsCarved
  <2> HIDE DEF z2
  <2>5. p + nb \in D \ fr /\ (D \ fr) \ {p + nb} = U BY <1>1, <2>4
  <2>6. Sound(free(k, p + nb), (D \ fr) \ {p + nb}, z2, F) BY <2>4, <2>5, FreeGood
  <2>7. (U \ {p}) \cup {p} = U BY <1>2
  <2>8. Sound(free(k, p + nb), (U \ {p}) \cup {p}, z2, F) BY <2>5, <2>6, <2>7
  <2>9. \A x \in U \ {p} : z2[x] = s[x] BY <1>1, <2>4
  <2> QED BY <1>2, <2>1, <2>4, <2>8, <2>9 DEF Given
<1>4. CASE ~(n - nb >= MINSIZE)
  <2> DEFINE k == MarkInUse(SetHeadSize(h, p, n), p + n)
  <2>1. Split(h, p, n, nb) = k BY <1>4 DEF Split
  <2>2. Good(k, C, S, z, fr, F) BY <1>1, TidyGood
  <2> HIDE DEF k
  <2>3. Sound(k, (U \ {p}) \cup {p}, z, F)
    <3>1. (U \ {p}) \cup {p} = C \ fr BY <1>1, <1>2
    <3>2. Sound(k, C \ fr, z, F) BY <2>2, SoundItself
    <3> QED BY <3>1, <3>2
  <2> QED BY <1>1, <1>2, <2>1, <2>3 DEF Given
<1> QED BY <1>3, <1>4

(* A chunk in use before the top, together with the top *)
LEMMA IntoTopWhole ==
    ASSUME NEW m, NEW C, NEW S, NEW z, NEW top, NEW brk, NEW heads, NEW F, NEW idle, NEW p,
           Loose(m, C, S, z, top, brk, heads, F, idle, p),
           NEW nb, NEW m2, TopMoved(m2, m, z, top, idle, p, nb)
    PROVE  IsTopped(m2, C, S, z, brk, heads, F, idle, p, nb)
<1> DEFINE n == z[p] + z[top]
           z1 == [z EXCEPT ![p] = n]
           B == C \ {p}
           q == p + nb
           r == n - nb
           z2 == [z1 EXCEPT ![p] = nb, ![q] = r]
           N == {p, q}
<1>0. /\ p + z[p] = top /\ nb \in Nat /\ nb >= MINSIZE /\ nb % 2 = 0
      /\ (z[p] + z[top]) - nb >= MINSIZE BY DEF TopMoved
<1>1. /\ Laid(C, S, z, top, brk, heads, F) /\ idle \in SUBSET C /\ Merged(z, top, idle)
      /\ Tagged(m, C, S, z, top, idle, {p}, {top}) /\ p \in C \ idle
  BY <1>0 DEF Loose, TagsBut
<1>2. /\ p \in Nat /\ z[p] \in Nat /\ z[p] >= MINSIZE /\ p \notin S /\ p # top /\ p # InitialTop
      /\ top \in Pieces(C, S, top) /\ C \subseteq Nat /\ S \subseteq Nat
  BY <1>0, LooseFacts
<1>3. top # InitialTop /\ z \in [Nat -> Nat] /\ top \in Nat /\ z[top] \in Nat
  <2>1. top \in Nat /\ z \in [Nat -> Nat] BY <1>1 DEF Laid
  <2>2. top # InitialTop
    <3>1. top = p + z[p] BY <1>0
    <3>2. \A a, b \in Nat : b >= 4 => a + b # 0 OBVIOUS
    <3> QED BY <1>2, <3>1, <3>2 DEF MINSIZE, InitialTop
  <2> QED BY <2>1, <2>2
<1>4. Laid(B, S, z1, p, brk, heads, F) BY <1>0, <1>1, <1>3, JoinTopLaid
<1>5. n \in Nat /\ z1[p] = n /\ q \in Nat /\ q # p /\ r \in Nat /\ nb \in Nat
  <2>1. n \in Nat BY <1>2, <1>3
  <2> HIDE DEF n
  <2>2. z1[p] = n BY <1>2, <1>3
  <2>3. n - nb >= 4 /\ nb \in Nat /\ nb >= 4 BY <1>0 DEF MINSIZE, n
  <2> QED BY <1>2, <2>1, <2>2, <2>3
<1>6. /\ Laid(B \cup {p}, S, [z1 EXCEPT ![p] = nb, ![p + nb] = z1[p] - nb], p + nb, brk, heads, F)
      /\ p + nb \notin Pieces(B, S, p)
  <2>1. nb \in Nat /\ nb >= MINSIZE /\ nb % 2 = 0 /\ z1[p] - nb >= MINSIZE BY <1>0, <1>5
  <2> HIDE DEF z1, B, n
  <2> QED BY <1>2, <1>4, <2>1, CutTopLaid
<1>7. B \cup {p} = C /\ idle \in SUBSET B /\ idle \in SUBSET C BY <1>1
<1>8. Laid(C, S, z2, q, brk, heads, F) /\ q \notin Pieces(B, S, p) BY <1>5, <1>6, <1>7
<1>9. z2[p] = nb /\ z2[q] = r /\ \A x \in Nat : x # p /\ x # q => z2[x] = z[x]
  BY <1>2, <1>3, <1>5
<1>10. q \notin B \cup S BY <1>8 DEF Pieces
<1>11. Tagged(m, B, S, z1, p, idle, {p} \cup {p}, {top}) BY <1>1, JoinTopTagged
<1>12. top \notin Pieces(B, S, p) BY <1>1, <1>2 DEF Laid, Pieces, TopAt
<1>13. Tagged(m, B, S, z1, p, idle, {p}, {}) BY <1>11, <1>12, MoreTagged
<1>14. IsCut(B, S, z1, p, idle, p, q, nb, r, C, q, z2)
  <2>1. Pieces(C, S, q) \subseteq Pieces(B, S, p) \cup {q} BY <1>2 DEF Pieces, TopAt
  <2>2. p \notin idle \cup S BY <1>1, <1>2
  <2> QED BY <1>10, <2>1, <2>2 DEF IsCut
<1> HIDE DEF z2, z1, B, q, r, n
<1> DEFINE L0 == {p}
           M0 == {}
<1>15. Tagged(m, C, S, z2, q, idle, L0 \cup {p, q}, M0 \cup {q}) /\ SameBits(z2, z1, idle)
  <2> HIDE DEF L0, M0
  <2>1. Tagged(m, B, S, z1, p, idle, L0, M0) BY <1>13 DEF L0, M0
  <2> QED BY <1>4, <1>7, <1>14, <2>1, CutTagged
<1>16. \A f \in idle : z1[f] = z[f] /\ z2[f] = z[f] /\ f \in Nat
  <2>1. \A f \in idle : f \in Nat /\ f # p /\ f # q BY <1>1, <1>2, <1>7, <1>10
  <2>2. \A f \in idle : z1[f] = z[f] BY <1>3, <2>1 DEF z1
  <2> QED BY <1>9, <2>1, <2>2
<1>17. Bit(z2, idle, p) = Bit(z, idle, p) /\ Bit(z2, idle, q) = 1 /\ Merged(z2, q, idle)
  <2>1. \A f \in idle : f + z[f] \in Pieces(C, S, top) /\ f + z[f] \notin idle /\ f + z[f] # top
    BY <1>1, WordsApart DEF Merged
  <2>2. \A f \in idle : f + z[f] # q
    <3>1. \A f \in idle : f + z[f] \in C \cup S BY <2>1 DEF Pieces, TopAt
    <3>2. q # p BY <1>5
    <3> QED BY <1>7, <1>10, <3>1, <3>2 DEF B
  <2>3. Bit(z2, idle, p) = Bit(z, idle, p) BY <1>16 DEF Bit
  <2>4. Bit(z2, idle, q) = 1 BY <1>16, <2>2 DEF Bit
  <2> QED BY <1>16, <2>1, <2>2, <2>3, <2>4 DEF Merged
<1>18. HeadsWritten(m2, m, C, S, z2, q, idle, N)
  <2>1. p \in Pieces(C, S, q) /\ q \in Pieces(C, S, q)
    <3>1. q # InitialTop BY <1>2, <1>5 DEF q, InitialTop
    <3> QED BY <1>1, <3>1 DEF Pieces, TopAt
  <2>2. m2[p + 1] = Header(nb, Bit(z, idle, p)) /\ m2[q + 1] = Header(r, 1)
    BY DEF q, r, n, TopMoved
  <2>3. \A x \in N : m2[x + 1] = Header(z2[x], Bit(z2, idle, x)) BY <1>9, <1>17, <2>2
  <2>4. \A a \in Start .. End - 1 : (\A x \in N : a # x + 1) => m2[a] = m[a]
    BY DEF q, TopMoved
  <2>5. m2 \in [Start .. End - 1 -> Int] BY DEF TopMoved
  <2> QED BY <2>1, <2>3, <2>4, <2>5 DEF HeadsWritten
<1>19. AllTags(m2, C, S, z2, q, idle)
  <2>1. L0 \cup {p, q} \subseteq N /\ M0 \cup {q} \subseteq N OBVIOUS
  <2> HIDE DEF N, L0, M0
  <2>2. (L0 \cup {p, q}) \cap Pieces(C, S, q) \subseteq N
        /\ (M0 \cup {q}) \cap Pieces(C, S, q) \subseteq N BY <2>1
  <2> QED BY <1>7, <1>8, <1>15, <1>18, <2>2, TagsWritten
<1>20. Whole(m2, C, S, z2, q, brk, heads, F, idle) BY <1>7, <1>8, <1>17, <1>19 DEF Whole
<1>21. SizesKept(z2, z, C \ {p})
  <2>1. \A x \in C \ {p} : x \in Nat /\ x # p /\ x # q BY <1>2, <1>10 DEF B
  <2> QED BY <1>9, <2>1 DEF SizesKept
<1> QED BY <1>9, <1>20, <1>21 DEF q, IsTopped

LEMMA IntoTopGood ==
    ASSUME NEW h, NEW U, NEW s, NEW F, NEW p, NEW n, Holding(h, U, s, F, p, n), p + n = h.top,
           NEW nb \in Nat, nb >= MINSIZE, nb % 2 = 0, n + Size(h, h.top) >= nb + MINSIZE
    PROVE  Given([heap |-> IntoTop(h, p, nb), got |-> p], U \ {p}, s, F, nb)
<1>1. PICK C, S, z, fr : /\ Held(h, C, S, z, fr, F, p)
                         /\ C \ fr = U /\ z[p] = n /\ \A x \in U \ {p} : z[x] = s[x]
  BY DEF Holding
<1> DEFINE top == h.top
           end == top + Size(h, top)
           q == p + nb
           b == PrevInUse(h, p)
           m1 == [h.mem EXCEPT ![p + 1] = Header(nb, b)]
           r == end - q
           m2 == [m1 EXCEPT ![q + 1] = Header(r, 1)]
           h1 == SetHead(h, p, nb, b)
           h2 == SetHead(h1, q, r, 1)
           k == [h2 EXCEPT !.top = q]
           heads == ToSet(h.regions)
<1>2. IntoTop(h, p, nb) = k BY DEF IntoTop, Next_, SetHeadSize
<1>3. /\ Loose(h.mem, C, S, z, top, h.brk, heads, F, fr, p) /\ IsHeap(h)
      /\ Binned(h.bins, h.marked, z, fr) /\ p + z[p] = top BY <1>1 DEF Held
<1>4. b = Bit(z, fr, p) /\ Size(h, top) = z[top] BY <1>1, <1>3, HeldReads
<1>5. /\ p \in Nat /\ n \in Nat /\ p \in Pieces(C, S, top) /\ top \in Pieces(C, S, top)
      /\ h.mem \in [Start .. End - 1 -> Int] /\ p >= Start /\ top + 1 <= End - 1 /\ p # InitialTop
  <2> HIDE DEF top, heads
  <2> QED BY <1>1, <1>3, LooseFacts
<1>6. Laid(C, S, z, top, h.brk, heads, F) /\ fr \in SUBSET C /\ p \in C \ fr
  BY <1>3 DEF Loose
<1>7. z[top] \in Nat /\ top + z[top] <= End /\ top \in Nat
  <2>1. z[top] \in Nat BY <1>5, <1>6, WordsApart
  <2>2. Beyond(S, z, top) = top + z[top] /\ Beyond(S, z, top) <= h.brk /\ h.brk \in Start .. End
        /\ top \in Nat BY <1>5, <1>6 DEF Laid, Beyond
  <2> QED BY <2>1, <2>2, Bounds
<1>8. r = (z[p] + z[top]) - nb /\ r \in Nat /\ r >= 4 /\ nb >= 4
  <2>1. \A a, c, d, e \in Nat : a + c >= d + 4 =>
            ((e + a) + c) - (e + d) = (a + c) - d /\ (a + c) - d \in Nat /\ (a + c) - d >= 4
    OBVIOUS
  <2>2. n + z[top] >= nb + 4 /\ nb >= 4 BY <1>4 DEF MINSIZE
  <2>3. end = (p + n) + z[top] BY <1>4
  <2> DEFINE t == z[top]
  <2> HIDE DEF t
  <2>4. t \in Nat /\ n + t >= nb + 4 /\ end = (p + n) + t BY <1>7, <2>2, <2>3 DEF t
  <2> HIDE DEF end
  <2>5. end - (p + nb) = (n + t) - nb /\ (n + t) - nb \in Nat /\ (n + t) - nb >= 4
    BY <1>5, <2>1, <2>4
  <2>6. r = (n + t) - nb BY <2>5
  <2> HIDE DEF r
  <2> QED BY <1>1, <2>2, <2>5, <2>6 DEF t
<1>9. p + 1 \in Start .. End - 1 /\ q + 1 \in Start .. End - 1 /\ p + 1 # q + 1
  <2>1. q + 4 <= End
    <3>1. end <= End /\ end \in Nat /\ r = end - q /\ q \in Nat BY <1>4, <1>5, <1>7
    <3> HIDE DEF end, q, r
    <3> QED BY <1>8, <3>1, Bounds
  <2> QED BY <1>5, <1>8, <2>1, Bounds
<1>10. Rewritten(h1, h, m1) BY <1>3, SetHeadIs
<1> HIDE DEF r, q, b
<1>11. IsHeap(h1) /\ h1.mem = m1 BY <1>10 DEF Rewritten, Settings
<1> HIDE DEF h1
<1>12. Rewritten(h2, h1, m2) BY <1>11, SetHeadIs
<1> HIDE DEF h2
<1>13. Rewritten(h2, h, m2) /\ IsHeap(h2)
  BY <1>10, <1>12, RewrittenAgain DEF Rewritten, Settings
<1>14. Settings(k, h2) /\ k.top = q /\ k.bins = h2.bins /\ k.marked = h2.marked /\ k.mem = h2.mem
  BY <1>13, TopIs
<1> HIDE DEF k
<1>15. Header(nb, b) \in Int /\ Header(r, 1) \in Int
  <2>1. Bit(z, fr, p) \in {0, 1} BY DEF Bit
  <2> QED BY <1>4, <1>8, <2>1, HeaderInt
<1>16. m2 \in [Start .. End - 1 -> Int] /\ m2[p + 1] = Header(nb, b) /\ m2[q + 1] = Header(r, 1)
       /\ \A a \in Start .. End - 1 : a # p + 1 /\ a # q + 1 => m2[a] = h.mem[a]
  BY <1>5, <1>9, <1>15
<1> HIDE DEF m2, heads, top
<1>17. TopMoved(m2, h.mem, z, top, fr, p, nb)
  BY <1>1, <1>3, <1>4, <1>8, <1>16 DEF TopMoved, q, MINSIZE
<1>18. PICK z2 : /\ Whole(m2, C, S, z2, p + nb, h.brk, heads, F, fr)
                 /\ z2[p] = nb /\ SizesKept(z2, z, C \ {p})
  <2>1. IsTopped(m2, C, S, z, h.brk, heads, F, fr, p, nb) BY <1>3, <1>17, IntoTopWhole
  <2> QED BY <2>1 DEF IsTopped
<1>19. Binned(h.bins, h.marked, z2, fr)
  <2>1. \A f \in fr : z2[f] = z[f] BY <1>6, <1>18 DEF SizesKept
  <2> QED BY <1>3, <2>1, BinnedSizes
<1>20. /\ k.mem = m2 /\ k.top = p + nb /\ k.brk = h.brk /\ k.regions = h.regions
       /\ k.bins = h.bins /\ k.marked = h.marked /\ IsHeap(k) /\ k.ready = h.ready
       /\ k.trim = h.trim /\ k.pad = h.pad /\ k.based = h.based
  BY <1>13, <1>14 DEF Rewritten, Settings, q
<1>21. h.based /\ h.ready /\ h.trim \in Nat /\ h.pad \in Pads /\ IsBin(h.regions, Nat)
  <2>1. h.top # InitialTop BY <1>1, <1>3, <1>5 DEF top, InitialTop
  <2> QED BY <1>1, <2>1 DEF Held
<1>22. Good(k, C, S, z2, fr, F) BY <1>18, <1>19, <1>20, <1>21 DEF Good, heads
<1>23. Sound(k, C \ fr, z2, F) BY <1>22, SoundItself
<1>24. (U \ {p}) \cup {p} = C \ fr /\ \A x \in U \ {p} : z2[x] = s[x]
  BY <1>1, <1>6, <1>18 DEF SizesKept
<1>25. Sound(k, (U \ {p}) \cup {p}, z2, F) BY <1>23, <1>24
<1> QED BY <1>2, <1>5, <1>18, <1>24, <1>25 DEF Given, Null, InitialTop

LEMMA PendingLoose ==
    ASSUME NEW m, NEW C, NEW S, NEW z, NEW top, NEW brk, NEW heads, NEW F, NEW idle, NEW p
    PROVE  Pending(m, C, S, z, top, brk, heads, F, idle, p) <=>
               Loose(m, C, S, z, top, brk, heads, F, idle, p) /\ p + z[p] \notin idle
  BY DEF Pending, Loose

LEMMA ForthHeld ==
    ASSUME NEW h, NEW C, NEW S, NEW z, NEW idle, NEW F, Good(h, C, S, z, idle, F),
           NEW p \in C \ idle, p + z[p] \in idle
    PROVE  \E C2, z2, fr2 : /\ Held(Unlink(h, p + z[p]), C2, S, z2, fr2, F, p)
                            /\ Extended(C2, z2, fr2, C, z, idle, p)
<1> DEFINE next == p + z[p]
           heads == ToSet(h.regions)
           k == Unlink(h, next)
           b2 == Unlinked(h.bins, next)
<1>1. /\ Whole(h.mem, C, S, z, h.top, h.brk, heads, F, idle) /\ IsHeap(h)
      /\ Binned(h.bins, h.marked, z, idle) BY DEF Good
<1>2. PICK C2, z2, fr2 : /\ Pending(h.mem, C2, S, z2, h.top, h.brk, heads, F, fr2, p)
                         /\ JoinForth(h.mem, C, S, z, h.top, idle, p, C2, z2, fr2)
  <2> HIDE DEF heads
  <2> QED BY <1>1, JoinedForth
<1>3. /\ C2 \ fr2 = C \ idle /\ fr2 = idle \ {next} /\ p + z2[p] = next + z[next]
      /\ \A x \in (C2 \ {p}) \cup S : z2[x] = z[x] BY <1>2 DEF JoinForth
<1>4. Loose(h.mem, C2, S, z2, h.top, h.brk, heads, F, fr2, p) /\ p + z2[p] \notin fr2
  BY <1>2, PendingLoose
<1>5. p \in Nat /\ z2[p] \in Nat
  <2> HIDE DEF heads
  <2> QED BY <1>4, LooseFacts
<1>6. z[p] \in Nat /\ z[next] \in Nat /\ NatSizes(z, idle) /\ idle \in SUBSET C
  <2>1. Laid(C, S, z, h.top, h.brk, heads, F) /\ idle \in SUBSET C BY <1>1 DEF Whole
  <2>2. \A x \in Pieces(C, S, h.top) : z[x] \in Nat BY <2>1, WordsApart
  <2> QED BY <2>1, <2>2 DEF Pieces, NatSizes
<1>7. Extended(C2, z2, fr2, C, z, idle, p)
  <2>1. z2[p] = z[p] + z[next] BY <1>3, <1>5, <1>6
  <2> QED BY <1>3, <1>4, <2>1 DEF Extended
<1>8. Relinked(k, h, b2) BY <1>1, UnlinkIs
<1>9. Binned(b2, h.marked, z2, fr2)
  <2>1. Binned(b2, h.marked, z, idle \ {next}) BY <1>1, <1>6, UnlinkedBinned
  <2>2. \A f \in idle \ {next} : z2[f] = z[f]
    <3>1. fr2 \in SUBSET C2 /\ p \notin fr2 BY <1>4 DEF Loose
    <3> QED BY <1>3, <3>1
  <2> QED BY <1>3, <2>1, <2>2, BinnedSizes
<1> HIDE DEF k, b2
<1>10. /\ IsHeap(k) /\ k.mem = h.mem /\ k.brk = h.brk /\ k.ready = h.ready /\ k.based = h.based
       /\ k.top = h.top /\ k.bins = b2 /\ k.marked = h.marked
       /\ k.trim = h.trim /\ k.pad = h.pad /\ k.regions = h.regions
  BY <1>8 DEF Relinked, Linked, Settings
<1>11. Held(k, C2, S, z2, fr2, F, p) BY <1>4, <1>9, <1>10 DEF Held, Good
<1> QED BY <1>7, <1>11 DEF k

LEMMA CopiedOne ==
    ASSUME NEW m \in [Start .. End - 1 -> Int], NEW to, NEW from, NEW n, MayCopy(to, from, n),
           NEW k \in 1 .. n
    PROVE  Copied(m, to, from, k) =
               [Copied(m, to, from, k - 1) EXCEPT ![to + k - 1] = Copied(m, to, from, k - 1)[from + k - 1]]
<1> DEFINE c == Copied(m, to, from, k - 1)
           d == Copied(m, to, from, k)
           x == to + k - 1
           y == from + k - 1
<1>1. /\ to \in Nat /\ from \in Nat /\ n \in Nat /\ k \in Nat /\ k >= 1 /\ k <= n
      /\ Start \in Nat /\ End \in Nat /\ (to < from \/ to >= from + n)
      /\ Start <= to /\ to + n <= End /\ Start <= from /\ from + n <= End
  BY Bounds DEF MayCopy
<1>2. x \in Start .. End - 1 /\ y \in Start .. End - 1 /\ y \notin to .. to + (k - 1) - 1
  <2>1. x \in Start .. End - 1 /\ y \in Start .. End - 1
    <3>1. x \in Int /\ y \in Int /\ End - 1 \in Int BY <1>1
    <3>2. Start <= x /\ Start <= y BY <1>1
    <3>3. x <= End - 1 /\ y <= End - 1 BY <1>1
    <3> HIDE DEF x, y
    <3> QED BY <1>1, <3>1, <3>2, <3>3
  <2>2. CASE to < from BY <1>1, <2>1, <2>2
  <2>3. CASE to >= from + n BY <1>1, <2>1, <2>3
  <2> QED BY <1>1, <2>1, <2>2, <2>3
<1>3. c[y] = m[y] BY <1>2 DEF Copied
<1>4. DOMAIN c = Start .. End - 1 /\ c = [a \in Start .. End - 1 |-> c[a]] BY DEF Copied
<1>5. \A a \in Start .. End - 1 : d[a] = IF a = x THEN m[y] ELSE c[a]
  <2>1. TAKE a \in Start .. End - 1
  <2>2. CASE a = x
    <3>1. a \in to .. to + k - 1 /\ (a - to) + from = y BY <1>1, <2>2
    <3> QED BY <2>2, <3>1 DEF Copied
  <2>3. CASE a # x
    <3>1. a \in to .. to + k - 1 <=> a \in to .. to + (k - 1) - 1 BY <1>1, <2>3
    <3> QED BY <2>3, <3>1 DEF Copied
  <2> QED BY <2>2, <2>3
<1>6. d = [a \in Start .. End - 1 |-> d[a]] BY DEF Copied
<1> HIDE DEF c, d, x, y
<1>7. d = [c EXCEPT ![x] = c[y]] BY <1>2, <1>3, <1>4, <1>5, <1>6
<1> QED BY <1>7 DEF c, d, x, y

LEMMA CopyIs ==
    ASSUME NEW h, h.mem \in [Start .. End - 1 -> Int],
           NEW to, NEW from, NEW n, MayCopy(to, from, n)
    PROVE  Copy(h, to, from, n) = [h EXCEPT !.mem = Copied(h.mem, to, from, n)]
<1> DEFINE Step(f, k) == IF k = 0 THEN h.mem
                         ELSE [f[k - 1] EXCEPT ![to + k - 1] = f[k - 1][from + k - 1]]
           mem[k \in 0 .. n] == IF k = 0 THEN h.mem
                                ELSE [mem[k - 1] EXCEPT ![to + k - 1] = mem[k - 1][from + k - 1]]
           g == [k \in 0 .. n |-> Copied(h.mem, to, from, k)]
           bad == {k \in 0 .. n : mem[k] # g[k]}
<1>1. n \in Nat BY DEF MayCopy
<1>2. Copy(h, to, from, n) = [h EXCEPT !.mem = mem[n]] BY DEF Copy
<1>3. g[0] = h.mem
  <2>1. 0 \in 0 .. n /\ to \in Nat BY <1>1 DEF MayCopy
  <2>2. to .. to + 0 - 1 = {} BY <2>1
  <2>3. Copied(h.mem, to, from, 0) = h.mem BY <2>2 DEF Copied
  <2> QED BY <2>1, <2>3
<1>4. \A k \in 1 .. n : g[k] = [g[k - 1] EXCEPT ![to + k - 1] = g[k - 1][from + k - 1]]
  <2>1. TAKE k \in 1 .. n
  <2>2. k \in 0 .. n /\ k - 1 \in 0 .. n BY <1>1
  <2> QED BY <2>2, CopiedOne
<1>5. g = [k \in 0 .. n |-> Step(g, k)]
  <2>1. \A k \in 0 .. n : g[k] = Step(g, k)
    <3>1. TAKE k \in 0 .. n
    <3>2. CASE k = 0 BY <1>3, <3>2
    <3>3. CASE k # 0
      <4>1. k \in 1 .. n BY <1>1, <3>3
      <4> HIDE DEF g
      <4> QED BY <1>4, <3>3, <4>1
    <3> QED BY <3>2, <3>3
  <2>2. g = [k \in 0 .. n |-> g[k]] OBVIOUS
  <2> HIDE DEF g
  <2> QED BY <2>1, <2>2
<1>6. mem = [k \in 0 .. n |-> Step(mem, k)]
  <2> HIDE DEF g
  <2>1. \E f : f = [k \in 0 .. n |-> Step(f, k)] BY <1>5
  <2>2. mem = CHOOSE f : f = [k \in 0 .. n |-> Step(f, k)] OBVIOUS
  <2> HIDE DEF mem, Step
  <2> QED BY <2>1, <2>2
<1>7. bad = {}
  <2> SUFFICES ASSUME bad # {} PROVE FALSE OBVIOUS
  <2>1. bad \in SUBSET Nat OBVIOUS
  <2> DEFINE k == Min(bad)
  <2>2. k \in bad /\ \A j \in bad : k <= j
    <3> HIDE DEF bad
    <3> QED BY <2>1, Least
  <2> HIDE DEF k
  <2>3. k \in 0 .. n /\ mem[k] # g[k] BY <2>2
  <2>4. mem[k] = Step(mem, k)
    <3> HIDE DEF mem, Step
    <3> QED BY <1>6, <2>3
  <2> HIDE DEF mem, g
  <2>5. CASE k = 0 BY <1>3, <2>3, <2>4, <2>5
  <2>6. CASE k # 0
    <3>1. k \in 1 .. n /\ k - 1 \in 0 .. n BY <1>1, <2>3, <2>6
    <3>2. mem[k - 1] = g[k - 1] BY <2>2, <3>1
    <3> QED BY <1>4, <2>3, <2>4, <2>6, <3>1, <3>2
  <2> QED BY <2>5, <2>6
<1>8. mem[n] = g[n]
  <2>1. n \in 0 .. n BY <1>1
  <2> HIDE DEF mem, g
  <2> QED BY <1>7, <2>1
<1>9. g[n] = Copied(h.mem, to, from, n) BY <1>1
<1> HIDE DEF mem, g
<1> QED BY <1>2, <1>8, <1>9

LEMMA CopiedInt ==
    ASSUME NEW m \in [Start .. End - 1 -> Int], NEW to, NEW from, NEW n, MayCopy(to, from, n)
    PROVE  /\ Copied(m, to, from, n) \in [Start .. End - 1 -> Int]
           /\ \A a \in Start .. End - 1 : a \notin to .. to + n - 1 => Copied(m, to, from, n)[a] = m[a]
<1>1. /\ to \in Nat /\ from \in Nat /\ n \in Nat /\ Start \in Nat /\ End \in Nat
      /\ Start <= to /\ to + n <= End /\ Start <= from /\ from + n <= End
  BY Bounds DEF MayCopy
<1>2. \A a \in to .. to + n - 1 : (a - to) + from \in Start .. End - 1 BY <1>1
<1>3. \A a \in Start .. End - 1 :
          (IF a \in to .. to + n - 1 THEN m[(a - to) + from] ELSE m[a]) \in Int BY <1>2
<1> QED BY <1>3 DEF Copied

LEMMA BackGood ==
    ASSUME NEW h, NEW C, NEW S, NEW z, NEW idle, NEW F, NEW p, Held(h, C, S, z, idle, F, p),
           p + z[p] \notin idle, NEW f \in idle, f + z[f] = p,
           NEW cnt \in Nat, 1 <= cnt, cnt <= z[p]
    PROVE  Holding(Copy(Unlink(h, f), f + 2, p + 2, cnt - 1),
                   ((C \ idle) \ {p}) \cup {f}, z, F, f, z[f] + z[p])
<1> DEFINE heads == ToSet(h.regions)
           k == Unlink(h, f)
           b2 == Unlinked(h.bins, f)
           to == f + 2
           from == p + 2
           n == cnt - 1
           m2 == Copied(h.mem, to, from, n)
           k2 == [k EXCEPT !.mem = m2]
           U == ((C \ idle) \ {p}) \cup {f}
<1>1. Loose(h.mem, C, S, z, h.top, h.brk, heads, F, idle, p) /\ IsHeap(h)
      /\ Binned(h.bins, h.marked, z, idle) BY DEF Held
<1>2. Pending(h.mem, C, S, z, h.top, h.brk, heads, F, idle, p) BY <1>1, PendingLoose
<1>3. PICK C2, z2, fr2 : /\ Pending(h.mem, C2, S, z2, h.top, h.brk, heads, F, fr2, f)
                         /\ JoinBack(h.mem, C, S, z, idle, p, f, C2, z2, fr2)
  <2> HIDE DEF heads
  <2> QED BY <1>2, JoinedBack
<1>4. /\ C2 \ fr2 = U /\ fr2 = idle \ {f} /\ f + z2[f] = p + z[p]
      /\ \A x \in (C2 \ {f}) \cup S : z2[x] = z[x] BY <1>3 DEF JoinBack
<1>5. Loose(h.mem, C2, S, z2, h.top, h.brk, heads, F, fr2, f) BY <1>3, PendingLoose
<1>6. /\ p \in Nat /\ z[p] \in Nat /\ p + z[p] + 1 <= End - 1
      /\ h.mem \in [Start .. End - 1 -> Int]
  <2> HIDE DEF heads
  <2> QED BY <1>1, LooseFacts
<1>7. f \in Nat /\ z2[f] \in Nat /\ f >= Start
  <2> HIDE DEF heads
  <2> QED BY <1>5, LooseFacts
<1>8. /\ Laid(C, S, z, h.top, h.brk, heads, F) /\ idle \in SUBSET C /\ z[f] \in Nat /\ z[f] >= 4
      /\ NatSizes(z, idle)
  <2>1. Laid(C, S, z, h.top, h.brk, heads, F) /\ idle \in SUBSET C BY <1>1 DEF Loose
  <2>2. \A x \in Pieces(C, S, h.top) : z[x] \in Nat BY <2>1, WordsApart
  <2>3. \A c \in C : z[c] >= MINSIZE BY <2>1, WordsApart
  <2> QED BY <2>1, <2>2, <2>3 DEF Pieces, NatSizes, MINSIZE
<1>9. z2[f] = z[f] + z[p] /\ f < p /\ cnt <= z2[f]
  <2> DEFINE b == z[f]
             c == z[p]
             e == z2[f]
  <2>1. /\ b \in Nat /\ c \in Nat /\ e \in Nat /\ f \in Nat /\ p \in Nat
        /\ f + b = p /\ b >= 4 /\ f + e = p + c /\ cnt <= c BY <1>4, <1>6, <1>7, <1>8
  <2> HIDE DEF b, c, e
  <2>2. e = b + c /\ f < p /\ cnt <= e BY <2>1
  <2> QED BY <2>2 DEF b, c, e
<1>10. MayCopy(to, from, n)
  <2>1. Start \in Nat /\ End \in Nat BY Bounds
  <2> QED
    <3>1. to \in Nat /\ from \in Nat /\ n \in Nat /\ to < from /\ Start <= to /\ Start <= from
      BY <1>6, <1>7, <1>9, <2>1
    <3>2. from + n <= End /\ to + n <= End
      <4>1. from + n = p + cnt + 1 /\ to + n = f + cnt + 1 BY <1>6, <1>7
      <4> HIDE DEF to, from, n
      <4> QED BY <1>6, <1>7, <1>9, <2>1, <4>1
    <3> QED BY <3>1, <3>2 DEF MayCopy
<1>11. Relinked(k, h, b2) BY <1>1, UnlinkIs
<1> HIDE DEF k, b2
<1>12. /\ IsHeap(k) /\ k.mem = h.mem /\ k.brk = h.brk /\ k.ready = h.ready /\ k.based = h.based
       /\ k.top = h.top /\ k.bins = b2 /\ k.marked = h.marked
       /\ k.trim = h.trim /\ k.pad = h.pad /\ k.regions = h.regions
  BY <1>11 DEF Relinked, Linked, Settings
<1>13. Copy(k, to, from, n) = k2
  <2>1. k.mem \in [Start .. End - 1 -> Int] BY <1>6, <1>12
  <2> HIDE DEF to, from, n
  <2>2. Copy(k, to, from, n) = [k EXCEPT !.mem = Copied(k.mem, to, from, n)]
    BY <1>10, <2>1, CopyIs
  <2> QED BY <1>12, <2>2
<1>14. Rewritten(k2, k, m2)
  <2> HIDE DEF m2
  <2> QED BY <1>12, MemoryIs
<1>15. Binned(b2, h.marked, z2, fr2)
  <2>1. Binned(b2, h.marked, z, idle \ {f}) BY <1>1, <1>8, UnlinkedBinned DEF b2
  <2>2. \A x \in idle \ {f} : z2[x] = z[x]
    <3>1. fr2 \in SUBSET C2 /\ f \notin fr2 BY <1>5 DEF Loose
    <3> QED BY <1>4, <3>1
  <2> QED BY <1>4, <2>1, <2>2, BinnedSizes
<1>16. m2 \in [Start .. End - 1 -> Int]
       /\ \A a \in Start .. End - 1 : a \notin to .. to + n - 1 => m2[a] = h.mem[a]
  <2> HIDE DEF to, from, n
  <2> QED BY <1>6, <1>10, CopiedInt
<1> HIDE DEF m2, k2
<1>17. Loose(m2, C2, S, z2, h.top, h.brk, heads, F, fr2, f)
  <2>1. /\ Laid(C2, S, z2, h.top, h.brk, heads, F) /\ fr2 \in SUBSET C2 /\ f \in C2 \ fr2
        /\ Tagged(h.mem, C2, S, z2, h.top, fr2, {f}, {f + z2[f]})
    BY <1>5 DEF Loose, TagsBut
  <2> DEFINE W == TagWords(C2, S, z2, h.top, fr2)
  <2>2. \A a \in f + 2 .. f + z2[f] : a \notin W
    <3> HIDE DEF heads
    <3> QED BY <2>1, WordsInside
  <2>3. W \subseteq Start .. End - 1
    <3> HIDE DEF heads
    <3> QED BY <2>1, TagWordsInside
  <2> HIDE DEF W
  <2>4. to .. to + n - 1 \subseteq f + 2 .. f + z2[f] BY <1>7, <1>9
  <2>5. \A a \in W : m2[a] = h.mem[a] BY <1>16, <2>2, <2>3, <2>4
  <2>6. Tagged(m2, C2, S, z2, h.top, fr2, {f}, {f + z2[f]})
    <3> DEFINE L == {f}
               M == {f + z2[f]}
    <3> HIDE DEF L, M
    <3>1. Tagged(h.mem, C2, S, z2, h.top, fr2, L, M) BY <2>1 DEF L, M
    <3>2. Tagged(m2, C2, S, z2, h.top, fr2, L, M) BY <1>16, <2>5, <3>1, SameTags DEF W
    <3> QED BY <3>2 DEF L, M
  <2> QED BY <1>5, <2>6 DEF Loose, TagsBut
<1>18. Held(k2, C2, S, z2, fr2, F, f)
  <2>1. /\ IsHeap(k2) /\ k2.mem = m2 /\ k2.brk = h.brk /\ k2.ready = h.ready /\ k2.based = h.based
        /\ k2.top = h.top /\ k2.bins = b2 /\ k2.marked = h.marked
        /\ k2.trim = h.trim /\ k2.pad = h.pad /\ k2.regions = h.regions
    BY <1>12, <1>14 DEF Rewritten, Settings
  <2> QED BY <1>15, <1>17, <2>1 DEF Held
<1>19. \A x \in U \ {f} : z2[x] = z[x] BY <1>4
<1> HIDE DEF U
<1>20. Holding(k2, U, z, F, f, z[f] + z[p]) BY <1>4, <1>9, <1>18, <1>19 DEF Holding
<1> QED BY <1>13, <1>20 DEF k, U

LEMMA JoinedHeld ==
    ASSUME NEW h, NEW C, NEW S, NEW z, NEW idle, NEW F, Good(h, C, S, z, idle, F),
           NEW p \in C \ idle, p + z[p] \in C \ idle
    PROVE  Held(h, C \ {p + z[p]}, S, [z EXCEPT ![p] = z[p] + z[p + z[p]]], idle, F, p)
<1> DEFINE q == p + z[p]
           D == C \ {q}
           z2 == [z EXCEPT ![p] = z[p] + z[q]]
           heads == ToSet(h.regions)
<1>1. /\ Laid(C, S, z, h.top, h.brk, heads, F) /\ idle \in SUBSET C /\ Merged(z, h.top, idle)
      /\ Tagged(h.mem, C, S, z, h.top, idle, {}, {}) /\ Binned(h.bins, h.marked, z, idle)
  BY DEF Good, Whole, AllTags
<1>2. /\ p \in Nat /\ z \in [Nat -> Nat] /\ z[p] \in Nat /\ z[p] >= 4 /\ z[q] \in Nat
      /\ C \subseteq Nat
  <2>1. Pieces(C, S, h.top) \subseteq Nat /\ \A c \in C : z[c] >= MINSIZE /\ z[c] \in Nat
    BY <1>1, WordsApart DEF Pieces
  <2> QED BY <1>1, <2>1 DEF Pieces, Laid, MINSIZE
<1>3. Laid(D, S, z2, h.top, h.brk, heads, F)
  <2> HIDE DEF heads
  <2> QED BY <1>1, JoinLaid
<1>4. q # p /\ p \in D \ idle /\ idle \in SUBSET D BY <1>1, <1>2
<1>5. Tagged(h.mem, D, S, z2, h.top, idle, {} \cup {p}, {})
  <2> DEFINE L == {}
  <2> HIDE DEF heads, L
  <2>1. Tagged(h.mem, C, S, z, h.top, idle, L, L) BY <1>1 DEF L
  <2>2. Tagged(h.mem, D, S, z2, h.top, idle, L \cup {p}, L) BY <1>1, <2>1, JoinTagged
  <2> QED BY <2>2 DEF L
<1>6. TagsBut(h.mem, D, S, z2, h.top, idle, p)
  <2>1. Tagged(h.mem, D, S, z2, h.top, idle, {p}, {p + z2[p]})
    <3> HIDE DEF D, z2
    <3> QED BY <1>5, MoreTagged
  <2> HIDE DEF D, z2
  <2> QED BY <2>1 DEF TagsBut
<1>7. \A f \in idle : z2[f] = z[f] BY <1>2, <1>4
<1>8. Merged(z2, h.top, idle) BY <1>1, <1>7 DEF Merged
<1>9. Binned(h.bins, h.marked, z2, idle)
  <2> HIDE DEF z2
  <2> QED BY <1>1, <1>7, BinnedSizes
<1> HIDE DEF D, z2
<1>10. Held(h, D, S, z2, idle, F, p) BY <1>3, <1>4, <1>6, <1>8, <1>9 DEF Good, Held, Loose
<1> QED BY <1>10 DEF D, z2

LEMMA CopyGood ==
    ASSUME NEW h, NEW C, NEW S, NEW z, NEW idle, NEW F, Good(h, C, S, z, idle, F),
           NEW p \in C \ idle, NEW q \in C \ idle, p # q, z[p] <= z[q]
    PROVE  Good(Copy(h, q + 2, p + 2, z[p] - 1), C, S, z, idle, F)
<1> DEFINE to == q + 2
           from == p + 2
           n == z[p] - 1
           m2 == Copied(h.mem, to, from, n)
           k == [h EXCEPT !.mem = m2]
           W == TagWords(C, S, z, h.top, idle)
           heads == ToSet(h.regions)
<1>1. Laid(C, S, z, h.top, h.brk, heads, F) /\ idle \in SUBSET C /\ IsHeap(h)
      /\ h.mem \in [Start .. End - 1 -> Int] BY GoodTop DEF Good, Whole
<1>2. /\ p \in Nat /\ q \in Nat /\ z[p] \in Nat /\ z[q] \in Nat /\ z[p] >= 4
      /\ p + z[p] + 1 <= End - 1 /\ q + z[q] + 1 <= End - 1 /\ p >= Start /\ q >= Start
      /\ (p < q => p + z[p] <= q)
  <2>1. Held(h, C, S, z, idle, F, p) /\ Held(h, C, S, z, idle, F, q) BY GoodHeld
  <2>2. Loose(h.mem, C, S, z, h.top, h.brk, heads, F, idle, p)
        /\ Loose(h.mem, C, S, z, h.top, h.brk, heads, F, idle, q) BY <2>1 DEF Held
  <2>3. \A x \in {p, q} : /\ x \in Nat /\ z[x] \in Nat /\ z[x] >= MINSIZE /\ x >= Start
                          /\ x + z[x] + 1 <= End - 1 /\ x \in Pieces(C, S, h.top) /\ x \notin S
    <3> HIDE DEF heads
    <3> QED BY <2>2, LooseFacts
  <2>4. p < q => p + z[p] <= q
    <3>1. \A x, y \in Pieces(C, S, h.top) : x < y => Beyond(S, z, x) <= y BY <1>1 DEF Laid
    <3> QED BY <2>3, <3>1 DEF Beyond
  <2> QED BY <2>3, <2>4 DEF MINSIZE
<1>3. MayCopy(to, from, n)
  <2>1. Start \in Nat /\ End \in Nat BY Bounds
  <2>2. to \in Nat /\ from \in Nat /\ n \in Nat /\ Start <= to /\ Start <= from
    BY <1>2, <2>1
  <2>3. from + n = p + z[p] + 1 /\ to + n = q + z[p] + 1 BY <1>2
  <2>4. to < from \/ to >= from + n
    <3>1. CASE q < p BY <1>2, <3>1
    <3>2. CASE p < q
      <4>1. p + z[p] <= q BY <1>2, <3>2
      <4> QED BY <1>2, <4>1
    <3> QED BY <1>2, <3>1, <3>2
  <2> HIDE DEF to, from, n
  <2> QED BY <1>2, <2>1, <2>2, <2>3, <2>4 DEF MayCopy
<1>4. Copy(h, to, from, n) = k
  <2> HIDE DEF to, from, n
  <2> QED BY <1>1, <1>3, CopyIs
<1>5. m2 \in [Start .. End - 1 -> Int]
      /\ \A a \in Start .. End - 1 : a \notin to .. to + n - 1 => m2[a] = h.mem[a]
  <2> HIDE DEF to, from, n
  <2> QED BY <1>1, <1>3, CopiedInt
<1> HIDE DEF m2
<1>6. Rewritten(k, h, m2) BY <1>1, MemoryIs
<1>7. \A a \in W : m2[a] = h.mem[a]
  <2>1. \A a \in q + 2 .. q + z[q] : a \notin W
    <3> HIDE DEF heads
    <3> QED BY <1>1, WordsInside
  <2>2. W \subseteq Start .. End - 1
    <3> HIDE DEF heads
    <3> QED BY <1>1, TagWordsInside
  <2> HIDE DEF W
  <2>3. to .. to + n - 1 \subseteq q + 2 .. q + z[q] BY <1>2
  <2> QED BY <1>5, <2>1, <2>2, <2>3
<1> HIDE DEF k
<1>8. Good(k, C, S, z, idle, F) BY <1>5, <1>6, <1>7, WordsWritten
<1> QED BY <1>4, <1>8

LEMMA MoveToGood ==
    ASSUME NEW r, NEW U, NEW s, NEW F, NEW nb, Got(r, U, s, F, nb), NEW p \in U,
           nb \in Nat /\ nb >= MINSIZE /\ nb % 2 = 0 /\ s[p] < nb
    PROVE  Regot(MoveTo(r, p, nb), U, s, F, p, nb)
<1>1. CASE r.got = Null
  <2>1. Sound(r.heap, U, s, F) BY <1>1 DEF Got, Given
  <2>2. MoveTo(r, p, nb) = r BY <1>1 DEF MoveTo
  <2> QED BY <1>1, <2>1, <2>2 DEF Regot
<1>2. CASE r.got # Null
  <2> DEFINE q == r.got
  <2>1. PICK t : /\ Sound(r.heap, U \cup {q}, t, F) /\ q \notin U
                 /\ t[q] >= nb /\ \A x \in U : t[x] = s[x] BY <1>2 DEF Got, Given
  <2>2. PICK C, S, z, fr : /\ Good(r.heap, C, S, z, fr, F)
                           /\ C \ fr = U \cup {q} /\ \A x \in U \cup {q} : z[x] = t[x]
    BY <2>1 DEF Sound
  <2>3. /\ p \in C \ fr /\ q \in C \ fr /\ p # q /\ z[p] = s[p] /\ z[q] >= nb
        /\ \A x \in U : z[x] = s[x] BY <2>1, <2>2
  <2>4. Size(r.heap, p) = z[p] /\ Size(r.heap, q) = z[q]
    BY <2>2, <2>3, Readings DEF Pieces
  <2>5. z[p] \in Nat /\ z[q] \in Nat /\ z \in [Nat -> Nat] /\ p \in Nat /\ q \in Nat
        /\ p # InitialTop
    <3>1. Laid(C, S, z, r.heap.top, r.heap.brk, ToSet(r.heap.regions), F)
      BY <2>2 DEF Good, Whole
    <3>2. z \in [Nat -> Nat] BY <3>1 DEF Laid
    <3>3. C \subseteq Nat \ {0} BY <3>1, WordsApart DEF Pieces
    <3> QED BY <2>3, <3>2, <3>3 DEF InitialTop
  <2>6. CASE q = p + z[p]
    <3> DEFINE n == z[p] + z[q]
               z2 == [z EXCEPT ![p] = n]
    <3>1. MoveTo(r, p, nb) = [heap |-> Split(r.heap, p, n, nb), got |-> p]
      BY <1>2, <2>4, <2>6 DEF MoveTo
    <3>2. Held(r.heap, C \ {q}, S, z2, fr, F, p)
      <4>1. p + z[p] \in C \ fr BY <2>3, <2>6
      <4> QED BY <2>2, <2>3, <2>6, <4>1, JoinedHeld
    <3>3. (C \ {q}) \ fr = U BY <2>1, <2>2
    <3>4. z2[p] = n /\ \A x \in U \ {p} : z2[x] = s[x] BY <2>3, <2>5
    <3> HIDE DEF z2
    <3>5. Holding(r.heap, U, s, F, p, n) BY <3>2, <3>3, <3>4 DEF Holding
    <3>6. nb <= n BY <2>3, <2>5
    <3> HIDE DEF n
    <3>7. Given([heap |-> Split(r.heap, p, n, nb), got |-> p], U \ {p}, s, F, nb)
      BY <3>5, <3>6, SplitGood
    <3> QED BY <3>1, <3>7 DEF Regot
  <2>7. CASE q # p + z[p]
    <3> DEFINE k == Copy(r.heap, q + 2, p + 2, z[p] - 1)
    <3>1. MoveTo(r, p, nb) = [heap |-> free(k, p), got |-> q]
      BY <1>2, <2>4, <2>7 DEF MoveTo
    <3>2. z[p] <= z[q] BY <2>3, <2>5
    <3>3. Good(k, C, S, z, fr, F) BY <2>2, <2>3, <3>2, CopyGood
    <3> HIDE DEF k
    <3>4. Sound(free(k, p), (C \ fr) \ {p}, z, F) BY <2>3, <3>3, FreeGood
    <3>5. (C \ fr) \ {p} = (U \ {p}) \cup {q} /\ q \notin U \ {p} BY <2>1, <2>2, <2>3
    <3>6. Sound(free(k, p), (U \ {p}) \cup {q}, z, F) BY <3>4, <3>5
    <3>7. Given([heap |-> free(k, p), got |-> q], U \ {p}, s, F, nb)
      BY <1>2, <2>3, <3>5, <3>6 DEF Given
    <3> QED BY <3>1, <3>7 DEF Regot
  <2> QED BY <2>6, <2>7
<1> QED BY <1>1, <1>2

LEMMA ReallocReads ==
    ASSUME NEW h, NEW C, NEW S, NEW z, NEW fr, NEW F, Good(h, C, S, z, fr, F), NEW p \in C \ fr
    PROVE  /\ Size(h, p) = z[p] /\ p # Null
           /\ p + z[p] # h.top => (InUse(h, p + z[p]) <=> p + z[p] \notin fr)
           /\ Size(h, p + z[p]) = z[p + z[p]] /\ p + z[p] \notin {p}
           /\ h.top \notin fr
           /\ PrevInUse(h, p) = 0 => \E f \in fr : f + z[f] = p /\ h.mem[p] = z[f]
<1>1. /\ Laid(C, S, z, h.top, h.brk, ToSet(h.regions), F)
      /\ fr \in SUBSET C /\ C \subseteq Nat \ {0} /\ h.top \notin C BY GoodParts
<1>2. \A c \in C : c + z[c] \in Pieces(C, S, h.top) /\ z[c] >= MINSIZE BY <1>1, WordsApart
<1>3. \A x \in Pieces(C, S, h.top) : Size(h, x) = z[x] /\ PrevInUse(h, x) = Bit(z, fr, x)
  BY Readings
<1>4. \A x \in C \cup S : InUse(h, x) <=> x \notin fr BY Readings
<1>5. \A f \in fr : h.mem[f + z[f]] = z[f] BY Readings
<1>6. p \in Pieces(C, S, h.top) /\ p + z[p] \in Pieces(C, S, h.top) BY <1>2 DEF Pieces
<1>7. p + z[p] # h.top => p + z[p] \in C \cup S BY <1>6 DEF Pieces, TopAt
<1>8. PrevInUse(h, p) = 0 => \E f \in fr : f + z[f] = p BY <1>3, <1>6 DEF Bit
<1>9. p + z[p] # p /\ p # Null
  <2>1. \A n : n \in Nat /\ n >= 4 /\ p \in Nat => p + n # p OBVIOUS
  <2>2. z[p] \in Nat /\ z[p] >= 4 /\ p \in Nat /\ p # 0
    BY <1>1, <1>2, WordsApart, <1>6 DEF MINSIZE
  <2> QED BY <2>1, <2>2 DEF Null
<1> QED
  <2>1. Size(h, p) = z[p] /\ Size(h, p + z[p]) = z[p + z[p]] BY <1>3, <1>6
  <2>2. p + z[p] # h.top => (InUse(h, p + z[p]) <=> p + z[p] \notin fr) BY <1>4, <1>7
  <2>3. PrevInUse(h, p) = 0 => \E f \in fr : f + z[f] = p /\ h.mem[p] = z[f] BY <1>5, <1>8
  <2> QED BY <1>1, <1>9, <2>1, <2>2, <2>3

(* What a chunk that is moved back leaves alone *)
LEMMA BackKeeps ==
    ASSUME NEW h, NEW C, NEW S, NEW z, NEW fr, NEW F, Good(h, C, S, z, fr, F),
           NEW p \in C \ fr, p + z[p] = h.top, NEW f \in fr, f + z[f] = p
    PROVE  LET k == Copy(Unlink(h, f), f + 2, p + 2, z[p] - 1)
           IN k.top = h.top /\ Size(k, h.top) = z[h.top]
<1> DEFINE k1 == Unlink(h, f)
           n == z[p] - 1
           m2 == Copied(h.mem, f + 2, p + 2, n)
           k == Copy(k1, f + 2, p + 2, n)
<1>1. /\ Laid(C, S, z, h.top, h.brk, ToSet(h.regions), F)
      /\ fr \in SUBSET C /\ C \subseteq Nat \ {0} /\ h.mem \in [Start .. End - 1 -> Int]
  BY GoodParts
<1>2. Held(h, C, S, z, fr, F, p) BY GoodHeld
<1>3. Loose(h.mem, C, S, z, h.top, h.brk, ToSet(h.regions), F, fr, p) BY <1>2 DEF Held
<1>4. /\ p \in Nat /\ z[p] \in Nat /\ z[p] >= 4 /\ p + z[p] + 1 <= End - 1 /\ p >= Start
      /\ h.top \in Pieces(C, S, h.top) BY <1>3, LooseFacts DEF MINSIZE
<1>5. f \in Nat /\ z[f] \in Nat /\ f >= Start /\ z[f] >= 4
  <2>1. f \in Nat /\ z[f] \in Nat BY <1>1, WordsApart DEF Pieces
  <2>2. f >= Start
    <3>1. Pieces(C, S, h.top) \subseteq Start .. End BY <1>1 DEF Laid
    <3>2. f \in Start .. End BY <1>1, <3>1 DEF Pieces
    <3> QED BY <3>2, Bounds
  <2>3. z[f] >= 4 BY <1>1, WordsApart DEF MINSIZE
  <2> QED BY <2>1, <2>2, <2>3
<1>6. MayCopy(f + 2, p + 2, n) /\ h.top + 1 \in Start .. End - 1 /\ h.top + 1 \notin f + 2 .. f + 2 + n - 1
  <2> DEFINE b == z[f]
             c == z[p]
  <2>1. /\ b \in Nat /\ c \in Nat /\ f \in Nat /\ p \in Nat /\ Start \in Nat /\ End \in Nat
        /\ f + b = p /\ b >= 4 /\ c >= 4 /\ f >= Start /\ p + c + 1 <= End - 1 /\ h.top = p + c
    BY <1>4, <1>5, Bounds
  <2> HIDE DEF b, c
  <2>2. MayCopy(f + 2, p + 2, c - 1) BY <2>1 DEF MayCopy
  <2>3. h.top + 1 \in Start .. End - 1 /\ h.top + 1 \notin f + 2 .. f + 2 + (c - 1) - 1
    BY <2>1
  <2> QED BY <2>2, <2>3 DEF b, c
<1>7. Relinked(k1, h, Unlinked(h.bins, f)) BY UnlinkIs DEF Good
<1>8. k1.mem = h.mem /\ k1.top = h.top /\ IsHeap(k1)
  BY <1>7 DEF Relinked, Linked, Settings
<1> HIDE DEF k1
<1>9. k = [k1 EXCEPT !.mem = m2] BY <1>1, <1>6, <1>8, CopyIs
<1>10. Rewritten([k1 EXCEPT !.mem = m2], k1, m2) BY <1>8, MemoryIs
<1>11. k.mem = m2 /\ k.top = h.top BY <1>8, <1>9, <1>10 DEF Rewritten
<1> HIDE DEF k
<1>12. m2[h.top + 1] = h.mem[h.top + 1] BY <1>1, <1>6, CopiedInt
<1>13. Size(h, h.top) = z[h.top] BY <1>4, Readings
<1>14. Size(k, h.top) = Size(h, h.top) BY <1>11, <1>12 DEF Size
<1> QED BY <1>11, <1>13, <1>14 DEF k, k1

(* The chunk as it is, with what is after it, and with the top *)
LEMMA StayGood ==
    ASSUME NEW h, NEW C, NEW S, NEW z, NEW fr, NEW F, Good(h, C, S, z, fr, F),
           NEW p \in C \ fr, NEW nb, NbOk(nb)
    PROVE  /\ z[p] >= nb =>
                  Given([heap |-> Split(h, p, z[p], nb), got |-> p], (C \ fr) \ {p}, z, F, nb)
           /\ p + z[p] = h.top /\ z[p] + z[h.top] >= nb + MINSIZE =>
                  Given([heap |-> IntoTop(h, p, nb), got |-> p], (C \ fr) \ {p}, z, F, nb)
           /\ p + z[p] \in fr /\ z[p] + z[p + z[p]] >= nb =>
                  Given([heap |-> Split(Unlink(h, p + z[p]), p, z[p] + z[p + z[p]], nb), got |-> p],
                        (C \ fr) \ {p}, z, F, nb)
<1> DEFINE U == C \ fr
<1>1. Holding(h, U, z, F, p, z[p])
  <2>1. Held(h, C, S, z, fr, F, p) BY GoodHeld
  <2> QED BY <2>1 DEF Holding
<1>2. nb \in Nat /\ nb >= MINSIZE /\ nb % 2 = 0 BY DEF NbOk
<1>3. ASSUME z[p] >= nb
      PROVE  Given([heap |-> Split(h, p, z[p], nb), got |-> p], U \ {p}, z, F, nb)
  <2>1. nb <= z[p] BY <1>2, <1>3
  <2> HIDE DEF U
  <2> QED BY <1>1, <1>2, <2>1, SplitGood
<1>4. ASSUME p + z[p] = h.top, z[p] + z[h.top] >= nb + MINSIZE
      PROVE  Given([heap |-> IntoTop(h, p, nb), got |-> p], U \ {p}, z, F, nb)
  <2>1. Size(h, h.top) = z[h.top] BY <1>4, ReallocReads
  <2>2. z[p] + Size(h, h.top) >= nb + MINSIZE BY <1>4, <2>1
  <2> HIDE DEF U
  <2> QED BY <1>1, <1>2, <1>4, <2>2, IntoTopGood
<1>5. ASSUME p + z[p] \in fr, z[p] + z[p + z[p]] >= nb
      PROVE  Given([heap |-> Split(Unlink(h, p + z[p]), p, z[p] + z[p + z[p]], nb), got |-> p],
                   U \ {p}, z, F, nb)
  <2> DEFINE next == p + z[p]
             k == Unlink(h, next)
             n == z[p] + z[next]
  <2>1. PICK C2, z2, fr2 : /\ Held(k, C2, S, z2, fr2, F, p)
                           /\ Extended(C2, z2, fr2, C, z, fr, p) BY <1>5, ForthHeld
  <2> HIDE DEF k
  <2>2. C2 \ fr2 = U /\ z2[p] = n /\ \A x \in C2 \ {p} : z2[x] = z[x] BY <2>1 DEF Extended
  <2>3. Holding(k, U, z, F, p, n)
    <3>1. \A x \in U \ {p} : z2[x] = z[x] BY <2>2
    <3> HIDE DEF U, n
    <3> QED BY <2>1, <2>2, <3>1 DEF Holding
  <2>4. nb <= n
    <3>1. z[p] \in Nat /\ z[next] \in Nat
      <4>1. Laid(C, S, z, h.top, h.brk, ToSet(h.regions), F) /\ fr \in SUBSET C
        BY GoodParts
      <4>2. p \in Pieces(C, S, h.top) /\ next \in Pieces(C, S, h.top)
        BY <1>5, <4>1 DEF Pieces
      <4> QED BY <4>1, <4>2, WordsApart
    <3> QED BY <1>2, <1>5, <3>1
  <2> HIDE DEF n, U
  <2>5. Given([heap |-> Split(k, p, n, nb), got |-> p], U \ {p}, z, F, nb)
    BY <1>2, <2>3, <2>4, SplitGood
  <2> QED BY <2>5 DEF k, n
<1> QED BY <1>3, <1>4, <1>5

(* The chunk moved back into a free chunk before it: with the top, with    *)
(* what is free after it, and alone                                        *)
LEMMA BackAloneGood ==
    ASSUME NEW h, NEW C, NEW S, NEW z, NEW fr, NEW F, Good(h, C, S, z, fr, F),
           NEW p \in C \ fr, NEW nb, NbOk(nb), NEW f \in fr, f + z[f] = p, p + z[p] \notin fr
    PROVE  LET k == Copy(Unlink(h, f), f + 2, p + 2, z[p] - 1) IN
           /\ z[f] + z[p] >= nb =>
                  Given([heap |-> Split(k, f, z[f] + z[p], nb), got |-> f], (C \ fr) \ {p}, z, F, nb)
           /\ p + z[p] = h.top /\ (z[f] + z[p]) + z[h.top] >= nb + MINSIZE =>
                  Given([heap |-> IntoTop(k, f, nb), got |-> f], (C \ fr) \ {p}, z, F, nb)
<1> DEFINE k == Copy(Unlink(h, f), f + 2, p + 2, z[p] - 1)
           V == ((C \ fr) \ {p}) \cup {f}
           n == z[f] + z[p]
<1>1. Held(h, C, S, z, fr, F, p) BY GoodHeld
<1>2. nb \in Nat /\ nb >= MINSIZE /\ nb % 2 = 0 BY DEF NbOk
<1>3. z[p] \in Nat /\ z[p] >= 1 /\ z[f] \in Nat /\ f \in Nat
  <2>1. Laid(C, S, z, h.top, h.brk, ToSet(h.regions), F) /\ fr \in SUBSET C /\ C \subseteq Nat
    BY GoodParts
  <2>2. p \in Pieces(C, S, h.top) /\ f \in Pieces(C, S, h.top) BY <2>1 DEF Pieces
  <2>3. z[p] \in Nat /\ z[f] \in Nat /\ z[p] >= 4 BY <2>1, <2>2, WordsApart DEF MINSIZE
  <2> QED BY <2>1, <2>3
<1>4. Holding(k, V, z, F, f, n)
  <2>1. 1 <= z[p] /\ z[p] <= z[p] BY <1>3
  <2> QED BY <1>1, <1>3, <2>1, BackGood
<1>5. V \ {f} = (C \ fr) \ {p} BY DEF V
<1>6. ASSUME n >= nb
      PROVE  Given([heap |-> Split(k, f, n, nb), got |-> f], V \ {f}, z, F, nb)
  <2>1. nb <= n BY <1>2, <1>3, <1>6
  <2> HIDE DEF k, V, n
  <2> QED BY <1>2, <1>4, <2>1, SplitGood
<1>7. ASSUME p + z[p] = h.top, n + z[h.top] >= nb + MINSIZE
      PROVE  Given([heap |-> IntoTop(k, f, nb), got |-> f], V \ {f}, z, F, nb)
  <2>1. k.top = h.top /\ Size(k, h.top) = z[h.top] BY <1>7, BackKeeps
  <2>2. f + n = k.top
    <3>1. \A a, b, c \in Nat : a + (b + c) = (a + b) + c OBVIOUS
    <3>2. f + (z[f] + z[p]) = (f + z[f]) + z[p] BY <1>3, <3>1
    <3> QED BY <1>7, <2>1, <3>2
  <2> HIDE DEF k, V, n
  <2>3. n + Size(k, k.top) >= nb + MINSIZE BY <1>7, <2>1
  <2> QED BY <1>2, <1>4, <2>2, <2>3, IntoTopGood
<1> QED BY <1>5, <1>6, <1>7

LEMMA BackForthGood ==
    ASSUME NEW h, NEW C, NEW S, NEW z, NEW fr, NEW F, Good(h, C, S, z, fr, F),
           NEW p \in C \ fr, NEW nb, NbOk(nb), NEW f \in fr, f + z[f] = p, p + z[p] \in fr,
           z[p + z[p]] + (z[p] + z[f]) >= nb
    PROVE  LET k == Copy(Unlink(Unlink(h, p + z[p]), f), f + 2, p + 2, z[p] - 1) IN
           Given([heap |-> Split(k, f, z[p + z[p]] + (z[p] + z[f]), nb), got |-> f],
                 (C \ fr) \ {p}, z, F, nb)
<1> DEFINE next == p + z[p]
           h1 == Unlink(h, next)
           k == Copy(Unlink(h1, f), f + 2, p + 2, z[p] - 1)
           V == ((C \ fr) \ {p}) \cup {f}
           n == z[next] + (z[p] + z[f])
<1>1. nb \in Nat /\ nb >= MINSIZE /\ nb % 2 = 0 BY DEF NbOk
<1>2. /\ z[p] \in Nat /\ z[p] >= 4 /\ z[f] \in Nat /\ f \in Nat /\ z[next] \in Nat /\ p \in Nat
      /\ z[f] >= 4 /\ fr \in SUBSET C
  <2>1. Laid(C, S, z, h.top, h.brk, ToSet(h.regions), F) /\ fr \in SUBSET C /\ C \subseteq Nat
    BY GoodParts
  <2>2. p \in Pieces(C, S, h.top) /\ f \in Pieces(C, S, h.top) /\ next \in Pieces(C, S, h.top)
    BY <2>1 DEF Pieces
  <2>3. z[p] \in Nat /\ z[f] \in Nat /\ z[p] >= 4 /\ z[f] >= 4 /\ z[next] \in Nat
    BY <2>1, <2>2, WordsApart DEF MINSIZE
  <2> QED BY <2>1, <2>3
<1>3. PICK C2, z2, fr2 : /\ Held(h1, C2, S, z2, fr2, F, p)
                         /\ Extended(C2, z2, fr2, C, z, fr, p) BY ForthHeld
<1> HIDE DEF h1
<1>4. /\ C2 \ fr2 = C \ fr /\ fr2 = fr \ {next} /\ z2[p] = z[p] + z[next]
      /\ p + z2[p] \notin fr2 /\ \A x \in C2 \ {p} : z2[x] = z[x] BY <1>3 DEF Extended
<1>5. fr2 \in SUBSET C2 /\ p \in C2 \ fr2
  <2>1. Loose(h1.mem, C2, S, z2, h1.top, h1.brk, ToSet(h1.regions), F, fr2, p)
    BY <1>3 DEF Held
  <2> QED BY <2>1 DEF Loose
<1>6. f # p /\ f # next
  <2> DEFINE b == z[f]
             c == z[p]
  <2>1. b \in Nat /\ c \in Nat /\ b >= 4 /\ c >= 4 /\ f \in Nat /\ f + b = p /\ next = p + c
    BY <1>2
  <2> HIDE DEF b, c, next
  <2> QED BY <2>1
<1>7. f \in fr2 /\ z2[f] = z[f] BY <1>4, <1>5, <1>6
<1>8. Holding(k, ((C2 \ fr2) \ {p}) \cup {f}, z2, F, f, z2[f] + z2[p])
  <2>1. 1 <= z[p] /\ z[p] <= z2[p] /\ z2[p] \in Nat
    <3>1. \A a, b \in Nat : a >= 4 => 1 <= a /\ a <= a + b /\ a + b \in Nat OBVIOUS
    <3> QED BY <1>2, <1>4, <3>1
  <2>2. f + z2[f] = p BY <1>7
  <2> QED BY <1>2, <1>3, <1>4, <1>7, <2>1, <2>2, BackGood
<1>9. z2[f] + z2[p] = n
  <2>1. \A a, b, c \in Nat : a + (b + c) = c + (b + a) OBVIOUS
  <2>2. z[f] + (z[p] + z[next]) = n BY <1>2, <2>1
  <2> QED BY <1>4, <1>7, <2>2
<1> HIDE DEF k
<1>10. Given([heap |-> Split(k, f, n, nb), got |-> f], (((C2 \ fr2) \ {p}) \cup {f}) \ {f}, z2, F, nb)
  <2>1. nb <= n BY <1>1, <1>2
  <2> HIDE DEF n
  <2>2. Holding(k, ((C2 \ fr2) \ {p}) \cup {f}, z2, F, f, n) BY <1>8, <1>9
  <2> QED BY <1>1, <2>1, <2>2, SplitGood
<1>11. (((C2 \ fr2) \ {p}) \cup {f}) \ {f} = (C \ fr) \ {p} BY <1>4, <1>7
<1>12. \A x \in (C \ fr) \ {p} : z2[x] = z[x] BY <1>4
<1> HIDE DEF n
<1>13. Given([heap |-> Split(k, f, n, nb), got |-> f], (C \ fr) \ {p}, z2, F, nb)
  BY <1>10, <1>11
<1>14. Given([heap |-> Split(k, f, n, nb), got |-> f], (C \ fr) \ {p}, z, F, nb)
  BY <1>12, <1>13, GivenSizes
<1> QED BY <1>14 DEF k, n, h1

LEMMA ReallocGood ==
    ASSUME NEW h, NEW C, NEW S, NEW z, NEW fr, NEW F, Good(h, C, S, z, fr, F),
           NEW p \in C \ fr, NEW bytes, Asking(bytes)
    PROVE  Regot(realloc(h, p, bytes), C \ fr, z, F, p, request2size(bytes))
<1> DEFINE nb == request2size(bytes)
           U == C \ fr
           size == Size(h, p)
           next == p + size
           atTop == next = h.top
           room == IF atTop \/ ~InUse(h, next) THEN Size(h, next) ELSE 0
           forth == room > 0 /\ ~atTop
           back == PrevInUse(h, p) = 0
           prev == p - h.mem[p]
           behind == size + h.mem[p]
           r == realloc(h, p, bytes)
           Is(k, q) == [heap |-> k, got |-> q]
           stays == size >= nb
           grows == atTop /\ room + size >= nb + MINSIZE
           joins == forth /\ room + size >= nb
           backTop == back /\ atTop /\ room + behind >= nb + MINSIZE
           backForth == back /\ forth /\ room + behind >= nb
           backs == back /\ behind >= nb
<1>1. r = IF bytes >= Half THEN Is(h, Null)
          ELSE IF stays THEN Is(Split(h, p, size, nb), p)
          ELSE IF grows THEN Is(IntoTop(h, p, nb), p)
          ELSE IF joins THEN Is(Split(Unlink(h, next), p, room + size, nb), p)
          ELSE IF backTop THEN Is(IntoTop(ShiftBack(h, prev, p), prev, nb), prev)
          ELSE IF backForth
          THEN Is(Split(ShiftBack(Unlink(h, next), prev, p), prev, room + behind, nb), prev)
          ELSE IF backs THEN Is(Split(ShiftBack(h, prev, p), prev, behind, nb), prev)
          ELSE MoveTo(malloc(h, bytes), p, nb) BY DEF realloc
<1>2. /\ size = z[p] /\ p # Null /\ Size(h, next) = z[next] /\ h.top \notin fr
      /\ ~atTop => (InUse(h, next) <=> next \notin fr)
      /\ back => \E f \in fr : f + z[f] = p /\ h.mem[p] = z[f] BY ReallocReads
<1>3. CASE bytes >= Half
  <2>1. r = Is(h, Null) BY <1>1, <1>3
  <2>2. Sound(h, U, z, F) BY SoundItself
  <2>3. r.got = Null /\ r.heap = h BY <2>1
  <2> HIDE DEF r, U
  <2>4. Regot(r, U, z, F, p, nb) BY <2>2, <2>3 DEF Regot
  <2> QED BY <2>4 DEF r, U
<1>4. CASE ~(bytes >= Half)
  <2>1. bytes \in Nat /\ Askable(nb)
    <3>1. bytes \in Nat /\ Half \in Nat BY Bounds DEF Asking
    <3>2. bytes < Half BY <1>4, <3>1
    <3> QED BY <3>1, <3>2 DEF Asking
  <2>2. NbOk(nb) BY <2>1 DEF Askable, NbOk
  <2>3. /\ Laid(C, S, z, h.top, h.brk, ToSet(h.regions), F) /\ fr \in SUBSET C
        /\ C \subseteq Nat \ {0} BY GoodParts
  <2>4. /\ p \in Nat /\ z[p] \in Nat /\ nb \in Nat /\ z[next] \in Nat /\ Size(h, next) \in Nat
        /\ next \in fr => z[next] >= 4
    <3>1. p \in Pieces(C, S, h.top) /\ \A c \in C : c + z[c] \in Pieces(C, S, h.top) /\ z[c] >= MINSIZE
      BY <2>3, WordsApart DEF Pieces
    <3>2. next \in Pieces(C, S, h.top) BY <1>2, <3>1
    <3>3. \A x \in Pieces(C, S, h.top) : z[x] \in Nat BY <2>3, WordsApart
    <3> HIDE DEF next
    <3> QED BY <1>2, <2>2, <2>3, <3>1, <3>2, <3>3 DEF NbOk, MINSIZE
  <2>5. atTop => room = z[next] BY <1>2
  <2>6. forth => next \in fr /\ room = z[next] /\ ~atTop BY <1>2
  <2>7. ~atTop /\ next \in fr => forth /\ room = z[next]
    <3>1. ASSUME ~atTop, next \in fr
          PROVE  forth /\ room = z[next]
      <4>1. room = z[next] BY <1>2, <3>1
      <4>2. room > 0 BY <2>4, <3>1, <4>1
      <4> QED BY <3>1, <4>1, <4>2
    <3> QED BY <3>1
  <2>8. back => \E f \in fr : /\ f + z[f] = p /\ prev = f /\ behind = z[p] + z[f]
                              /\ f \in Nat /\ z[f] \in Nat
    <3>1. ASSUME back
          PROVE  \E f \in fr : /\ f + z[f] = p /\ prev = f /\ behind = z[p] + z[f]
                               /\ f \in Nat /\ z[f] \in Nat
      <4>1. PICK f \in fr : f + z[f] = p /\ h.mem[p] = z[f] BY <1>2, <3>1
      <4>2. f \in Nat /\ z[f] \in Nat BY <2>3, WordsApart DEF Pieces
      <4>3. \A a, b \in Nat : (a + b) - b = a OBVIOUS
      <4>4. prev = f
        <5>1. (f + z[f]) - z[f] = f BY <4>2, <4>3
        <5> QED BY <4>1, <5>1
      <4>5. behind = z[p] + z[f] BY <1>2, <4>1
      <4> QED BY <4>1, <4>2, <4>4, <4>5
    <3> QED BY <3>1
  <2>9. CASE stays
    <3>1. r = Is(Split(h, p, z[p], nb), p) BY <1>1, <1>2, <1>4, <2>9
    <3> HIDE DEF r, nb
    <3>2. Given([heap |-> Split(h, p, z[p], nb), got |-> p], (C \ fr) \ {p}, z, F, nb)
      BY <1>2, <2>2, <2>9, StayGood
    <3>3. Given(r, U \ {p}, z, F, nb) BY <3>1, <3>2
    <3>4. Regot(r, U, z, F, p, nb) BY <3>3 DEF Regot
    <3> QED BY <3>4 DEF r, nb
  <2>10. CASE ~stays /\ grows
    <3>1. r = Is(IntoTop(h, p, nb), p) BY <1>1, <1>4, <2>10
    <3>2. p + z[p] = h.top /\ z[p] + z[h.top] >= nb + MINSIZE
      <4>1. p + z[p] = h.top /\ next = h.top BY <1>2, <2>10
      <4>2. z[next] + z[p] >= nb + MINSIZE BY <1>2, <2>5, <2>10
      <4>3. z[p] + z[next] = z[next] + z[p] BY <2>4
      <4> QED BY <4>1, <4>2, <4>3
    <3> HIDE DEF r, nb
    <3>3. Given([heap |-> IntoTop(h, p, nb), got |-> p], (C \ fr) \ {p}, z, F, nb)
      BY <2>2, <3>2, StayGood
    <3>4. Regot(r, U, z, F, p, nb) BY <3>1, <3>3 DEF Regot
    <3> QED BY <3>4 DEF r, nb
  <2>11. CASE ~stays /\ ~grows /\ joins
    <3>1. r = Is(Split(Unlink(h, next), p, room + size, nb), p) BY <1>1, <1>4, <2>11
    <3>2. p + z[p] \in fr /\ z[p] + z[p + z[p]] >= nb /\ room + size = z[p] + z[p + z[p]]
      <4>1. next = p + z[p] BY <1>2
      <4>2. next \in fr /\ room = z[next] /\ z[next] + z[p] >= nb BY <1>2, <2>6, <2>11
      <4>3. z[p] + z[next] = z[next] + z[p] BY <2>4
      <4> QED BY <1>2, <4>1, <4>2, <4>3
    <3>3. r = Is(Split(Unlink(h, p + z[p]), p, z[p] + z[p + z[p]], nb), p)
      BY <1>2, <3>1, <3>2
    <3> HIDE DEF r, nb
    <3>4. Given([heap |-> Split(Unlink(h, p + z[p]), p, z[p] + z[p + z[p]], nb), got |-> p],
                (C \ fr) \ {p}, z, F, nb) BY <2>2, <3>2, StayGood
    <3>5. Regot(r, U, z, F, p, nb) BY <3>3, <3>4 DEF Regot
    <3> QED BY <3>5 DEF r, nb
  <2>12. CASE ~stays /\ ~grows /\ ~joins /\ backTop
    <3>1. r = Is(IntoTop(ShiftBack(h, prev, p), prev, nb), prev) BY <1>1, <1>4, <2>12
    <3>2. PICK f \in fr : /\ f + z[f] = p /\ prev = f /\ behind = z[p] + z[f]
                          /\ f \in Nat /\ z[f] \in Nat BY <2>8, <2>12
    <3> DEFINE k == Copy(Unlink(h, f), f + 2, p + 2, z[p] - 1)
    <3>3. ShiftBack(h, prev, p) = k BY <1>2, <3>2 DEF ShiftBack
    <3>4. p + z[p] = h.top /\ next = h.top BY <1>2, <2>12
    <3>5. (z[f] + z[p]) + z[h.top] >= nb + MINSIZE
      <4>1. z[next] + (z[p] + z[f]) >= nb + MINSIZE BY <2>5, <2>12, <3>2
      <4>2. \A a, b, c \in Nat : a + (b + c) = (c + b) + a OBVIOUS
      <4>3. z[next] + (z[p] + z[f]) = (z[f] + z[p]) + z[next] BY <2>4, <3>2, <4>2
      <4> HIDE DEF next, nb
      <4> QED BY <3>4, <4>1, <4>3
    <3>6. p + z[p] \notin fr BY <1>2, <3>4
    <3> HIDE DEF nb
    <3>7. Given([heap |-> IntoTop(k, f, nb), got |-> f], (C \ fr) \ {p}, z, F, nb)
      BY <2>2, <3>2, <3>4, <3>5, <3>6, BackAloneGood
    <3>8. r = Is(IntoTop(k, f, nb), f) BY <3>1, <3>2, <3>3
    <3> HIDE DEF r, k
    <3>9. Regot(r, U, z, F, p, nb) BY <3>7, <3>8 DEF Regot
    <3> QED BY <3>9 DEF r, nb
  <2>13. CASE ~stays /\ ~grows /\ ~joins /\ ~backTop /\ backForth
    <3>1. r = Is(Split(ShiftBack(Unlink(h, next), prev, p), prev, room + behind, nb), prev)
      BY <1>1, <1>4, <2>13
    <3>2. PICK f \in fr : /\ f + z[f] = p /\ prev = f /\ behind = z[p] + z[f]
                          /\ f \in Nat /\ z[f] \in Nat BY <2>8, <2>13
    <3>3. p + z[p] \in fr /\ next = p + z[p] /\ room = z[p + z[p]] BY <1>2, <2>6, <2>13
    <3> DEFINE k1 == Unlink(h, p + z[p])
               k == Copy(Unlink(k1, f), f + 2, p + 2, z[p] - 1)
               n == z[p + z[p]] + (z[p] + z[f])
    <3>4. k1.mem = h.mem
      <4>1. Relinked(k1, h, Unlinked(h.bins, p + z[p])) BY UnlinkIs DEF Good
      <4> QED BY <4>1 DEF Relinked, Linked
    <3>5. Size(k1, p) = Size(h, p) BY <3>4 DEF Size
    <3> HIDE DEF k1
    <3>6. ShiftBack(k1, f, p) = k BY <1>2, <3>5 DEF ShiftBack
    <3>7. r = Is(Split(k, f, n, nb), f) BY <3>1, <3>2, <3>3, <3>6 DEF k1
    <3>8. n >= nb BY <2>13, <3>2, <3>3
    <3> HIDE DEF nb
    <3>9. Given([heap |-> Split(k, f, n, nb), got |-> f], (C \ fr) \ {p}, z, F, nb)
      BY <2>2, <3>2, <3>3, <3>8, BackForthGood DEF k1
    <3> HIDE DEF r, k, n
    <3>10. Regot(r, U, z, F, p, nb) BY <3>7, <3>9 DEF Regot
    <3> QED BY <3>10 DEF r, nb
  <2>14. CASE ~stays /\ ~grows /\ ~joins /\ ~backTop /\ ~backForth /\ backs
    <3>1. r = Is(Split(ShiftBack(h, prev, p), prev, behind, nb), prev)
      BY <1>1, <1>4, <2>14
    <3>2. PICK f \in fr : /\ f + z[f] = p /\ prev = f /\ behind = z[p] + z[f]
                          /\ f \in Nat /\ z[f] \in Nat BY <2>8, <2>14
    <3> DEFINE k == Copy(Unlink(h, f), f + 2, p + 2, z[p] - 1)
               n == z[f] + z[p]
    <3>3. ShiftBack(h, prev, p) = k BY <1>2, <3>2 DEF ShiftBack
    <3>4. behind = n /\ n \in Nat BY <2>4, <3>2
    <3>5. n >= nb BY <2>14, <3>4
    <3>6. p + z[p] \notin fr
      <4>1. ASSUME next \in fr
            PROVE  FALSE
        <5>1. ~atTop BY <1>2, <4>1
        <5>2. forth /\ room = z[next] BY <2>7, <4>1, <5>1
        <5>3. z[next] + behind >= nb
          <6> HIDE DEF n, nb, next, behind
          <6> QED BY <2>4, <3>4, <3>5
        <5> QED BY <2>14, <5>2, <5>3
      <4> QED BY <1>2, <4>1
    <3>7. r = Is(Split(k, f, n, nb), f) BY <3>1, <3>2, <3>3, <3>4
    <3> HIDE DEF nb
    <3>8. Given([heap |-> Split(k, f, n, nb), got |-> f], (C \ fr) \ {p}, z, F, nb)
      BY <2>2, <3>2, <3>5, <3>6, BackAloneGood
    <3> HIDE DEF r, k, n
    <3>9. Regot(r, U, z, F, p, nb) BY <3>7, <3>8 DEF Regot
    <3> QED BY <3>9 DEF r, nb
  <2>15. CASE ~stays /\ ~grows /\ ~joins /\ ~backTop /\ ~backForth /\ ~backs
    <3>1. r = MoveTo(malloc(h, bytes), p, nb) BY <1>1, <1>4, <2>15
    <3>2. z[p] < nb BY <1>2, <2>4, <2>15
    <3>3. Sound(h, U, z, F) BY SoundItself
    <3>4. Got(malloc(h, bytes), U, z, F, nb)
      <4> HIDE DEF U
      <4> QED BY <3>3, MallocGood
    <3> HIDE DEF r, nb
    <3>5. nb \in Nat /\ nb >= MINSIZE /\ nb % 2 = 0 /\ z[p] < nb BY <2>2, <3>2 DEF NbOk
    <3>6. p \in U OBVIOUS
    <3> HIDE DEF U
    <3>7. Regot(MoveTo(malloc(h, bytes), p, nb), U, z, F, p, nb)
      BY <3>4, <3>5, <3>6, MoveToGood
    <3> QED BY <3>1, <3>7 DEF r, nb, U
  <2> QED BY <2>9, <2>10, <2>11, <2>12, <2>13, <2>14, <2>15
<1> QED BY <1>3, <1>4

LEMMA RegotSizes ==
    ASSUME NEW r, NEW U, NEW s, NEW F, NEW p, NEW nb, Regot(r, U, s, F, p, nb),
           NEW t, \A x \in U : s[x] = t[x]
    PROVE  Regot(r, U, t, F, p, nb)
<1>1. CASE Given(r, U \ {p}, s, F, nb)
  <2>1. \A x \in U \ {p} : s[x] = t[x] OBVIOUS
  <2>2. Given(r, U \ {p}, t, F, nb) BY <1>1, <2>1, GivenSizes
  <2> QED BY <2>2 DEF Regot
<1>2. CASE r.got = Null /\ Sound(r.heap, U, s, F)
  <2>1. Sound(r.heap, U, t, F) BY <1>2, SoundSizes
  <2> QED BY <1>2, <2>1 DEF Regot
<1> QED BY <1>1, <1>2 DEF Regot

LEMMA ReallocSound ==
    ASSUME NEW h, NEW U, NEW s, NEW F, Sound(h, U, s, F), NEW p \in U, NEW bytes, Asking(bytes)
    PROVE  Regot(realloc(h, p, bytes), U, s, F, p, request2size(bytes))
<1>1. PICK C, S, z, fr : /\ Good(h, C, S, z, fr, F)
                         /\ C \ fr = U /\ \A x \in U : z[x] = s[x] BY DEF Sound
<1>2. p \in C \ fr BY <1>1
<1>3. Regot(realloc(h, p, bytes), C \ fr, z, F, p, request2size(bytes))
  BY <1>1, <1>2, ReallocGood
<1>4. Regot(realloc(h, p, bytes), U, z, F, p, request2size(bytes)) BY <1>1, <1>3
<1> QED BY <1>1, <1>4, RegotSizes

-----------------------------------------------------------------------------
(* memalign *)

LEMMA RequestIs ==
    ASSUME NEW n \in Nat, n + 2 < Half
    PROVE  NbOk(request2size(n)) /\ n + 1 <= request2size(n) /\ request2size(n) <= n + 4
<1> DEFINE e == (n + 2) % Word
<1>1. Word \in Nat \ {0} /\ Half \in Nat \ {0} /\ Word = 2 * Half BY Bounds
<1>2. e = n + 2
  <2>1. n + 2 \in Nat /\ n + 2 < Word BY <1>1
  <2> QED BY <1>1, <2>1, NoWrap
<1>3. request2size(n) = IF Signed(e) < MINSIZE + 1 THEN MINSIZE ELSE Even(e)
  BY DEF request2size
<1> HIDE DEF e
<1>4. Signed(e) = n + 2 BY <1>2 DEF Signed
<1>5. CASE n + 2 < 5
  <2>1. request2size(n) = 4 BY <1>3, <1>4, <1>5 DEF MINSIZE
  <2> HIDE DEF request2size
  <2> QED BY <1>5, <2>1 DEF NbOk, MINSIZE
<1>6. CASE ~(n + 2 < 5)
  <2>1. request2size(n) = (n + 2) - ((n + 2) % 2)
    BY <1>2, <1>3, <1>4, <1>6 DEF MINSIZE, Even
  <2> HIDE DEF request2size
  <2> QED BY <1>6, <2>1 DEF NbOk, MINSIZE
<1> QED BY <1>5, <1>6

LEMMA AskingIs ==
    ASSUME NEW n, Asks(n), NEW pad \in Pads
    PROVE  /\ Asking(n) /\ n < Half /\ NbOk(request2size(n))
           /\ n + 1 <= request2size(n) /\ request2size(n) <= n + 4
<1> DEFINE nb == request2size(n)
<1>1. \A q \in Pads : q \in Nat BY PadBound
<1>2. Half \in Nat /\ Page \in Nat /\ Page > 0 BY Bounds
<1>3. n \in Nat /\ n + pad + 2 * Page + 8 <= Half /\ pad \in Nat BY <1>1 DEF Asks
<1>4. n + 2 < Half BY <1>2, <1>3
<1>5. NbOk(nb) /\ n + 1 <= nb /\ nb <= n + 4 BY <1>3, <1>4, RequestIs
<1> HIDE DEF nb
<1>6. \A q \in Pads : nb + q + 2 * Page + MINSIZE <= Half
  <2> TAKE q \in Pads
  <2>1. q \in Nat /\ n + q + 2 * Page + 8 <= Half BY <1>1 DEF Asks
  <2> QED BY <1>2, <1>3, <1>5, <2>1 DEF NbOk, MINSIZE
<1>7. Askable(nb) BY <1>5, <1>6 DEF Askable, NbOk
<1> QED BY <1>2, <1>3, <1>4, <1>5, <1>7 DEF Asking, nb

LEMMA GivenGood ==
    ASSUME NEW r, NEW U, NEW s, NEW F, NEW nb
    PROVE  Given(r, U, s, F, nb) <=> \E C, S, z, fr : GivenIn(r, U, s, F, nb, C, S, z, fr)
<1>1. ASSUME Given(r, U, s, F, nb)
      PROVE  \E C, S, z, fr : GivenIn(r, U, s, F, nb, C, S, z, fr)
  <2>1. PICK t : /\ Sound(r.heap, U \cup {r.got}, t, F) /\ r.got \notin U /\ r.got # Null
                 /\ t[r.got] >= nb /\ \A x \in U : t[x] = s[x] BY <1>1 DEF Given
  <2>2. PICK C, S, z, fr : /\ Good(r.heap, C, S, z, fr, F)
                           /\ C \ fr = U \cup {r.got} /\ \A x \in U \cup {r.got} : z[x] = t[x]
    BY <2>1 DEF Sound
  <2>3. z[r.got] >= nb /\ \A x \in U : z[x] = s[x] BY <2>1, <2>2
  <2>4. GivenIn(r, U, s, F, nb, C, S, z, fr) BY <2>1, <2>2, <2>3 DEF GivenIn
  <2> QED BY <2>4
<1>2. ASSUME NEW C, NEW S, NEW z, NEW fr, GivenIn(r, U, s, F, nb, C, S, z, fr)
      PROVE  Given(r, U, s, F, nb)
  <2>1. /\ Good(r.heap, C, S, z, fr, F) /\ C \ fr = U \cup {r.got} /\ r.got \notin U
        /\ r.got # Null /\ z[r.got] >= nb /\ \A x \in U : z[x] = s[x] BY <1>2 DEF GivenIn
  <2>2. Sound(r.heap, C \ fr, z, F) BY <2>1, SoundItself
  <2>3. Sound(r.heap, U \cup {r.got}, z, F) BY <2>1, <2>2
  <2> QED BY <2>1, <2>3 DEF Given
<1> QED BY <1>1, <1>2

(* A chunk in use cut in two, the second part first *)
LEMMA AlignCuts ==
    ASSUME NEW h, NEW C, NEW S, NEW z, NEW fr, NEW F, Good(h, C, S, z, fr, F), NEW p \in C \ fr,
           NEW nb, IsRest(z, p, nb)
    PROVE  LET k == SetHeadSize(SetHead(h, p + nb, z[p] - nb, 1), p, nb)
               k3 == MarkInUse(k, p + z[p])
           IN /\ CutMem(k.mem, h.mem, z, fr, p, nb) /\ Rewritten(k, h, k.mem)
              /\ CutMem(k3.mem, h.mem, z, fr, p, nb) /\ Rewritten(k3, h, k3.mem)
<1> DEFINE rest == p + nb
           next == p + z[p]
           m1 == [h.mem EXCEPT ![rest + 1] = Header(z[p] - nb, 1)]
           h1 == SetHead(h, rest, z[p] - nb, 1)
           b == PrevInUse(h1, p)
           m2 == [m1 EXCEPT ![p + 1] = Header(nb, b)]
           h2 == SetHead(h1, p, nb, b)
           n == Size(h2, next)
           h3 == SetHead(h2, next, n, 1)
           m3 == [m2 EXCEPT ![next + 1] = Header(n, 1)]
<1>1. Held(h, C, S, z, fr, F, p) BY GoodHeld
<1>2. /\ p \in Nat /\ nb \in Nat /\ z[p] \in Nat /\ nb >= 4 /\ z[p] - nb >= 4
      /\ p + 1 \in Start .. End - 1 /\ rest + 1 \in Start .. End - 1
      /\ next + 1 \in Start .. End - 1 /\ p + 1 # rest + 1 /\ p + 1 # next + 1
      /\ rest + 1 # next + 1 /\ h.mem \in [Start .. End - 1 -> Int]
      /\ z[next] \in Nat /\ Bit(z, fr, p) \in {0, 1} /\ z[p] - nb \in Nat
  BY <1>1, CutWords
<1>3. IsHeap(h) /\ next # InitialTop
  <2>1. next # InitialTop BY <1>2 DEF InitialTop
  <2> QED BY <2>1 DEF Good
<1>4. Rewritten(h1, h, m1) BY <1>3, SetHeadIs
<1>5. IsHeap(h1) /\ h1.mem = m1 BY <1>4 DEF Rewritten, Settings
<1>6. b = Bit(z, fr, p)
  <2>1. h1.mem[p + 1] = h.mem[p + 1] BY <1>2, <1>5
  <2>2. PrevInUse(h, p) = Bit(z, fr, p) BY <1>1, HeldReads
  <2> HIDE DEF h1
  <2> QED BY <2>1, <2>2 DEF PrevInUse
<1> HIDE DEF h1, b
<1>7. Rewritten(h2, h1, m2) BY <1>5, SetHeadIs
<1>8. IsHeap(h2) /\ h2.mem = m2 BY <1>7 DEF Rewritten, Settings
<1>9. Size(h, next) = z[next] BY <1>1, HeldReads
<1>10. n = z[next]
  <2>1. h2.mem[next + 1] = h.mem[next + 1] BY <1>2, <1>8
  <2> QED BY <1>9, <2>1 DEF Size
<1> HIDE DEF h2, n
<1>11. Rewritten(h3, h2, m3) BY <1>8, SetHeadIs
<1> HIDE DEF h3
<1>12. Rewritten(h2, h, m2) /\ Rewritten(h3, h, m3)
  <2>1. Rewritten(h2, h, m2) BY <1>4, <1>7, RewrittenAgain
  <2> QED BY <1>11, <2>1, RewrittenAgain
<1>13. Header(nb, b) \in Int /\ Header(z[p] - nb, 1) \in Int /\ Header(n, 1) \in Int
  BY <1>2, <1>6, <1>10, HeaderInt
<1>14. m1 \in [Start .. End - 1 -> Int] /\ m2 \in [Start .. End - 1 -> Int]
       /\ m3 \in [Start .. End - 1 -> Int] BY <1>2, <1>13
<1>15. h.mem[next + 1] = Header(n, 1)
  <2>1. Loose(h.mem, C, S, z, h.top, h.brk, ToSet(h.regions), F, fr, p) BY <1>1 DEF Held
  <2>2. next \in Pieces(C, S, h.top) /\ Bit(z, fr, next) = 1 BY <2>1, LooseFacts
  <2>3. PrevInUse(h, next) = 1 BY <2>2, Readings
  <2>4. h.mem[next + 1] \div 2 = n /\ h.mem[next + 1] % 2 = 1
    BY <1>3, <1>9, <1>10, <2>3 DEF PrevInUse, Size
  <2>5. h.mem[next + 1] \in Int BY <1>2
  <2>6. \A w \in Int : w = 2 * (w \div 2) + (w % 2) OBVIOUS
  <2> QED BY <2>4, <2>5, <2>6 DEF Header
<1> HIDE DEF rest, next
<1>16. m2[p + 1] = Header(nb, b) /\ m2[rest + 1] = Header(z[p] - nb, 1)
       /\ \A a \in Start .. End - 1 : a \notin {p + 1, rest + 1} => m2[a] = h.mem[a]
  BY <1>2, <1>14
<1>17. m2[next + 1] = Header(n, 1) BY <1>2, <1>15, <1>16
<1>18. m3[p + 1] = Header(nb, b) /\ m3[rest + 1] = Header(z[p] - nb, 1) /\ m3[next + 1] = Header(n, 1)
       /\ \A a \in Start .. End - 1 : a \notin {p + 1, rest + 1, next + 1} => m3[a] = h.mem[a]
  BY <1>2, <1>14
<1> HIDE DEF m3, m2
<1>19. CutMem(m2, h.mem, z, fr, p, nb)
  <2>1. \A a \in Start .. End - 1 : a \notin {p + 1, rest + 1, next + 1} => m2[a] = h.mem[a]
    BY <1>16
  <2> QED BY <1>6, <1>10, <1>14, <1>16, <1>17, <2>1 DEF CutMem, rest, next
<1>20. CutMem(m3, h.mem, z, fr, p, nb) BY <1>6, <1>10, <1>14, <1>18 DEF CutMem, rest, next
<1>21. h3.mem = m3 /\ h2.mem = m2 BY <1>12 DEF Rewritten
<1>22. h2 = SetHeadSize(SetHead(h, p + nb, z[p] - nb, 1), p, nb)
  BY DEF h2, h1, b, SetHeadSize, rest
<1>23. h3 = MarkInUse(h2, p + z[p]) BY DEF h3, n, MarkInUse, next
<1> QED BY <1>12, <1>19, <1>20, <1>21, <1>22, <1>23

LEMMA AlignUp ==
    ASSUME NEW p \in Nat, p % 2 = 0, NEW a \in Nat, a % 2 = 0, a >= 4, (p + 2) % a # 0
    PROVE  LET up == ((p + 2 + a - 1) \div a) * a - 2
               new == IF up - p < MINSIZE THEN up + a ELSE up
           IN new - p \in Nat /\ (new - p) % 2 = 0 /\ new - p >= 4 /\ new - p <= a + 2
<1> DEFINE x == p + 2
           y == p + 2 + a - 1
           q == y \div a
           w == a * q
           up == q * a - 2
           new == IF up - p < MINSIZE THEN up + a ELSE up
<1>1. y \in Nat /\ y = x + a - 1 OBVIOUS
<1>2. q \in Nat /\ a * q <= y /\ y < a * q + a
  <2> HIDE DEF y
  <2> QED BY <1>1, Division
<1> HIDE DEF y, q
<1>3. w \in Nat /\ w <= x + a - 1 /\ x + a - 1 < w + a
  <2>1. \A m, n \in Nat : m * n \in Nat OBVIOUS
  <2> QED BY <1>1, <1>2, <2>1
<1>4. w % 2 = 0
  <2>1. a = 2 * (a \div 2) /\ a \div 2 \in Nat OBVIOUS
  <2>2. \A c, m \in Nat : (2 * c) * m = 2 * (c * m) /\ c * m \in Nat OBVIOUS
  <2>3. w = 2 * ((a \div 2) * q) /\ (a \div 2) * q \in Nat BY <1>2, <2>1, <2>2
  <2>4. \A c \in Nat : (2 * c) % 2 = 0 OBVIOUS
  <2> HIDE DEF w
  <2> QED BY <2>3, <2>4
<1>5. x # w
  <2>1. ASSUME x = w
        PROVE  FALSE
    <3>1. x \in Int /\ a \in Nat \ {0} /\ 0 \in 0 .. a - 1 /\ x = a * q + 0
      BY <1>2, <1>3, <2>1
    <3>2. x % a = 0
      <4> HIDE DEF x
      <4> QED BY <1>2, <3>1, Quotient
    <3> QED BY <3>2
  <2> QED BY <2>1
<1>6. up = w - 2 BY <1>2, <1>3
<1> HIDE DEF w, up
<1>7. up - p \in Nat /\ (up - p) % 2 = 0 /\ up - p >= 2 /\ up - p < a
  <2>1. up - p = w - x BY <1>3, <1>6
  <2>2. w - x >= 1 /\ w - x < a /\ w - x \in Int BY <1>3, <1>5
  <2>3. (w - x) % 2 = 0 BY <1>3, <1>4
  <2> QED BY <2>1, <2>2, <2>3
<1>8. new - p \in Nat /\ (new - p) % 2 = 0 /\ new - p >= 4 /\ new - p <= a + 2
  <2>1. CASE up - p < 4
    <3>1. new - p = (up - p) + a BY <1>3, <1>6, <2>1 DEF MINSIZE
    <3> DEFINE d == up - p
    <3>2. d \in Nat /\ d % 2 = 0 /\ d >= 2 /\ d < 4 BY <1>7, <2>1
    <3> HIDE DEF d
    <3>3. d = 2 BY <3>2
    <3>4. new - p = 2 + a BY <3>1, <3>3 DEF d
    <3> HIDE DEF new
    <3> QED BY <3>4
  <2>2. CASE ~(up - p < 4)
    <3>1. new - p = up - p BY <2>2 DEF MINSIZE
    <3> QED BY <1>7, <2>2, <3>1
  <2> QED BY <2>1, <2>2
<1> QED BY <1>8 DEF up, q, y

(* A first part that is even and not all of the chunk is freed. *)
LEMMA LeaderFreed ==
    ASSUME NEW m, NEW U, NEW s, NEW F, NEW C, NEW S, NEW z, NEW fr, NEW n,
           GivenIn(m, U, s, F, n, C, S, z, fr), NEW d, IsRest(z, m.got, d),
           NEW nb, z[m.got] - d >= nb
    PROVE  LET p == m.got
               size == Size(m.heap, p) - d
               h1 == SetHeadSize(SetHead(m.heap, p + d, size, 1), p, d)
           IN Given([heap |-> free(MarkInUse(h1, p + Size(m.heap, p)), p), got |-> p + d], U, s, F, nb)
<1> DEFINE p == m.got
           h == m.heap
           k == SetHeadSize(SetHead(h, p + d, z[p] - d, 1), p, d)
           k3 == MarkInUse(k, p + z[p])
           z2 == CarvedSizes(z, p, d)
           D == C \cup {p + d}
           new == p + d
<1>1. /\ Good(h, C, S, z, fr, F) /\ C \ fr = U \cup {p} /\ p \notin U /\ p \in C \ fr
      /\ p # Null /\ \A x \in U : z[x] = s[x] BY DEF GivenIn
<1>2. Size(h, p) = z[p] BY <1>1, ReallocReads
<1>3. Held(h, C, S, z, fr, F, p) BY <1>1, GoodHeld
<1>4. CutMem(k3.mem, h.mem, z, fr, p, d) /\ Rewritten(k3, h, k3.mem) BY <1>1, AlignCuts
<1> HIDE DEF k3
<1>5. Good(k3, C \cup {p + d}, S, CarvedSizes(z, p, d), fr, F) /\ IsCarved(C, z, fr, p, d)
  BY <1>3, <1>4, CutGood
<1>6. /\ new \notin C /\ z2[new] = z[p] - d /\ fr \in SUBSET C
      /\ \A x \in C \ {p} : z2[x] = z[x] BY <1>5 DEF IsCarved
<1>7. (D \ fr) \ {p} = U \cup {new} /\ p \in D \ fr /\ new \notin U /\ new # Null
  <2>1. p \in Nat /\ p # 0 /\ d \in Nat BY <1>1, GoodParts DEF IsRest
  <2>2. new # p /\ new # 0 BY <2>1 DEF IsRest, MINSIZE
  <2> HIDE DEF new
  <2>3. D = C \cup {new} BY DEF new
  <2> QED BY <1>1, <1>6, <2>2, <2>3 DEF Null
<1> HIDE DEF z2
<1>8. Sound(free(k3, p), (D \ fr) \ {p}, z2, F)
  <2>1. Good(k3, D, S, z2, fr, F) BY <1>5 DEF z2
  <2> HIDE DEF D
  <2> QED BY <1>7, <2>1, FreeGood
<1>9. \A x \in U : z2[x] = s[x] BY <1>1, <1>6
<1> DEFINE r == [heap |-> free(k3, p), got |-> new]
<1>10. Sound(r.heap, U \cup {r.got}, z2, F) /\ r.got \notin U /\ r.got # Null /\ z2[r.got] >= nb
  BY <1>6, <1>7, <1>8
<1> HIDE DEF r
<1>11. Given(r, U, s, F, nb) BY <1>9, <1>10 DEF Given
<1> QED BY <1>2, <1>11 DEF r, k3

LEMMA FreeLeaderGood ==
    ASSUME NEW m, NEW U, NEW s, NEW F, NEW nb, NbOk(nb), NEW a \in Nat, a % 2 = 0, a >= 4,
           Given(m, U, s, F, nb + a + 5)
    PROVE  Given(FreeLeader(m, a), U, s, F, nb)
<1>1. PICK C, S, z, fr : GivenIn(m, U, s, F, nb + a + 5, C, S, z, fr) BY GivenGood
<1> DEFINE p == m.got
           size == Size(m.heap, p)
           up == ((p + 2 + a - 1) \div a) * a - 2
           new == IF up - p < MINSIZE THEN up + a ELSE up
           d == new - p
<1>2. /\ Good(m.heap, C, S, z, fr, F) /\ C \ fr = U \cup {p} /\ p \in C \ fr
      /\ z[p] >= nb + a + 5 BY <1>1 DEF GivenIn
<1>3. size = z[p] /\ Held(m.heap, C, S, z, fr, F, p) BY <1>2, ReallocReads, GoodHeld
<1>4. p \in Nat /\ p % 2 = 0 /\ z[p] \in Nat /\ z[p] % 2 = 0
  <2>1. Loose(m.heap.mem, C, S, z, m.heap.top, m.heap.brk, ToSet(m.heap.regions), F, fr, p)
    BY <1>3 DEF Held
  <2> QED BY <2>1, LooseFacts
<1>5. nb \in Nat /\ nb >= 4 BY DEF NbOk, MINSIZE
<1>6. CASE (p + 2) % a = 0
  <2>1. FreeLeader(m, a) = m BY <1>6 DEF FreeLeader
  <2>2. z[p] >= nb BY <1>2, <1>4, <1>5
  <2>3. GivenIn(m, U, s, F, nb, C, S, z, fr) BY <1>1, <2>2 DEF GivenIn
  <2> QED BY <2>1, <2>3, GivenGood
<1>7. CASE (p + 2) % a # 0
  <2>1. d \in Nat /\ d % 2 = 0 /\ d >= 4 /\ d <= a + 2 BY <1>4, <1>7, AlignUp
  <2> DEFINE h1 == SetHeadSize(SetHead(m.heap, new, size - d, 1), p, d)
  <2>2. FreeLeader(m, a) = [heap |-> free(MarkInUse(h1, new + (size - d)), p), got |-> new]
    BY <1>7 DEF FreeLeader
  <2>3. new \in Int
    <3>1. up \in Int
      <4>1. (p + 2 + a - 1) \div a \in Int
        <5>1. p + 2 + a - 1 \in Nat /\ a \in Nat \ {0} BY <1>4
        <5> QED BY <5>1, Division
      <4> QED BY <4>1
    <3> HIDE DEF up
    <3> QED BY <3>1
  <2> HIDE DEF new
  <2>4. new = p + d BY <1>4, <2>3
  <2> HIDE DEF d
  <2>5. new + (size - d) = p + size BY <1>3, <1>4, <2>1, <2>4
  <2>6. IsRest(z, p, d) /\ z[p] - d >= nb
    <3> DEFINE c == z[p]
    <3>1. c \in Nat /\ c >= nb + a + 5 BY <1>2, <1>4
    <3> HIDE DEF c
    <3>2. c - d >= nb /\ c - d >= 4 BY <1>5, <2>1, <3>1
    <3> QED BY <2>1, <3>2 DEF IsRest, c, MINSIZE
  <2>7. Given([heap |-> free(MarkInUse(SetHeadSize(SetHead(m.heap, p + d, size - d, 1), p, d), p + size), p),
               got |-> p + d], U, s, F, nb) BY <1>1, <2>6, LeaderFreed
  <2> QED BY <2>2, <2>4, <2>5, <2>7
<1> QED BY <1>6, <1>7

LEMMA FreeSpareGood ==
    ASSUME NEW m, NEW U, NEW s, NEW F, NEW nb, NbOk(nb), Given(m, U, s, F, nb)
    PROVE  Given(FreeSpare(m, nb), U, s, F, nb)
<1>1. PICK C, S, z, fr : GivenIn(m, U, s, F, nb, C, S, z, fr) BY GivenGood
<1> DEFINE p == m.got
           h == m.heap
           spare == Size(h, p) - nb
           k == SetHeadSize(SetHead(h, p + nb, z[p] - nb, 1), p, nb)
           z2 == CarvedSizes(z, p, nb)
           D == C \cup {p + nb}
           rest == p + nb
<1>2. /\ Good(h, C, S, z, fr, F) /\ C \ fr = U \cup {p} /\ p \notin U /\ p \in C \ fr
      /\ p # Null /\ \A x \in U : z[x] = s[x] BY <1>1 DEF GivenIn
<1>3. Size(h, p) = z[p] /\ Held(h, C, S, z, fr, F, p) BY <1>2, ReallocReads, GoodHeld
<1>4. CASE ~(spare >= MINSIZE)
  <2>1. FreeSpare(m, nb) = m BY <1>4 DEF FreeSpare
  <2> QED BY <2>1
<1>5. CASE spare >= MINSIZE
  <2>1. FreeSpare(m, nb) = [heap |-> free(k, rest), got |-> p] BY <1>3, <1>5 DEF FreeSpare
  <2>2. IsRest(z, p, nb) BY <1>3, <1>5 DEF IsRest, NbOk
  <2>3. CutMem(k.mem, h.mem, z, fr, p, nb) /\ Rewritten(k, h, k.mem)
    BY <1>2, <2>2, AlignCuts
  <2> HIDE DEF k
  <2>4. Good(k, C \cup {p + nb}, S, CarvedSizes(z, p, nb), fr, F) /\ IsCarved(C, z, fr, p, nb)
    BY <1>3, <2>2, <2>3, CutGood
  <2>5. /\ rest \notin C /\ z2[p] = nb /\ fr \in SUBSET C
        /\ \A x \in C \ {p} : z2[x] = z[x] BY <2>4 DEF IsCarved
  <2>6. rest \in D \ fr /\ (D \ fr) \ {rest} = U \cup {p}
    <3>1. D = C \cup {rest} OBVIOUS
    <3> HIDE DEF rest, D
    <3> QED BY <1>2, <2>5, <3>1
  <2>7. Good(k, D, S, z2, fr, F) BY <2>4
  <2> HIDE DEF z2, D, rest
  <2>8. Sound(free(k, rest), (D \ fr) \ {rest}, z2, F) BY <2>6, <2>7, FreeGood
  <2>9. \A x \in U : z2[x] = s[x] BY <1>2, <2>5
  <2> DEFINE r == [heap |-> free(k, rest), got |-> p]
  <2>10. nb >= nb BY DEF NbOk
  <2>11. Sound(r.heap, U \cup {r.got}, z2, F) /\ r.got \notin U /\ r.got # Null /\ z2[r.got] >= nb
    BY <1>2, <2>5, <2>6, <2>8, <2>10
  <2> HIDE DEF r
  <2>12. Given(r, U, s, F, nb) BY <2>9, <2>11 DEF Given
  <2> QED BY <2>1, <2>12 DEF r
<1> QED BY <1>4, <1>5

LEMMA GivenLess ==
    ASSUME NEW r, NEW U, NEW s, NEW F, NEW n \in Nat, NEW nb \in Nat, nb <= n,
           Given(r, U, s, F, n)
    PROVE  Given(r, U, s, F, nb)
<1>1. PICK C, S, z, fr : GivenIn(r, U, s, F, n, C, S, z, fr) BY GivenGood
<1>2. Good(r.heap, C, S, z, fr, F) /\ r.got \in C /\ z[r.got] >= n BY <1>1 DEF GivenIn
<1>3. z[r.got] \in Nat
  <2>1. Laid(C, S, z, r.heap.top, r.heap.brk, ToSet(r.heap.regions), F) BY <1>2, GoodParts
  <2> QED BY <1>2, <2>1, WordsApart DEF Pieces
<1>4. z[r.got] >= nb BY <1>2, <1>3
<1>5. GivenIn(r, U, s, F, nb, C, S, z, fr) BY <1>1, <1>4 DEF GivenIn
<1> QED BY <1>5, GivenGood

LEMMA MemalignGood ==
    ASSUME NEW h, NEW U, NEW s, NEW F, Sound(h, U, s, F), NEW bytes, NEW a, MayAlign(bytes, a)
    PROVE  Got(memalign(h, a, bytes), U, s, F, request2size(bytes))
<1>1. h.pad \in Pads BY DEF Sound, Good
<1>2. bytes \in Nat /\ a \in Nat /\ a % 2 = 0 /\ \A pad \in Pads : pad \in Nat
  BY PadBound DEF MayAlign
<1>3. Half \in Nat /\ Page \in Nat /\ Word \in Nat \ {0} /\ Word = 2 * Half BY Bounds
<1>4. Asks(bytes)
  <2>1. \A pad \in Pads : bytes + pad + 2 * Page + 8 <= Half
    <3> TAKE pad \in Pads
    <3>1. bytes + a + pad + 2 * Page + 16 <= Half /\ pad \in Nat BY <1>2 DEF MayAlign
    <3> QED BY <1>2, <1>3, <3>1
  <2> QED BY <1>2, <2>1 DEF Asks
<1> DEFINE nb == request2size(bytes)
           al == IF a < MINSIZE THEN MINSIZE ELSE a
           asked == (nb + al + MINSIZE) % Word
           r == memalign(h, a, bytes)
           m == malloc(h, asked)
<1>5. /\ Asking(bytes) /\ bytes < Half /\ NbOk(nb) /\ bytes + 1 <= nb /\ nb <= bytes + 4
  BY <1>1, <1>4, AskingIs
<1>6. r = IF a <= ALIGNMENT THEN malloc(h, bytes) ELSE Align(m, al, nb)
  <2>1. ~(bytes >= Half) BY <1>2, <1>3, <1>5
  <2> QED BY <2>1 DEF memalign
<1>7. CASE a <= ALIGNMENT
  <2>1. Got(malloc(h, bytes), U, s, F, nb) BY <1>5, MallocGood
  <2> QED BY <1>6, <1>7, <2>1
<1>8. CASE ~(a <= ALIGNMENT)
  <2> HIDE DEF nb, r
  <2>1. a >= 4 /\ al = a BY <1>2, <1>8 DEF ALIGNMENT, MINSIZE
  <2>2. nb \in Nat BY <1>5 DEF NbOk
  <2> DEFINE x == nb + a + 4
  <2>3. x \in Nat /\ \A pad \in Pads : x + pad + 2 * Page + 8 <= Half
    <3>1. x \in Nat BY <1>2, <2>2
    <3>2. \A pad \in Pads : x + pad + 2 * Page + 8 <= Half
      <4> TAKE pad \in Pads
      <4>1. bytes + a + pad + 2 * Page + 16 <= Half /\ pad \in Nat BY <1>2 DEF MayAlign
      <4> QED BY <1>2, <1>3, <1>5, <2>2, <4>1
    <3> QED BY <3>1, <3>2
  <2>4. asked = x
    <3>1. x < Word
      <4>1. x + h.pad + 2 * Page + 8 <= Half /\ h.pad \in Nat BY <1>1, <1>2, <2>3
      <4> HIDE DEF x
      <4> QED BY <1>3, <2>3, <4>1
    <3>2. asked = x % Word BY <2>1 DEF MINSIZE
    <3> HIDE DEF x, asked
    <3> QED BY <1>3, <2>3, <3>1, <3>2, NoWrap
  <2>5. Asks(x) BY <2>3 DEF Asks
  <2> DEFINE n == request2size(x)
  <2>6. Asking(x) /\ NbOk(n) /\ x + 1 <= n
    <3> HIDE DEF x
    <3> QED BY <1>1, <2>5, AskingIs
  <2>7. Got(m, U, s, F, n)
    <3> HIDE DEF x, asked
    <3>1. Got(malloc(h, x), U, s, F, request2size(x)) BY <2>6, MallocGood
    <3> QED BY <2>4, <3>1
  <2> HIDE DEF n, m
  <2>8. CASE m.got = Null
    <3>1. Align(m, al, nb) = m BY <2>8 DEF Align
    <3>2. r = m /\ Sound(m.heap, U, s, F) BY <1>6, <1>8, <2>7, <2>8, <3>1 DEF Got, Given
    <3>3. Got(r, U, s, F, nb) BY <2>8, <3>2 DEF Got
    <3> QED BY <3>3 DEF r, nb
  <2>9. CASE m.got # Null
    <3>1. r = FreeSpare(FreeLeader(m, a), nb) BY <1>6, <1>8, <2>1, <2>9 DEF Align
    <3>2. Given(m, U, s, F, n) BY <2>7, <2>9 DEF Got
    <3>3. n \in Nat /\ nb + a + 5 \in Nat /\ nb + a + 5 <= n
      <4>1. n \in Nat BY <2>6 DEF NbOk
      <4> QED BY <1>2, <2>2, <2>6, <4>1
    <3>4. Given(m, U, s, F, nb + a + 5) BY <3>2, <3>3, GivenLess
    <3>5. Given(FreeLeader(m, a), U, s, F, nb)
      BY <1>2, <1>5, <2>1, <3>4, FreeLeaderGood DEF nb
    <3>6. Given(r, U, s, F, nb) BY <1>5, <3>1, <3>5, FreeSpareGood DEF nb
    <3>7. Got(r, U, s, F, nb) BY <3>6 DEF Got
    <3> QED BY <3>7 DEF r, nb
  <2> QED BY <2>8, <2>9
<1> QED BY <1>7, <1>8

(* A size that is refused *)
LEMMA MemalignRefuses ==
    ASSUME NEW h, NEW U, NEW s, NEW F, Sound(h, U, s, F), NEW a, NEW bytes, bytes >= Half, NEW nb
    PROVE  Got(memalign(h, a, bytes), U, s, F, nb)
<1>1. memalign(h, a, bytes) = [heap |-> h, got |-> Null] BY DEF memalign
<1> QED BY <1>1 DEF Got

-----------------------------------------------------------------------------
(* What is stored in a chunk in use *)

LEMMA ChunkWritten ==
    ASSUME NEW h, NEW C, NEW S, NEW z, NEW fr, NEW F, Good(h, C, S, z, fr, F), NEW p \in C \ fr,
           NEW m \in [Start .. End - 1 -> Int],
           \A w \in Start .. End - 1 : w \notin p + 2 .. p + z[p] => m[w] = h.mem[w],
           NEW k, Rewritten(k, h, m)
    PROVE  Good(k, C, S, z, fr, F)
<1>1. Laid(C, S, z, h.top, h.brk, ToSet(h.regions), F) /\ fr \in SUBSET C BY GoodParts
<1>2. \A w \in p + 2 .. p + z[p] : w \notin TagWords(C, S, z, h.top, fr)
  BY <1>1, WordsInside
<1>3. TagWords(C, S, z, h.top, fr) \subseteq Start .. End - 1 BY <1>1, TagWordsInside
<1>4. \A w \in TagWords(C, S, z, h.top, fr) : m[w] = h.mem[w] BY <1>2, <1>3
<1> QED BY <1>4, WordsWritten

LEMMA ZeroGood ==
    ASSUME NEW h, NEW C, NEW S, NEW z, NEW fr, NEW F, Good(h, C, S, z, fr, F), NEW p \in C \ fr,
           NEW n \in Int, n <= z[p] - 1
    PROVE  Good(Zero(h, p + 2, n), C, S, z, fr, F)
<1> DEFINE from == p + 2
           m == [w \in DOMAIN h.mem |-> IF w \in from .. from + n - 1 THEN 0 ELSE h.mem[w]]
           k == [h EXCEPT !.mem = m]
<1>1. Zero(h, p + 2, n) = k BY DEF Zero
<1>2. h.mem \in [Start .. End - 1 -> Int] /\ IsHeap(h) BY GoodParts DEF Good
<1>3. p \in Nat /\ z[p] \in Nat
  <2>1. Held(h, C, S, z, fr, F, p) BY GoodHeld
  <2>2. Loose(h.mem, C, S, z, h.top, h.brk, ToSet(h.regions), F, fr, p) BY <2>1 DEF Held
  <2> QED BY <2>2, LooseFacts
<1>4. m \in [Start .. End - 1 -> Int]
  <2>1. DOMAIN h.mem = Start .. End - 1 /\ \A w \in Start .. End - 1 : h.mem[w] \in Int
    BY <1>2
  <2>2. \A w \in Start .. End - 1 : (IF w \in from .. from + n - 1 THEN 0 ELSE h.mem[w]) \in Int
    BY <2>1
  <2> HIDE DEF from
  <2> QED BY <2>1, <2>2
<1>5. \A w \in Start .. End - 1 : w \notin p + 2 .. p + z[p] => m[w] = h.mem[w]
  <2> TAKE w \in Start .. End - 1
  <2> HAVE w \notin p + 2 .. p + z[p]
  <2>1. w \notin from .. from + n - 1
    <3> DEFINE c == z[p]
    <3>1. c \in Nat /\ w \notin p + 2 .. p + c /\ n <= c - 1 /\ p \in Nat /\ w \in Int
      BY <1>3, Bounds
    <3> HIDE DEF c
    <3> QED BY <3>1
  <2> QED BY <1>2, <2>1
<1>6. Rewritten(k, h, m) BY <1>2, MemoryIs
<1> HIDE DEF k, m
<1>7. Good(k, C, S, z, fr, F) BY <1>4, <1>5, <1>6, ChunkWritten
<1> QED BY <1>1, <1>7

LEMMA CallocGood ==
    ASSUME NEW h, NEW U, NEW s, NEW F, Sound(h, U, s, F), NEW n, NEW e, ~(n >= Half),
           Asking((n * e) % Word)
    PROVE  Got(calloc(h, n, e), U, s, F, request2size((n * e) % Word))
<1> DEFINE bytes == (n * e) % Word
           new == malloc(h, bytes)
           nb == request2size(bytes)
           p == new.got
           size == Size(new.heap, p)
           words == Cleared(h, p, size) - 1
<1>1. calloc(h, n, e) = IF new.got = Null THEN [heap |-> new.heap, got |-> Null]
                        ELSE [heap |-> Zero(new.heap, p + 2, words), got |-> p]
  BY DEF calloc, ClearNew
<1>2. Got(new, U, s, F, nb)
  <2> HIDE DEF bytes
  <2> QED BY MallocGood DEF bytes
<1> HIDE DEF new, nb
<1>3. CASE new.got = Null
  <2>1. calloc(h, n, e).got = Null /\ calloc(h, n, e).heap = new.heap BY <1>1, <1>3
  <2>2. Sound(new.heap, U, s, F) BY <1>2, <1>3 DEF Got, Given
  <2> HIDE DEF bytes
  <2> QED BY <2>1, <2>2 DEF Got, bytes, nb
<1>4. CASE new.got # Null
  <2>1. PICK C, S, z, fr : GivenIn(new, U, s, F, nb, C, S, z, fr)
    BY <1>2, <1>4, GivenGood DEF Got
  <2>2. Good(new.heap, C, S, z, fr, F) /\ p \in C \ fr /\ C \ fr = U \cup {p}
    BY <2>1 DEF GivenIn
  <2>3. size = z[p] /\ Held(new.heap, C, S, z, fr, F, p) BY <2>2, ReallocReads, GoodHeld
  <2>4. z[p] \in Nat
    <3>1. Loose(new.heap.mem, C, S, z, new.heap.top, new.heap.brk, ToSet(new.heap.regions), F, fr, p)
      BY <2>3 DEF Held
    <3> QED BY <3>1, LooseFacts
  <2>5. Size(h, h.top) \in Int
    <3>1. PICK C0, S0, z0, fr0 : Good(h, C0, S0, z0, fr0, F) BY DEF Sound
    <3> QED BY <3>1, GoodTop
  <2>6. words \in Int /\ words <= z[p] - 1
    <3> DEFINE c == Size(h, h.top)
    <3>1. Cleared(h, p, size) = IF p = h.top /\ size > c THEN c ELSE size BY DEF Cleared
    <3>2. c \in Int BY <2>5
    <3> HIDE DEF c, size, p
    <3> QED BY <2>3, <2>4, <3>1, <3>2
  <2> HIDE DEF words, p
  <2>7. Good(Zero(new.heap, p + 2, words), C, S, z, fr, F) BY <2>2, <2>6, ZeroGood
  <2> DEFINE r == [heap |-> Zero(new.heap, p + 2, words), got |-> p]
  <2>8. GivenIn(r, U, s, F, nb, C, S, z, fr)
    <3>1. r.heap = Zero(new.heap, p + 2, words) /\ r.got = new.got BY DEF p
    <3> HIDE DEF r
    <3> QED BY <2>1, <2>7, <3>1 DEF GivenIn, p
  <2> HIDE DEF r
  <2>9. Got(r, U, s, F, nb) BY <2>8, GivenGood DEF Got
  <2>10. calloc(h, n, e) = r BY <1>1, <1>4 DEF r, words
  <2> HIDE DEF bytes
  <2> QED BY <2>9, <2>10 DEF nb, bytes
<1> QED BY <1>3, <1>4

-----------------------------------------------------------------------------
(* The walk over the chunks finds all of them *)

LEMMA ReachStep ==
    ASSUME NEW h, \A x \in Nat : Goes(h, x) => x + Size(h, x) \in Nat, NEW a \in Nat
    PROVE  /\ a \in Reach(h, a)
           /\ Goes(h, a) => Reach(h, a) = {a} \cup Reach(h, a + Size(h, a))
           /\ ~Goes(h, a) => Reach(h, a) = {a}
<1>1. a \in Reach(h, a) BY DEF Reach
<1>2. ASSUME Goes(h, a)
      PROVE  Reach(h, a) = {a} \cup Reach(h, a + Size(h, a))
  <2> DEFINE n == a + Size(h, a)
             Y == {a} \cup Reach(h, n)
  <2>1. n \in Nat BY <1>2
  <2> HIDE DEF n
  <2>2. n \in Reach(h, n) BY <2>1 DEF Reach
  <2>3. Closed(h, Reach(h, n))
    <3> SUFFICES ASSUME NEW x \in Reach(h, n), Goes(h, x)
                 PROVE  x + Size(h, x) \in Reach(h, n)
      BY DEF Closed
    <3>1. \A X \in SUBSET Nat : Closed(h, X) /\ n \in X => x + Size(h, x) \in X
      <4> TAKE X \in SUBSET Nat
      <4> HAVE Closed(h, X) /\ n \in X
      <4>1. x \in X BY DEF Reach
      <4> QED BY <4>1 DEF Closed
    <3>2. x + Size(h, x) \in Nat
      <4>1. Closed(h, Nat) BY DEF Closed
      <4> QED BY <2>1, <3>1, <4>1
    <3> QED BY <3>1, <3>2 DEF Reach
  <2>4. Closed(h, Y) BY <2>2, <2>3 DEF Closed, n
  <2>5. Y \in SUBSET Nat BY DEF Reach
  <2>6. Reach(h, a) \subseteq Y BY <2>4, <2>5 DEF Reach
  <2>7. Reach(h, n) \subseteq Reach(h, a)
    <3>1. \A X \in SUBSET Nat : Closed(h, X) /\ a \in X => n \in X BY <1>2 DEF Closed, n
    <3> QED BY <3>1 DEF Reach
  <2>8. Reach(h, a) = Y BY <1>1, <2>6, <2>7
  <2> QED BY <2>8 DEF n
<1>3. ASSUME ~Goes(h, a)
      PROVE  Reach(h, a) = {a}
  <2>1. Closed(h, {a}) /\ {a} \in SUBSET Nat BY <1>3 DEF Closed
  <2> QED BY <1>1, <2>1 DEF Reach
<1> QED BY <1>1, <1>2, <1>3

LEMMA GoesOn ==
    ASSUME NEW h, h.mem \in [Start .. End - 1 -> Int], h.brk \in Start .. End
    PROVE  \A x \in Nat : /\ ~Past(h, x) => x \in Start .. End - 2 /\ Size(h, x) \in Int
                          /\ Goes(h, x) => x + Size(h, x) \in Nat /\ x + Size(h, x) > x
<1> TAKE x \in Nat
<1>1. Start \in Nat \ {0} /\ End \in Nat BY Bounds
<1>2. ASSUME ~Past(h, x)
      PROVE  x \in Start .. End - 2 /\ Size(h, x) \in Int
  <2>1. x >= Start /\ x < h.brk - 1 BY <1>1, <1>2 DEF Past
  <2>2. x \in Start .. End - 2 /\ x # InitialTop /\ x + 1 \in Start .. End - 1
    BY <1>1, <2>1 DEF InitialTop
  <2>3. h.mem[x + 1] \in Int BY <2>2
  <2>4. \A w \in Int : w \div 2 \in Int OBVIOUS
  <2> QED BY <2>2, <2>3, <2>4 DEF Size
<1>3. ASSUME Goes(h, x)
      PROVE  x + Size(h, x) \in Nat /\ x + Size(h, x) > x
  <2>1. Size(h, x) \in Int /\ ~(Size(h, x) < 4) BY <1>2, <1>3 DEF Goes, MINSIZE
  <2> QED BY <2>1
<1> QED BY <1>2, <1>3

LEMMA WalkExists ==
    ASSUME NEW h, h.mem \in [Start .. End - 1 -> Int], h.brk \in Start .. End
    PROVE  \E f : IsWalk(h, f)
<1> DEFINE g == [a \in Nat |-> {b \in Reach(h, a) : ~Past(h, b)}]
<1>1. \A x \in Nat : Goes(h, x) => x + Size(h, x) \in Nat BY GoesOn
<1>2. \A a \in Nat : g[a] = WalkFrom(h, g, a)
  <2> TAKE a \in Nat
  <2>1. CASE Past(h, a)
    <3>1. Reach(h, a) = {a} BY <1>1, <2>1, ReachStep DEF Goes
    <3>2. g[a] = {} BY <2>1, <3>1
    <3> HIDE DEF g
    <3> QED BY <2>1, <3>2 DEF WalkFrom
  <2>2. CASE ~Past(h, a) /\ Size(h, a) < MINSIZE
    <3>1. Reach(h, a) = {a} BY <1>1, <2>2, ReachStep DEF Goes
    <3>2. g[a] = {a} BY <2>2, <3>1
    <3> HIDE DEF g
    <3> QED BY <2>2, <3>2 DEF WalkFrom
  <2>3. CASE Goes(h, a)
    <3> DEFINE n == a + Size(h, a)
    <3>1. Reach(h, a) = {a} \cup Reach(h, n) /\ n \in Nat BY <1>1, <2>3, ReachStep
    <3> HIDE DEF n
    <3>2. g[a] = {a} \cup g[n] BY <2>3, <3>1 DEF Goes
    <3> HIDE DEF g
    <3> QED BY <2>3, <3>2 DEF WalkFrom, Goes, n
  <2> QED BY <2>1, <2>2, <2>3 DEF Goes
<1>3. g = [a \in Nat |-> g[a]] OBVIOUS
<1> HIDE DEF g
<1>4. IsWalk(h, g) BY <1>2, <1>3 DEF IsWalk
<1> QED BY <1>4

(* What a walk finds from a piece on *)
LEMMA WalkStep ==
    ASSUME NEW h, NEW C, NEW S, NEW z, NEW fr, NEW F, Good(h, C, S, z, fr, F),
           NEW f, IsWalk(h, f)
    PROVE  /\ f[h.top] = {}
           /\ \A s \in S : f[s] = {s}
           /\ \A c \in C : f[c] = {c} \cup f[c + z[c]]
           /\ \A c \in C : c + z[c] > c
<1>1. /\ Laid(C, S, z, h.top, h.brk, ToSet(h.regions), F) /\ C \subseteq Nat /\ S \subseteq Nat
      /\ h.top \notin C BY GoodParts
<1>2. h.top \in Nat /\ h.top \notin S /\ h.brk \in Start .. End BY <1>1 DEF Laid
<1>3. \A x \in Pieces(C, S, h.top) : Size(h, x) = z[x] BY Readings
<1>4. \A a \in Nat : f[a] = WalkFrom(h, f, a) BY DEF IsWalk
<1>5. \A x \in C \cup S : /\ x \in Pieces(C, S, h.top) /\ x >= Start /\ z[x] \in Nat
                          /\ Beyond(S, z, x) <= h.brk
  <2>1. Pieces(C, S, h.top) \subseteq Start .. End BY <1>1 DEF Laid
  <2>2. \A x \in Pieces(C, S, h.top) : z[x] \in Nat BY <1>1, WordsApart
  <2>3. \A x \in Pieces(C, S, h.top) : Beyond(S, z, x) <= h.brk BY <1>1 DEF Laid
  <2>4. \A x \in C \cup S : x \in Pieces(C, S, h.top) BY DEF Pieces
  <2>5. \A x \in Start .. End : x >= Start OBVIOUS
  <2> QED BY <2>1, <2>2, <2>3, <2>4, <2>5
<1>6. f[h.top] = {} BY <1>2, <1>4 DEF WalkFrom, Past
<1>7. ASSUME NEW s \in S
      PROVE  f[s] = {s}
  <2>1. z[s] \in 1 .. 2 /\ Beyond(S, z, s) = s + z[s] + 2 BY <1>1 DEF Laid, Beyond
  <2>2. ~Past(h, s)
    <3> DEFINE n == z[s]
    <3>1. n \in 1 .. 2 /\ s + n + 2 <= h.brk /\ s \in Nat /\ s >= Start /\ s # h.top
      BY <1>1, <1>2, <1>5, <2>1
    <3> HIDE DEF n
    <3>2. ~(s >= h.brk - 1) /\ ~(s < Start) BY <1>2, <3>1, Bounds
    <3> QED BY <3>1, <3>2 DEF Past
  <2>3. Size(h, s) < MINSIZE BY <1>3, <1>5, <2>1 DEF MINSIZE
  <2> QED BY <1>1, <1>4, <2>2, <2>3 DEF WalkFrom
<1>8. ASSUME NEW c \in C
      PROVE  f[c] = {c} \cup f[c + z[c]] /\ c + z[c] > c
  <2>1. z[c] >= 4 /\ z[c] \in Nat /\ c \notin S
    <3>1. z[c] >= MINSIZE BY <1>1, WordsApart
    <3> QED BY <1>1, <1>5, <3>1 DEF Laid, MINSIZE
  <2>2. Beyond(S, z, c) = c + z[c] BY <2>1 DEF Beyond
  <2>3. ~Past(h, c) /\ c + z[c] > c
    <3> DEFINE n == z[c]
    <3>1. n \in Nat /\ n >= 4 /\ c + n <= h.brk /\ c \in Nat /\ c >= Start /\ c # h.top
      BY <1>1, <1>2, <1>5, <2>1, <2>2
    <3> HIDE DEF n
    <3>2. ~(c >= h.brk - 1) /\ ~(c < Start) /\ c + n > c BY <1>2, <3>1, Bounds
    <3> QED BY <3>1, <3>2 DEF Past, n
  <2>4. ~(Size(h, c) < MINSIZE) /\ Size(h, c) = z[c] BY <1>3, <1>5, <2>1 DEF MINSIZE
  <2> QED BY <1>1, <1>4, <2>3, <2>4 DEF WalkFrom
<1> QED BY <1>6, <1>7, <1>8

LEMMA WalkInside ==
    ASSUME NEW h, NEW C, NEW S, NEW z, NEW fr, NEW F, Good(h, C, S, z, fr, F),
           NEW f, IsWalk(h, f)
    PROVE  \A x \in Pieces(C, S, h.top) :
               /\ f[x] \subseteq C \cup S
               /\ \A c \in C : c \in f[x] /\ c + z[c] # h.top => c + z[c] \in f[x]
<1> DEFINE P == Pieces(C, S, h.top)
           Right(x) == /\ f[x] \subseteq C \cup S
                       /\ \A c \in C : c \in f[x] /\ c + z[c] # h.top => c + z[c] \in f[x]
           bad == {x \in P : ~Right(x)}
<1>1. Laid(C, S, z, h.top, h.brk, ToSet(h.regions), F) BY GoodParts
<1>2. P \subseteq Nat \ {0} /\ \A c \in C : c + z[c] \in P BY <1>1, WordsApart
<1>3. P \subseteq 0 .. End /\ End \in Nat
  <2>1. P \subseteq Start .. End BY <1>1 DEF Laid
  <2> HIDE DEF P
  <2> QED BY <2>1, Bounds
<1>4. /\ f[h.top] = {}
      /\ \A s \in S : f[s] = {s}
      /\ \A c \in C : f[c] = {c} \cup f[c + z[c]]
      /\ \A c \in C : c + z[c] > c BY WalkStep
<1>5. \A x \in P : x \in C \/ x \in S \/ x = h.top BY DEF Pieces, TopAt
<1>6. C \cap S = {} BY <1>1 DEF Laid
<1> HIDE DEF P
<1>7. bad = {}
  <2> SUFFICES ASSUME bad # {} PROVE FALSE OBVIOUS
  <2> DEFINE x == Max(bad)
  <2>1. x \in bad /\ \A y \in bad : y <= x
    <3>1. bad \in SUBSET (0 .. End) BY <1>3
    <3> HIDE DEF bad
    <3> QED BY <1>3, <3>1, Greatest
  <2> HIDE DEF x
  <2>2. x \in P /\ ~Right(x) BY <2>1
  <2>3. CASE x = h.top BY <1>4, <2>2, <2>3
  <2>4. CASE x \in S
    <3>1. f[x] = {x} BY <1>4, <2>4
    <3> QED BY <1>6, <2>2, <2>4, <3>1
  <2>5. CASE x \in C
    <3> DEFINE n == x + z[x]
    <3>1. n \in P /\ n > x /\ f[x] = {x} \cup f[n] BY <1>2, <1>4, <2>5
    <3>2. n \in Nat /\ x \in Nat BY <1>2, <2>2, <3>1
    <3>3. ~(n <= x) BY <3>1, <3>2
    <3>4. Right(n) BY <2>1, <3>1, <3>3
    <3>5. n # h.top => n \in f[n]
      <4>1. n \in C \/ n \in S \/ n = h.top BY <1>5, <3>1
      <4>2. n \in C => n \in f[n]
        <5> HIDE DEF n
        <5> QED BY <1>4
      <4> HIDE DEF n
      <4> QED BY <1>4, <4>1, <4>2
    <3>6. Right(x)
      <4>1. f[x] \subseteq C \cup S BY <2>5, <3>1, <3>4
      <4>2. ASSUME NEW c \in C, c \in f[x], c + z[c] # h.top
            PROVE  c + z[c] \in f[x]
        <5>1. CASE c = x BY <3>1, <3>5, <4>2, <5>1
        <5>2. CASE c # x BY <3>1, <3>4, <4>2, <5>2
        <5> QED BY <5>1, <5>2
      <4> QED BY <4>1, <4>2
    <3> QED BY <2>2, <3>6
  <2> QED BY <1>5, <2>2, <2>3, <2>4, <2>5
<1> QED BY <1>7 DEF P

LEMMA WalkIs ==
    ASSUME NEW h, NEW C, NEW S, NEW z, NEW fr, NEW F, Good(h, C, S, z, fr, F)
    PROVE  Walk(h) = C \cup S
<1> DEFINE f[a \in Nat] == IF a < Start \/ a = h.top \/ a >= h.brk - 1 THEN {}
                           ELSE IF Size(h, a) < MINSIZE THEN {a}
                           ELSE {a} \cup f[a + Size(h, a)]
           heads == ToSet(h.regions)
           P == Pieces(C, S, h.top)
           found == UNION {f[r] : r \in heads}
           bad == (C \cup S) \ found
<1>1. Walk(h) = found BY DEF Walk
<1>2. Laid(C, S, z, h.top, h.brk, heads, F) /\ h.mem \in [Start .. End - 1 -> Int]
      /\ C \subseteq Nat /\ S \subseteq Nat /\ h.top \notin C BY GoodParts
<1>3. h.brk \in Start .. End /\ heads \subseteq P /\ h.top \notin S
      /\ \A x \in P : x \in heads \/ \E c \in C : c + z[c] = x BY <1>2 DEF Laid
<1> HIDE DEF heads
<1>4. IsWalk(h, f)
  <2>1. f = CHOOSE g : g = [a \in Nat |-> IF a < Start \/ a = h.top \/ a >= h.brk - 1 THEN {}
                           ELSE IF Size(h, a) < MINSIZE THEN {a}
                           ELSE {a} \cup g[a + Size(h, a)]] OBVIOUS
  <2>2. \E g : IsWalk(h, g) BY <1>2, <1>3, WalkExists
  <2>3. \E g : g = [a \in Nat |-> IF a < Start \/ a = h.top \/ a >= h.brk - 1 THEN {}
                           ELSE IF Size(h, a) < MINSIZE THEN {a}
                           ELSE {a} \cup g[a + Size(h, a)]]
    BY <2>2 DEF IsWalk, WalkFrom, Past
  <2> HIDE DEF f
  <2>4. f = [a \in Nat |-> IF a < Start \/ a = h.top \/ a >= h.brk - 1 THEN {}
                           ELSE IF Size(h, a) < MINSIZE THEN {a}
                           ELSE {a} \cup f[a + Size(h, a)]] BY <2>1, <2>3
  <2> QED BY <2>4 DEF IsWalk, WalkFrom, Past
<1> HIDE DEF f
<1>5. \A x \in P : /\ f[x] \subseteq C \cup S
                   /\ \A c \in C : c \in f[x] /\ c + z[c] # h.top => c + z[c] \in f[x]
  BY <1>4, WalkInside
<1>6. \A x \in C \cup S : x \in f[x] /\ x \in P /\ x \in Nat /\ x # h.top
  <2>1. /\ \A s \in S : f[s] = {s}
        /\ \A c \in C : f[c] = {c} \cup f[c + z[c]] BY <1>4, WalkStep
  <2> QED BY <1>2, <1>3, <2>1 DEF Pieces
<1>7. \A c \in C : c + z[c] > c BY <1>4, WalkStep
<1> HIDE DEF P
<1>8. found \subseteq C \cup S BY <1>3, <1>5
<1>9. bad = {}
  <2> SUFFICES ASSUME bad # {} PROVE FALSE OBVIOUS
  <2> DEFINE x == Min(bad)
  <2>1. x \in bad /\ \A y \in bad : x <= y
    <3>1. bad \in SUBSET Nat BY <1>6
    <3> HIDE DEF bad
    <3> QED BY <3>1, Least
  <2> HIDE DEF x
  <2>2. x \in C \cup S /\ x \notin found /\ x \in P /\ x \in f[x] /\ x # h.top /\ x \in Nat
    BY <1>6, <2>1
  <2>3. CASE x \in heads BY <2>2, <2>3
  <2>4. CASE \E c \in C : c + z[c] = x
    <3>1. PICK c \in C : c + z[c] = x BY <2>4
    <3>2. x > c /\ c \in Nat BY <1>2, <1>7, <3>1
    <3>3. ~(x <= c) BY <2>2, <3>2
    <3>4. c \in found BY <2>1, <3>3
    <3>5. PICK r \in heads : c \in f[r] BY <3>4
    <3>6. x \in f[r] BY <1>3, <1>5, <2>2, <3>1, <3>5
    <3> QED BY <2>2, <3>6
  <2> QED BY <1>3, <2>2, <2>3, <2>4
<1> QED BY <1>1, <1>8, <1>9

LEMMA ChunksAre ==
    ASSUME NEW h, NEW C, NEW S, NEW z, NEW fr, NEW F, Good(h, C, S, z, fr, F)
    PROVE  Walk(h) = C \cup S /\ Chunks(h) = C /\ Fences(h) = S /\ FreeChunks(h) = fr
<1>1. Walk(h) = C \cup S BY WalkIs
<1>2. Laid(C, S, z, h.top, h.brk, ToSet(h.regions), F) /\ fr \in SUBSET C BY GoodParts
<1>3. \A x \in C \cup S : Size(h, x) = z[x] /\ (InUse(h, x) <=> x \notin fr)
  BY Readings DEF Pieces
<1>4. C \cap S = {} /\ \A s \in S : z[s] \in 1 .. 2 BY <1>2 DEF Laid
<1>5. \A c \in C : z[c] >= MINSIZE BY <1>2, WordsApart
<1>6. \A s \in S : ~(z[s] >= MINSIZE) BY <1>4 DEF MINSIZE
<1> HIDE DEF Walk
<1>7. Chunks(h) = C BY <1>1, <1>3, <1>5, <1>6 DEF Chunks
<1>8. Fences(h) = S BY <1>1, <1>4, <1>7 DEF Fences
<1>9. FreeChunks(h) = fr BY <1>2, <1>3, <1>7 DEF FreeChunks
<1> QED BY <1>1, <1>7, <1>8, <1>9

LEMMA StoreGood ==
    ASSUME NEW h, NEW C, NEW S, NEW z, NEW fr, NEW F, Good(h, C, S, z, fr, F), NEW p \in C \ fr,
           NEW n \in Nat, NEW t \in Nat, NEW from \in Nat \ {0}
    PROVE  Good(Fill(h, p, n, t, from), C, S, z, fr, F)
<1> DEFINE Now(w) == LET i == w - (p + 1) IN
                     IF i \in from .. n /\ i < Size(h, p) THEN Cell(t, i) ELSE h.mem[w]
           m == [w \in DOMAIN h.mem |-> Now(w)]
           k == [h EXCEPT !.mem = m]
<1>1. Fill(h, p, n, t, from) = k BY DEF Fill
<1>2. h.mem \in [Start .. End - 1 -> Int] /\ IsHeap(h) BY GoodParts DEF Good
<1>3. p \in Nat /\ z[p] \in Nat /\ Size(h, p) = z[p]
  <2>1. Held(h, C, S, z, fr, F, p) BY GoodHeld
  <2>2. Loose(h.mem, C, S, z, h.top, h.brk, ToSet(h.regions), F, fr, p) BY <2>1 DEF Held
  <2> QED BY <2>2, LooseFacts, ReallocReads
<1>4. DOMAIN h.mem = Start .. End - 1 /\ \A w \in Start .. End - 1 : h.mem[w] \in Int /\ w \in Int
  BY <1>2, Bounds
<1>5. \A w \in Start .. End - 1 : Now(w) \in Int
  <2> TAKE w \in Start .. End - 1
  <2>1. \A i \in Int : Cell(t, i) \in Int BY DEF Cell
  <2>2. w - (p + 1) \in Int BY <1>3, <1>4
  <2> QED BY <1>4, <2>1, <2>2
<1>6. m \in [Start .. End - 1 -> Int]
  <2> HIDE DEF Now
  <2> QED BY <1>4, <1>5
<1>7. \A w \in Start .. End - 1 : w \notin p + 2 .. p + z[p] => m[w] = h.mem[w]
  <2> TAKE w \in Start .. End - 1
  <2> HAVE w \notin p + 2 .. p + z[p]
  <2> DEFINE i == w - (p + 1)
  <2>1. ~(i \in from .. n /\ i < Size(h, p))
    <3> DEFINE c == z[p]
    <3>1. c \in Nat /\ w \notin p + 2 .. p + c /\ p \in Nat /\ w \in Int /\ Size(h, p) = c
      BY <1>3, <1>4
    <3> HIDE DEF c
    <3> QED BY <3>1
  <2>2. Now(w) = h.mem[w] BY <2>1
  <2> HIDE DEF Now
  <2> QED BY <1>4, <2>2
<1>8. Rewritten(k, h, m) BY <1>2, MemoryIs
<1> HIDE DEF k, m
<1>9. Good(k, C, S, z, fr, F) BY <1>6, <1>7, <1>8, ChunkWritten
<1> QED BY <1>1, <1>9

LEMMA SettledGood ==
    ASSUME NEW h, NEW C, NEW S, NEW z, NEW fr, NEW F, Good(h, C, S, z, fr, F), NEW known
    PROVE  Good(Settled(h, known), C, S, z, fr, F)
<1> DEFINE kept == {p + 1 : p \in Walk(h) \cup {h.top}}
                     \cup {Next_(h, p) + 1 : p \in Fences(h)}
                     \cup {Next_(h, p) : p \in FreeChunks(h)}
                     \cup UNION {a .. a + known[a].len - 1 : a \in DOMAIN known}
           m == [a \in DOMAIN h.mem |-> IF a \in kept \/ a >= h.brk THEN h.mem[a] ELSE Stale]
           k == [h EXCEPT !.mem = m]
<1>1. Settled(h, known) = k BY DEF Settled
<1>2. h.mem \in [Start .. End - 1 -> Int] /\ IsHeap(h)
      /\ Laid(C, S, z, h.top, h.brk, ToSet(h.regions), F) /\ fr \in SUBSET C
  BY GoodParts DEF Good
<1>3. Walk(h) = C \cup S /\ Fences(h) = S /\ FreeChunks(h) = fr BY ChunksAre
<1>4. \A x \in C \cup S : Next_(h, x) = x + z[x] BY Readings DEF Pieces
<1>5. TagWords(C, S, z, h.top, fr) \subseteq kept
  <2> DEFINE A == {p + 1 : p \in Walk(h) \cup {h.top}}
             B == {Next_(h, p) + 1 : p \in Fences(h)}
             D == {Next_(h, p) : p \in FreeChunks(h)}
  <2>1. {x + 1 : x \in Pieces(C, S, h.top)} \subseteq A BY <1>3 DEF Pieces, TopAt
  <2>2. {f + z[f] : f \in fr} \subseteq D BY <1>2, <1>3, <1>4
  <2>3. {s + z[s] + 1 : s \in S} \subseteq B BY <1>3, <1>4
  <2>4. A \cup B \cup D \subseteq kept OBVIOUS
  <2> HIDE DEF A, B, D, kept
  <2> QED BY <2>1, <2>2, <2>3, <2>4 DEF TagWords
<1> HIDE DEF kept
<1>6. DOMAIN h.mem = Start .. End - 1 /\ \A w \in Start .. End - 1 : h.mem[w] \in Int
  BY <1>2
<1>7. m \in [Start .. End - 1 -> Int] BY <1>6 DEF Stale
<1>8. \A w \in TagWords(C, S, z, h.top, fr) : m[w] = h.mem[w]
  <2>1. TagWords(C, S, z, h.top, fr) \subseteq Start .. End - 1 BY <1>2, TagWordsInside
  <2> QED BY <1>5, <1>6, <2>1
<1>9. Rewritten(k, h, m) BY <1>2, MemoryIs
<1> HIDE DEF k, m
<1>10. Good(k, C, S, z, fr, F) BY <1>7, <1>8, <1>9, WordsWritten
<1> QED BY <1>1, <1>10

-----------------------------------------------------------------------------
(* The program's blocks *)

LEMMA UsedIs ==
    ASSUME NEW l, Entries(l)
    PROVE  \A p : p \in Used(l) <=> p \in Nat /\ p + 2 \in OwnedIn(l)
<1>1. ASSUME NEW p, p \in Used(l)
      PROVE  p \in Nat /\ p + 2 \in OwnedIn(l)
  <2>1. PICK a \in OwnedIn(l) : p = a - 2 BY <1>1 DEF Used
  <2>2. a \in Nat /\ a - 2 \in Nat BY <2>1 DEF Entries, OwnedIn
  <2>3. p + 2 = a BY <2>1, <2>2
  <2> QED BY <2>1, <2>2, <2>3
<1>2. ASSUME NEW p \in Nat, p + 2 \in OwnedIn(l)
      PROVE  p \in Used(l)
  <2>1. p = (p + 2) - 2 OBVIOUS
  <2> QED BY <1>2, <2>1 DEF Used
<1> QED BY <1>1, <1>2

LEMMA PutIs ==
    ASSUME NEW l, Entries(l), NEW p \in Nat, p + 2 \notin DOMAIN l,
           NEW n \in Nat, NEW t \in Tags \cup {0}
    PROVE  IsPut(Put(l, p, n, t), l, p, n)
<1> DEFINE k == Put(l, p, n, t)
<1>1. DOMAIN k = DOMAIN l \cup {p + 2} BY DEF Put
<1>2. \A a \in DOMAIN l : k[a] = l[a] BY DEF Put
<1>3. k[p + 2].len = n /\ k[p + 2].tag = t /\ k[p + 2].from = "malloc" BY DEF Put, Entry
<1> HIDE DEF k
<1>4. OwnedIn(k) = OwnedIn(l) \cup {p + 2} /\ ForeignIn(k) = ForeignIn(l)
  <2>1. "malloc" # "sbrk" OBVIOUS
  <2>2. \A a : a \in OwnedIn(k) <=> a \in OwnedIn(l) \/ a = p + 2
    BY <1>1, <1>2, <1>3 DEF OwnedIn
  <2>3. \A a : a \in ForeignIn(k) <=> a \in ForeignIn(l)
    BY <1>1, <1>2, <1>3, <2>1 DEF ForeignIn
  <2> QED BY <2>2, <2>3
<1>5. \A a \in ForeignIn(l) : k[a].len = l[a].len BY <1>2 DEF ForeignIn
<1>6. Entries(k)
  <2>1. p + 2 \in Nat /\ (p + 2) - 2 \in Nat /\ "malloc" # "sbrk" OBVIOUS
  <2>2. \A a \in DOMAIN l : /\ a \in Nat /\ k[a].len \in Nat /\ k[a].tag \in Tags \cup {0}
                            /\ k[a].from \in {"malloc", "sbrk"}
                            /\ k[a].from = "malloc" => a - 2 \in Nat
                            /\ k[a].from = "sbrk" => k[a].len > 0 BY <1>2 DEF Entries
  <2>3. LET a == p + 2 IN
        /\ a \in Nat /\ k[a].len \in Nat /\ k[a].tag \in Tags \cup {0}
        /\ k[a].from \in {"malloc", "sbrk"}
        /\ k[a].from = "malloc" => a - 2 \in Nat
        /\ k[a].from = "sbrk" => k[a].len > 0 BY <1>3, <2>1
  <2> QED BY <1>1, <2>2, <2>3 DEF Entries
<1>7. Taken(k) = Taken(l) BY <1>4, <1>5 DEF Taken
<1>8. Used(k) = Used(l) \cup {p}
  <2>1. \A q : q \in Used(k) <=> q \in Used(l) \/ q = p
    <3> TAKE q
    <3>1. q \in Nat => (q + 2 = p + 2 <=> q = p) OBVIOUS
    <3> QED BY <1>4, <1>6, <3>1, UsedIs
  <2> QED BY <2>1
<1>9. ForeignApart(l) => ForeignApart(k) BY <1>4, <1>5 DEF ForeignApart
<1>10. \A q \in Used(l) : k[q + 2].len = l[q + 2].len BY <1>2, UsedIs DEF OwnedIn
<1> QED BY <1>3, <1>6, <1>7, <1>8, <1>9, <1>10 DEF IsPut, k

LEMMA TakingIs ==
    ASSUME NEW l, Entries(l), NEW a \in OwnedIn(l)
    PROVE  IsTaking(Taking(l, a), l, a)
<1> DEFINE k == Taking(l, a)
<1>1. DOMAIN k = DOMAIN l \ {a} /\ \A b \in DOMAIN k : k[b] = l[b] BY DEF Taking
<1> HIDE DEF k
<1>2. a \in Nat /\ a - 2 \in Nat /\ l[a].from = "malloc" /\ a \in DOMAIN l
  BY DEF Entries, OwnedIn
<1>3. OwnedIn(k) = OwnedIn(l) \ {a} /\ ForeignIn(k) = ForeignIn(l)
  <2>1. "malloc" # "sbrk" OBVIOUS
  <2>2. \A b : b \in OwnedIn(k) <=> b \in OwnedIn(l) /\ b # a BY <1>1 DEF OwnedIn
  <2>3. \A b : b \in ForeignIn(k) <=> b \in ForeignIn(l) BY <1>1, <1>2, <2>1 DEF ForeignIn
  <2> QED BY <2>2, <2>3
<1>4. Entries(k) BY <1>1 DEF Entries
<1>5. \A b \in ForeignIn(l) : k[b].len = l[b].len BY <1>1, <1>3 DEF ForeignIn
<1>6. Taken(k) = Taken(l) BY <1>3, <1>5 DEF Taken
<1>7. \A q : q \in Used(k) <=> q \in Used(l) /\ q # a - 2
  <2> TAKE q
  <2>1. q \in Nat => (q + 2 = a <=> q = a - 2) BY <1>2
  <2> QED BY <1>3, <1>4, <2>1, UsedIs
<1>8. a - 2 \in Used(l) BY DEF Used
<1>9. Used(k) = Used(l) \ {a - 2} BY <1>7
<1>10. ForeignApart(l) => ForeignApart(k) BY <1>3, <1>5 DEF ForeignApart
<1>11. \A q \in Used(k) : k[q + 2].len = l[q + 2].len BY <1>1, <1>4, UsedIs DEF OwnedIn
<1> QED BY <1>4, <1>6, <1>8, <1>9, <1>10, <1>11 DEF IsTaking, k

LEMMA SettledFits ==
    ASSUME NEW l, Entries(l), ForeignApart(l), NEW h, NEW s, Sound(h, Used(l), s, Taken(l)),
           Roomy(l, s), NEW k
    PROVE  HeapInv(Settled(h, k), l)
<1>1. PICK C, S, z, fr : /\ Good(h, C, S, z, fr, Taken(l))
                         /\ C \ fr = Used(l) /\ \A x \in Used(l) : z[x] = s[x]
  BY DEF Sound
<1> DEFINE g == Settled(h, k)
<1>2. Good(g, C, S, z, fr, Taken(l)) BY <1>1, SettledGood
<1> HIDE DEF g
<1>3. Sound(g, Used(l), s, Taken(l)) BY <1>1, <1>2 DEF Sound
<1>4. g.ready BY <1>2 DEF Good
<1>5. Fitting(g, l) BY <1>3 DEF Fitting, Roomy
<1> QED BY <1>4, <1>5 DEF HeapInv, g

LEMMA OffForeign ==
    ASSUME NEW h, NEW C, NEW S, NEW z, NEW fr, NEW F, Good(h, C, S, z, fr, F), NEW p \in C
    PROVE  \A w \in p .. p + z[p] : w \notin F
<1>1. Laid(C, S, z, h.top, h.brk, ToSet(h.regions), F) /\ C \subseteq Nat \ {0} /\ S \subseteq Nat
  BY GoodParts
<1> DEFINE n == z[p]
           y == p + n
           P == Pieces(C, S, h.top)
<1>2. p \in P /\ y \in P /\ p \in Nat /\ n \in Nat /\ n >= 4
  <2>1. p \in P BY DEF Pieces
  <2>2. y \in P /\ n >= MINSIZE /\ n \in Nat
    <3>1. \A x \in P : z[x] \in Nat BY <1>1, WordsApart
    <3>2. \A c \in C : c + z[c] \in P /\ z[c] >= MINSIZE BY <1>1, WordsApart
    <3> HIDE DEF P
    <3> QED BY <2>1, <3>1, <3>2
  <2> QED BY <1>1, <2>1, <2>2 DEF MINSIZE
<1>3. Beyond(S, z, p) = p + n
  <2>1. p \notin S BY <1>1 DEF Laid
  <2> QED BY <2>1 DEF Beyond
<1>4. Beyond(S, z, y) > y
  <2>1. CASE y \in S
    <3>1. z[y] \in 1 .. 2 BY <1>1, <2>1 DEF Laid
    <3>2. Beyond(S, z, y) = y + z[y] + 2 BY <2>1 DEF Beyond
    <3> HIDE DEF y
    <3> QED BY <1>2, <3>1, <3>2 DEF y
  <2>2. CASE y \notin S
    <3>1. Beyond(S, z, y) = y + z[y] BY <2>2 DEF Beyond
    <3>2. y \in C \cup TopAt(h.top) BY <1>2, <2>2 DEF Pieces
    <3>3. z[y] >= 4 BY <1>1, <3>2 DEF Laid, IsChunk, MINSIZE
    <3>4. z[y] \in Nat BY <1>1, <1>2, WordsApart
    <3>5. y \in Nat BY <1>2
    <3> HIDE DEF y
    <3> QED BY <3>1, <3>3, <3>4, <3>5
  <2> QED BY <2>1, <2>2
<1>5. \A w \in F : w \in Int /\ (w < p \/ w >= p + n) /\ (w < y \/ w >= Beyond(S, z, y))
  <2>1. \A w \in F : w \in Start .. h.brk - 1 /\ \A x \in P : w < x \/ w >= Beyond(S, z, x)
    BY <1>1 DEF Laid
  <2>2. Start \in Nat /\ h.brk \in Nat BY <1>1, Bounds DEF Laid
  <2> HIDE DEF P, y, n
  <2> QED BY <1>2, <1>3, <2>1, <2>2
<1>6. Beyond(S, z, y) \in Int
  <2>1. z[y] \in Nat BY <1>1, <1>2, WordsApart
  <2> HIDE DEF P
  <2> QED BY <1>2, <2>1 DEF Beyond
<1> HIDE DEF n
<1>7. \A w \in p .. p + n : w \notin F
  <2> TAKE w \in p .. p + n
  <2>1. ASSUME w \in F PROVE FALSE
    <3>1. w = y BY <1>2, <1>5, <2>1
    <3>2. ~(w < y) /\ ~(w >= Beyond(S, z, y))
      <4> DEFINE e == Beyond(S, z, y)
      <4>1. e \in Int /\ e > y /\ y \in Nat BY <1>2, <1>4, <1>6
      <4> HIDE DEF e, y
      <4>2. ~(w < y) /\ ~(w >= e) BY <3>1, <4>1
      <4> QED BY <4>2 DEF e
    <3> QED BY <1>5, <2>1, <3>2
  <2> QED BY <2>1
<1> QED BY <1>7 DEF n

LEMMA PutFits ==
    ASSUME NEW l, Entries(l), ForeignApart(l), NEW r, NEW s, NEW nb \in Nat,
           Given(r, Used(l), s, Taken(l), nb), Roomy(l, s),
           NEW n \in Nat, n + 1 <= nb, NEW t \in Tags \cup {0}, NEW h, Stored(h, r, n)
    PROVE  HeapInv(Settled(h, Put(l, r.got, n, t)), Put(l, r.got, n, t))
<1> DEFINE U == Used(l)
           F == Taken(l)
           p == r.got
           k == Put(l, p, n, t)
           g == Settled(h, k)
<1>1. PICK C, S, z, fr : GivenIn(r, U, s, F, nb, C, S, z, fr) BY GivenGood
<1>2. /\ Good(r.heap, C, S, z, fr, F) /\ C \ fr = U \cup {p} /\ p \notin U
      /\ p # Null /\ z[p] >= nb /\ \A x \in U : z[x] = s[x] BY <1>1 DEF GivenIn
<1>3. Good(h, C, S, z, fr, F)
  <2>1. p \in C \ fr BY <1>2
  <2> HIDE DEF p, F
  <2> QED BY <1>2, <2>1, StoreGood DEF Stored, p
<1>4. p \in Nat /\ z[p] \in Nat
  <2>1. Laid(C, S, z, h.top, h.brk, ToSet(h.regions), F) /\ C \subseteq Nat
    BY <1>3, GoodParts
  <2>2. p \in Pieces(C, S, h.top) /\ p \in C BY <1>2 DEF Pieces
  <2> QED BY <2>1, <2>2, WordsApart
<1>5. p + 2 \notin DOMAIN l
  <2>1. p + 2 \notin OwnedIn(l) BY <1>2, <1>4, UsedIs
  <2>2. p + 2 \notin F
    <3>1. \A w \in p .. p + z[p] : w \notin F BY <1>2, <1>3, OffForeign
    <3>2. p + 2 \in p .. p + z[p]
      <4>1. z[p] >= 4
        <5>1. Laid(C, S, z, h.top, h.brk, ToSet(h.regions), F) BY <1>3, GoodParts
        <5> QED BY <1>2, <5>1, WordsApart DEF MINSIZE
      <4> DEFINE c == z[p]
      <4>2. c >= 4 /\ c \in Nat BY <1>4, <4>1
      <4> HIDE DEF c, p
      <4>3. p + 2 \in p .. p + c BY <1>4, <4>2
      <4> QED BY <4>3 DEF c
    <3> QED BY <3>1, <3>2
  <2>3. ForeignIn(l) \subseteq F
    <3>1. \A a \in ForeignIn(l) : a \in Nat /\ l[a].len \in Nat /\ l[a].len > 0
      BY DEF Entries, ForeignIn
    <3>2. \A a \in ForeignIn(l) : a \in a .. a + l[a].len - 1
      <4> TAKE a \in ForeignIn(l)
      <4> DEFINE e == l[a].len
      <4>1. a \in Nat /\ e \in Nat /\ e > 0 BY <3>1
      <4> HIDE DEF e
      <4>2. a \in a .. a + e - 1 BY <4>1
      <4> QED BY <4>2 DEF e
    <3> QED BY <3>2 DEF Taken
  <2>4. \A a \in DOMAIN l : a \in OwnedIn(l) \/ a \in ForeignIn(l)
    BY DEF Entries, OwnedIn, ForeignIn
  <2> HIDE DEF F
  <2> QED BY <2>1, <2>2, <2>3, <2>4
<1>6. IsPut(k, l, p, n) BY <1>4, <1>5, PutIs
<1> HIDE DEF k, p
<1>7. /\ Entries(k) /\ ForeignApart(k)
      /\ Used(k) = U \cup {p} /\ Taken(k) = F /\ k[p + 2].len = n
      /\ \A q \in U : k[q + 2].len = l[q + 2].len BY <1>6 DEF IsPut
<1>8. Sound(h, Used(k), z, Taken(k))
  <2>1. Sound(h, C \ fr, z, F) BY <1>3, SoundItself
  <2> QED BY <1>2, <1>7, <2>1
<1>9. Roomy(k, z)
  <2> SUFFICES ASSUME NEW q \in Used(k)
               PROVE  k[q + 2].len + 1 <= z[q]
    BY DEF Roomy
  <2>1. CASE q = p
    <3> DEFINE c == z[p]
    <3>1. c \in Nat /\ c >= nb BY <1>2, <1>4
    <3> HIDE DEF c
    <3>2. n + 1 <= c BY <3>1
    <3> QED BY <1>7, <2>1, <3>2 DEF c
  <2>2. CASE q \in U BY <1>2, <1>7, <2>2 DEF Roomy
  <2> QED BY <1>7, <2>1, <2>2
<1>10. HeapInv(Settled(h, k), k) BY <1>7, <1>8, <1>9, SettledFits
<1> QED BY <1>10 DEF k, p

LEMMA UnreadySettled ==
    ASSUME NEW h, Unready(h), NEW k
    PROVE  Unready(Settled(h, k))
<1> DEFINE kept == {p + 1 : p \in Walk(h) \cup {h.top}}
                     \cup {Next_(h, p) + 1 : p \in Fences(h)}
                     \cup {Next_(h, p) : p \in FreeChunks(h)}
                     \cup UNION {a .. a + k[a].len - 1 : a \in DOMAIN k}
           m == [a \in DOMAIN h.mem |-> IF a \in kept \/ a >= h.brk THEN h.mem[a] ELSE Stale]
           g == [h EXCEPT !.mem = m]
<1>1. Settled(h, k) = g BY DEF Settled
<1>2. h.mem \in [Start .. End - 1 -> Int] /\ IsHeap(h) BY DEF Unready
<1> HIDE DEF kept
<1>3. DOMAIN h.mem = Start .. End - 1 /\ \A w \in Start .. End - 1 : h.mem[w] \in Int
  BY <1>2
<1>4. m \in [Start .. End - 1 -> Int] BY <1>3 DEF Stale
<1>5. Rewritten(g, h, m) BY <1>2, MemoryIs
<1> HIDE DEF g, m
<1>6. Unready(g) BY <1>4, <1>5 DEF Unready, Rewritten, Settings
<1> QED BY <1>1, <1>6

LEMMA AllocatedInv ==
    ASSUME HeapInv(heap, live), NEW r, NEW n \in Nat, NEW t \in Tags \cup {0},
           NEW nb \in Nat, n + 1 <= nb, Serves(heap, live, r, nb), Allocated(r, n, t)
    PROVE  HeapInv(heap', live')
<1> DEFINE k == Put(live, r.got, n, t)
           g == IF t = 0 THEN r.heap ELSE Fill(r.heap, r.got, n, t, 1)
<1>1. \/ r.got = Null /\ heap' = Settled(r.heap, live) /\ live' = live
      \/ r.got # Null /\ heap' = Settled(g, k) /\ live' = k BY DEF Allocated, Put
<1>2. CASE ~heap.ready
  <2>1. r.got = Null /\ r.heap = heap BY <1>2 DEF Serves
  <2>2. heap' = Settled(heap, live) /\ live' = live BY <1>1, <2>1
  <2>3. Unready(heap) /\ DOMAIN live = {} BY <1>2 DEF HeapInv
  <2>4. Unready(heap') BY <2>2, <2>3, UnreadySettled
  <2>5. heap'.ready = FALSE BY <2>4 DEF Unready
  <2> QED BY <2>2, <2>3, <2>4, <2>5 DEF HeapInv
<1>3. CASE heap.ready
  <2>1. Entries(live) /\ ForeignApart(live) /\ Fitting(heap, live) BY <1>3 DEF HeapInv
  <2>2. PICK s : Sound(heap, Used(live), s, Taken(live)) /\ Roomy(live, s)
    BY <2>1 DEF Fitting, Roomy
  <2>3. Got(r, Used(live), s, Taken(live), nb) BY <2>2 DEF Serves
  <2>4. CASE r.got = Null
    <3>1. Sound(r.heap, Used(live), s, Taken(live)) BY <2>3, <2>4 DEF Got, Given
    <3>2. HeapInv(Settled(r.heap, live), live) BY <2>1, <2>2, <3>1, SettledFits
    <3> QED BY <1>1, <2>4, <3>2
  <2>5. CASE r.got # Null
    <3>1. Given(r, Used(live), s, Taken(live), nb) BY <2>3, <2>5 DEF Got
    <3>2. Stored(g, r, n)
      <4>1. t \in Nat /\ 1 \in Nat \ {0} BY HeapAssumption
      <4> QED BY <4>1 DEF Stored
    <3> HIDE DEF g
    <3>3. HeapInv(Settled(g, k), k) BY <2>1, <2>2, <3>1, <3>2, PutFits
    <3> QED BY <1>1, <2>5, <3>3
  <2> QED BY <2>4, <2>5
<1> QED BY <1>2, <1>3

-----------------------------------------------------------------------------
(* What the public functions return *)

LEMMA ModestIs ==
    ASSUME NEW n \in Nat, Modest(n)
    PROVE  /\ Asks(n) /\ \A pad \in Pads : n + pad + 4 * Page + 16 <= Half
           /\ \A a \in Alignments : MayAlign(n, a)
<1>1. \A pad \in Pads : pad \in Nat BY PadBound
<1>2. Page \in Nat /\ Half \in Nat /\ Word = 2 * Half /\ Page % 2 = 0 /\ Page < Half
  BY Bounds, MallocAssumption DEF MallocAssumption
<1>3. \A pad \in Pads : n + pad + 4 * Page + 16 <= Half
  <2> TAKE pad \in Pads
  <2>1. n + pad + Page + 3 * Page + 16 <= Half BY DEF Modest
  <2> QED BY <1>1, <1>2, <2>1
<1>4. Asks(n)
  <2>1. \A pad \in Pads : n + pad + 2 * Page + 8 <= Half
    <3> TAKE pad \in Pads
    <3>1. n + pad + 4 * Page + 16 <= Half BY <1>3
    <3> QED BY <1>1, <1>2, <3>1
  <2> QED BY <2>1 DEF Asks
<1>5. \A a \in Alignments : MayAlign(n, a)
  <2> TAKE a \in Alignments
  <2>1. a \in Nat /\ a % 2 = 0 BY HeapAssumption
  <2>2. \A pad \in Pads : n + a + pad + 2 * Page + 16 <= Half
    <3> TAKE pad \in Pads
    <3>1. n + pad + a + 3 * Page + 16 <= Half BY DEF Modest
    <3> QED BY <1>1, <1>2, <2>1, <3>1
  <2> QED BY <2>1, <2>2 DEF MayAlign
<1> QED BY <1>3, <1>4, <1>5

LEMMA MallocServes ==
    ASSUME NEW h, NEW l, NEW n \in Nat, n >= Half \/ Asks(n), NEW pad \in Pads
    PROVE  Fine(h, l, malloc(h, n), n)
<1> DEFINE r == malloc(h, n)
<1>1. ~h.ready => r.heap = h /\ r.got = Null BY DEF malloc
<1>2. CASE n >= Half
  <2>1. r.heap = h /\ r.got = Null BY <1>2 DEF malloc
  <2>2. \A s : Sound(h, Used(l), s, Taken(l)) => Got(r, Used(l), s, Taken(l), n + 1)
    BY <2>1 DEF Got
  <2> QED BY <1>1, <2>2 DEF Fine, Serves
<1>3. CASE Asks(n)
  <2> DEFINE nb == request2size(n)
  <2>1. Asking(n) /\ NbOk(nb) /\ n + 1 <= nb BY <1>3, AskingIs
  <2>2. \A s : Sound(h, Used(l), s, Taken(l)) => Got(r, Used(l), s, Taken(l), nb)
    BY <2>1, MallocGood
  <2> HIDE DEF r, nb
  <2>3. nb \in Nat BY <2>1 DEF NbOk
  <2>4. Fine(h, l, r, n) BY <1>1, <2>1, <2>2, <2>3 DEF Fine, Serves
  <2> QED BY <2>4 DEF r
<1> QED BY <1>2, <1>3

LEMMA MemalignServes ==
    ASSUME NEW h, NEW l, NEW n \in Nat, NEW a, n >= Half \/ MayAlign(n, a), NEW pad \in Pads
    PROVE  Fine(h, l, memalign(h, a, n), n)
<1> DEFINE r == memalign(h, a, n)
<1>1. ~h.ready => r.heap = h /\ r.got = Null BY DEF memalign, malloc, Align
<1>2. CASE n >= Half
  <2>1. \A s : Sound(h, Used(l), s, Taken(l)) => Got(r, Used(l), s, Taken(l), n + 1)
    BY <1>2, MemalignRefuses
  <2> HIDE DEF r
  <2>2. Fine(h, l, r, n) BY <1>1, <2>1 DEF Fine, Serves
  <2> QED BY <2>2 DEF r
<1>3. CASE MayAlign(n, a)
  <2> DEFINE nb == request2size(n)
  <2>1. n + 1 <= nb /\ NbOk(nb)
    <3>1. pad \in Nat /\ n + a + pad + 2 * Page + 16 <= Half /\ a \in Nat
      BY <1>3, PadBound DEF MayAlign
    <3>2. n + 2 < Half BY <3>1, Bounds
    <3> QED BY <3>2, RequestIs
  <2>2. \A s : Sound(h, Used(l), s, Taken(l)) => Got(r, Used(l), s, Taken(l), nb)
    BY <1>3, MemalignGood
  <2> HIDE DEF r, nb
  <2>3. nb \in Nat BY <2>1 DEF NbOk
  <2>4. Fine(h, l, r, n) BY <1>1, <2>1, <2>2, <2>3 DEF Fine, Serves
  <2> QED BY <2>4 DEF r
<1> QED BY <1>2, <1>3

LEMMA FineLess ==
    ASSUME NEW h, NEW l, NEW r, NEW n \in Nat, NEW m \in Nat, n <= m, Fine(h, l, r, m)
    PROVE  Fine(h, l, r, n)
<1>1. PICK nb \in Nat : m + 1 <= nb /\ Serves(h, l, r, nb) BY DEF Fine
<1>2. n + 1 <= nb BY <1>1
<1> QED BY <1>1, <1>2 DEF Fine

LEMMA RequestsAre ==
    ASSUME NEW n \in Requests, NEW pad \in Pads
    PROVE  /\ n \in Nat /\ (n >= Half \/ Asks(n))
           /\ \A a \in Alignments \cup {Page} : n >= Half \/ MayAlign(n, a)
           /\ n <= PageUp(n % Word) /\ PageUp(n % Word) \in Nat
           /\ PageUp(n % Word) >= Half \/ MayAlign(PageUp(n % Word), Page)
<1>1. n \in Nat /\ ((n >= Half /\ n + Page <= Word) \/ Modest(n)) BY HeapAssumption
<1>2. Page \in Nat /\ Page > 0 /\ Half \in Nat /\ Word = 2 * Half /\ Page % 2 = 0 /\ Page < Half
      /\ Word \in Nat \ {0} /\ Half > 0 BY Bounds, MallocAssumption DEF MallocAssumption
<1>3. pad \in Nat BY PadBound
<1> DEFINE m == PageUp(n % Word)
<1>4. n + Page <= Word
  <2>1. CASE Modest(n)
    <3>1. n + pad + 4 * Page + 16 <= Half BY <1>1, <2>1, ModestIs
    <3> QED BY <1>1, <1>2, <1>3, <3>1
  <2> QED BY <1>1, <2>1
<1>5. n % Word = n
  <2>1. n < Word BY <1>1, <1>2, <1>4
  <2> QED BY <1>1, <1>2, <2>1, NoWrap
<1>6. m \in Nat /\ n <= m /\ m <= n + Page
  <2>1. CASE n + Page < Word
    <3>1. PageUp(n) \in Nat /\ n <= PageUp(n) /\ PageUp(n) < n + Page
      BY <1>1, <2>1, PageUpIs
    <3> HIDE DEF m
    <3>2. m = PageUp(n) BY <1>5 DEF m
    <3> QED BY <1>1, <1>2, <3>1, <3>2
  <2>2. CASE n + Page = Word
    <3> DEFINE w == n + Page - 1
               d == w % Page
    <3>1. m = (w - d) % Word BY <1>5 DEF PageUp
    <3>2. d = Page - 1
      <4>1. Word % Page = 0 BY MallocAssumption DEF MallocAssumption
      <4>2. Word = Page * (Word \div Page) /\ Word \div Page \in Nat
        BY <1>2, <4>1, Multiple
      <4> DEFINE q == Word \div Page
      <4>3. w = Page * (q - 1) + (Page - 1)
        <5>1. Word = Page * q /\ q \in Nat BY <4>2
        <5> HIDE DEF q
        <5>2. Page * (q - 1) = Page * q - Page BY <1>2, <5>1
        <5> QED BY <1>1, <1>2, <2>2, <5>1, <5>2
      <4>4. w \in Int /\ q - 1 \in Int /\ Page - 1 \in 0 .. Page - 1 /\ Page \in Nat \ {0}
        BY <1>1, <1>2, <4>2
      <4> HIDE DEF w, q
      <4> QED BY <4>3, <4>4, Quotient
    <3>3. w - d = n BY <1>1, <1>2, <2>2, <3>2
    <3> HIDE DEF m, w, d
    <3>4. m = n BY <1>5, <3>1, <3>3
    <3> QED BY <1>1, <1>2, <3>4
  <2> QED BY <1>1, <1>2, <1>4, <2>1, <2>2
<1> HIDE DEF m
<1>7. CASE n >= Half
  <2>1. m >= Half BY <1>1, <1>2, <1>6, <1>7
  <2> QED BY <1>1, <1>6, <1>7, <2>1 DEF m
<1>8. CASE Modest(n)
  <2>1. /\ Asks(n) /\ \A q \in Pads : n + q + 4 * Page + 16 <= Half
        /\ \A a \in Alignments : MayAlign(n, a) BY <1>1, <1>8, ModestIs
  <2>2. \A q \in Pads : q \in Nat BY PadBound
  <2>3. MayAlign(n, Page)
    <3>1. \A q \in Pads : n + Page + q + 2 * Page + 16 <= Half BY <1>1, <1>2, <2>1, <2>2
    <3> QED BY <1>1, <1>2, <3>1 DEF MayAlign
  <2>4. MayAlign(m, Page)
    <3>1. \A q \in Pads : m + Page + q + 2 * Page + 16 <= Half
      <4> TAKE q \in Pads
      <4>1. n + q + 4 * Page + 16 <= Half /\ q \in Nat BY <2>1, <2>2
      <4> QED BY <1>1, <1>2, <1>6, <4>1
    <3> QED BY <1>2, <1>6, <3>1 DEF MayAlign
  <2> QED BY <1>1, <1>6, <2>1, <2>3, <2>4 DEF m
<1> QED BY <1>1, <1>7, <1>8

LEMMA CallocServes ==
    ASSUME NEW h, NEW l, NEW n \in Products, NEW e \in Products, NEW pad \in Pads
    PROVE  n * e \in Nat /\ Fine(h, l, calloc(h, n, e), n * e)
<1> DEFINE m == n * e
           r == calloc(h, n, e)
<1>1. n \in Nat /\ e \in Nat /\ n < Half /\ Modest(m) BY HeapAssumption
<1>2. m \in Nat BY <1>1
<1> HIDE DEF m
<1>3. Asks(m) BY <1>1, <1>2, ModestIs
<1>4. m % Word = m
  <2>1. pad \in Nat /\ m + pad + 2 * Page + 8 <= Half BY <1>3, PadBound DEF Asks
  <2>2. m < Word /\ Word \in Nat \ {0} BY <1>2, <2>1, Bounds
  <2> QED BY <1>2, <2>2, NoWrap
<1>5. Asking(m % Word) /\ NbOk(request2size(m)) /\ m + 1 <= request2size(m)
  BY <1>3, <1>4, AskingIs
<1>6. ~(n >= Half) BY <1>1, Bounds
<1>7. ~h.ready => r.heap = h /\ r.got = Null BY DEF calloc, malloc, ClearNew
<1>8. \A s : Sound(h, Used(l), s, Taken(l)) => Got(r, Used(l), s, Taken(l), request2size(m))
  <2> TAKE s
  <2> HAVE Sound(h, Used(l), s, Taken(l))
  <2>1. Got(calloc(h, n, e), Used(l), s, Taken(l), request2size((n * e) % Word))
    BY <1>5, <1>6, CallocGood DEF m
  <2> QED BY <1>4, <2>1 DEF m
<1> HIDE DEF r
<1>9. Fine(h, l, r, m) BY <1>5, <1>7, <1>8 DEF Fine, Serves, NbOk
<1> QED BY <1>2, <1>9 DEF r, m

LEMMA PadOf ==
    ASSUME NEW h, NEW l, HeapInv(h, l)
    PROVE  h.pad \in Pads
<1>1. CASE h.ready BY <1>1 DEF HeapInv, Fitting, Sound, Good
<1>2. CASE ~h.ready BY <1>2 DEF HeapInv, Unready
<1> QED BY <1>1, <1>2

LEMMA FineInv ==
    ASSUME HeapInv(heap, live), NEW r, NEW n \in Nat, NEW t \in Tags \cup {0},
           Fine(heap, live, r, n), Allocated(r, n, t)
    PROVE  HeapInv(heap', live')
<1>1. PICK nb \in Nat : n + 1 <= nb /\ Serves(heap, live, r, nb) BY DEF Fine
<1> QED BY <1>1, AllocatedInv

(* The functions that allocate *)
LEMMA AllocatesInv ==
    ASSUME HeapInv(heap, live), Malloc \/ Calloc \/ Memalign \/ Valloc \/ Pvalloc
    PROVE  HeapInv(heap', live')
<1>1. heap.pad \in Pads BY PadOf
<1>2. Page \in Alignments \cup {Page} OBVIOUS
<1>3. CASE Malloc
  <2>1. PICK n \in Requests, t \in Tags : Allocated(malloc(heap, n), n, t)
    BY <1>3 DEF Malloc
  <2>2. n \in Nat /\ (n >= Half \/ Asks(n)) BY <1>1, RequestsAre
  <2>3. Fine(heap, live, malloc(heap, n), n) BY <1>1, <2>2, MallocServes
  <2> QED BY <2>1, <2>2, <2>3, FineInv
<1>4. CASE Calloc
  <2>1. PICK n \in Products, e \in Products : Allocated(calloc(heap, n, e), n * e, 0)
    BY <1>4 DEF Calloc
  <2>2. n * e \in Nat /\ Fine(heap, live, calloc(heap, n, e), n * e) BY <1>1, CallocServes
  <2>3. 0 \in Tags \cup {0} OBVIOUS
  <2> DEFINE m == n * e
             r == calloc(heap, n, e)
  <2>4. m \in Nat /\ Fine(heap, live, r, m) /\ Allocated(r, m, 0) BY <2>1, <2>2
  <2> HIDE DEF m, r
  <2> QED BY <2>3, <2>4, FineInv
<1>5. CASE Memalign
  <2>1. PICK n \in Requests, a \in Alignments, t \in Tags : Allocated(memalign(heap, a, n), n, t)
    BY <1>5 DEF Memalign
  <2>2. n \in Nat /\ (n >= Half \/ MayAlign(n, a)) BY <1>1, RequestsAre
  <2>3. Fine(heap, live, memalign(heap, a, n), n) BY <1>1, <2>2, MemalignServes
  <2> QED BY <2>1, <2>2, <2>3, FineInv
<1>6. CASE Valloc
  <2>1. PICK n \in Requests, t \in Tags : Allocated(memalign(heap, Page, n), n, t)
    BY <1>6 DEF Valloc, valloc
  <2>2. n \in Nat /\ (n >= Half \/ MayAlign(n, Page)) BY <1>1, <1>2, RequestsAre
  <2>3. Fine(heap, live, memalign(heap, Page, n), n) BY <1>1, <2>2, MemalignServes
  <2> QED BY <2>1, <2>2, <2>3, FineInv
<1>7. CASE Pvalloc
  <2>1. PICK n \in Requests, t \in Tags :
            Allocated(memalign(heap, Page, PageUp(n % Word)), n, t)
    BY <1>7 DEF Pvalloc, pvalloc
  <2> DEFINE m == PageUp(n % Word)
             r == memalign(heap, Page, m)
  <2>2. n \in Nat /\ m \in Nat /\ n <= m /\ (m >= Half \/ MayAlign(m, Page)) /\ Allocated(r, n, t)
    BY <1>1, <2>1, RequestsAre
  <2> HIDE DEF m
  <2>3. Fine(heap, live, r, m) BY <1>1, <2>2, MemalignServes
  <2> HIDE DEF r
  <2>4. Fine(heap, live, r, n) BY <2>2, <2>3, FineLess
  <2>5. t \in Tags \cup {0} OBVIOUS
  <2> QED BY <2>2, <2>4, <2>5, FineInv
<1> QED BY <1>3, <1>4, <1>5, <1>6, <1>7

LEMMA FreeInv ==
    ASSUME HeapInv(heap, live), Free
    PROVE  HeapInv(heap', live')
<1>1. PICK a \in OwnedIn(live) : /\ heap' = Settled(free(heap, a - 2), Taking(live, a))
                                 /\ live' = Taking(live, a)
  BY DEF Free, Owned, OwnedIn, Taking
<1>2. heap.ready BY DEF HeapInv, OwnedIn
<1>3. Entries(live) /\ ForeignApart(live) /\ Fitting(heap, live) BY <1>2 DEF HeapInv
<1>4. PICK s : Sound(heap, Used(live), s, Taken(live)) /\ Roomy(live, s)
  BY <1>3 DEF Fitting, Roomy
<1> DEFINE k == Taking(live, a)
           p == a - 2
<1>5. IsTaking(k, live, a) BY <1>3, TakingIs
<1> HIDE DEF k
<1>6. /\ Entries(k) /\ ForeignApart(k) /\ Used(k) = Used(live) \ {p} /\ Taken(k) = Taken(live)
      /\ p \in Used(live) /\ \A q \in Used(k) : k[q + 2].len = live[q + 2].len
  BY <1>3, <1>5 DEF IsTaking
<1> HIDE DEF p
<1>7. Sound(free(heap, p), Used(k), s, Taken(k)) BY <1>4, <1>6, FreeSound
<1>8. Roomy(k, s) BY <1>4, <1>6 DEF Roomy
<1>9. HeapInv(Settled(free(heap, p), k), k) BY <1>6, <1>7, <1>8, SettledFits
<1> QED BY <1>1, <1>9 DEF k, p

LEMMA ReallocInv ==
    ASSUME HeapInv(heap, live), Realloc
    PROVE  HeapInv(heap', live')
<1>1. PICK a \in OwnedIn(live), n \in Requests :
          LET result == realloc(heap, a - 2, n)
              p == result.got
              t == live[a].tag
              known == [b \in (DOMAIN live \ {a}) \cup {p + 2} |->
                          IF b = p + 2 THEN Entry(n, t, "malloc") ELSE live[b]]
          IN IF p = Null
             THEN heap' = Settled(result.heap, live) /\ UNCHANGED live
             ELSE /\ heap' = Settled(Fill(result.heap, p, n, t, live[a].len + 1), known)
                  /\ live' = known BY DEF Realloc, Owned, OwnedIn
<1> DEFINE r == realloc(heap, a - 2, n)
           t == live[a].tag
           l == Taking(live, a)
           k == Put(l, r.got, n, t)
           h2 == Fill(r.heap, r.got, n, t, live[a].len + 1)
           U == Used(live)
           F == Taken(live)
           x == a - 2
           nb == request2size(n)
<1>2. \/ r.got = Null /\ heap' = Settled(r.heap, live) /\ live' = live
      \/ r.got # Null /\ heap' = Settled(h2, k) /\ live' = k
  <2>1. DOMAIN l = DOMAIN live \ {a} /\ \A b \in DOMAIN l : l[b] = live[b] BY DEF Taking
  <2>2. k = [b \in (DOMAIN live \ {a}) \cup {r.got + 2} |->
                IF b = r.got + 2 THEN Entry(n, t, "malloc") ELSE live[b]]
    <3> HIDE DEF l, r
    <3> QED BY <2>1 DEF Put
  <2> HIDE DEF k, l
  <2> QED BY <1>1, <2>2
<1>3. heap.ready BY DEF HeapInv, OwnedIn
<1>4. Entries(live) /\ ForeignApart(live) /\ Fitting(heap, live) BY <1>3 DEF HeapInv
<1>5. PICK s : Sound(heap, U, s, F) /\ Roomy(live, s) BY <1>4 DEF Fitting, Roomy
<1>6. heap.pad \in Pads BY PadOf
<1>7. n \in Nat /\ (n >= Half \/ Asks(n)) BY <1>6, RequestsAre
<1>8. IsTaking(l, live, a) BY <1>4, TakingIs
<1>9. /\ Entries(l) /\ ForeignApart(l) /\ Used(l) = U \ {x} /\ Taken(l) = F
      /\ x \in U /\ \A q \in Used(l) : l[q + 2].len = live[q + 2].len
  BY <1>4, <1>8 DEF IsTaking
<1>10. t \in Tags \cup {0} /\ live[a].len \in Nat BY <1>4 DEF Entries, OwnedIn
<1>11. CASE n >= Half
  <2>1. r.got = Null /\ r.heap = heap BY <1>11 DEF realloc
  <2>2. HeapInv(Settled(heap, live), live) BY <1>4, <1>5, SettledFits
  <2> QED BY <1>2, <2>1, <2>2
<1>12. CASE Asks(n)
  <2>1. Asking(n) /\ NbOk(nb) /\ n + 1 <= nb BY <1>6, <1>12, AskingIs
  <2> HIDE DEF U, F, x, nb, l
  <2>2. Regot(r, U, s, F, x, nb) BY <1>5, <1>9, <2>1, ReallocSound DEF x, nb
  <2> HIDE DEF r
  <2>3. CASE r.got = Null
    <3>1. Sound(r.heap, U, s, F) BY <2>2, <2>3 DEF Regot, Given
    <3>2. HeapInv(Settled(r.heap, live), live) BY <1>4, <1>5, <3>1, SettledFits DEF U, F
    <3> QED BY <1>2, <2>3, <3>2
  <2>4. CASE r.got # Null
    <3>1. Given(r, Used(l), s, Taken(l), nb) BY <1>9, <2>2, <2>4 DEF Regot
    <3>2. Roomy(l, s) BY <1>5, <1>9 DEF Roomy, U
    <3>3. Stored(h2, r, n)
      <4>1. t \in Nat /\ live[a].len + 1 \in Nat \ {0} BY <1>10, HeapAssumption
      <4> HIDE DEF t
      <4> QED BY <4>1 DEF Stored
    <3> HIDE DEF h2, t
    <3>4. nb \in Nat BY <2>1 DEF NbOk
    <3>5. HeapInv(Settled(h2, k), k)
      BY <1>7, <1>9, <1>10, <2>1, <3>1, <3>2, <3>3, <3>4, PutFits
    <3> QED BY <1>2, <2>4, <3>5
  <2> QED BY <2>3, <2>4
<1> QED BY <1>7, <1>11, <1>12

LEMMA TrimUnready ==
    ASSUME NEW h, h.top = InitialTop, NEW pad \in Pads
    PROVE  malloc_trim(h, pad) = h
<1> DEFINE extra == TrimExtra(0, pad) % Word
<1>1. Size(h, h.top) = 0 BY DEF Size
<1>2. pad \in Nat /\ pad + 2 * Page + 16 <= Half BY PadBound
<1>3. \/ Signed(extra) < Page
      \/ extra \in Nat \ {0} /\ extra < Half /\ 0 - extra >= MINSIZE
  <2>1. 0 \in Nat /\ 0 <= End BY Bounds
  <2> QED BY <1>2, <2>1, TrimBound
<1>4. malloc_trim(h, pad) =
          LET back == sbrk(h, (Word - extra) % Word) IN
          IF Signed(extra) < Page \/ h.brk # h.top + 0 THEN h
          ELSE IF back.got # Failure THEN SetHead(back.heap, h.top, 0 - extra, 1)
          ELSE IF h.brk - h.top >= MINSIZE THEN SetHead(back.heap, h.top, h.brk - h.top, 1)
          ELSE back.heap BY <1>1 DEF malloc_trim
<1> HIDE DEF extra
<1>5. Signed(extra) < Page BY <1>3 DEF MINSIZE
<1> QED BY <1>4, <1>5

LEMMA TrimInv ==
    ASSUME HeapInv(heap, live), MallocTrim
    PROVE  HeapInv(heap', live')
<1>1. PICK pad \in Pads : heap' = Settled(malloc_trim(heap, pad), live) /\ live' = live
  BY DEF MallocTrim
<1>2. CASE heap.ready
  <2>1. Entries(live) /\ ForeignApart(live) /\ Fitting(heap, live) BY <1>2 DEF HeapInv
  <2>2. PICK s : Sound(heap, Used(live), s, Taken(live)) /\ Roomy(live, s)
    BY <2>1 DEF Fitting, Roomy
  <2>3. Sound(malloc_trim(heap, pad), Used(live), s, Taken(live)) BY <2>2, TrimSound
  <2>4. HeapInv(Settled(malloc_trim(heap, pad), live), live)
    BY <2>1, <2>2, <2>3, SettledFits
  <2> QED BY <1>1, <2>4
<1>3. CASE ~heap.ready
  <2>1. Unready(heap) /\ DOMAIN live = {} BY <1>3 DEF HeapInv
  <2>2. malloc_trim(heap, pad) = heap BY <2>1, TrimUnready DEF Unready
  <2>3. Unready(Settled(heap, live)) BY <2>1, UnreadySettled
  <2>4. heap' = Settled(heap, live) BY <1>1, <2>2
  <2>5. Unready(heap') /\ ~heap'.ready /\ DOMAIN live' = {}
    BY <1>1, <2>1, <2>3, <2>4 DEF Unready
  <2> QED BY <2>5 DEF HeapInv
<1> QED BY <1>2, <1>3

LEMMA RetunedInv ==
    ASSUME HeapInv(heap, live), Retuned(heap', heap), live' = live
    PROVE  HeapInv(heap', live')
<1> DEFINE k == heap'
<1>1. Retuned(k, heap) OBVIOUS
<1> HIDE DEF k
<1>2. CASE heap.ready
  <2>1. Entries(live) /\ ForeignApart(live) BY <1>2 DEF HeapInv
  <2>2. PICK s : Sound(heap, Used(live), s, Taken(live)) /\ Roomy(live, s)
    BY <1>2 DEF HeapInv, Fitting, Roomy
  <2>3. PICK C, S, z, fr : /\ Good(heap, C, S, z, fr, Taken(live))
                           /\ C \ fr = Used(live) /\ \A x \in Used(live) : z[x] = s[x]
    BY <2>2 DEF Sound
  <2>4. Good(k, C, S, z, fr, Taken(live)) BY <1>1, <2>3 DEF Good, Retuned
  <2>5. Sound(k, Used(live), s, Taken(live)) BY <2>3, <2>4 DEF Sound
  <2>6. HeapInv(k, live)
    BY <1>1, <1>2, <2>1, <2>2, <2>5 DEF HeapInv, Fitting, Roomy, Retuned
  <2> QED BY <2>6 DEF k
<1>3. CASE ~heap.ready
  <2>1. Unready(heap) /\ DOMAIN live = {} BY <1>3 DEF HeapInv
  <2>2. Unready(k) BY <1>1, <2>1 DEF Unready, Retuned
  <2>3. HeapInv(k, live) BY <1>1, <1>3, <2>1, <2>2 DEF HeapInv, Retuned
  <2> QED BY <2>3 DEF k
<1> QED BY <1>2, <1>3

LEMMA IsHeapOf ==
    ASSUME NEW h, NEW l, HeapInv(h, l)
    PROVE  IsHeap(h) /\ h.trim \in Nat /\ h.pad \in Pads
<1>1. CASE h.ready BY <1>1 DEF HeapInv, Fitting, Sound, Good
<1>2. CASE ~h.ready BY <1>2 DEF HeapInv, Unready
<1> QED BY <1>1, <1>2

LEMMA MalloptInv ==
    ASSUME HeapInv(heap, live), Mallopt
    PROVE  HeapInv(heap', live')
<1>1. IsHeap(heap) /\ heap.trim \in Nat /\ heap.pad \in Pads BY IsHeapOf
<1>2. Thresholds \subseteq Nat BY HeapAssumption
<1>3. CASE \E v \in Thresholds : heap' = [heap EXCEPT !.trim = v]
  <2>1. PICK v \in Thresholds : heap' = [heap EXCEPT !.trim = v] BY <1>3
  <2>2. Retuned([heap EXCEPT !.trim = v], heap) BY <1>1, <1>2 DEF Retuned, IsHeap
  <2> QED BY <2>1, <2>2, RetunedInv DEF Mallopt
<1>4. CASE \E v \in Pads : heap' = [heap EXCEPT !.pad = v]
  <2>1. PICK v \in Pads : heap' = [heap EXCEPT !.pad = v] BY <1>4
  <2>2. Retuned([heap EXCEPT !.pad = v], heap) BY <1>1, <1>2 DEF Retuned, IsHeap
  <2> QED BY <2>1, <2>2, RetunedInv DEF Mallopt
<1> QED BY <1>3, <1>4 DEF Mallopt

LEMMA LentIs ==
    ASSUME NEW l, Entries(l), NEW a \in Nat, a \notin DOMAIN l, NEW n \in Nat, n > 0,
           (a .. a + n - 1) \cap Taken(l) = {}, NEW t \in Tags \cup {0}
    PROVE  IsLent(Lent(l, a, n, t), l, a, n)
<1> DEFINE k == Lent(l, a, n, t)
<1>1. DOMAIN k = DOMAIN l \cup {a} BY DEF Lent
<1>2. \A b \in DOMAIN l : k[b] = l[b] BY DEF Lent
<1>3. k[a].len = n /\ k[a].tag = t /\ k[a].from = "sbrk" BY DEF Lent, Entry
<1> HIDE DEF k
<1>4. OwnedIn(k) = OwnedIn(l) /\ ForeignIn(k) = ForeignIn(l) \cup {a}
  <2>1. "malloc" # "sbrk" OBVIOUS
  <2>2. \A b : b \in OwnedIn(k) <=> b \in OwnedIn(l) BY <1>1, <1>2, <1>3, <2>1 DEF OwnedIn
  <2>3. \A b : b \in ForeignIn(k) <=> b \in ForeignIn(l) \/ b = a
    BY <1>1, <1>2, <1>3 DEF ForeignIn
  <2> QED BY <2>2, <2>3
<1>5. \A b \in ForeignIn(l) : k[b].len = l[b].len /\ b # a BY <1>2 DEF ForeignIn
<1>6. Entries(k)
  <2>1. "malloc" # "sbrk" OBVIOUS
  <2>2. \A b \in DOMAIN l : /\ b \in Nat /\ k[b].len \in Nat /\ k[b].tag \in Tags \cup {0}
                            /\ k[b].from \in {"malloc", "sbrk"}
                            /\ k[b].from = "malloc" => b - 2 \in Nat
                            /\ k[b].from = "sbrk" => k[b].len > 0 BY <1>2 DEF Entries
  <2>3. /\ a \in Nat /\ k[a].len \in Nat /\ k[a].tag \in Tags \cup {0}
        /\ k[a].from \in {"malloc", "sbrk"}
        /\ k[a].from = "malloc" => a - 2 \in Nat
        /\ k[a].from = "sbrk" => k[a].len > 0 BY <1>3, <2>1
  <2> QED BY <1>1, <2>2, <2>3 DEF Entries
<1>7. Taken(k) = Taken(l) \cup a .. a + n - 1
  <2>1. a .. a + k[a].len - 1 = a .. a + n - 1 BY <1>3
  <2>2. \A w : w \in Taken(k) <=> \E b \in ForeignIn(k) : w \in b .. b + k[b].len - 1
    BY DEF Taken
  <2>3. \A w : w \in Taken(l) <=> \E b \in ForeignIn(l) : w \in b .. b + l[b].len - 1
    BY DEF Taken
  <2>4. \A w : w \in Taken(k) <=> w \in Taken(l) \/ w \in a .. a + n - 1
    BY <1>4, <1>5, <2>1, <2>2, <2>3
  <2> QED BY <2>4
<1>8. Used(k) = Used(l) BY <1>4 DEF Used
<1>9. ForeignApart(l) => ForeignApart(k)
  <2> SUFFICES ASSUME ForeignApart(l), NEW b \in ForeignIn(k), NEW c \in ForeignIn(k), b # c
               PROVE  (b .. b + k[b].len - 1) \cap (c .. c + k[c].len - 1) = {}
    BY DEF ForeignApart
  <2>1. \A d \in ForeignIn(l) : (d .. d + k[d].len - 1) \subseteq Taken(l)
    BY <1>5 DEF Taken
  <2>2. CASE b = a BY <1>3, <1>4, <2>1, <2>2
  <2>3. CASE c = a BY <1>3, <1>4, <2>1, <2>3
  <2>4. CASE b # a /\ c # a BY <1>4, <1>5, <2>4 DEF ForeignApart
  <2> QED BY <2>2, <2>3, <2>4
<1>10. \A q \in Used(l) : k[q + 2].len = l[q + 2].len BY <1>2, UsedIs DEF OwnedIn
<1> QED BY <1>6, <1>7, <1>8, <1>9, <1>10 DEF IsLent, k

LEMMA KeptIs ==
    ASSUME NEW m \in [Start .. End - 1 -> Int], NEW a \in Nat, NEW n \in Nat, NEW t \in Nat
    PROVE  IsKept(Kept(m, a, n, t), m, a, n)
<1>1. DOMAIN m = Start .. End - 1 /\ \A w \in Start .. End - 1 : m[w] \in Int OBVIOUS
<1>2. Start \in Nat /\ End \in Nat BY Bounds
<1>3. \A i \in Int : Cell(t, i) \in Int BY DEF Cell
<1>4. \A w \in Start .. End - 1 : w - a + 1 \in Int BY <1>2
<1>5. \A w \in Start .. End - 1 : Cell(t, w - a + 1) \in Int BY <1>3, <1>4
<1> QED BY <1>1, <1>5 DEF Kept, IsKept

LEMMA LentGood ==
    ASSUME NEW h, NEW C, NEW S, NEW z, NEW fr, NEW F, Good(h, C, S, z, fr, F),
           NEW n \in Nat, n < Half, NEW t \in Nat, sbrk(h, n).got # Failure
    PROVE  LET g == sbrk(h, n).heap
               a == h.brk
               k == [g EXCEPT !.mem = Kept(g.mem, a, n, t)]
           IN /\ sbrk(h, n).got = a /\ k.ready
              /\ Good(k, C, S, z, fr, F \cup a .. a + n - 1)
<1> DEFINE r == sbrk(h, n)
           g == r.heap
           a == h.brk
           b == a + n
           G == F \cup a .. b - 1
           m == Kept(g.mem, a, n, t)
           k == [g EXCEPT !.mem = m]
<1>1. IsHeap(h) /\ a \in Start .. End /\ h.mem \in [Start .. End - 1 -> Int] /\ h.ready
  BY GoodTop DEF Good
<1>2. a \in Nat /\ Start \in Nat /\ End \in Nat BY <1>1, Bounds
<1>3. b <= End /\ r.got = a /\ Moved(g, h, h.mem, b) BY <1>1, SbrkUp
<1> HIDE DEF r, g
<1>4. IsHeap(g) /\ g.mem = h.mem /\ g.ready BY <1>1, <1>3 DEF Moved
<1>5. Broken(g, h, b) BY <1>3 DEF Moved, Broken
<1>6. b \in Nat /\ a <= b /\ b - 1 = a + n - 1 BY <1>2
<1> HIDE DEF b, a
<1>7. Good(g, C, S, z, fr, G) BY <1>3, <1>5, <1>6, BreakGood DEF a
<1>8. /\ m \in [Start .. End - 1 -> Int]
      /\ \A w \in Start .. End - 1 : w \notin a .. b - 1 => m[w] = g.mem[w]
  <2>1. g.mem \in [Start .. End - 1 -> Int] BY <1>1, <1>4
  <2>2. IsKept(m, g.mem, a, n) BY <1>2, <2>1, KeptIs
  <2> HIDE DEF m
  <2> QED BY <1>6, <2>2 DEF IsKept
<1>9. Rewritten(k, g, m) BY <1>4, MemoryIs
<1> HIDE DEF m, k
<1>10. \A w \in TagWords(C, S, z, g.top, fr) : m[w] = g.mem[w]
  <2>1. Laid(C, S, z, g.top, g.brk, ToSet(g.regions), G) /\ fr \in SUBSET C
    BY <1>7, GoodParts
  <2>2. \A w \in G : w \notin TagWords(C, S, z, g.top, fr) BY <2>1, WordsInside
  <2>3. TagWords(C, S, z, g.top, fr) \subseteq Start .. End - 1 BY <2>1, TagWordsInside
  <2> QED BY <1>8, <2>2, <2>3
<1>11. Good(k, C, S, z, fr, G) BY <1>7, <1>8, <1>9, <1>10, WordsWritten
<1>12. k.ready BY <1>11 DEF Good
<1> QED BY <1>3, <1>6, <1>11, <1>12 DEF k, m, g, r, a

LEMMA ForeignInv ==
    ASSUME HeapInv(heap, live), ForeignSbrk
    PROVE  HeapInv(heap', live')
<1>1. PICK n \in ForeignSizes, t \in Tags :
          LET taken == sbrk(heap, n) IN
          /\ taken.got # Failure
          /\ heap' = [taken.heap EXCEPT !.mem = Kept(taken.heap.mem, taken.got, n, t)]
          /\ live' = Lent(live, taken.got, n, t) BY DEF ForeignSbrk, Kept, Lent
<1>2. heap.ready BY DEF ForeignSbrk
<1>3. n \in Nat /\ n > 0 /\ n < Half /\ t \in Nat BY HeapAssumption
<1>4. Entries(live) /\ ForeignApart(live) BY <1>2 DEF HeapInv
<1>5. PICK s : Sound(heap, Used(live), s, Taken(live)) /\ Roomy(live, s)
  BY <1>2 DEF HeapInv, Fitting, Roomy
<1> DEFINE U == Used(live)
           F == Taken(live)
           a == heap.brk
           g == sbrk(heap, n).heap
           h == [g EXCEPT !.mem = Kept(g.mem, a, n, t)]
           k == Lent(live, a, n, t)
<1>6. PICK C, S, z, fr : /\ Good(heap, C, S, z, fr, F)
                         /\ C \ fr = U /\ \A x \in U : z[x] = s[x] BY <1>5 DEF Sound
<1>7. sbrk(heap, n).got = a /\ h.ready /\ Good(h, C, S, z, fr, F \cup a .. a + n - 1)
  BY <1>1, <1>3, <1>6, LentGood
<1>8. heap' = h /\ live' = k BY <1>1, <1>7
<1> HIDE DEF g, h
<1>9. a \in Nat /\ (a .. a + n - 1) \cap F = {} /\ a \notin DOMAIN live
  <2>1. a \in Start .. End /\ Start \in Nat /\ End \in Nat BY <1>6, GoodTop, Bounds
  <2>2. Laid(C, S, z, heap.top, a, ToSet(heap.regions), F) BY <1>6, GoodParts
  <2> HIDE DEF a, F
  <2>3. \A w \in F : w \in Start .. a - 1 BY <2>2 DEF Laid
  <2>4. a \in Nat /\ (a .. a + n - 1) \cap F = {} BY <1>3, <2>1, <2>3
  <2>5. a \notin ForeignIn(live)
    <3> SUFFICES ASSUME a \in ForeignIn(live)
                 PROVE  FALSE
      OBVIOUS
    <3> DEFINE e == live[a].len
    <3>1. e \in Nat /\ e > 0 BY <1>4 DEF Entries, ForeignIn
    <3>2. (a .. a + e - 1) \subseteq F BY DEF Taken, F
    <3> HIDE DEF e
    <3>3. a \in a .. a + e - 1 BY <2>4, <3>1
    <3>4. a \in Start .. a - 1 BY <2>3, <3>2, <3>3
    <3> QED BY <2>1, <3>4
  <2>6. a \notin OwnedIn(live)
    <3> SUFFICES ASSUME a \in OwnedIn(live)
                 PROVE  FALSE
      OBVIOUS
    <3> DEFINE p == a - 2
    <3>1. p \in U /\ p \in Nat /\ p + 2 = a BY <1>4, <2>4 DEF Used, Entries, OwnedIn
    <3> HIDE DEF p
    <3>2. p \in C /\ p \in Pieces(C, S, heap.top) /\ p \notin S
      BY <1>6, <2>2, <3>1 DEF Pieces, Laid
    <3>3. z[p] >= MINSIZE /\ Beyond(S, z, p) <= a BY <2>2, <3>2 DEF Laid, IsChunk
    <3> DEFINE c == z[p]
    <3>4. c \in Nat /\ c >= 4 /\ p + c <= a
      BY <2>2, <3>1, <3>2, <3>3, WordsApart DEF MINSIZE, Beyond
    <3> HIDE DEF c
    <3> QED BY <2>4, <3>1, <3>4
  <2> QED BY <1>4, <2>4, <2>5, <2>6 DEF Entries, OwnedIn, ForeignIn, F
<1>10. IsLent(k, live, a, n) BY <1>3, <1>4, <1>9, LentIs
<1> HIDE DEF k, a
<1>11. /\ Entries(k) /\ ForeignApart(k) /\ Used(k) = U /\ Taken(k) = F \cup a .. a + n - 1
       /\ \A q \in U : k[q + 2].len = live[q + 2].len BY <1>4, <1>10 DEF IsLent
<1>12. Sound(h, Used(k), s, Taken(k)) BY <1>6, <1>7, <1>11 DEF Sound, a
<1>13. Roomy(k, s) BY <1>5, <1>11 DEF Roomy
<1>14. HeapInv(h, k) BY <1>7, <1>11, <1>12, <1>13 DEF HeapInv, Fitting, Roomy
<1> QED BY <1>8, <1>14

(* The state before any call *)
LEMMA InitInv ==
    ASSUME Init
    PROVE  HeapInv(heap, live)
<1>1. PICK trim \in Thresholds, pad \in Pads :
          /\ heap = [EmptyHeap EXCEPT !.trim = trim, !.pad = pad]
          /\ live = [a \in {} |-> Entry(0, 0, "malloc")] BY DEF Init
<1>2. trim \in Nat BY HeapAssumption
<1> DEFINE m == [a \in Start .. End - 1 |-> Stale]
           bins == [i \in 0 .. LastBin |-> <<>>]
<1>3. m \in [Start .. End - 1 -> Int] BY DEF Stale
<1> HIDE DEF m, bins
<1>4. heap = [mem |-> m, ready |-> FALSE, brk |-> 0, based |-> FALSE, top |-> InitialTop,
              bins |-> bins, marked |-> {}, trim |-> trim, pad |-> pad, regions |-> <<>>]
  BY <1>1 DEF EmptyHeap, m, bins
<1>5. /\ heap.mem = m /\ heap.ready = FALSE /\ heap.brk = 0 /\ heap.based = FALSE
      /\ heap.top = InitialTop /\ heap.bins = bins /\ heap.marked = {} /\ heap.trim = trim
      /\ heap.pad = pad /\ heap.regions = <<>> BY <1>4
<1>6. IsHeap(heap) BY <1>4, <1>5 DEF IsHeap
<1>7. Unready(heap) BY <1>2, <1>3, <1>5, <1>6 DEF Unready, bins
<1>8. DOMAIN live = {} BY <1>1
<1> QED BY <1>5, <1>7, <1>8 DEF HeapInv

LEMMA ReadySet ==
    ASSUME NEW g, IsHeap(g), NEW v, NEW b
    PROVE  Readied([g EXCEPT !.ready = v, !.brk = b], g, v, b)
<1> DEFINE g1 == [g EXCEPT !.ready = v]
           k == [g1 EXCEPT !.brk = b]
<1>1. /\ IsHeap(g1) /\ g1.mem = g.mem /\ g1.ready = v /\ g1.based = g.based
      /\ g1.top = g.top /\ g1.bins = g.bins /\ g1.marked = g.marked
      /\ g1.trim = g.trim /\ g1.pad = g.pad /\ g1.regions = g.regions BY DEF IsHeap
<1> HIDE DEF g1
<1>2. /\ IsHeap(k) /\ k.mem = g1.mem /\ k.ready = g1.ready /\ k.brk = b /\ k.based = g1.based
      /\ k.top = g1.top /\ k.bins = g1.bins /\ k.marked = g1.marked
      /\ k.trim = g1.trim /\ k.pad = g1.pad /\ k.regions = g1.regions BY <1>1 DEF IsHeap
<1> HIDE DEF k
<1> QED BY <1>1, <1>2 DEF Readied, k, g1

LEMMA SetUpIs ==
    ASSUME NEW h, Unready(h)
    PROVE  Blank(mem_malloc_init(h), h)
<1> DEFINE m == [a \in DOMAIN h.mem |-> IF a \in Start .. Start + (End - Start) - 1 THEN 0 ELSE h.mem[a]]
           g == [h EXCEPT !.mem = m]
<1>1. IsHeap(h) /\ h.mem \in [Start .. End - 1 -> Int] BY DEF Unready
<1>2. m \in [Start .. End - 1 -> Int]
  <2>1. DOMAIN h.mem = Start .. End - 1 /\ \A w \in Start .. End - 1 : h.mem[w] \in Int
    BY <1>1
  <2> QED BY <2>1
<1>3. Zero(h, Start, End - Start) = g BY DEF Zero
<1>4. Rewritten(g, h, m) BY <1>1, MemoryIs
<1> HIDE DEF m, g
<1>5. /\ IsHeap(g) /\ g.mem = m /\ g.based = FALSE /\ g.top = InitialTop /\ g.regions = <<>>
      /\ g.bins = [i \in 0 .. LastBin |-> <<>>] /\ g.marked = {}
      /\ g.trim = h.trim /\ g.pad = h.pad BY <1>4 DEF Rewritten, Settings, Unready
<1> DEFINE yes == TRUE
           k == [g EXCEPT !.ready = yes, !.brk = Start]
<1> HIDE DEF yes
<1>7. Readied(k, g, yes, Start)
  <2>1. IsHeap(g) BY <1>5
  <2> QED BY <2>1, ReadySet
<1>8. mem_malloc_init(h) = k BY <1>3 DEF mem_malloc_init, yes
<1> HIDE DEF k
<1> QED BY <1>2, <1>5, <1>7, <1>8 DEF Blank, Readied, yes

LEMMA BlankGood ==
    ASSUME NEW k, NEW h, Blank(k, h), h.trim \in Nat, h.pad \in Pads
    PROVE  Good(k, {}, {}, [x \in Nat |-> 0], {}, {})
<1> DEFINE z == [x \in Nat |-> 0]
           bins == [i \in 0 .. LastBin |-> <<>>]
<1>1. z \in [Nat -> Nat] OBVIOUS
<1> HIDE DEF z
<1>2. Pieces({}, {}, InitialTop) = {} BY DEF Pieces, TopAt
<1>3. IsBin(<<>>, Nat) /\ ToSet(<<>>) = {} BY DEF IsBin, ToSet
<1>4. Laid({}, {}, z, InitialTop, Start, {}, {})
  <2>1. Start \in Start .. End /\ InitialTop \in Nat BY Bounds DEF InitialTop
  <2>2. TopAt(InitialTop) = {} BY DEF TopAt
  <2> QED BY <1>1, <1>2, <2>1, <2>2 DEF Laid
<1>5. Whole(k.mem, {}, {}, z, InitialTop, Start, {}, {}, {})
  BY <1>2, <1>4 DEF Whole, Merged, AllTags, Tagged, Blank
<1>6. Binned(bins, {}, z, {})
  <2>1. LastBin \in Nat /\ 1 <= LastBin BY Constants
  <2>2. \A i \in 0 .. LastBin : bins[i] = <<>> OBVIOUS
  <2>3. bins = [i \in 0 .. LastBin |-> bins[i]] OBVIOUS
  <2>4. 0 \in 0 .. LastBin /\ 1 \in 0 .. LastBin /\ \A i \in 2 .. LastBin : i \in 0 .. LastBin
    BY <2>1
  <2> HIDE DEF bins
  <2>5. IsBin(<<>>, {}) /\ Once(<<>>) /\ \A i : InOrder(<<>>, z, i)
    BY DEF IsBin, Once, InOrder
  <2> QED BY <2>2, <2>3, <2>4, <2>5 DEF Binned
<1> HIDE DEF bins
<1>7. k.bins = bins BY DEF Blank, bins
<1> QED BY <1>3, <1>5, <1>6, <1>7 DEF Good, Blank, z

LEMMA SetUpInv ==
    ASSUME HeapInv(heap, live), MemMallocInit
    PROVE  HeapInv(heap', live')
<1>1. Unready(heap) /\ DOMAIN live = {} BY DEF MemMallocInit, HeapInv
<1> DEFINE k == mem_malloc_init(heap)
<1>2. heap' = k /\ live' = live BY DEF MemMallocInit
<1>3. Blank(k, heap) BY <1>1, SetUpIs
<1> HIDE DEF k
<1> DEFINE z == [x \in Nat |-> 0]
<1>4. Good(k, {}, {}, z, {}, {}) BY <1>1, <1>3, BlankGood DEF Unready
<1> HIDE DEF z
<1>5. Used(live) = {} /\ Taken(live) = {} /\ Entries(live) /\ ForeignApart(live)
  BY <1>1 DEF Used, Taken, Entries, ForeignApart, OwnedIn, ForeignIn
<1>6. Sound(k, Used(live), z, Taken(live)) BY <1>4, <1>5, SoundItself
<1>7. k.ready BY <1>3 DEF Blank
<1>8. HeapInv(k, live) BY <1>5, <1>6, <1>7 DEF HeapInv, Fitting
<1> QED BY <1>2, <1>8

-----------------------------------------------------------------------------
(* Every call keeps the invariant, and what follows from it *)

(* HeapInv holds whatever is called in whatever order: malloc, realloc,    *)
(* memalign, calloc, free, malloc_trim and mallopt each leave a heap whose *)
(* chunks, tags and bins agree, with other callers of sbrk between them.   *)
THEOREM HeapSound == Spec => []HeapInv(heap, live)
<1>1. Init => HeapInv(heap, live) BY InitInv
<1>2. HeapInv(heap, live) /\ [Next]_vars => HeapInv(heap, live)'
  <2> SUFFICES ASSUME HeapInv(heap, live), [Next]_vars
               PROVE  HeapInv(heap', live')
    OBVIOUS
  <2>1. CASE MemMallocInit BY <2>1, SetUpInv
  <2>2. CASE Malloc \/ Calloc \/ Memalign \/ Valloc \/ Pvalloc BY <2>2, AllocatesInv
  <2>3. CASE Free BY <2>3, FreeInv
  <2>4. CASE Realloc BY <2>4, ReallocInv
  <2>5. CASE MallocTrim BY <2>5, TrimInv
  <2>6. CASE Mallopt BY <2>6, MalloptInv
  <2>7. CASE ForeignSbrk BY <2>7, ForeignInv
  <2>8. CASE UNCHANGED vars BY <2>8 DEF vars
  <2> QED BY <2>1, <2>2, <2>3, <2>4, <2>5, <2>6, <2>7, <2>8 DEF Next
<1> QED BY <1>1, <1>2, PTL DEF Spec

(* What the invariant says of a heap that has been set up *)
LEMMA InvParts ==
    ASSUME HeapInv(heap, live), heap.ready
    PROVE  \E C, S, z, fr : /\ Good(heap, C, S, z, fr, Taken(live)) /\ C \ fr = Used(live)
                            /\ Roomy(live, z) /\ Entries(live) /\ ForeignApart(live)
<1>1. Entries(live) /\ ForeignApart(live) BY DEF HeapInv
<1>2. PICK s : Sound(heap, Used(live), s, Taken(live)) /\ Roomy(live, s)
  BY DEF HeapInv, Fitting, Roomy
<1>3. PICK C, S, z, fr : /\ Good(heap, C, S, z, fr, Taken(live))
                         /\ C \ fr = Used(live) /\ \A x \in Used(live) : z[x] = s[x]
  BY <1>2 DEF Sound
<1>4. Roomy(live, z) BY <1>2, <1>3 DEF Roomy
<1> QED BY <1>1, <1>3, <1>4

(* Nobody has anything of a heap that has not been set up. *)
LEMMA InvUnready ==
    ASSUME HeapInv(heap, live), ~heap.ready
    PROVE  /\ Unready(heap) /\ DOMAIN live = {} /\ Owned = {}
           /\ Walk(heap) = {} /\ Chunks(heap) = {} /\ FreeChunks(heap) = {}
<1>1. Unready(heap) /\ DOMAIN live = {} BY DEF HeapInv
<1>2. ToSet(heap.regions) = {} BY <1>1 DEF Unready, ToSet
<1>3. Walk(heap) = {} BY <1>2 DEF Walk
<1> QED BY <1>1, <1>3 DEF Chunks, FreeChunks, Owned

LEMMA InvTypes ==
    ASSUME HeapInv(heap, live)
    PROVE  TypeOK
<1>1. CASE heap.ready
  <2>1. PICK C, S, z, fr : /\ Good(heap, C, S, z, fr, Taken(live)) /\ C \ fr = Used(live)
                           /\ Roomy(live, z) /\ Entries(live) /\ ForeignApart(live)
    BY <1>1, InvParts
  <2>2. heap.brk \in Start .. End /\ heap.top \in {InitialTop} \cup Start .. End
    BY <2>1, GoodTop
  <2>3. DOMAIN heap.bins = 0 .. LastBin BY <2>1 DEF Good, Binned
  <2> QED BY <2>1, <2>2, <2>3 DEF TypeOK, Entries
<1>2. CASE ~heap.ready BY <1>2, InvUnready DEF TypeOK, Unready
<1> QED BY <1>1, <1>2

LEMMA InvRoom ==
    ASSUME HeapInv(heap, live)
    PROVE  AtLeastAsked
<1>1. CASE heap.ready
  <2>1. PICK C, S, z, fr : /\ Good(heap, C, S, z, fr, Taken(live)) /\ C \ fr = Used(live)
                           /\ Roomy(live, z) /\ Entries(live) /\ ForeignApart(live)
    BY <1>1, InvParts
  <2>2. Chunks(heap) = C BY <2>1, ChunksAre
  <2> SUFFICES ASSUME NEW a \in Owned
               PROVE  /\ a - 2 \in Chunks(heap)
                      /\ malloc_usable_size(heap, a - 2) >= live[a].len
    BY DEF AtLeastAsked
  <2> DEFINE p == a - 2
  <2>3. a \in Nat /\ p \in Nat /\ p + 2 = a /\ p \in Used(live) /\ live[a].len \in Nat
    BY <2>1 DEF Owned, Used, OwnedIn, Entries
  <2> HIDE DEF p
  <2>4. p \in C /\ p \notin fr /\ p \in Pieces(C, S, heap.top) BY <2>1, <2>3 DEF Pieces
  <2>5. Size(heap, p) = z[p] /\ InUse(heap, p) BY <2>1, <2>4, Readings
  <2>6. malloc_usable_size(heap, p) = z[p] - 1 BY <2>5 DEF malloc_usable_size
  <2>7. z[p] \in Nat BY <2>1, <2>4, GoodParts, WordsApart
  <2>8. live[a].len + 1 <= z[p] BY <2>1, <2>3 DEF Roomy
  <2>9. z[p] - 1 >= live[a].len BY <2>3, <2>7, <2>8
  <2> QED BY <2>2, <2>4, <2>6, <2>9 DEF p
<1>2. CASE ~heap.ready BY <1>2, InvUnready DEF AtLeastAsked
<1> QED BY <1>1, <1>2

LEMMA InvTags ==
    ASSUME HeapInv(heap, live)
    PROVE  TagsAgree
<1>1. CASE heap.ready
  <2>1. PICK C, S, z, fr : /\ Good(heap, C, S, z, fr, Taken(live)) /\ C \ fr = Used(live)
                           /\ Roomy(live, z) /\ Entries(live) /\ ForeignApart(live)
    BY <1>1, InvParts
  <2>2. FreeChunks(heap) = fr BY <2>1, ChunksAre
  <2>3. fr \in SUBSET C /\ Merged(z, heap.top, fr) BY <2>1, GoodParts
  <2>4. \A f \in fr : Bit(z, fr, f) = 1 BY <2>3 DEF Merged, Bit
  <2>5. heap.top # InitialTop => Bit(z, fr, heap.top) = 1 /\ heap.top \in Pieces(C, S, heap.top)
    BY <2>3 DEF Merged, Bit, Pieces, TopAt
  <2>6. \A f \in fr : f \in Pieces(C, S, heap.top) BY <2>3 DEF Pieces
  <2>7. \A f \in fr : /\ heap.mem[Next_(heap, f)] = Size(heap, f)
                      /\ PrevInUse(heap, f) = 1 /\ Next_(heap, f) # heap.top
    <3> TAKE f \in fr
    <3>1. Size(heap, f) = z[f] /\ Next_(heap, f) = f + z[f] /\ PrevInUse(heap, f) = Bit(z, fr, f)
      BY <2>1, <2>6, Readings
    <3>2. heap.mem[f + z[f]] = z[f] BY <2>1, Readings
    <3> QED BY <2>3, <2>4, <3>1, <3>2 DEF Merged
  <2>8. heap.top # InitialTop =>
            /\ PrevInUse(heap, heap.top) = 1 /\ Size(heap, heap.top) >= MINSIZE
            /\ Next_(heap, heap.top) <= heap.brk /\ Next_(heap, heap.top) % Page = 0
    BY <2>1, <2>5, GoodTop, Readings
  <2> QED BY <2>2, <2>7, <2>8 DEF TagsAgree
<1>2. CASE ~heap.ready BY <1>2, InvUnready DEF TagsAgree, Unready
<1> QED BY <1>1, <1>2

LEMMA InvFindable ==
    ASSUME HeapInv(heap, live)
    PROVE  Findable
<1>1. CASE heap.ready
  <2>1. PICK C, S, z, fr : /\ Good(heap, C, S, z, fr, Taken(live)) /\ C \ fr = Used(live)
                           /\ Roomy(live, z) /\ Entries(live) /\ ForeignApart(live)
    BY <1>1, InvParts
  <2>2. Binned(heap.bins, heap.marked, z, fr) /\ Sizes(heap, z, fr) BY <2>1, GoodSizes
  <2>3. LastBin \in Nat BY Constants
  <2> SUFFICES ASSUME NEW i \in 2 .. LastBin
               PROVE  /\ heap.bins[i] # <<>> => BlockOf(i) \in heap.marked
                      /\ \A k \in DOMAIN heap.bins[i] :
                             /\ bin_index(Size(heap, heap.bins[i][k])) = i
                             /\ k > 1 => Size(heap, heap.bins[i][k - 1]) >= Size(heap, heap.bins[i][k])
    BY DEF Findable
  <2> DEFINE bin == heap.bins[i]
  <2>4. i \in 0 .. LastBin BY <2>3
  <2>5. IsBin(bin, fr) /\ InOrder(bin, z, i) /\ (bin # <<>> => BlockOf(i) \in heap.marked)
    BY <2>2, <2>4 DEF Binned
  <2> HIDE DEF bin
  <2>6. PICK n \in Nat : Run(bin, n, fr) /\ DOMAIN bin = 1 .. n BY <2>5, BinLength
  <2>7. \A k \in 1 .. n : bin[k] \in fr /\ Size(heap, bin[k]) = z[bin[k]]
    BY <2>2, <2>6 DEF Run, Sizes
  <2>8. \A k \in 1 .. n : k > 1 => k - 1 \in 1 .. n OBVIOUS
  <2>9. \A k \in DOMAIN bin : /\ bin_index(Size(heap, bin[k])) = i
                              /\ k > 1 => Size(heap, bin[k - 1]) >= Size(heap, bin[k])
    BY <2>5, <2>6, <2>7, <2>8 DEF InOrder
  <2> QED BY <2>5, <2>9 DEF bin
<1>2. CASE ~heap.ready
  <2>1. heap.bins = [i \in 0 .. LastBin |-> <<>>] BY <1>2, InvUnready DEF Unready
  <2>2. \A i \in 2 .. LastBin : i \in 0 .. LastBin BY Constants
  <2>3. \A i \in 2 .. LastBin : heap.bins[i] = <<>> BY <2>1, <2>2
  <2> QED BY <2>3 DEF Findable
<1> QED BY <1>1, <1>2

(* A block's words as the abstract allocator sees them *)
LEMMA ExtentIs ==
    ASSUME NEW a \in DOMAIN live, Entries(live)
    PROVE  Blocks!Extent(a, Contents[a]) = Words(a)
<1> DEFINE n == live[a].len
           words == [i \in 1 .. n |-> heap.mem[a + i - 1]]
           T == {heap.mem[a + i - 1] : i \in 1 .. n}
<1>1. n \in Nat BY DEF Entries
<1>2. Contents[a] = words BY DEF Contents
<1> HIDE DEF n
<1>3. words \in [1 .. n -> T] OBVIOUS
<1> HIDE DEF words, T
<1>4. Len(words) = n BY <1>1, <1>3, IsBinOf DEF Run
<1> QED BY <1>2, <1>4 DEF Blocks!Extent, Words, n

(* The words of a block of malloc.c lie in its chunk. *)
LEMMA BlockInChunk ==
    ASSUME NEW C, NEW S, NEW z, NEW fr, Good(heap, C, S, z, fr, Taken(live)),
           C \ fr = Used(live), Roomy(live, z), Entries(live), NEW a \in OwnedIn(live)
    PROVE  /\ a - 2 \in C /\ a - 2 \in Nat /\ z[a - 2] \in Nat
           /\ Words(a) \subseteq (a - 2) + 2 .. (a - 2) + z[a - 2]
           /\ (a - 2) + z[a - 2] < End /\ Start <= a - 2
<1> DEFINE p == a - 2
           n == live[a].len
           c == z[p]
<1>1. a \in Nat /\ p \in Nat /\ p + 2 = a /\ p \in Used(live) /\ n \in Nat
  BY DEF Used, OwnedIn, Entries
<1>2. p \in C BY <1>1
<1>3. n + 1 <= c BY <1>1 DEF Roomy
<1>4. Laid(C, S, z, heap.top, heap.brk, ToSet(heap.regions), Taken(live)) /\ InitialTop \notin C
  BY GoodParts
<1>5. /\ c \in Nat /\ p + c \in Pieces(C, S, heap.top) /\ p + 1 \in Start .. End - 1
      /\ p + c + 1 \in Start .. End - 1
  <2>1. p \in Pieces(C, S, heap.top) BY <1>2 DEF Pieces
  <2>2. p + c \in Pieces(C, S, heap.top) /\ c \in Nat /\ p + 1 \in Start .. End - 1
    BY <1>2, <1>4, <2>1, WordsApart
  <2>3. (p + c) + 1 \in Start .. End - 1 BY <1>4, <2>2, WordsApart
  <2> QED BY <1>1, <2>2, <2>3
<1>6. Start <= p BY <1>2, <1>4 DEF Laid, Pieces
<1>7. Words(a) = a .. a + n - 1 BY DEF Words
<1> HIDE DEF p, n, c
<1>8. Words(a) \subseteq p + 2 .. p + c BY <1>1, <1>3, <1>5, <1>7
<1>9. p + c < End BY <1>1, <1>5, Bounds
<1> QED BY <1>1, <1>2, <1>5, <1>6, <1>8, <1>9 DEF p, c

(* Two chunks share no word. *)
LEMMA ChunksApart ==
    ASSUME NEW C, NEW S, NEW z, NEW top, NEW brk, NEW heads, NEW F,
           Laid(C, S, z, top, brk, heads, F), NEW p \in C, NEW q \in C, p < q
    PROVE  p + z[p] <= q
<1>1. p \in Pieces(C, S, top) /\ q \in Pieces(C, S, top) BY DEF Pieces
<1>2. Beyond(S, z, p) <= q /\ p \notin S BY <1>1 DEF Laid
<1> QED BY <1>2 DEF Beyond

LEMMA InvApart ==
    ASSUME HeapInv(heap, live)
    PROVE  BlocksApart
<1>1. CASE heap.ready
  <2>1. PICK C, S, z, fr : /\ Good(heap, C, S, z, fr, Taken(live)) /\ C \ fr = Used(live)
                           /\ Roomy(live, z) /\ Entries(live) /\ ForeignApart(live)
    BY <1>1, InvParts
  <2> DEFINE F == Taken(live)
  <2>2. Laid(C, S, z, heap.top, heap.brk, ToSet(heap.regions), F) BY <2>1, GoodParts
  <2>3. \A a \in DOMAIN live : a \in OwnedIn(live) \/ a \in ForeignIn(live)
    BY <2>1 DEF Entries, OwnedIn, ForeignIn
  <2>4. \A a \in ForeignIn(live) : Words(a) \subseteq F BY DEF Words, Taken
  <2>5. F \subseteq Start .. End - 1
    <3>1. \A w \in F : w \in Start .. heap.brk - 1 BY <2>2 DEF Laid
    <3>2. heap.brk \in Start .. End BY <2>1, GoodTop
    <3> QED BY <3>1, <3>2, Bounds
  <2> HIDE DEF F
  <2>6. \A a \in OwnedIn(live) : Words(a) \subseteq Start .. End - 1 /\ Words(a) \cap F = {}
    <3> TAKE a \in OwnedIn(live)
    <3> DEFINE p == a - 2
               c == z[p]
    <3>1. /\ p \in C /\ p \in Nat /\ c \in Nat /\ Words(a) \subseteq p + 2 .. p + c
          /\ p + c < End /\ Start <= p BY <2>1, BlockInChunk
    <3>2. \A w \in p .. p + c : w \notin F BY <2>1, <3>1, OffForeign DEF F
    <3> HIDE DEF p, c
    <3>3. p + 2 .. p + c \subseteq p .. p + c /\ p + 2 .. p + c \subseteq Start .. End - 1
      BY <3>1, Bounds
    <3> QED BY <3>1, <3>2, <3>3
  <2>7. \A a, b \in OwnedIn(live) : a # b => Words(a) \cap Words(b) = {}
    <3>1. ASSUME NEW a \in OwnedIn(live), NEW b \in OwnedIn(live), a - 2 < b - 2
          PROVE  Words(a) \cap Words(b) = {}
      <4> DEFINE p == a - 2
                 c == z[p]
                 q == b - 2
                 d == z[q]
      <4>1. p \in C /\ p \in Nat /\ c \in Nat /\ Words(a) \subseteq p + 2 .. p + c
        BY <2>1, BlockInChunk
      <4>2. q \in C /\ q \in Nat /\ d \in Nat /\ Words(b) \subseteq q + 2 .. q + d
        BY <2>1, BlockInChunk
      <4>3. p < q BY <3>1
      <4>4. p + c <= q BY <2>2, <4>1, <4>2, <4>3, ChunksApart
      <4> HIDE DEF p, q, c, d
      <4>5. (p + 2 .. p + c) \cap (q + 2 .. q + d) = {} BY <4>1, <4>2, <4>4
      <4> QED BY <4>1, <4>2, <4>5
    <3>2. \A a, b \in OwnedIn(live) : a # b => a - 2 < b - 2 \/ b - 2 < a - 2
      BY <2>1 DEF OwnedIn, Entries
    <3> QED BY <3>1, <3>2
  <2>8. \A a, b \in ForeignIn(live) : a # b => Words(a) \cap Words(b) = {}
    BY <2>1 DEF ForeignApart, Words
  <2>9. \A a, b \in DOMAIN live : a # b => Words(a) \cap Words(b) = {}
    BY <2>3, <2>4, <2>6, <2>7, <2>8
  <2>10. \A a \in DOMAIN live : Words(a) \subseteq Start .. End - 1
    BY <2>3, <2>4, <2>5, <2>6
  <2>11. DOMAIN Contents = DOMAIN live BY DEF Contents
  <2>12. \A a \in DOMAIN live : Blocks!Extent(a, Contents[a]) = Words(a) BY <2>1, ExtentIs
  <2> QED BY <2>9, <2>10, <2>11, <2>12 DEF BlocksApart, Blocks!BlocksApart
<1>2. CASE ~heap.ready
  <2>1. DOMAIN Contents = {} BY <1>2, InvUnready DEF Contents
  <2> QED BY <2>1 DEF BlocksApart, Blocks!BlocksApart
<1> QED BY <1>1, <1>2

(* What the bins, the top and the break of malloc.c and the lengths of the *)
(* program's blocks may be after any calls *)
THEOREM HeapTypes == Spec => []TypeOK
<1>1. HeapInv(heap, live) => TypeOK BY InvTypes
<1> QED BY <1>1, HeapSound, PTL

(* Every block malloc.c gave and did not take back is a chunk in use that  *)
(* has room for what was asked, also after realloc changed it in place or  *)
(* moved it, and malloc_usable_size says so.                               *)
THEOREM HeapRoom == Spec => []AtLeastAsked
<1>1. HeapInv(heap, live) => AtLeastAsked BY InvRoom
<1> QED BY <1>1, HeapSound, PTL

(* The boundary tags agree: free and realloc find what is free beside a    *)
(* chunk by them, and never leave two free chunks side by side.            *)
THEOREM HeapTags == Spec => []TagsAgree
<1>1. HeapInv(heap, live) => TagsAgree BY InvTags
<1> QED BY <1>1, HeapSound, PTL

(* The chunks that frontlink put in a bin are in order, belong there, and  *)
(* their block is marked, so that the search of malloc_alloc meets them.   *)
THEOREM HeapFindable == Spec => []Findable
<1>1. HeapInv(heap, live) => Findable BY InvFindable
<1> QED BY <1>1, HeapSound, PTL

(* No word is in two blocks, of malloc.c or of another user of the break,  *)
(* and none is outside the memory: it follows from how the chunks lie, not *)
(* from a guard, since the calls are those of malloc.c.                    *)
THEOREM HeapApart == Spec => []BlocksApart
<1>1. HeapInv(heap, live) => BlocksApart BY InvApart
<1> QED BY <1>1, HeapSound, PTL

(* A bin of chunks, each there once, is no longer than the memory. *)
LEMMA BinFits ==
    ASSUME NEW fr \in SUBSET (1 .. End), NEW bin, IsBin(bin, fr), Once(bin)
    PROVE  DOMAIN bin \subseteq 1 .. End
<1>1. PICK n \in Nat : Run(bin, n, fr) /\ DOMAIN bin = 1 .. n BY BinLength
<1>2. End \in Nat BY Bounds
<1>3. bin \in Injection(1 .. n, 1 .. End)
  <2>1. bin \in [1 .. n -> 1 .. End] BY <1>1 DEF Run
  <2>2. \A k, l \in 1 .. n : bin[k] = bin[l] => k = l BY <1>1 DEF Once
  <2> QED BY <2>1, <2>2 DEF Injection, IsInjective
<1>4. IsFiniteSet(1 .. End) /\ Cardinality(1 .. End) = IF 1 > End THEN 0 ELSE End - 1 + 1
  BY <1>2, FS_Interval
<1>5. Cardinality(1 .. n) = IF 1 > n THEN 0 ELSE n - 1 + 1 BY FS_Interval
<1>6. Cardinality(1 .. n) <= Cardinality(1 .. End) BY <1>3, <1>4, FS_Injection
<1>7. n <= End BY <1>2, <1>4, <1>5, <1>6
<1> QED BY <1>1, <1>2, <1>7

(* The places of the bins and the free chunks are as many. *)
LEMMA PlacesAre ==
    ASSUME NEW bins, NEW marked, NEW z, NEW fr, Binned(bins, marked, z, fr),
           fr \in SUBSET (1 .. End)
    PROVE  /\ {bins[ik[1]][ik[2]] : ik \in FilledPlaces(bins)} = fr
           /\ Cardinality(FilledPlaces(bins)) = Cardinality(fr)
<1> DEFINE P == FilledPlaces(bins)
           g == [ik \in P |-> bins[ik[1]][ik[2]]]
<1>1. DOMAIN bins = 0 .. LastBin BY DEF Binned
<1>2. \A i \in 0 .. LastBin : IsBin(bins[i], fr) /\ Once(bins[i]) BY DEF Binned
<1>3. \A i \in 0 .. LastBin : DOMAIN bins[i] \subseteq 1 .. End BY <1>2, BinFits
<1>4. \A i \in 0 .. LastBin : \A k \in DOMAIN bins[i] : bins[i][k] \in fr
  <2> TAKE i \in 0 .. LastBin
  <2> DEFINE bin == bins[i]
  <2>1. IsBin(bin, fr) BY <1>2
  <2> HIDE DEF bin
  <2>2. \A k \in DOMAIN bin : bin[k] \in fr BY <2>1, BinLength DEF Run
  <2> QED BY <2>2 DEF bin
<1>5. \A ik \in P : /\ ik = <<ik[1], ik[2]>> /\ ik[1] \in 0 .. LastBin
                    /\ ik[2] \in DOMAIN bins[ik[1]] BY <1>1 DEF FilledPlaces
<1>6. \A i \in 0 .. LastBin : \A k \in DOMAIN bins[i] : <<i, k>> \in P
  <2> TAKE i \in 0 .. LastBin
  <2> TAKE k \in DOMAIN bins[i]
  <2>1. k \in 1 .. End BY <1>3
  <2> QED BY <1>1, <2>1 DEF FilledPlaces
<1> HIDE DEF P
<1>7. g \in [P -> fr] BY <1>4, <1>5
<1>8. ASSUME NEW x \in P, NEW y \in P, g[x] = g[y]
      PROVE  x = y
  <2> DEFINE i == x[1]
             k == x[2]
             j == y[1]
             l == y[2]
  <2>1. x = <<i, k>> /\ y = <<j, l>> BY <1>5
  <2>2. i \in 0 .. LastBin /\ j \in 0 .. LastBin /\ k \in DOMAIN bins[i] /\ l \in DOMAIN bins[j]
    BY <1>5
  <2>3. bins[i][k] = bins[j][l] BY <1>8
  <2> HIDE DEF i, j, k, l
  <2>4. bins[i][k] \in fr /\ In(bins[i][k], bins[i]) /\ In(bins[i][k], bins[j])
    BY <1>4, <2>2, <2>3 DEF In
  <2>5. i = j BY <2>2, <2>4 DEF Binned
  <2>6. k = l BY <1>2, <2>2, <2>3, <2>5 DEF Once
  <2> QED BY <2>1, <2>5, <2>6
<1>9. \A f \in fr : \E x \in P : g[x] = f
  <2> TAKE f \in fr
  <2>1. PICK i \in 0 .. LastBin : In(f, bins[i]) BY DEF Binned
  <2>2. PICK k \in DOMAIN bins[i] : bins[i][k] = f BY <2>1 DEF In
  <2>3. <<i, k>> \in P BY <1>6
  <2>4. g[<<i, k>>] = f BY <2>2, <2>3
  <2> QED BY <2>3, <2>4
<1>10. {bins[ik[1]][ik[2]] : ik \in P} = fr
  <2>1. \A x \in P : g[x] = bins[x[1]][x[2]] OBVIOUS
  <2> QED BY <1>7, <1>9, <2>1
<1> HIDE DEF g
<1>11. IsFiniteSet(fr)
  <2>1. End \in Int /\ IsFiniteSet(1 .. End) BY Bounds, FS_Interval
  <2> QED BY <2>1, FS_Subset
<1>12. g \in Injection(P, fr) BY <1>7, <1>8 DEF Injection, IsInjective
<1>13. g \in Surjection(P, fr) BY <1>7, <1>9 DEF Surjection
<1>14. Cardinality(P) = Cardinality(fr) BY <1>11, <1>12, <1>13, FS_Injection
<1> QED BY <1>10, <1>14 DEF P

LEMMA InvNothingLost ==
    ASSUME HeapInv(heap, live)
    PROVE  NothingLost
<1> DEFINE P == FilledPlaces(heap.bins)
<1>1. NothingLost <=>
          /\ {p + 2 : p \in Chunks(heap) \ FreeChunks(heap)} = Owned
          /\ {heap.bins[ik[1]][ik[2]] : ik \in P} = FreeChunks(heap)
          /\ Cardinality(P) = Cardinality(FreeChunks(heap))
  BY DEF NothingLost, FilledPlaces
<1> HIDE DEF P
<1>2. CASE heap.ready
  <2>1. PICK C, S, z, fr : /\ Good(heap, C, S, z, fr, Taken(live)) /\ C \ fr = Used(live)
                           /\ Roomy(live, z) /\ Entries(live) /\ ForeignApart(live)
    BY <1>2, InvParts
  <2>2. Chunks(heap) = C /\ FreeChunks(heap) = fr BY <2>1, ChunksAre
  <2>3. {p + 2 : p \in C \ fr} = Owned
    <3>1. \A a \in Owned : a \in Nat /\ (a - 2) + 2 = a /\ a - 2 \in Used(live)
      BY <2>1 DEF Owned, Used, OwnedIn, Entries
    <3>2. \A p \in Used(live) : p + 2 \in Owned BY <2>1, UsedIs DEF Owned, OwnedIn
    <3> QED BY <2>1, <3>1, <3>2
  <2>4. fr \in SUBSET (1 .. End)
    <3>1. Laid(C, S, z, heap.top, heap.brk, ToSet(heap.regions), Taken(live)) /\ fr \in SUBSET C
      BY <2>1, GoodParts
    <3>2. \A f \in fr : f \in Start .. End BY <3>1 DEF Laid, Pieces
    <3> QED BY <3>2, Bounds
  <2>5. Binned(heap.bins, heap.marked, z, fr) BY <2>1, GoodSizes
  <2>6. {heap.bins[ik[1]][ik[2]] : ik \in P} = fr /\ Cardinality(P) = Cardinality(fr)
    BY <2>4, <2>5, PlacesAre DEF P
  <2> QED BY <1>1, <2>2, <2>3, <2>6
<1>3. CASE ~heap.ready
  <2>1. /\ Owned = {} /\ Chunks(heap) = {} /\ FreeChunks(heap) = {}
        /\ heap.bins = [i \in 0 .. LastBin |-> <<>>] BY <1>3, InvUnready DEF Unready
  <2>2. P = {} BY <2>1 DEF P, FilledPlaces
  <2> QED BY <1>1, <2>1, <2>2
<1> QED BY <1>2, <1>3

(* No chunk is lost: what is in use is a block the program still has, and  *)
(* every other chunk is in one bin, at one place.                          *)
THEOREM HeapNothingLost == Spec => []NothingLost
<1>1. HeapInv(heap, live) => NothingLost BY InvNothingLost
<1> QED BY <1>1, HeapSound, PTL

-----------------------------------------------------------------------------
(* The arithmetic of sizes at its edges *)

LEMMA SmallModulo ==
    ASSUME NEW w \in Nat, w < Word, Word \in Nat \ {0}
    PROVE  w % Word = w
  OBVIOUS

LEMMA WordFacts ==
    /\ Word \in Nat /\ Half \in Nat /\ 2 * Half = Word /\ Half > 8
    /\ Page \in Nat \ {0} /\ Page < Half /\ Start \in Nat /\ End \in Nat
  BY MallocAssumption DEF MallocAssumption, Half

(* A request that leaves room for the overhead below half of the word gets *)
(* a chunk with the overhead, aligned, and of the least size at least; the *)
(* requests above are the ones request2size makes small.                   *)
THEOREM RequestFits ==
    ASSUME NEW req \in Nat, req + 2 < Half
    PROVE  /\ request2size(req) >= req + 1
           /\ request2size(req) >= MINSIZE
           /\ request2size(req) % ALIGNMENT = 0
           /\ request2size(req) < Half
<1>1. (req + 2) % Word = req + 2
  <2>1. req + 2 \in Nat /\ req + 2 < Word /\ Word \in Nat \ {0} BY WordFacts
  <2>2. QED BY <2>1, SmallModulo
<1>2. Signed(req + 2) = req + 2 BY WordFacts DEF Signed
<1>3. CASE req + 2 < MINSIZE + 1
  BY <1>1, <1>2, <1>3, WordFacts DEF request2size, MINSIZE, ALIGNMENT
<1>4. CASE ~(req + 2 < MINSIZE + 1)
  <2>1. request2size(req) = Even(req + 2) BY <1>1, <1>2, <1>4 DEF request2size
  <2>2. Even(req + 2) = (req + 2) - ((req + 2) % 2) BY DEF Even
  <2>3. QED BY <2>1, <2>2, <1>4, WordFacts DEF MINSIZE, ALIGNMENT
<1>5. QED BY <1>3, <1>4

(* Whatever malloc_trim is asked to leave, it gives back whole pages of    *)
(* the top and leaves the padding and a chunk; a top too small for that    *)
(* makes the unsigned subtraction wrap, and nothing is given back.         *)
THEOREM TrimLeavesTop ==
    ASSUME NEW topSize \in Nat, NEW pad \in Nat, topSize < Half, pad + MINSIZE + Page < Half,
           Page <= TrimExtra(topSize, pad), TrimExtra(topSize, pad) < Half
    PROVE  topSize - TrimExtra(topSize, pad) > pad + MINSIZE
<1> DEFINE x == (topSize - pad - MINSIZE + (Page - 1)) % Word
           q == x \div Page
<1>1. TrimExtra(topSize, pad) = (q - 1) * Page BY DEF TrimExtra
<1>2. x \in Nat /\ x < Word BY WordFacts DEF MINSIZE
<1>3. q \in Nat /\ q * Page <= x /\ x < q * Page + Page
  <2>1. \A a \in Nat, b \in Nat \ {0} : a \div b \in Nat /\ (a \div b) * b <= a /\ a < (a \div b) * b + b
    OBVIOUS
  <2>2. QED BY <2>1, <1>2, WordFacts
<1>4. (q - 1) * Page = q * Page - Page /\ q * Page \in Nat BY <1>3, WordFacts
<1>5. CASE topSize - pad - MINSIZE + (Page - 1) < 0
  <2>1. x = topSize - pad - MINSIZE + (Page - 1) + Word BY <1>5, WordFacts DEF MINSIZE
  <2>2. q * Page > x - Page BY <1>3, <1>4, <1>2, WordFacts
  <2>3. (q - 1) * Page > topSize - pad - MINSIZE - Page - 1 + Word
    BY <2>1, <2>2, <1>4, WordFacts DEF MINSIZE
  <2>4. (q - 1) * Page < Half BY <1>1
  <2>5. FALSE BY <2>3, <2>4, WordFacts DEF MINSIZE
  <2>6. QED BY <2>5
<1>6. CASE topSize - pad - MINSIZE + (Page - 1) >= 0
  <2>1. topSize - pad - MINSIZE + (Page - 1) < Word BY WordFacts DEF MINSIZE
  <2>2. x = topSize - pad - MINSIZE + (Page - 1)
    BY <1>6, <2>1, WordFacts, SmallModulo DEF MINSIZE
  <2>3. QED BY <1>1, <1>3, <1>4, <2>2, WordFacts DEF MINSIZE
<1>7. QED BY <1>5, <1>6, WordFacts DEF MINSIZE
=============================================================================
