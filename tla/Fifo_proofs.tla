----------------------------- MODULE Fifo_proofs -----------------------------
(***************************************************************************)
(* Proofs about the ring buffer, for every capacity and every element:     *)
(* called in turn its fields agree and it is a bounded queue, and shared   *)
(* with an interrupt handler the fields stay in range.                     *)
(***************************************************************************)
EXTENDS FifoIrq, SequenceTheorems, TLAPS

-----------------------------------------------------------------------------
(* Arithmetic *)

(* A number below its modulus is its own remainder. *)
LEMMA SmallMod ==
    ASSUME NEW d \in Nat \ {0}, NEW x \in 0 .. d - 1
    PROVE  x % d = x
  OBVIOUS

(* A number less than twice its modulus wraps around at most once. *)
LEMMA OnceMod ==
    ASSUME NEW d \in Nat \ {0}, NEW x \in 0 .. 2 * d - 1
    PROVE  x % d = IF x < d THEN x ELSE x - d
  <1>1. CASE x < d
    BY <1>1, SmallMod
  <1>2. CASE x >= d
    <2>1. x - d \in 0 .. d - 1
      BY <1>2
    <2>2. (1 * d + (x - d)) % d = x - d
      BY <2>1
    <2> QED
      BY <1>2, <2>2
  <1> QED
    BY <1>1, <1>2

(* The constants. *)
LEMMA Sizes ==
    Count \in Nat \ {0} /\ Word \in Nat \ {0} /\ 2 * Count <= Word /\ Count < Word
  BY FifoAssumption

(* A sum of two indices wraps around at most once. *)
LEMMA CountMod ==
    ASSUME NEW x \in Int, 0 <= x, x < 2 * Count
    PROVE  x % Count = IF x < Count THEN x ELSE x - Count
  <1>1. Count \in Nat \ {0} /\ x \in 0 .. 2 * Count - 1
    BY Sizes
  <1> QED
    BY <1>1, OnceMod

(* The same, with the sum written out. *)
LEMMA SumMod ==
    ASSUME NEW a \in Int, NEW b \in Int, 0 <= a + b, a + b < 2 * Count
    PROVE  (a + b) % Count = IF a + b < Count THEN a + b ELSE a + b - Count
  <1> DEFINE x == a + b
  <1>1. x \in Int /\ 0 <= x /\ x < 2 * Count
    OBVIOUS
  <1> HIDE DEF x
  <1>2. x % Count = IF x < Count THEN x ELSE x - Count
    BY <1>1, CountMod
  <1> QED
    BY <1>2, Sizes DEF x

(* Where the write index is due: u elements short of the read index. *)
LEMMA DueMod ==
    ASSUME NEW o \in Cells, NEW u \in 0 .. Count
    PROVE  (o + (Count - u)) % Count = IF o + (Count - u) < Count
                                       THEN o + (Count - u) ELSE o - u
  <1> DEFINE x == o + (Count - u)
  <1>1. x \in Int /\ 0 <= x /\ x < 2 * Count /\ x - Count = o - u
    BY Sizes DEF Cells
  <1> HIDE DEF x
  <1>2. x % Count = IF x < Count THEN x ELSE o - u
    BY <1>1, CountMod
  <1> QED
    BY <1>2, Sizes DEF x

(* An index moved on by at most the capacity wraps around at most once,    *)
(* and the sum does not overflow before it does.                           *)
LEMMA AdvanceWraps ==
    ASSUME NEW i \in Cells, NEW n \in 0 .. Count
    PROVE  /\ Advance(i, n) \in Cells
           /\ Advance(i, n) = IF i + n < Count THEN i + n ELSE i + n - Count
  <1>1. i + n \in 0 .. 2 * Count - 1 /\ i + n \in 0 .. Word - 1
    BY Sizes DEF Cells
  <1>2. (i + n) % Word = i + n
    BY <1>1, Sizes, SmallMod
  <1>3. (i + n) % Count = IF i + n < Count THEN i + n ELSE i + n - Count
    BY <1>1, Sizes, SumMod DEF Cells
  <1> QED
    BY <1>1, <1>2, <1>3, Sizes DEF Advance, Cells

(* What fifo_cached computes does not wrap. *)
LEMMA CachedExact ==
    ASSUME unused \in 0 .. Count
    PROVE  fifo_cached = Count - unused
  BY Sizes, SmallMod DEF fifo_cached

(* A count of elements is its own remainder modulo Word. *)
LEMMA CountExact ==
    ASSUME NEW n \in 0 .. Count
    PROVE  n % Word = n
  BY Sizes, SmallMod

(* A request is cut to what fits, or to what is there. *)
LEMMA Cut ==
    ASSUME unused \in 0 .. Count, NEW n \in Nat
    PROVE  /\ Accepted(n) \in 0 .. Count /\ Accepted(n) <= unused /\ Accepted(n) <= n
           /\ Available(n) \in 0 .. Count /\ Available(n) <= Count - unused
           /\ unused - Accepted(n) \in 0 .. Count
           /\ unused + Available(n) \in 0 .. Count
  BY CachedExact, Sizes DEF Accepted, Available, Least, fifo_unused

(* A copy into the buffer leaves values in its cells. *)
LEMMA CopiedInType ==
    ASSUME data \in [Cells -> Values], NEW s \in Seq(Values), NEW off \in Cells,
           Len(s) <= Count
    PROVE  CopiedIn(s, off) \in [Cells -> Values]
  <1> DEFINE l == Least(Len(s), Count - off)
  <1>1. l \in 0 .. Len(s) /\ off + l <= Count
    BY Sizes DEF Least, Cells
  <1> HIDE DEF l
  <1>2. ASSUME NEW k \in Cells
        PROVE  CopiedIn(s, off)[k] \in Values
    <2>1. CASE k < Len(s) - l
      <3>1. l + k + 1 \in 1 .. Len(s)
        BY <1>1, <2>1 DEF Cells
      <3>2. CopiedIn(s, off)[k] = s[l + k + 1]
        BY <1>1, <2>1 DEF CopiedIn, l, Cells
      <3> QED
        BY <3>1, <3>2
    <2>2. CASE k >= Len(s) - l /\ k >= off /\ k < off + l
      <3>1. k - off + 1 \in 1 .. Len(s)
        BY <1>1, <2>2 DEF Cells
      <3>2. CopiedIn(s, off)[k] = s[k - off + 1]
        BY <1>1, <2>2 DEF CopiedIn, l, Cells
      <3> QED
        BY <3>1, <3>2
    <2>3. CASE ~(k < Len(s) - l) /\ ~(k >= off /\ k < off + l)
      BY <1>1, <2>3 DEF CopiedIn, l, Cells
    <2> QED
      BY <1>1, <2>1, <2>2, <2>3 DEF Cells
  <1> QED
    BY <1>2 DEF CopiedIn

-----------------------------------------------------------------------------
(* Called in turn *)

(* What every call preserves. *)
FifoInv == TypeOK /\ Accounting

(* Accounting says where the write index is. *)
LEMMA AccountingIs ==
    ASSUME in \in Cells, out \in Cells, unused \in 0 .. Count
    PROVE  Accounting <=> in = IF out + (Count - unused) < Count
                               THEN out + (Count - unused)
                               ELSE out - unused
  BY DueMod DEF Accounting

(* Taking n elements in keeps the fields in range and in agreement. *)
LEMMA InKeeps ==
    ASSUME FifoInv, NEW n \in 0 .. Count, n <= unused,
           in' = Advance(in, n), unused' = (unused - n) % Word, out' = out
    PROVE  in' \in Cells /\ out' \in Cells /\ unused' \in 0 .. Count /\ Accounting'
  <1>1. in \in Cells /\ out \in Cells /\ unused \in 0 .. Count
    BY DEF FifoInv, TypeOK
  <1>2. unused' = unused - n /\ unused' \in 0 .. Count
    <2>1. unused - n \in 0 .. Count
      BY <1>1, Sizes
    <2> QED
      BY <2>1, CountExact
  <1>3. in' \in Cells /\ in' = IF in + n < Count THEN in + n ELSE in + n - Count
    BY <1>1, AdvanceWraps
  <1>4. in = IF out + (Count - unused) < Count THEN out + (Count - unused)
                                               ELSE out - unused
    BY <1>1, AccountingIs DEF FifoInv
  <1>5. in' = IF out + (Count - unused') < Count THEN out + (Count - unused')
                                                 ELSE out - unused'
    BY <1>1, <1>2, <1>3, <1>4, Sizes DEF Cells
  <1>6. Accounting'
    BY <1>1, <1>2, <1>3, <1>5, DueMod DEF Accounting
  <1> QED
    BY <1>1, <1>2, <1>3, <1>6

(* Handing n elements out keeps the fields in range and in agreement. *)
LEMMA OutKeeps ==
    ASSUME FifoInv, NEW n \in 0 .. Count, n <= Count - unused,
           out' = Advance(out, n), unused' = (unused + n) % Word, in' = in
    PROVE  in' \in Cells /\ out' \in Cells /\ unused' \in 0 .. Count /\ Accounting'
  <1>1. in \in Cells /\ out \in Cells /\ unused \in 0 .. Count
    BY DEF FifoInv, TypeOK
  <1>2. unused' = unused + n /\ unused' \in 0 .. Count
    <2>1. unused + n \in 0 .. Count
      BY <1>1, Sizes
    <2> QED
      BY <2>1, CountExact
  <1>3. out' \in Cells /\ out' = IF out + n < Count THEN out + n ELSE out + n - Count
    BY <1>1, AdvanceWraps
  <1>4. in = IF out + (Count - unused) < Count THEN out + (Count - unused)
                                               ELSE out - unused
    BY <1>1, AccountingIs DEF FifoInv
  <1>5. in' = IF out' + (Count - unused') < Count THEN out' + (Count - unused')
                                                  ELSE out' - unused'
    BY <1>1, <1>2, <1>3, <1>4, Sizes DEF Cells
  <1>6. Accounting'
    BY <1>1, <1>2, <1>3, <1>5, DueMod DEF Accounting
  <1> QED
    BY <1>1, <1>2, <1>3, <1>6

(* fifo_init leaves an empty fifo. *)
LEMMA FifoInitOK == Init => FifoInv
  <1> SUFFICES ASSUME Init PROVE FifoInv
    OBVIOUS
  <1>1. TypeOK
    BY Sizes DEF Init, TypeOK, Cells
  <1>2. Accounting
    BY <1>1, AccountingIs, Sizes DEF Init, TypeOK, Cells
  <1> QED
    BY <1>1, <1>2 DEF FifoInv

(* Every call keeps the fields in range and in agreement. *)
LEMMA FifoNextOK == FifoInv /\ [Next]_vars => FifoInv'
  <1> SUFFICES ASSUME FifoInv, [Next]_vars PROVE FifoInv'
    OBVIOUS
  <1>0. /\ data \in [Cells -> Values] /\ in \in Cells /\ out \in Cells
        /\ unused \in 0 .. Count /\ ret \in 0 .. Count
    BY DEF FifoInv, TypeOK
  <1>1. ASSUME NEW n \in Requested, NEW s \in [1 .. n -> Values], FifoIn(s)
        PROVE  FifoInv'
    <2>1. s \in Seq(Values) /\ Len(s) = n /\ n \in Nat
      BY Sizes DEF Requested
    <2>2. PICK c : c = Accepted(n)
      OBVIOUS
    <2>3. c \in 0 .. Count /\ c <= unused /\ c <= n
      BY <1>0, <2>1, <2>2, Cut
    <2>4. SubSeq(s, 1, c) \in Seq(Values) /\ Len(SubSeq(s, 1, c)) = c
      BY <2>1, <2>3
    <2>5. data' \in [Cells -> Values]
      <3>1. data' = CopiedIn(SubSeq(s, 1, c), in)
        BY <1>1, <2>1, <2>2 DEF FifoIn
      <3>2. PICK t \in Seq(Values) : t = SubSeq(s, 1, c)
        BY <2>4
      <3>3. Len(t) <= Count
        BY <2>3, <2>4, <3>2, Sizes
      <3>4. CopiedIn(t, in) \in [Cells -> Values]
        BY <1>0, <3>3, CopiedInType
      <3> QED
        BY <3>1, <3>2, <3>4
    <2>6. in' \in Cells /\ out' \in Cells /\ unused' \in 0 .. Count /\ Accounting'
      BY <1>1, <2>1, <2>2, <2>3, InKeeps DEF FifoIn
    <2> QED
      BY <1>1, <2>1, <2>2, <2>3, <2>5, <2>6 DEF FifoIn, FifoInv, TypeOK
  <1>2. ASSUME NEW n \in Requested, FifoInPlace(n)
        PROVE  FifoInv'
    <2>1. Accepted(n) \in 0 .. Count /\ Accepted(n) <= unused
      BY <1>0, Cut, Sizes DEF Requested
    <2>2. in' \in Cells /\ out' \in Cells /\ unused' \in 0 .. Count /\ Accounting'
      BY <1>2, <2>1, InKeeps DEF FifoInPlace
    <2> QED
      BY <1>0, <1>2, <2>1, <2>2 DEF FifoInPlace, FifoInv, TypeOK
  <1>3. ASSUME NEW v \in Values, StoreInPlace(v)
        PROVE  FifoInv'
    BY <1>0, <1>3 DEF StoreInPlace, FifoInv, TypeOK, Accounting
  <1>4. ASSUME NEW n \in Requested, NEW wanted \in BOOLEAN, FifoOut(n, wanted)
        PROVE  FifoInv'
    <2>1. Available(n) \in 0 .. Count /\ Available(n) <= Count - unused
      BY <1>0, Cut, Sizes DEF Requested
    <2>2. in' \in Cells /\ out' \in Cells /\ unused' \in 0 .. Count /\ Accounting'
      BY <1>4, <2>1, OutKeeps DEF FifoOut
    <2> QED
      BY <1>0, <1>4, <2>1, <2>2 DEF FifoOut, FifoInv, TypeOK
  <1>5. CASE FifoReset
    <2>1. TypeOK'
      BY <1>0, <1>5, Sizes DEF FifoReset, TypeOK, Cells
    <2>2. (0 + (Count - Count)) % Count = 0
      BY Sizes, SmallMod
    <2> QED
      BY <1>5, <2>1, <2>2 DEF FifoReset, FifoInv, Accounting
  <1>6. CASE UNCHANGED vars
    BY <1>0, <1>6 DEF vars, ring, FifoInv, TypeOK, Accounting
  <1> QED
    BY <1>1, <1>2, <1>3, <1>4, <1>5, <1>6 DEF Next

(* The indices and the count stay in range, so that no copy leaves the     *)
(* buffer, whatever is asked of fifo_in and fifo_out.                      *)
THEOREM FifoTypeCorrect == Spec => []TypeOK
  <1>1. FifoInv => TypeOK
    BY DEF FifoInv
  <1> QED
    BY <1>1, FifoInitOK, FifoNextOK, PTL DEF Spec

(* Called in turn, fifo_in, fifo_out and fifo_reset keep the write index   *)
(* as far from the read index as the count of unused elements says.        *)
THEOREM FifoAccounts == Spec => []Accounting
  <1>1. FifoInv => Accounting
    BY DEF FifoInv
  <1> QED
    BY <1>1, FifoInitOK, FifoNextOK, PTL DEF Spec

-----------------------------------------------------------------------------
(* The fifo as a queue *)

(* The j-th cell from cell i on, around the end of the buffer. *)
Cell(i, j) == IF i + j - 1 < Count THEN i + j - 1 ELSE i + j - 1 - Count

(* Going on from a cell that is n further gets n further. *)
LEMMA CellAdvance ==
    ASSUME NEW i \in Cells, NEW n \in 0 .. Count, NEW j \in 1 .. Count,
           n + j <= Count
    PROVE  Cell(Advance(i, n), j) = Cell(i, n + j)
  <1>1. PICK a \in Cells : a = Advance(i, n)
    BY AdvanceWraps
  <1>2. a = IF i + n < Count THEN i + n ELSE i + n - Count
    BY <1>1, AdvanceWraps
  <1> QED
    BY <1>1, <1>2, Sizes DEF Cell, Cells

(* The elements a fifo with these fields holds: those in the cells from   *)
(* the read index on.                                                      *)
Contents(d, o, u) == [k \in 1 .. Count - u |-> d[(o + k - 1) % Count]]

LEMMA ContentsAre ==
    ASSUME NEW d \in [Cells -> Values], NEW o \in Cells, NEW u \in 0 .. Count
    PROVE  /\ Contents(d, o, u) \in Seq(Values)
           /\ Len(Contents(d, o, u)) = Count - u
           /\ \A k \in 1 .. Count - u : Contents(d, o, u)[k] = d[Cell(o, k)]
  <1>1. Count - u \in Nat
    BY Sizes
  <1>2. ASSUME NEW k \in 1 .. Count - u
        PROVE  (o + k - 1) % Count = Cell(o, k) /\ Cell(o, k) \in Cells
    <2> DEFINE x == o + k - 1
    <2>1. x \in Int /\ 0 <= x /\ x < 2 * Count
      BY <1>2, Sizes DEF Cells
    <2> HIDE DEF x
    <2>2. x % Count = IF x < Count THEN x ELSE x - Count
      BY <2>1, CountMod
    <2> QED
      BY <1>2, <2>1, <2>2, Sizes DEF Cell, Cells, x
  <1>3. \A k \in 1 .. Count - u : Contents(d, o, u)[k] = d[Cell(o, k)]
    BY <1>2 DEF Contents
  <1>4. Contents(d, o, u) \in [1 .. Count - u -> Values]
    BY <1>2 DEF Contents
  <1> QED
    BY <1>1, <1>3, <1>4

(* The write index is the cell after the last one held, and the cells from *)
(* there on are the unused ones and then, around the end, those held.      *)
LEMMA WriteCell ==
    ASSUME FifoInv, NEW k \in 1 .. Count
    PROVE  /\ k <= Count - unused => Cell(out, k) = Cell(in, unused + k)
           /\ k > Count - unused => Cell(out, k) = Cell(in, k - (Count - unused))
  <1>1. in \in Cells /\ out \in Cells /\ unused \in 0 .. Count
    BY DEF FifoInv, TypeOK
  <1>2. in = IF out + (Count - unused) < Count THEN out + (Count - unused)
                                               ELSE out - unused
    BY <1>1, AccountingIs DEF FifoInv
  <1> QED
    BY <1>1, <1>2, Sizes DEF Cell, Cells

(* A copy into the buffer stores the elements in the cells from off on and *)
(* leaves the others alone.                                                *)
LEMMA CopiedCells ==
    ASSUME data \in [Cells -> Values], NEW s \in Seq(Values), NEW off \in Cells,
           Len(s) <= Count, NEW j \in 1 .. Count
    PROVE  CopiedIn(s, off)[Cell(off, j)] = IF j <= Len(s) THEN s[j]
                                            ELSE data[Cell(off, j)]
  <1> DEFINE l == Least(Len(s), Count - off)
             c == Cell(off, j)
  <1>1. /\ l \in 0 .. Len(s) /\ off + l <= Count
        /\ l < Len(s) => l = Count - off
    BY Sizes DEF Least, Cells
  <1>2. c \in Cells /\ c = IF off + j - 1 < Count THEN off + j - 1 ELSE off + j - 1 - Count
    BY Sizes DEF Cell, Cells
  <1>3. CopiedIn(s, off)[c] =
            CASE c < Len(s) - l -> s[l + c + 1]
              [] c >= Len(s) - l /\ c >= off /\ c < off + l -> s[c - off + 1]
              [] OTHER -> data[c]
    BY <1>2 DEF CopiedIn
  <1> HIDE DEF l, c
  <1>4. CASE j <= l
    <2>1. c = off + j - 1 /\ ~(c < Len(s) - l) /\ c - off + 1 = j
      BY <1>1, <1>2, <1>4, Sizes DEF Cells
    <2>2. CopiedIn(s, off)[c] = s[c - off + 1]
      BY <1>1, <1>2, <1>3, <1>4, <2>1, Sizes DEF Cells
    <2> QED
      BY <1>1, <1>4, <2>1, <2>2 DEF c
  <1>5. CASE j > l /\ j <= Len(s)
    <2>1. c = off + j - 1 - Count /\ c < Len(s) - l /\ l + c + 1 = j
      BY <1>1, <1>2, <1>5, Sizes DEF Cells
    <2>2. CopiedIn(s, off)[c] = s[l + c + 1]
      BY <1>1, <1>2, <1>3, <2>1, Sizes DEF Cells
    <2> QED
      BY <1>5, <2>1, <2>2 DEF c
  <1>6. CASE j > Len(s)
    <2>1. ~(c < Len(s) - l) /\ ~(c >= off /\ c < off + l)
      BY <1>1, <1>2, <1>6, Sizes DEF Cells
    <2>2. CopiedIn(s, off)[c] = data[c]
      BY <1>3, <2>1
    <2> QED
      BY <1>6, <2>2 DEF c
  <1> QED
    BY <1>1, <1>4, <1>5, <1>6

(* A copy out of the buffer takes the elements from the cells from off on. *)
LEMMA CopiedOutCells ==
    ASSUME NEW n \in 0 .. Count, NEW off \in Cells
    PROVE  /\ DOMAIN CopiedOut(n, off) = 1 .. n
           /\ \A k \in 1 .. n : CopiedOut(n, off)[k] = data[Cell(off, k)]
  <1> DEFINE l == Least(n, Count - off)
  <1>1. l \in 0 .. n /\ off + l <= Count /\ (l < n => l = Count - off)
    BY Sizes DEF Least, Cells
  <1>2. ASSUME NEW k \in 1 .. n
        PROVE  CopiedOut(n, off)[k] = data[Cell(off, k)]
    <2>1. CopiedOut(n, off)[k] = IF k <= l THEN data[off + k - 1] ELSE data[k - l - 1]
      BY DEF CopiedOut
    <2> HIDE DEF l
    <2>2. Cell(off, k) = IF k <= l THEN off + k - 1 ELSE k - l - 1
      BY <1>1, <1>2, Sizes DEF Cell, Cells
    <2> QED
      BY <2>1, <2>2
  <1> QED
    BY <1>2 DEF CopiedOut

(* Elements s taken in follow those that were held, whether __fifo_in      *)
(* copied them or the caller had stored them.                              *)
LEMMA PutHolds ==
    ASSUME FifoInv, FifoInv', NEW s \in Seq(Values), Len(s) <= unused,
           unused' = unused - Len(s), out' = out,
           \A j \in 1 .. Count :
               data'[Cell(in, j)] = IF j <= Len(s) THEN s[j] ELSE data[Cell(in, j)]
    PROVE  Held' = Held \o s
  <1>0. /\ data \in [Cells -> Values] /\ out \in Cells /\ unused \in 0 .. Count
        /\ data' \in [Cells -> Values] /\ unused' \in 0 .. Count
        /\ Len(s) \in 0 .. Count
    BY Sizes DEF FifoInv, TypeOK
  <1>held. Held = Contents(data, out, unused) /\ Held' = Contents(data', out', unused')
    BY DEF Held, Contents
  <1>1. /\ Held \in Seq(Values) /\ Len(Held) = Count - unused
        /\ \A k \in 1 .. Count - unused : Held[k] = data[Cell(out, k)]
    BY <1>0, <1>held, ContentsAre
  <1>2. /\ Held' \in Seq(Values) /\ Len(Held') = Count - unused'
        /\ \A k \in 1 .. Count - unused' : Held'[k] = data'[Cell(out, k)]
    <2>1. Held' = Contents(data', out, unused')
      BY <1>held
    <2> QED
      BY <1>0, <2>1, ContentsAre
  <1>3. /\ Held \o s \in Seq(Values) /\ Len(Held \o s) = Len(Held')
        /\ \A k \in 1 .. Len(Held') :
               (Held \o s)[k] = IF k <= Len(Held) THEN Held[k] ELSE s[k - Len(Held)]
    <2>1. Len(Held) + Len(s) = Len(Held')
      BY <1>0, <1>1, <1>2, Sizes
    <2> QED
      BY <1>1, <2>1, ConcatProperties
  <1>4. ASSUME NEW k \in 1 .. Len(Held')
        PROVE  Held'[k] = (Held \o s)[k]
    <2>1. k \in 1 .. Count /\ k <= Count - unused + Len(s)
      BY <1>0, <1>2, Sizes
    <2>2. CASE k <= Count - unused
      <3>1. Cell(out, k) = Cell(in, unused + k) /\ unused + k \in 1 .. Count
        BY <1>0, <2>1, <2>2, WriteCell, Sizes
      <3>2. data'[Cell(out, k)] = data[Cell(out, k)]
        BY <1>0, <2>1, <2>2, <3>1, Sizes
      <3>3. k \in 1 .. Count - unused
        BY <2>1, <2>2
      <3> QED
        BY <1>1, <1>2, <1>3, <2>2, <3>2, <3>3
    <2>3. CASE k > Count - unused
      <3>1. /\ Cell(out, k) = Cell(in, k - (Count - unused))
            /\ k - (Count - unused) \in 1 .. Len(s)
        BY <1>0, <2>1, <2>3, WriteCell, Sizes
      <3>2. data'[Cell(out, k)] = s[k - (Count - unused)]
        BY <1>0, <2>1, <3>1, Sizes
      <3> QED
        BY <1>0, <1>1, <1>2, <1>3, <2>1, <2>3, <3>2, Sizes
    <2>4. k <= Count - unused \/ k > Count - unused
      BY <1>0, <2>1, Sizes
    <2> QED
      BY <2>2, <2>3, <2>4
  <1> QED
    BY <1>2, <1>3, <1>4, SeqEqual

(* n elements handed out were the first of those held. *)
LEMMA GetHolds ==
    ASSUME FifoInv, FifoInv', NEW n \in 0 .. Count, n <= Count - unused,
           unused' = unused + n, out' = Advance(out, n), data' = data
    PROVE  /\ Len(Held) = Count - unused
           /\ Held' = SubSeq(Held, n + 1, Len(Held))
           /\ CopiedOut(n, out) = SubSeq(Held, 1, n)
  <1>0. /\ data \in [Cells -> Values] /\ out \in Cells /\ unused \in 0 .. Count
        /\ data' \in [Cells -> Values] /\ out' \in Cells /\ unused' \in 0 .. Count
    BY DEF FifoInv, TypeOK
  <1>held. Held = Contents(data, out, unused) /\ Held' = Contents(data', out', unused')
    BY DEF Held, Contents
  <1>1. /\ Held \in Seq(Values) /\ Len(Held) = Count - unused
        /\ \A k \in 1 .. Count - unused : Held[k] = data[Cell(out, k)]
    BY <1>0, <1>held, ContentsAre
  <1>2. /\ Held' \in Seq(Values) /\ Len(Held') = Count - unused'
        /\ \A k \in 1 .. Count - unused' : Held'[k] = data'[Cell(out', k)]
    BY <1>0, <1>held, ContentsAre
  <1>3. Held' = SubSeq(Held, n + 1, Len(Held))
    <2>1. /\ SubSeq(Held, n + 1, Len(Held)) \in Seq(Values)
          /\ Len(SubSeq(Held, n + 1, Len(Held))) = Len(Held')
          /\ \A k \in 1 .. Len(Held') : SubSeq(Held, n + 1, Len(Held))[k] = Held[n + k]
      BY <1>0, <1>1, <1>2, Sizes
    <2>2. ASSUME NEW k \in 1 .. Len(Held')
          PROVE  Held'[k] = Held[n + k]
      <3>1. /\ k \in 1 .. Count /\ n + k <= Count /\ n + k \in 1 .. Count - unused
            /\ k \in 1 .. Count - unused'
        BY <1>0, <1>1, <1>2, Sizes
      <3>2. Cell(out', k) = Cell(out, n + k)
        BY <1>0, <3>1, CellAdvance
      <3> QED
        BY <1>1, <1>2, <3>1, <3>2
    <2> QED
      BY <1>2, <2>1, <2>2, SeqEqual
  <1>4. CopiedOut(n, out) = SubSeq(Held, 1, n)
    <2>1. /\ DOMAIN CopiedOut(n, out) = 1 .. n
          /\ \A k \in 1 .. n : CopiedOut(n, out)[k] = data[Cell(out, k)]
      BY <1>0, CopiedOutCells
    <2>2. /\ SubSeq(Held, 1, n) \in Seq(Values)
          /\ Len(SubSeq(Held, 1, n)) = n
          /\ \A k \in 1 .. n : SubSeq(Held, 1, n)[k] = Held[k]
      BY <1>0, <1>1, Sizes
    <2>3. \A k \in 1 .. n : Held[k] = data[Cell(out, k)]
      BY <1>0, <1>1, Sizes
    <2>4. CopiedOut(n, out) = [k \in 1 .. n |-> CopiedOut(n, out)[k]]
      BY DEF CopiedOut
    <2>5. SubSeq(Held, 1, n) = [k \in 1 .. n |-> SubSeq(Held, 1, n)[k]]
      BY <2>2
    <2> QED
      BY <2>1, <2>2, <2>3, <2>4, <2>5
  <1> QED
    BY <1>1, <1>3, <1>4

(* The storing of an element in place is not seen by the queue, since it   *)
(* goes to the first unused cell.                                          *)
LEMMA StoreHidden ==
    ASSUME FifoInv, FifoInv', NEW v \in Values, StoreInPlace(v)
    PROVE  Held' = Held
  <1>0. /\ data \in [Cells -> Values] /\ in \in Cells /\ out \in Cells
        /\ unused \in 1 .. Count
        /\ data' \in [Cells -> Values] /\ out' = out /\ unused' = unused
        /\ data' = [data EXCEPT ![in] = v]
    BY Sizes DEF FifoInv, TypeOK, StoreInPlace, fifo_unused
  <1>1. /\ Held \in Seq(Values) /\ Len(Held) = Count - unused
        /\ \A k \in 1 .. Count - unused : Held[k] = data[Cell(out, k)]
    <2>1. Held = Contents(data, out, unused)
      BY DEF Held, Contents
    <2> QED
      BY <1>0, <2>1, ContentsAre
  <1>2. /\ Held' \in Seq(Values) /\ Len(Held') = Count - unused
        /\ \A k \in 1 .. Count - unused : Held'[k] = data'[Cell(out, k)]
    <2>1. Held' = Contents(data', out, unused) /\ unused \in 0 .. Count
      BY <1>0, Sizes DEF Held, Contents
    <2>2. data' \in [Cells -> Values] /\ out \in Cells
      BY <1>0
    <2> QED
      BY <2>1, <2>2, ContentsAre
  <1>3. ASSUME NEW k \in 1 .. Count - unused
        PROVE  Held'[k] = Held[k]
    <2>1. Cell(out, k) \in Cells /\ Cell(out, k) # in
      <3>1. Cell(out, k) = Cell(in, unused + k)
        BY <1>0, WriteCell, Sizes
      <3>2. Cell(in, unused + k) # in /\ Cell(in, unused + k) \in Cells
        BY <1>0, Sizes DEF Cell, Cells
      <3> QED
        BY <3>1, <3>2
    <2> QED
      BY <1>0, <1>1, <1>2, <2>1
  <1> QED
    BY <1>1, <1>2, <1>3, SeqEqual

(* Every call is one of the queue's, or not seen by it. *)
LEMMA FifoSteps == FifoInv /\ FifoInv' /\ [Next]_vars => [Queue!Next]_(Queue!vars)
  <1> SUFFICES ASSUME FifoInv, FifoInv', [Next]_vars
               PROVE  [Queue!Next]_(Queue!vars)
    OBVIOUS
  <1>0. /\ data \in [Cells -> Values] /\ in \in Cells /\ out \in Cells
        /\ unused \in 0 .. Count /\ Len(Held) = Count - unused
    <2>1. Held = Contents(data, out, unused)
      BY DEF Held, Contents
    <2> QED
      BY <2>1, ContentsAre DEF FifoInv, TypeOK
  <1>1. ASSUME NEW n \in Requested, NEW s \in [1 .. n -> Values], FifoIn(s)
        PROVE  Queue!Put
    <2>1. s \in Seq(Values) /\ Len(s) = n /\ n \in 0 .. Count + 1
      BY Sizes DEF Requested
    <2>2. PICK c : c = Accepted(n)
      OBVIOUS
    <2>3. c \in 0 .. Count /\ c <= unused /\ c <= n
      BY <1>0, <2>1, <2>2, Cut
    <2>4. PICK t \in Seq(Values) : t = SubSeq(s, 1, c) /\ Len(t) = c
      <3>1. SubSeq(s, 1, c) \in Seq(Values) /\ Len(SubSeq(s, 1, c)) = c
        BY <2>1, <2>3
      <3> QED
        BY <3>1
    <2>5. data' = CopiedIn(t, in) /\ moved' = t /\ ret' = c /\ out' = out
      BY <1>1, <2>1, <2>2, <2>4 DEF FifoIn
    <2>6. unused' = unused - c
      <3>1. unused - c \in 0 .. Count
        BY <1>0, <2>3, Sizes
      <3> QED
        BY <1>1, <2>1, <2>2, <3>1, CountExact DEF FifoIn
    <2>7. \A j \in 1 .. Count :
              data'[Cell(in, j)] = IF j <= Len(t) THEN t[j] ELSE data[Cell(in, j)]
      <3>1. Len(t) <= Count
        BY <2>3, <2>4, Sizes
      <3> QED
        BY <1>0, <2>5, <3>1, CopiedCells
    <2>8. Held' = Held \o t
      BY <2>3, <2>4, <2>5, <2>6, <2>7, PutHolds
    <2>9. c = Queue!Least(Len(s), Count - Len(Held))
      BY <1>0, <2>1, <2>2, Sizes DEF Accepted, Least, fifo_unused, Queue!Least
    <2>10. s \in Queue!Batches
      BY <2>1 DEF Queue!Batches
    <2> QED
      BY <2>4, <2>5, <2>8, <2>9, <2>10 DEF Queue!Put
  <1>2. ASSUME NEW n \in Requested, FifoInPlace(n)
        PROVE  Queue!Put
    <2>1. n \in 0 .. Count + 1
      BY Sizes DEF Requested
    <2>2. PICK c : c = Accepted(n)
      OBVIOUS
    <2>3. c \in 0 .. Count /\ c <= unused
      BY <1>0, <2>1, <2>2, Cut
    <2> DEFINE t == [j \in 1 .. c |-> data[Cell(in, j)]]
    <2>4. t \in [1 .. c -> Values] /\ t \in Seq(Values) /\ Len(t) = c
      <3>1. \A j \in 1 .. c : Cell(in, j) \in Cells
        BY <1>0, <2>3, Sizes DEF Cell, Cells
      <3> QED
        BY <1>0, <2>3, <3>1
    <2>5. data' = data /\ moved' = <<>> /\ ret' = c /\ out' = out
      BY <1>2, <2>2 DEF FifoInPlace
    <2>6. unused' = unused - c
      <3>1. unused - c \in 0 .. Count
        BY <1>0, <2>3, Sizes
      <3> QED
        BY <1>2, <2>2, <3>1, CountExact DEF FifoInPlace
    <2>7. \A j \in 1 .. Count :
              data'[Cell(in, j)] = IF j <= Len(t) THEN t[j] ELSE data[Cell(in, j)]
      BY <2>3, <2>4, <2>5, Sizes
    <2> HIDE DEF t
    <2>8. Held' = Held \o t
      BY <2>3, <2>4, <2>5, <2>6, <2>7, PutHolds
    <2>9. c = Queue!Least(Len(t), Count - Len(Held)) /\ SubSeq(t, 1, c) = t
      <3>1. c = Queue!Least(Len(t), Count - Len(Held))
        BY <1>0, <2>3, <2>4, Sizes DEF Queue!Least
      <3> QED
        BY <2>4, <3>1, SubSeqFull
    <2>10. t \in Queue!Batches
      BY <2>3, <2>4, Sizes DEF Queue!Batches
    <2> QED
      BY <2>5, <2>8, <2>9, <2>10 DEF Queue!Put
  <1>3. ASSUME NEW v \in Values, StoreInPlace(v)
        PROVE  UNCHANGED Queue!vars
    BY <1>3, StoreHidden DEF StoreInPlace, Queue!vars
  <1>4. ASSUME NEW n \in Requested, NEW wanted \in BOOLEAN, FifoOut(n, wanted)
        PROVE  Queue!Get
    <2>1. n \in 0 .. Count + 1
      BY Sizes DEF Requested
    <2>2. PICK c : c = Available(n)
      OBVIOUS
    <2>3. c \in 0 .. Count /\ c <= Count - unused
      BY <1>0, <2>1, <2>2, Cut
    <2>4. /\ data' = data /\ out' = Advance(out, c) /\ ret' = c
          /\ moved' = IF wanted THEN CopiedOut(c, out) ELSE <<>>
      BY <1>4, <2>2 DEF FifoOut
    <2>5. unused' = unused + c
      <3>1. unused + c \in 0 .. Count
        BY <1>0, <2>3, Sizes
      <3> QED
        BY <1>4, <2>2, <3>1, CountExact DEF FifoOut
    <2>6. /\ Held' = SubSeq(Held, c + 1, Len(Held))
          /\ CopiedOut(c, out) = SubSeq(Held, 1, c)
      BY <2>3, <2>4, <2>5, GetHolds
    <2>7. c = Queue!Least(n, Len(Held))
      BY <1>0, <2>1, <2>2, CachedExact, Sizes DEF Available, Least, Queue!Least
    <2> QED
      BY <2>1, <2>4, <2>6, <2>7 DEF Queue!Get
  <1>5. CASE FifoReset
    <2>1. Held' = <<>>
      <3>1. Held' = [k \in 1 .. 0 |-> data'[(out' + k - 1) % Count]]
        BY <1>5, Sizes DEF FifoReset, Held
      <3> QED
        BY <3>1
    <2> QED
      BY <1>5, <2>1 DEF FifoReset, Queue!Next, Queue!Clear
  <1>6. CASE UNCHANGED vars
    BY <1>6 DEF vars, ring, Queue!vars, Held
  <1> QED
    BY <1>1, <1>2, <1>3, <1>4, <1>5, <1>6 DEF Next, Queue!Next

(* Called in turn, the ring buffer is a bounded queue: elements come out   *)
(* of fifo_out as they went into fifo_in, none lost and none twice, from   *)
(* every position of the indices and around the end of the buffer.         *)
THEOREM FifoIsQueue == Spec => IsQueue
  <1>1. Init => Queue!Init
    <2>1. ASSUME Init PROVE Held = <<>>
      <3>1. Held = [k \in 1 .. 0 |-> data[(out + k - 1) % Count]]
        BY <2>1, Sizes DEF Init, Held
      <3> QED
        BY <3>1
    <2> QED
      BY <2>1 DEF Init, Queue!Init
  <1> QED
    BY <1>1, FifoInitOK, FifoNextOK, FifoSteps, PTL DEF Spec, IsQueue, Queue!Spec

-----------------------------------------------------------------------------
(* Shared with an interrupt handler *)

(* Why the count cannot leave its range: the program's call has cut cnt to *)
(* what fitted when it looked, and the handler's calls have only made more *)
(* room, or more to take, since then.                                      *)
IrqInv ==
    /\ in \in Cells /\ out \in Cells
    /\ unused \in 0 .. Count
    /\ cnt \in 0 .. Count
    /\ side \in {"in", "out"}
    /\ pc \in {"idle", "copy", "index", "load", "store"}
    /\ pc \in {"copy", "index", "load"} =>
          IF side = "in" THEN cnt <= unused ELSE cnt <= Count - unused
    /\ pc = "store" =>
          /\ tmp \in 0 .. Count
          /\ IF side = "in" THEN cnt <= tmp ELSE cnt <= Count - tmp

(* No step of the program's call or of the handler's leaves the range. *)
LEMMA IrqNextOK == IrqInv /\ [IrqNext]_ivars => IrqInv'
  <1> SUFFICES ASSUME IrqInv, [IrqNext]_ivars PROVE IrqInv'
    OBVIOUS
  <1> USE DEF IrqInv
  <1>1. CASE Enter
    <2>1. PICK n \in 1 .. Count :
              IF side = "in"
              THEN /\ src' \in [1 .. n -> Values]
                   /\ cnt' = Accepted(n)
              ELSE cnt' = Available(n) /\ UNCHANGED src
      BY <1>1 DEF Enter
    <2>2. n \in Nat
      BY Sizes
    <2> QED
      BY <1>1, <2>1, <2>2, Cut DEF Enter, vars, ring
  <1>2. CASE Copy
    BY <1>2 DEF Copy
  <1>3. CASE Index
    BY <1>3, AdvanceWraps DEF Index
  <1>4. CASE LoadUnused
    BY <1>4 DEF LoadUnused, vars, ring
  <1>5. CASE StoreUnused
    <2>1. CASE side = "in"
      <3>1. tmp - cnt \in 0 .. Count
        BY <1>5, <2>1, Sizes DEF StoreUnused
      <3> QED
        BY <1>5, <2>1, <3>1, CountExact DEF StoreUnused
    <2>2. CASE side = "out"
      <3>1. tmp + cnt \in 0 .. Count
        BY <1>5, <2>2, Sizes DEF StoreUnused
      <3> QED
        BY <1>5, <2>2, <3>1, CountExact DEF StoreUnused
    <2> QED
      BY <2>1, <2>2
  <1>6. CASE Irq
    <2>1. CASE side = "in"
      <3>1. PICK n \in 1 .. Count : FifoOut(n, TRUE)
        BY <1>6, <2>1 DEF Irq
      <3>2. /\ Available(n) \in 0 .. Count
            /\ unused + Available(n) \in 0 .. Count
        BY <3>1, Cut, Sizes
      <3>3. unused' = unused + Available(n) /\ unused' \in 0 .. Count
        BY <3>1, <3>2, CountExact DEF FifoOut
      <3>4. out' \in Cells /\ in' = in
        BY <3>1, <3>2, AdvanceWraps DEF FifoOut
      <3> QED
        BY <1>6, <2>1, <3>2, <3>3, <3>4, Sizes DEF Irq, local
    <2>2. CASE side = "out"
      <3>1. PICK n \in 1 .. Count : \E s \in [1 .. n -> Values] : FifoIn(s)
        BY <1>6, <2>2 DEF Irq
      <3>2. PICK s \in [1 .. n -> Values] : FifoIn(s)
        BY <3>1
      <3>3. Len(s) = n /\ n \in Nat
        BY Sizes
      <3>4. /\ Accepted(n) \in 0 .. Count
            /\ unused - Accepted(n) \in 0 .. Count
        BY <3>3, Cut
      <3>5. unused' = unused - Accepted(n) /\ unused' \in 0 .. Count
        BY <3>2, <3>3, <3>4, CountExact DEF FifoIn
      <3>6. in' \in Cells /\ out' = out
        BY <3>2, <3>3, <3>4, AdvanceWraps DEF FifoIn
      <3> QED
        BY <1>6, <2>2, <3>4, <3>5, <3>6, Sizes DEF Irq, local
    <2> QED
      BY <2>1, <2>2
  <1>7. CASE UNCHANGED ivars
    BY <1>7 DEF ivars, vars, ring
  <1> QED
    BY <1>1, <1>2, <1>3, <1>4, <1>5, <1>6, <1>7 DEF IrqNext

(* Shared with an interrupt handler, the indices and the count stay in     *)
(* range whatever the handler comes in between, though the count goes      *)
(* wrong: the race loses elements but never the buffer.                    *)
THEOREM IrqStaysInBuffer == IrqSpec => []StaysInBuffer
  <1>1. IrqInit => IrqInv
    BY Sizes DEF IrqInit, Init, IrqInv, Cells
  <1>2. IrqInv => StaysInBuffer
    BY DEF IrqInv, StaysInBuffer
  <1> QED
    BY <1>1, <1>2, IrqNextOK, PTL DEF IrqSpec
=============================================================================
