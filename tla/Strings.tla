------------------------------- MODULE Strings -------------------------------
(***************************************************************************)
(* src/lib/string.c.  Memory is a function from addresses to bytes; a      *)
(* function that writes returns the memory it leaves.  CharBits is the     *)
(* width of a char: strcmp squeezes its answer into a signed one.          *)
(***************************************************************************)
LOCAL INSTANCE Integers
LOCAL INSTANCE Sequences
LOCAL INSTANCE SequencesExt

CONSTANT CharBits

LOCAL Bytes == 4   \* sizeof(unsigned long)

Aligned(addr) == addr % Bytes = 0

(* Up(i, n) and Down(i, n) are the addresses of a loop in its order. *)
Up(i, n) == [k \in 1 .. n |-> i + k - 1]
Down(i, n) == [k \in 1 .. n |-> i + n - k]

(* A byte after the other, in the order of offs *)
CopyBytes(m, dest, src, offs) ==
    FoldLeft(LAMBDA r, o : [r EXCEPT ![dest + o] = r[src + o]], m, offs)

(* A word after the other: a word is read whole before it is written. *)
CopyWords(m, dest, src, words) ==
    FoldLeft(LAMBDA r, w : [a \in DOMAIN r |->
                 IF a - dest \in Bytes * w .. Bytes * w + Bytes - 1 THEN r[src + a - dest] ELSE r[a]],
             m, Up(0, words))

memset(m, s, c, n) ==
    LET words == IF Aligned(s) THEN n \div Bytes ELSE 0
        filled == [a \in DOMAIN m |-> IF a \in s .. s + Bytes * words - 1 THEN c % 256 ELSE m[a]]
    IN FoldLeft(LAMBDA r, a : [r EXCEPT ![a] = c % 256],
                filled, Up(s + Bytes * words, n - Bytes * words))

memcpy(m, dest, src, n) ==
    LET words == IF Aligned(dest) /\ Aligned(src) THEN n \div Bytes ELSE 0
    IN IF src = dest THEN m
       ELSE CopyBytes(CopyWords(m, dest, src, words), dest, src,
                      Up(Bytes * words, n - Bytes * words))

(* A slip: always upwards. *)
memmoveSlip(m, dest, src, n) == CopyBytes(m, dest, src, Up(0, n))

memmove(m, dest, src, n) ==
    IF dest <= src THEN CopyBytes(m, dest, src, Up(0, n)) ELSE CopyBytes(m, dest, src, Down(0, n))

strlen(m, s) ==
    LET ends == {a \in DOMAIN m : a >= s /\ m[a] = 0}
    IN (CHOOSE a \in ends : \A b \in ends : a <= b) - s

strnlen(m, s, maxlen) ==
    IF \E k \in 0 .. maxlen - 1 : m[s + k] = 0
    THEN CHOOSE k \in 0 .. maxlen - 1 : m[s + k] = 0 /\ \A j \in 0 .. k - 1 : m[s + j] # 0
    ELSE maxlen

(* The terminating zero is copied too. *)
strcpy(m, dest, src) == CopyBytes(m, dest, src, Up(0, strlen(m, src) + 1))

(* Nothing is filled behind a text that is shorter than n. *)
strncpy(m, dest, src, n) ==
    LET len == strnlen(m, src, n)
    IN CopyBytes(m, dest, src, Up(0, IF len < n THEN len + 1 ELSE n))

strcat(m, dest, src) ==
    CopyBytes(m, dest + strlen(m, dest), src, Up(0, strlen(m, src) + 1))

-----------------------------------------------------------------------------
(* Comparing.  A char is unsigned on ARM; the difference of two of them is *)
(* kept in a signed char, so it loses its sign from half the range on.     *)

AsSignedChar(v) == LET half == 2^(CharBits - 1) IN ((v + half) % (2 * half)) - half

memcmp(m, cs, ct, count) ==
    IF \E k \in 0 .. count - 1 : m[cs + k] # m[ct + k]
    THEN LET k == CHOOSE j \in 0 .. count - 1 : m[cs + j] # m[ct + j]
                      /\ \A i \in 0 .. j - 1 : m[cs + i] = m[ct + i]
         IN m[cs + k] - m[ct + k]
    ELSE 0

strncmp(m, s1, s2, n) ==
    LET len == strnlen(m, s1, n)
    IN AsSignedChar(memcmp(m, s1, s2, IF len < n THEN len + 1 ELSE n))

strcmp(m, s1, s2) == AsSignedChar(memcmp(m, s1, s2, strlen(m, s1) + 1))
=============================================================================
