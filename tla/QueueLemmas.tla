----------------------------- MODULE QueueLemmas -----------------------------
(***************************************************************************)
(* What the proofs about queues share: the arithmetic of the indexes of a  *)
(* ring of N slots, and Append and Tail written out as functions.          *)
(***************************************************************************)
EXTENDS Integers, Sequences, SequenceTheorems, TLAPS

(* The remainder is determined by the division.                            *)
LEMMA ModUnique ==
    ASSUME NEW N \in Nat \ {0}, NEW a \in Nat,
           NEW p \in Int, NEW r \in 0 .. N - 1, a = N * p + r
    PROVE  a % N = r
<1> DEFINE d == a \div N
           m == a % N
<1>1. d \in Int /\ m \in 0 .. N - 1 /\ a = N * d + m
  BY SMT
<1> HIDE DEF d, m
<1>2. ASSUME NEW e \in Int, e >= 1 PROVE N * e >= N
  BY <1>2, SMT
<1>3. CASE d = p
  BY <1>1, <1>3, SMT DEF m
<1>4. CASE d < p
  <2>1. p - d \in Int /\ p - d >= 1 /\ N * (p - d) = N * p - N * d
    BY <1>1, <1>4, SMT
  <2>2. N * (p - d) >= N
    BY <1>2, <2>1
  <2> QED BY <1>1, <2>1, <2>2, SMT
<1>5. CASE d > p
  <2>1. d - p \in Int /\ d - p >= 1 /\ N * (d - p) = N * d - N * p
    BY <1>1, <1>5, SMT
  <2>2. N * (d - p) >= N
    BY <1>2, <2>1
  <2> QED BY <1>1, <2>1, <2>2, SMT
<1> QED BY <1>1, <1>3, <1>4, <1>5, SMT

(* A summand may be replaced by its remainder.                             *)
LEMMA ModSum ==
    ASSUME NEW N \in Nat \ {0}, NEW a \in Nat, NEW k \in Nat
    PROVE  ((a % N) + k) % N = (a + k) % N
<1> DEFINE d == a \div N
           m == a % N
           f == (m + k) \div N
           r == (m + k) % N
<1>1. d \in Int /\ m \in 0 .. N - 1 /\ a = N * d + m
  BY SMT
<1> HIDE DEF d, m
<1>2. f \in Int /\ r \in 0 .. N - 1 /\ m + k = N * f + r
  BY <1>1, SMT
<1> HIDE DEF f, r
<1>3. a + k = N * (d + f) + r
  BY <1>1, <1>2, SMT
<1>4. (a + k) % N = r
  <2>1. a + k \in Nat /\ d + f \in Int
    BY <1>1, <1>2
  <2> QED BY <1>2, <1>3, <2>1, ModUnique, Zenon
<1> QED BY <1>4 DEF r, m

(* The slot that lies k places after slot g.                               *)
LEMMA SlotAfter ==
    ASSUME NEW N \in Nat \ {0}, NEW g \in 0 .. N - 1, NEW k \in Nat
    PROVE  (g + k) % N \in 0 .. N - 1
  BY SMT

(* Two places are the same slot exactly if they are whole turns apart.     *)
LEMMA SameSlot ==
    ASSUME NEW N \in Nat \ {0}, NEW g \in 0 .. N - 1,
           NEW j \in Nat, NEW k \in Nat
    PROVE  (g + j) % N = (g + k) % N <=> j % N = k % N
<1>1. /\ j % N \in 0 .. N - 1
      /\ k % N \in 0 .. N - 1
  BY SMT
<1>2. (g + j) % N = (g + (j % N)) % N /\ (g + k) % N = (g + (k % N)) % N
  <2>1. ((j % N) + g) % N = (j + g) % N /\ ((k % N) + g) % N = (k + g) % N
    BY ModSum, g \in Nat
  <2>2. /\ (j % N) + g = g + (j % N) /\ j + g = g + j
        /\ (k % N) + g = g + (k % N) /\ k + g = g + k
    BY <1>1, SMT
  <2> QED BY <2>1, <2>2
<1>3. ASSUME NEW x \in 0 .. N - 1, NEW y \in 0 .. N - 1, x # y
      PROVE  (g + x) % N # (g + y) % N
  BY <1>3, SMT
<1> QED BY <1>1, <1>2, <1>3

(* Advancing the base by one slot, or the offset by one place, leads to    *)
(* the same slot.                                                          *)
LEMMA SlotStep ==
    ASSUME NEW N \in Nat \ {0}, NEW g \in 0 .. N - 1, NEW k \in Nat
    PROVE  (((g + 1) % N) + k) % N = (g + (k + 1)) % N
<1>1. (((g + 1) % N) + k) % N = ((g + 1) + k) % N
  BY ModSum, g + 1 \in Nat
<1>2. (g + 1) + k = g + (k + 1)
  BY SMT
<1> QED BY <1>1, <1>2

(* The slot after the one k places after g.                                *)
LEMMA SlotNext ==
    ASSUME NEW N \in Nat \ {0}, NEW g \in 0 .. N - 1, NEW k \in Nat
    PROVE  (((g + k) % N) + 1) % N = (g + (k + 1)) % N
<1>1. (((g + k) % N) + 1) % N = ((g + k) + 1) % N
  BY ModSum, g + k \in Nat
<1>2. (g + k) + 1 = g + (k + 1)
  BY SMT
<1> QED BY <1>1, <1>2

(* Append, place by place.                                                 *)
LEMMA AppendAsFunction ==
    ASSUME NEW S, NEW s \in Seq(S), NEW x \in S
    PROVE  Append(s, x) = [i \in 1 .. Len(s) + 1 |-> IF i = Len(s) + 1 THEN x ELSE s[i]]
<1> DEFINE t == [i \in 1 .. Len(s) + 1 |-> IF i = Len(s) + 1 THEN x ELSE s[i]]
<1>1. t \in Seq(S) /\ Len(t) = Len(s) + 1
  BY SMT
<1>2. Append(s, x) \in Seq(S) /\ Len(Append(s, x)) = Len(s) + 1
  BY AppendProperties
<1>3. ASSUME NEW i \in 1 .. Len(s) + 1 PROVE Append(s, x)[i] = t[i]
  BY AppendProperties, SMT
<1> HIDE DEF t
<1>4. Append(s, x) = t
  BY <1>1, <1>2, <1>3, SeqEqual, Zenon
<1> QED BY <1>4 DEF t

(* Tail of a sequence that is not empty, place by place.                   *)
LEMMA TailAsFunction ==
    ASSUME NEW S, NEW s \in Seq(S), s # <<>>
    PROVE  Tail(s) = [i \in 1 .. Len(s) - 1 |-> s[i + 1]]
<1> DEFINE t == [i \in 1 .. Len(s) - 1 |-> s[i + 1]]
<1>0. Len(s) \in Nat /\ Len(s) > 0
  BY SMT
<1>1. t \in Seq(S) /\ Len(t) = Len(s) - 1
  BY <1>0, SMT
<1>2. Tail(s) \in Seq(S) /\ Len(Tail(s)) = Len(s) - 1 /\ \A i \in 1 .. Len(s) - 1 : Tail(s)[i] = s[i+1]
  BY HeadTailProperties, SMT
<1>3. ASSUME NEW i \in 1 .. Len(s) - 1 PROVE Tail(s)[i] = t[i]
  BY <1>2
<1> HIDE DEF t
<1>4. Tail(s) = t
  BY <1>1, <1>2, <1>3, SeqEqual, Zenon
<1> QED BY <1>4 DEF t
-----------------------------------------------------------------------------
(* What a ring r of N slots holds when n items lie in it from slot g on.   *)
RingContents(r, g, n, N) == [i \in 1 .. n |-> r[(g + i - 1) % N]]

LEMMA RingContentsSeq ==
    ASSUME NEW N \in Nat \ {0}, NEW r, DOMAIN r = 0 .. N - 1,
           NEW g \in 0 .. N - 1, NEW n \in Nat
    PROVE  /\ RingContents(r, g, n, N) \in Seq({r[i] : i \in 0 .. N - 1})
           /\ Len(RingContents(r, g, n, N)) = n
           /\ n > 0 <=> RingContents(r, g, n, N) # <<>>
<1> DEFINE S == {r[i] : i \in 0 .. N - 1}
<1>1. ASSUME NEW i \in 1 .. n
      PROVE  r[(g + i - 1) % N] \in S
  <2>1. (g + i - 1) % N \in 0 .. N - 1
    BY SMT
  <2> QED BY <2>1
<1>2. RingContents(r, g, n, N) \in Seq(S) /\ Len(RingContents(r, g, n, N)) = n
  BY <1>1, SMT DEF RingContents
<1> QED BY <1>2, SMT

(* Writing the slot after the last item appends, and moves no other item.  *)
LEMMA RingInsert ==
    ASSUME NEW N \in Nat \ {0}, NEW r, DOMAIN r = 0 .. N - 1,
           NEW g \in 0 .. N - 1, NEW n \in 0 .. N - 1, NEW x
    PROVE  RingContents([r EXCEPT ![(g + n) % N] = x], g, n + 1, N)
             = Append(RingContents(r, g, n, N), x)
<1> DEFINE c == RingContents(r, g, n, N)
           w == [r EXCEPT ![(g + n) % N] = x]
           S == {r[i] : i \in 0 .. N - 1} \cup {x}
<1>1. c \in Seq(S) /\ Len(c) = n /\ x \in S
  <2>1. c \in Seq({r[i] : i \in 0 .. N - 1}) /\ Len(c) = n
    BY RingContentsSeq, n \in Nat
  <2> QED BY <2>1, SMT
<1>2. ASSUME NEW i \in 1 .. n + 1
      PROVE  w[(g + i - 1) % N] = IF i = n + 1 THEN x ELSE c[i]
  <2>1. i - 1 \in 0 .. N - 1 /\ g + i - 1 = g + (i - 1)
    OBVIOUS
  <2>2. (g + (i - 1)) % N \in 0 .. N - 1
    BY <2>1, SlotAfter
  <2>3. CASE i = n + 1
    BY <2>1, <2>2, <2>3
  <2>4. CASE i # n + 1
    <3>0. i - 1 # n
      BY <2>4
    <3>1. (g + (i - 1)) % N # (g + n) % N
      <4>1. (i - 1) % N = i - 1 /\ n % N = n
        BY <2>1, SMT
      <4> QED BY <2>1, <3>0, <4>1, SameSlot, n \in Nat, i - 1 \in Nat
    <3>2. c[i] = r[(g + i - 1) % N]
      BY <2>4 DEF RingContents
    <3> QED BY <2>1, <2>2, <2>4, <3>1, <3>2
  <2> QED BY <2>3, <2>4
<1>3. Append(c, x) = [i \in 1 .. n + 1 |-> IF i = n + 1 THEN x ELSE c[i]]
  <2> HIDE DEF c
  <2> QED BY <1>1, AppendAsFunction
<1>4. RingContents(w, g, n + 1, N) = [i \in 1 .. n + 1 |-> w[(g + i - 1) % N]]
  BY DEF RingContents
<1> HIDE DEF c, w
<1>5. RingContents(w, g, n + 1, N) = Append(c, x)
  BY <1>2, <1>3, <1>4
<1> QED BY <1>5 DEF c, w

(* A sequence s with one place more for x, which overwrites the items of   *)
(* the places that are whole turns of N away from it.                      *)
WithOverwritten(s, x, N) ==
    [i \in 1 .. Len(s) + 1 |-> IF (i - 1) % N = Len(s) % N THEN x ELSE s[i]]

(* However many items there are, writing the slot after the last one adds  *)
(* a place, and overwrites the items that are whole turns away from it.    *)
LEMMA RingOverwrite ==
    ASSUME NEW N \in Nat \ {0}, NEW r, DOMAIN r = 0 .. N - 1,
           NEW g \in 0 .. N - 1, NEW n \in Nat, NEW x
    PROVE  RingContents([r EXCEPT ![(g + n) % N] = x], g, n + 1, N)
             = WithOverwritten(RingContents(r, g, n, N), x, N)
<1> DEFINE c == RingContents(r, g, n, N)
           w == [r EXCEPT ![(g + n) % N] = x]
<1>1. ASSUME NEW i \in 1 .. n + 1
      PROVE  w[(g + i - 1) % N] = IF (i - 1) % N = n % N THEN x ELSE c[i]
  <2>1. i - 1 \in Nat /\ g + i - 1 = g + (i - 1)
    OBVIOUS
  <2>2. (g + (i - 1)) % N \in 0 .. N - 1 /\ (g + n) % N \in 0 .. N - 1
    BY <2>1, SlotAfter
  <2>3. (g + (i - 1)) % N = (g + n) % N <=> (i - 1) % N = n % N
    BY <2>1, SameSlot
  <2>4. CASE (i - 1) % N = n % N
    BY <2>1, <2>2, <2>3, <2>4
  <2>5. CASE (i - 1) % N # n % N
    <3>1. i # n + 1
      BY <2>5
    <3>2. c[i] = r[(g + i - 1) % N]
      BY <3>1 DEF RingContents
    <3> QED BY <2>1, <2>2, <2>3, <2>5, <3>2
  <2> QED BY <2>4, <2>5
<1>2. RingContents(w, g, n + 1, N) = [i \in 1 .. n + 1 |-> w[(g + i - 1) % N]]
  BY DEF RingContents
<1> HIDE DEF c, w
<1>3. RingContents(w, g, n + 1, N)
        = [i \in 1 .. n + 1 |-> IF (i - 1) % N = n % N THEN x ELSE c[i]]
  BY <1>1, <1>2
<1>4. Len(c) = n
  BY RingContentsSeq DEF c
<1> QED BY <1>3, <1>4, Zenon DEF c, w, WithOverwritten

(* Advancing the base by a slot takes the oldest item, and moves no other. *)
LEMMA RingGet ==
    ASSUME NEW N \in Nat \ {0}, NEW r, DOMAIN r = 0 .. N - 1,
           NEW g \in 0 .. N - 1, NEW n \in Nat \ {0}
    PROVE  /\ r[g] = Head(RingContents(r, g, n, N))
           /\ RingContents(r, (g + 1) % N, n - 1, N)
                = Tail(RingContents(r, g, n, N))
<1> DEFINE c == RingContents(r, g, n, N)
           S == {r[i] : i \in 0 .. N - 1}
<1>1. c \in Seq(S) /\ Len(c) = n /\ c # <<>>
  BY RingContentsSeq, n \in Nat
<1>2. r[g] = c[1]
  <2>1. (g + 1 - 1) % N = g
    BY SMT
  <2> QED BY <2>1 DEF RingContents
<1>3. ASSUME NEW i \in 1 .. n - 1
      PROVE  r[(((g + 1) % N) + i - 1) % N] = c[i + 1]
  <2>1. i - 1 \in Nat
    OBVIOUS
  <2>2. (((g + 1) % N) + (i - 1)) % N = (g + ((i - 1) + 1)) % N
    BY <2>1, SlotStep
  <2>3. (g + 1) % N \in Int
    BY SMT
  <2>4. /\ ((g + 1) % N) + i - 1 = ((g + 1) % N) + (i - 1)
        /\ g + (i + 1) - 1 = g + ((i - 1) + 1)
    BY <2>3
  <2>5. c[i + 1] = r[(g + (i + 1) - 1) % N]
    BY DEF RingContents
  <2> QED BY <2>2, <2>4, <2>5
<1>4. Tail(c) = [i \in 1 .. n - 1 |-> c[i + 1]]
  <2> HIDE DEF c
  <2> QED BY <1>1, TailAsFunction
<1>5. RingContents(r, (g + 1) % N, n - 1, N)
        = [i \in 1 .. n - 1 |-> r[(((g + 1) % N) + i - 1) % N]]
  BY DEF RingContents
<1> HIDE DEF c
<1>6. Head(c) = c[1]
  BY <1>1, SMT
<1>7. /\ r[g] = Head(c)
      /\ RingContents(r, (g + 1) % N, n - 1, N) = Tail(c)
  BY <1>2, <1>3, <1>4, <1>5, <1>6
<1> QED BY <1>7 DEF c
=============================================================================
