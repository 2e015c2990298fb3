------------------------------- MODULE Ring_proofs -------------------------------
(***************************************************************************)
(* What the contents of a ring become when a slot is written or an index   *)
(* moves, for rings of every length.  The first lemmas are the arithmetic. *)
(***************************************************************************)
EXTENDS Ring, SequenceTheorems, TLAPS

\* The slot after slot i.
NextSlot(n, i) == (i + 1) % n

\* The next slot is one of the ring's.
LEMMA NextType == ASSUME NEW n \in Nat, n > 1, NEW i \in 0 .. n - 1
                  PROVE NextSlot(n, i) \in 0 .. n - 1
  BY SMT DEF NextSlot

\* It is found without the modulus.
LEMMA NextValue == ASSUME NEW n \in Nat, n > 1, NEW i \in 0 .. n - 1
                   PROVE NextSlot(n, i) = IF i + 1 = n THEN 0 ELSE i + 1
  BY SMT DEF NextSlot

\* The modulus of an index that has wrapped once at most.
LEMMA ModValue == ASSUME NEW n \in Nat, n > 1, NEW x \in Nat, x < 2 * n
                  PROVE x % n = IF x < n THEN x ELSE x - n
<1>1. CASE x < n
  BY <1>1, SMT
<1>2. CASE x >= n
  BY <1>2, SMT
<1> QED
  BY <1>1, <1>2, SMT

\* And of one that is less than a turn below 0.
LEMMA ModBelow == ASSUME NEW n \in Nat, n > 1, NEW x \in Int, -n <= x, x < n
                  PROVE x % n = IF x < 0 THEN x + n ELSE x
<1>1. CASE x < 0
  BY <1>1, SMT
<1>2. CASE x >= 0
  BY <1>2, SMT
<1> QED
  BY <1>1, <1>2, SMT

\* How many values are pending, without the modulus.
LEMMA CountValue == ASSUME NEW n \in Nat, n > 1, NEW r \in 0 .. n - 1, NEW w \in 0 .. n - 1
                    PROVE CountOf(n, r, w) = IF w < r THEN w + n - r ELSE w - r
<1> DEFINE x == w + n - r
<1>1. x \in Nat /\ x < 2 * n
  BY SMT
<1>2. CountOf(n, r, w) = IF x < n THEN x ELSE x - n
  BY <1>1, ModValue DEF CountOf
<1> QED
  BY <1>2, SMT

\* The slot of the i-th pending value, without the modulus.
LEMMA SlotValue == ASSUME NEW n \in Nat, n > 1, NEW r \in 0 .. n - 1, NEW w \in 0 .. n - 1,
                          NEW i \in 1 .. CountOf(n, r, w)
                   PROVE (r + i - 1) % n
                            = IF r + i - 1 < n THEN r + i - 1 ELSE (r + i - 1) - n
<1> DEFINE x == r + i - 1
<1>1. CountOf(n, r, w) \in 0 .. n - 1
  BY CountValue, SMT
<1>2. x \in Nat /\ x < 2 * n
  BY <1>1, SMT
<1>3. x % n = IF x < n THEN x ELSE x - n
  <2> HIDE DEF x
  <2> QED BY <1>2, ModValue
<1> QED
  BY <1>3, Zenon

-------------------------------------------------------------------------------
\* Writing the slot to be filled leaves the pending values alone.
LEMMA WriteKeeps == ASSUME NEW n \in Nat, n > 1, NEW r \in 0 .. n - 1, NEW w \in 0 .. n - 1,
                           NEW f, NEW g, \A i \in 0 .. n - 1 : i # w => g[i] = f[i]
                    PROVE ContentsOf(n, r, w, g) = ContentsOf(n, r, w, f)
<1> SUFFICES ASSUME NEW i \in 1 .. CountOf(n, r, w)
             PROVE g[(r + i - 1) % n] = f[(r + i - 1) % n]
  BY DEF ContentsOf
<1> DEFINE m == (r + i - 1) % n
<1>1. m = IF r + i - 1 < n THEN r + i - 1 ELSE (r + i - 1) - n
  BY SlotValue
<1>2. CountOf(n, r, w) = IF w < r THEN w + n - r ELSE w - r
  BY CountValue
<1>3. m \in 0 .. n - 1 /\ m # w
  <2> HIDE DEF m
  <2> QED BY <1>1, <1>2, SMT
<1> QED
  BY <1>3

\* Moving w past a written slot appends its value.
LEMMA PushContents == ASSUME NEW n \in Nat, n > 1, NEW r \in 0 .. n - 1, NEW w \in 0 .. n - 1,
                             NEW V, NEW f \in [0 .. n - 1 -> V], r # NextSlot(n, w)
                      PROVE /\ ContentsOf(n, r, NextSlot(n, w), f) = Append(ContentsOf(n, r, w, f), f[w])
                            /\ Len(ContentsOf(n, r, w, f)) < n - 1
<1> DEFINE c == CountOf(n, r, w)
           s == ContentsOf(n, r, w, f)
<1>1. /\ c \in Nat /\ c < n - 1 /\ CountOf(n, r, NextSlot(n, w)) = c + 1
      /\ w = IF r + c < n THEN r + c ELSE (r + c) - n
  <2>1. c = IF w < r THEN w + n - r ELSE w - r
    BY CountValue
  <2>2. CountOf(n, r, NextSlot(n, w)) = IF NextSlot(n, w) < r THEN NextSlot(n, w) + n - r ELSE NextSlot(n, w) - r
    BY CountValue, NextType
  <2>3. NextSlot(n, w) = IF w + 1 = n THEN 0 ELSE w + 1
    BY NextValue
  <2> HIDE DEF c
  <2> QED
    BY <2>1, <2>2, <2>3, SMT
<1>2. (r + (c + 1) - 1) % n = w
  <2>1. c + 1 \in 1 .. CountOf(n, r, NextSlot(n, w)) /\ NextSlot(n, w) \in 0 .. n - 1
    <3>1. NextSlot(n, w) \in 0 .. n - 1
      BY NextType
    <3> HIDE DEF c
    <3> QED
      BY <1>1, <3>1
  <2>2. (r + (c + 1) - 1) % n
           = IF r + (c + 1) - 1 < n THEN r + (c + 1) - 1 ELSE (r + (c + 1) - 1) - n
    BY <2>1, SlotValue, Zenon
  <2>3. r + (c + 1) - 1 = r + c
    BY <1>1, SMT
  <2> QED
    BY <2>2, <2>3, <1>1
<1>3. ASSUME NEW i \in 1 .. c PROVE f[(r + i - 1) % n] \in V
  <2>1. (r + i - 1) % n \in 0 .. n - 1
    BY SMT
  <2> QED
    BY <2>1
<1>4. s \in Seq(V) /\ Len(s) = c
  BY <1>1, <1>3 DEF ContentsOf
<1>5. Append(s, f[w]) = [i \in 1 .. c + 1 |-> IF i = c + 1 THEN f[w] ELSE s[i]]
  <2> DEFINE e == f[w]
  <2> HIDE DEF c, s, e
  <2>1. Append(s, e) = [i \in 1 .. c + 1 |-> IF i = c + 1 THEN e ELSE s[i]]
    BY <1>4, SMTT(30)
  <2> QED
    BY <2>1, Zenon DEF e
<1>6. ContentsOf(n, r, NextSlot(n, w), f) = [i \in 1 .. c + 1 |-> IF i = c + 1 THEN f[w] ELSE s[i]]
  <2>1. ContentsOf(n, r, NextSlot(n, w), f) = [i \in 1 .. c + 1 |-> f[(r + i - 1) % n]]
    BY <1>1 DEF ContentsOf
  <2>2. ASSUME NEW i \in 1 .. c + 1
        PROVE f[(r + i - 1) % n] = IF i = c + 1 THEN f[w] ELSE s[i]
    <3>1. CASE i = c + 1
      BY <3>1, <1>2
    <3>2. CASE i # c + 1
      <4>1. i \in 1 .. c
        BY <3>2, <1>1, SMT
      <4> QED
        BY <3>2, <4>1 DEF ContentsOf
    <3> QED
      BY <3>1, <3>2
  <2> QED
    BY <2>1, <2>2, Zenon
<1> QED
  BY <1>1, <1>4, <1>5, <1>6

\* Moving r past a pending value removes it, and it was the oldest.
LEMMA PopContents == ASSUME NEW n \in Nat, n > 1, NEW r \in 0 .. n - 1, NEW w \in 0 .. n - 1,
                            NEW V, NEW f \in [0 .. n - 1 -> V], r # w
                     PROVE /\ ContentsOf(n, r, w, f) # <<>>
                           /\ Head(ContentsOf(n, r, w, f)) = f[r]
                           /\ Tail(ContentsOf(n, r, w, f)) = ContentsOf(n, NextSlot(n, r), w, f)
<1> DEFINE c == CountOf(n, r, w)
           s == ContentsOf(n, r, w, f)
<1>1. c \in Nat /\ c > 0 /\ c < n /\ CountOf(n, NextSlot(n, r), w) = c - 1
  <2>1. c = IF w < r THEN w + n - r ELSE w - r
    BY CountValue
  <2>2. CountOf(n, NextSlot(n, r), w) = IF w < NextSlot(n, r) THEN w + n - NextSlot(n, r) ELSE w - NextSlot(n, r)
    BY CountValue, NextType
  <2>3. NextSlot(n, r) = IF r + 1 = n THEN 0 ELSE r + 1
    BY NextValue
  <2> HIDE DEF c
  <2> QED
    BY <2>1, <2>2, <2>3, SMT
<1>2. s = [i \in 1 .. c |-> f[(r + i - 1) % n]]
  BY DEF ContentsOf
<1>3. ASSUME NEW i \in 1 .. c PROVE f[(r + i - 1) % n] \in V
  <2>1. (r + i - 1) % n \in 0 .. n - 1
    BY SMT
  <2> QED
    BY <2>1
<1>4. s \in Seq(V) /\ Len(s) = c
  BY <1>1, <1>2, <1>3
<1>5. s # <<>> /\ Head(s) = s[1]
  BY <1>1, <1>4
<1>6. s[1] = f[r]
  <2>1. (r + 1 - 1) % n = r
    BY ModValue, SMT
  <2> QED
    BY <1>1, <1>2, <2>1
<1>7. /\ Tail(s) \in Seq(V) /\ Len(Tail(s)) = c - 1
      /\ \A i \in 1 .. c - 1 : Tail(s)[i] = s[i + 1]
  BY <1>4, <1>5, HeadTailProperties
<1>8. ContentsOf(n, NextSlot(n, r), w, f) = [i \in 1 .. c - 1 |-> f[(NextSlot(n, r) + i - 1) % n]]
  BY <1>1 DEF ContentsOf
<1>9. ASSUME NEW i \in 1 .. c - 1
      PROVE s[i + 1] = f[(NextSlot(n, r) + i - 1) % n]
  <2>1. i + 1 \in 1 .. c /\ i \in 1 .. CountOf(n, NextSlot(n, r), w) /\ NextSlot(n, r) \in 0 .. n - 1
    BY <1>1, NextType, SMT
  <2>2. (r + (i + 1) - 1) % n
           = IF r + (i + 1) - 1 < n THEN r + (i + 1) - 1 ELSE (r + (i + 1) - 1) - n
    BY <2>1, SlotValue, Zenon
  <2>3. (NextSlot(n, r) + i - 1) % n
           = IF NextSlot(n, r) + i - 1 < n THEN NextSlot(n, r) + i - 1 ELSE (NextSlot(n, r) + i - 1) - n
    BY <2>1, SlotValue, Zenon
  <2>4. NextSlot(n, r) = IF r + 1 = n THEN 0 ELSE r + 1
    BY NextValue
  <2> DEFINE a == (r + (i + 1) - 1) % n
             b == (NextSlot(n, r) + i - 1) % n
  <2>5. a = b
    <3> HIDE DEF a, b
    <3> QED
      BY <1>1, <2>2, <2>3, <2>4, SMT DEF a, b
  <2> QED
    BY <1>2, <2>1, <2>5
<1>10. Tail(s) = ContentsOf(n, NextSlot(n, r), w, f)
  <2>1. ASSUME NEW i \in 1 .. c - 1
        PROVE f[(NextSlot(n, r) + i - 1) % n] \in V
    <3>1. (NextSlot(n, r) + i - 1) % n \in 0 .. n - 1
      BY NextType, SMT
    <3> QED
      BY <3>1
  <2>2. ContentsOf(n, NextSlot(n, r), w, f) \in Seq(V) /\ Len(ContentsOf(n, NextSlot(n, r), w, f)) = c - 1
    <3>1. c - 1 \in Nat
      BY <1>1
    <3> HIDE DEF c
    <3> QED
      BY <3>1, <1>8, <2>1
  <2>3. \A i \in 1 .. Len(Tail(s)) : Tail(s)[i] = ContentsOf(n, NextSlot(n, r), w, f)[i]
    BY <1>7, <1>8, <1>9
  <2> QED
    BY <1>7, <2>2, <2>3, SeqEqual
<1> QED
  BY <1>5, <1>6, <1>10

===============================================================================
