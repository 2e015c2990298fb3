--------------------------- MODULE KeyDrivers_proofs ---------------------------
(***************************************************************************)
(* Proofs about the drivers made from the template, for rings of every     *)
(* length, every debounce time, frame and number of lost edges.            *)
(***************************************************************************)
EXTENDS MCKeyDrivers, Ring_proofs

\* A ring, and a process in read or ioctl.
Rings == [slot : [Index -> Key], r : Index, w : Index, at : Index \cup {None}]

Process == [pc : {"user", "polled", "wait", "fetch", "bump", "arm", "listen", "end", "copy"},
            keys : Seq(Key), cut : BOOLEAN, got : Key]

Holds(g) == ContentsOf(BUF_LEN, g.r, g.w, g.slot)

\* What a put makes of a ring.
Taking(g, key) == IF g.r = Succ(g.w) THEN g
                  ELSE [g EXCEPT !.slot[g.w] = key, !.w = Succ(g.w)]

\* Indexes of the ring and the place after one.
LEMMA IndexFacts ==
    /\ BUF_LEN \in Nat /\ BUF_LEN > 1 /\ Index = 0 .. BUF_LEN - 1 /\ 0 \in Index /\ 0 \in Key
    /\ \A i \in Index : Succ(i) \in Index /\ Succ(i) # i /\ Succ(i) = NextSlot(BUF_LEN, i)
    /\ None \notin Index
<1>1. BUF_LEN \in Nat /\ BUF_LEN > 1 /\ Index = 0 .. BUF_LEN - 1 /\ 0 \in Index /\ 0 \in Key
  BY RingAssumption DEF Index
<1>2. ASSUME NEW i \in Index
      PROVE Succ(i) \in Index /\ Succ(i) # i /\ Succ(i) = NextSlot(BUF_LEN, i)
  BY <1>1, SMT DEF Succ, NextSlot
<1>3. None \notin Index
  BY <1>1 DEF None
<1>4. QED
  BY <1>1, <1>2, <1>3

\* Writing the slot that is filled next is not seen.
LEMMA WriteHides ==
    ASSUME NEW r \in Index, NEW w \in Index, NEW f \in [Index -> Key], NEW e \in Key
    PROVE  ContentsOf(BUF_LEN, r, w, [f EXCEPT ![w] = e]) = ContentsOf(BUF_LEN, r, w, f)
<1> DEFINE g == [f EXCEPT ![w] = e]
<1>1. /\ BUF_LEN \in Nat /\ BUF_LEN > 1
      /\ r \in 0 .. BUF_LEN - 1 /\ w \in 0 .. BUF_LEN - 1
      /\ f \in [0 .. BUF_LEN - 1 -> Key]
  BY IndexFacts
<1>2. \A i \in 0 .. BUF_LEN - 1 : i # w => g[i] = f[i]
  BY <1>1
<1> HIDE DEF g
<1>3. ContentsOf(BUF_LEN, r, w, g) = ContentsOf(BUF_LEN, r, w, f)
  BY <1>1, <1>2, WriteKeeps
<1> USE DEF g
<1>4. QED
  BY <1>3, Zenon

\* What the ring holds after a put and after a get.
LEMMA RingChange ==
    ASSUME NEW r \in Index, NEW w \in Index, NEW f \in [Index -> Key]
    PROVE  /\ r # Succ(w) =>
                  ContentsOf(BUF_LEN, r, Succ(w), f) = Append(ContentsOf(BUF_LEN, r, w, f), f[w])
           /\ r # w =>
                  /\ ContentsOf(BUF_LEN, r, w, f) # <<>>
                  /\ Head(ContentsOf(BUF_LEN, r, w, f)) = f[r]
                  /\ Tail(ContentsOf(BUF_LEN, r, w, f)) = ContentsOf(BUF_LEN, Succ(r), w, f)
<1>1. /\ BUF_LEN \in Nat /\ BUF_LEN > 1
      /\ r \in 0 .. BUF_LEN - 1 /\ w \in 0 .. BUF_LEN - 1
      /\ f \in [0 .. BUF_LEN - 1 -> Key]
  BY IndexFacts
<1>2. Succ(w) = NextSlot(BUF_LEN, w) /\ Succ(r) = NextSlot(BUF_LEN, r)
  BY IndexFacts
<1>3. ASSUME r # Succ(w)
      PROVE  ContentsOf(BUF_LEN, r, Succ(w), f) = Append(ContentsOf(BUF_LEN, r, w, f), f[w])
  BY <1>1, <1>2, <1>3, PushContents
<1>4. ASSUME r # w
      PROVE  /\ ContentsOf(BUF_LEN, r, w, f) # <<>>
             /\ Head(ContentsOf(BUF_LEN, r, w, f)) = f[r]
             /\ Tail(ContentsOf(BUF_LEN, r, w, f)) = ContentsOf(BUF_LEN, Succ(r), w, f)
  <2>1. /\ ContentsOf(BUF_LEN, r, w, f) # <<>>
        /\ Head(ContentsOf(BUF_LEN, r, w, f)) = f[r]
        /\ Tail(ContentsOf(BUF_LEN, r, w, f))
              = ContentsOf(BUF_LEN, NextSlot(BUF_LEN, r), w, f)
    BY <1>1, <1>4, PopContents, Zenon
  <2>2. QED
    BY <2>1, <1>2, Zenon
<1>5. QED
  BY <1>3, <1>4

\* The contents are a sequence of keys, and empty just if the indexes are equal.
LEMMA HoldsKeys ==
    ASSUME NEW g \in Rings
    PROVE  Holds(g) \in Seq(Key) /\ (Holds(g) = <<>> <=> g.r = g.w)
<1> DEFINE c == CountOf(BUF_LEN, g.r, g.w)
<1>1. BUF_LEN \in Nat /\ BUF_LEN > 1 /\ g.r \in 0 .. BUF_LEN - 1 /\ g.w \in 0 .. BUF_LEN - 1
      /\ g.slot \in [0 .. BUF_LEN - 1 -> Key]
  BY IndexFacts DEF Rings
<1>2. c = IF g.w < g.r THEN g.w + BUF_LEN - g.r ELSE g.w - g.r
  BY <1>1, CountValue
<1>3. c \in Nat /\ (c = 0 <=> g.r = g.w)
  <2> HIDE DEF c
  <2> QED BY <1>1, <1>2, SMT
<1>4. ASSUME NEW i \in 1 .. c PROVE g.slot[(g.r + i - 1) % BUF_LEN] \in Key
  <2>1. g.r + i - 1 \in Int /\ (g.r + i - 1) % BUF_LEN \in 0 .. BUF_LEN - 1
    BY <1>1, <1>3, SMT
  <2>2. QED
    BY <1>1, <2>1
<1>5. Holds(g) = [i \in 1 .. c |-> g.slot[(g.r + i - 1) % BUF_LEN]]
  BY DEF Holds, ContentsOf
<1>6. Holds(g) \in Seq(Key) /\ Len(Holds(g)) = c
  <2> HIDE DEF c
  <2> QED BY <1>3, <1>4, <1>5
<1>7. QED
  BY <1>3, <1>6

\* A put appends its key or finds the ring full.
LEMMA TakingAppends ==
    ASSUME NEW g \in Rings, NEW key \in Key
    PROVE  /\ Taking(g, key) \in Rings
           /\ Taking(g, key).r = g.r /\ Taking(g, key).at = g.at
           /\ g.r # Succ(g.w) =>
                  /\ Taking(g, key).w = Succ(g.w)
                  /\ Taking(g, key).slot = [g.slot EXCEPT ![g.w] = key]
                  /\ Holds(Taking(g, key)) = Append(Holds(g), key)
<1>1. CASE g.r = Succ(g.w)
  BY <1>1 DEF Taking
<1>2. CASE g.r # Succ(g.w)
  <2> DEFINE h == Taking(g, key)
  <2>1. g.r \in Index /\ g.w \in Index /\ g.slot \in [Index -> Key] /\ Succ(g.w) \in Index
    BY IndexFacts DEF Rings
  <2>2. h = [g EXCEPT !.slot = [g.slot EXCEPT ![g.w] = key], !.w = Succ(g.w)]
    BY <1>2 DEF Taking, Rings
  <2>3. [g.slot EXCEPT ![g.w] = key] \in [Index -> Key] /\ [g.slot EXCEPT ![g.w] = key][g.w] = key
    BY <2>1
  <2>4. /\ h \in Rings /\ h.r = g.r /\ h.at = g.at /\ h.w = Succ(g.w)
        /\ h.slot = [g.slot EXCEPT ![g.w] = key]
    BY <2>1, <2>2, <2>3, Zenon DEF Rings
  <2> HIDE DEF h
  <2>5. ContentsOf(BUF_LEN, g.r, g.w, h.slot) = ContentsOf(BUF_LEN, g.r, g.w, g.slot)
    <3>1. ContentsOf(BUF_LEN, g.r, g.w, [g.slot EXCEPT ![g.w] = key])
             = ContentsOf(BUF_LEN, g.r, g.w, g.slot)
      BY <2>1, WriteHides, Zenon
    <3>2. QED
      BY <2>4, <3>1, Zenon
  <2>6. ContentsOf(BUF_LEN, g.r, Succ(g.w), h.slot)
           = Append(ContentsOf(BUF_LEN, g.r, g.w, h.slot), h.slot[g.w])
    <3>1. h.slot \in [Index -> Key]
      BY <2>3, <2>4, Zenon
    <3>2. QED
      BY <1>2, <2>1, <3>1, RingChange, Zenon
  <2>7. Holds(h) = Append(Holds(g), key)
    BY <2>3, <2>4, <2>5, <2>6, Zenon DEF Holds
  <2>8. QED
    BY <2>4, <2>7 DEF h
<1>3. QED
  BY <1>1, <1>2

-------------------------------------------------------------------------------
\* Between reading a slot and moving r the process has the key the ring still
\* holds, whatever the handlers put meanwhile.
CopyInv == reader.pc = "bump" =>
               /\ ring.r # ring.w /\ reader.keys # <<>>
               /\ reader.keys[Len(reader.keys)] = ring.slot[ring.r]

\* A put that was interrupted has found its slot free: it still is, or another put
\* has filled it, and it is the last one then.
AtInv == ring.at # None =>
             /\ ring.r # Succ(ring.at)
             /\ ring.w \in {ring.at, Succ(ring.at)}
             /\ reader.pc = "bump" => ring.r # ring.at

RingInv == ring \in Rings /\ reader \in Process /\ CopyInv /\ AtInv

\* The content is a sequence of keys, and empty when r = w.
LEMMA ContentKeys == ASSUME RingInv
                     PROVE Content \in Seq(Key) /\ (Content = <<>> <=> IsEmpty)
  BY HoldsKeys DEF RingInv, Content, Holds, IsEmpty

\* The ring and its process start empty.
LEMMA RingInit == ASSUME InitRing, InitReader PROVE RingInv /\ ring.at = None /\ Content = <<>>
<1>1. ring \in Rings /\ ring.r = 0 /\ ring.w = 0 /\ ring.at = None
  BY IndexFacts DEF InitRing, Rings
<1>2. reader \in Process /\ reader.pc = "user"
  <2>1. <<>> \in Seq(Key)
    OBVIOUS
  <2>2. QED
    BY <2>1, IndexFacts, Zenon DEF InitReader, Process
<1>3. RingInv
  BY <1>1, <1>2 DEF RingInv, CopyInv, AtInv
<1>4. QED
  BY <1>1, <1>3, ContentKeys DEF IsEmpty

\* What a step of a handler or a process that leaves the ring alone does to it.
LEMMA RingRests ==
    ASSUME RingInv, ring' = ring, reader' \in Process,
           reader' = reader \/ (reader'.pc # "bump" /\ reader'.got = reader.got)
    PROVE  RingInv' /\ UNCHANGED <<Content, reader.got>>
<1>1. CopyInv' /\ AtInv'
  BY DEF RingInv, CopyInv, AtInv
<1>2. QED
  BY <1>1 DEF RingInv, Content

\* A handler's put.
LEMMA PutStep ==
    ASSUME RingInv, NEW key \in Key, Put(key), UNCHANGED reader,
           ring.at # None => ring.w = ring.at
    PROVE  /\ RingInv' /\ ring'.at = ring.at /\ ring'.r = ring.r
           /\ Content' = IF IsFull THEN Content ELSE Append(Content, key)
<1> DEFINE g == Taking(ring, key)
<1>1. ring' = g
  BY DEF Put, Stored, IsFull, Taking
<1>2. ring \in Rings /\ reader \in Process /\ reader' = reader
  BY DEF RingInv
<1>3. /\ g \in Rings /\ g.r = ring.r /\ g.at = ring.at
      /\ ~IsFull =>
             /\ g.w = Succ(ring.w)
             /\ g.slot = [ring.slot EXCEPT ![ring.w] = key]
             /\ Holds(g) = Append(Holds(ring), key)
  BY <1>2, TakingAppends DEF IsFull
<1>4. IsFull => g = ring
  BY DEF IsFull, Taking
<1> HIDE DEF g
<1>5. /\ ring.r \in Index /\ ring.w \in Index /\ ring.slot \in [Index -> Key]
      /\ ring.at # None => ring.at \in Index
  BY <1>2 DEF Rings
<1>6. CopyInv'
  BY <1>1, <1>2, <1>3, <1>4, <1>5 DEF RingInv, CopyInv, IsFull
<1>7. AtInv'
  BY <1>1, <1>2, <1>3, <1>4, <1>5, IndexFacts DEF RingInv, AtInv, IsFull
<1>8. Content' = Holds(g) /\ Content = Holds(ring)
  BY <1>1 DEF Content, Holds
<1>9. QED
  BY <1>1, <1>2, <1>3, <1>4, <1>6, <1>7, <1>8 DEF RingInv

\* Two of them in a row: both are in the ring if it has room for both,
\* and neither if it has room for none.
LEMMA PairStep ==
    ASSUME RingInv, ring.at = None, NEW a \in Key, NEW b \in Key, PutPair(a, b), UNCHANGED reader
    PROVE  /\ RingInv' /\ ring'.at = None
           /\ \/ Content' \in {Content, Append(Content, a)}
              \/ Content' = Append(Append(Content, a), b)
           /\ ~NoRoomFor(2) => Content' = Append(Append(Content, a), b)
           /\ NoRoomFor(1) => Content' = Content
<1> DEFINE g == Taking(ring, a)
           h == Taking(g, b)
<1>1. ring' = h
  BY DEF PutPair, Stored, IsFull, Taking
<1>2. ring \in Rings /\ reader \in Process /\ reader' = reader
  BY DEF RingInv
<1>3. /\ g \in Rings /\ g.r = ring.r /\ g.at = ring.at
      /\ ~IsFull =>
             /\ g.w = Succ(ring.w)
             /\ g.slot = [ring.slot EXCEPT ![ring.w] = a]
             /\ Holds(g) = Append(Holds(ring), a)
  BY <1>2, TakingAppends DEF IsFull
<1>4. IsFull => g = ring
  BY DEF IsFull, Taking
<1>5. /\ h \in Rings /\ h.r = g.r /\ h.at = g.at
      /\ g.r # Succ(g.w) =>
             /\ h.w = Succ(g.w)
             /\ h.slot = [g.slot EXCEPT ![g.w] = b]
             /\ Holds(h) = Append(Holds(g), b)
  <2> HIDE DEF g
  <2> QED BY <1>3, TakingAppends
<1>6. g.r = Succ(g.w) => h = g
  BY DEF Taking
<1> HIDE DEF g, h
<1>7. /\ ring.r \in Index /\ ring.w \in Index /\ ring.slot \in [Index -> Key]
      /\ g.r \in Index /\ g.w \in Index /\ g.slot \in [Index -> Key]
  BY <1>2, <1>3 DEF Rings
<1>8. reader.pc = "bump" => g.r # g.w /\ g.slot[g.r] = ring.slot[ring.r]
  BY <1>2, <1>3, <1>4, <1>7 DEF RingInv, CopyInv, IsFull
<1>9. reader.pc = "bump" => h.r # h.w /\ h.slot[h.r] = ring.slot[ring.r]
  BY <1>5, <1>6, <1>7, <1>8
<1>10. CopyInv'
  BY <1>1, <1>2, <1>9 DEF RingInv, CopyInv
<1>11. AtInv' /\ ring'.at = None
  BY <1>1, <1>3, <1>5 DEF AtInv
<1>12. Content' = Holds(h) /\ Content = Holds(ring)
  BY <1>1 DEF Content, Holds
<1>13. (~NoRoomFor(2) => ~IsFull /\ g.r # Succ(g.w)) /\ (NoRoomFor(1) => IsFull)
  <2>1. BUF_LEN \in Nat /\ BUF_LEN > 1 /\ ring.r \in 0 .. BUF_LEN - 1 /\ ring.w \in 0 .. BUF_LEN - 1
    BY <1>7, IndexFacts
  <2>2. /\ ring.r = Succ(ring.w) => (ring.r - ring.w - 1) % BUF_LEN = 0
        /\ ring.r = Succ(Succ(ring.w)) => (ring.r - ring.w - 1) % BUF_LEN < 2
        /\ (ring.r - ring.w - 1) % BUF_LEN < 1 => ring.r = Succ(ring.w)
    <3>1. Succ(ring.w) = IF ring.w + 1 = BUF_LEN THEN 0 ELSE ring.w + 1
      BY <2>1, NextValue DEF Succ, NextSlot
    <3>2. Succ(Succ(ring.w)) = IF Succ(ring.w) + 1 = BUF_LEN THEN 0 ELSE Succ(ring.w) + 1
      BY <1>7, IndexFacts, NextValue DEF NextSlot
    <3>3. (ring.r - ring.w - 1) % BUF_LEN
             = IF ring.r - ring.w - 1 < 0 THEN ring.r - ring.w - 1 + BUF_LEN
               ELSE ring.r - ring.w - 1
      <4> DEFINE x == ring.r - ring.w - 1
      <4>1. x \in Int /\ -BUF_LEN <= x /\ x < BUF_LEN
        BY <2>1
      <4> HIDE DEF x
      <4>2. x % BUF_LEN = IF x < 0 THEN x + BUF_LEN ELSE x
        BY <2>1, <4>1, ModBelow
      <4>3. QED
        BY <4>2 DEF x
    <3>4. QED
      BY <2>1, <3>1, <3>2, <3>3
  <2>3. QED
    BY <1>3, <2>2 DEF NoRoomFor, IsFull
<1>14. RingInv'
  BY <1>1, <1>2, <1>5, <1>10, <1>11 DEF RingInv
<1>15. /\ IsFull => Content' = Content
       /\ ~IsFull /\ g.r = Succ(g.w) => Content' = Append(Content, a)
       /\ ~IsFull /\ g.r # Succ(g.w) => Content' = Append(Append(Content, a), b)
  <2>1. IsFull => h = ring
    BY <1>4, <1>6 DEF IsFull
  <2>2. QED
    BY <2>1, <1>3, <1>5, <1>6, <1>12, Zenon
<1>16. QED
  BY <1>11, <1>13, <1>14, <1>15, Zenon

\* For the queue they are put one after the other before anyone gets a key.
LEMMA PairQueue ==
    ASSUME RingInv, ring.at = None, NEW a \in Key, NEW b \in Key, PutPair(a, b), UNCHANGED reader
    PROVE  [Queue!Next]_<<Content, reader.got>>
<1>0. \/ Content' \in {Content, Append(Content, a)}
      \/ Content' = Append(Append(Content, a), b)
  BY PairStep
<1>1. Append(Append(Content, a), b) = Content \o <<a, b>>
  <2>1. /\ <<a>> \in Seq(Key) /\ <<b>> \in Seq(Key) /\ Content \in Seq(Key)
        /\ Append(Content, a) \in Seq(Key)
    BY ContentKeys, AppendProperties
  <2>2. <<a, b>> = <<a>> \o <<b>>
    <3> DEFINE s == <<a, b>>  t == <<a>> \o <<b>>
    <3>1. /\ t \in Seq(Key) /\ Len(t) = Len(<<a>>) + Len(<<b>>)
          /\ \A i \in 1 .. Len(<<a>>) + Len(<<b>>) :
                 t[i] = IF i <= Len(<<a>>) THEN <<a>>[i] ELSE <<b>>[i - Len(<<a>>)]
      BY <2>1, ConcatProperties
    <3>2. /\ Len(<<a>>) = 1 /\ Len(<<b>>) = 1 /\ <<a>>[1] = a /\ <<b>>[1] = b
          /\ s \in Seq(Key) /\ Len(s) = 2 /\ s[1] = a /\ s[2] = b
      OBVIOUS
    <3> HIDE DEF s, t
    <3>3. Len(t) = 2 /\ \A i \in 1 .. 2 : t[i] = s[i]
      BY <3>1, <3>2
    <3>4. s = t
      BY <3>1, <3>2, <3>3, SeqEqual
    <3>5. QED
      BY <3>4 DEF s, t
  <2>3. Append(Append(Content, a), b) = (Content \o <<a>>) \o <<b>>
    BY <2>1, AppendIsConcat, Zenon
  <2>4. (Content \o <<a>>) \o <<b>> = Content \o (<<a>> \o <<b>>)
    BY <2>1, ConcatAssociative
  <2>5. QED
    BY <2>2, <2>3, <2>4, Zenon
<1>2. CASE Content' = Content
  BY <1>2
<1>3. CASE Content' = Append(Content, a)
  BY <1>3, Zenon DEF Queue!Next, Queue!Put
<1>4. CASE Content' = Append(Append(Content, a), b)
  BY <1>1, <1>4, Zenon DEF Queue!Next, Queue!PutTwo
<1>5. QED
  BY <1>0, <1>2, <1>3, <1>4

\* A handler finds room for a key and is interrupted before it writes it.
LEMMA PutBegins ==
    ASSUME RingInv, ring.at = None, UNCHANGED reader,
           ring' = IF IsFull THEN ring ELSE [ring EXCEPT !.at = ring.w]
    PROVE  RingInv' /\ Content' = Content /\ (ring'.at # None => ring'.w = ring'.at)
<1>1. ring \in Rings /\ reader \in Process /\ ring.w \in Index
  BY DEF RingInv, Rings
<1>2. /\ ring' \in Rings /\ ring'.r = ring.r /\ ring'.w = ring.w /\ ring'.slot = ring.slot
      /\ IsFull => ring' = ring
      /\ ~IsFull => ring'.at = ring.w
  BY <1>1 DEF Rings
<1>3. CopyInv' /\ AtInv'
  BY <1>1, <1>2 DEF RingInv, CopyInv, AtInv, IsFull
<1>4. QED
  BY <1>1, <1>2, <1>3 DEF RingInv, Content

\* It writes the key, behind the others or over the one that was put meanwhile.
LEMMA PutEnds ==
    ASSUME RingInv, ring.at # None, UNCHANGED reader, NEW key \in Key,
           ring' = [Stored(key, ring.at) EXCEPT !.at = None]
    PROVE  /\ RingInv' /\ ring'.at = None
           /\ \/ Content' = Append(Content, key)
              \/ /\ Content # <<>>
                 /\ Content' = [Content EXCEPT ![Len(Content)] = key]
<1> DEFINE a == ring.at  r == ring.r  f == ring.slot  next == Succ(ring.at)
           e == [ring.slot EXCEPT ![ring.at] = key]
<1>1. /\ ring \in Rings /\ reader \in Process
      /\ a \in Index /\ r \in Index /\ f \in [Index -> Key] /\ next \in Index
      /\ r # next /\ ring.w \in {a, next} /\ next # a
  BY IndexFacts DEF RingInv, Rings, AtInv
<1>2. /\ ring'.r = r /\ ring'.w = next /\ ring'.slot = e /\ ring'.at = None
      /\ e \in [Index -> Key] /\ e[a] = key
      /\ \A i \in Index : i # a => e[i] = f[i]
  BY <1>1 DEF Stored, Rings
<1>3. ring' \in Rings
  <2>1. ring' = [ring EXCEPT !.slot = e, !.w = next, !.at = None]
    BY <1>1 DEF Stored, Rings
  <2>2. QED
    BY <1>1, <1>2, <2>1, Zenon DEF Rings
<1>4. CopyInv' /\ AtInv'
  <2>1. CASE reader.pc = "bump"
    BY <1>1, <1>2, <2>1 DEF RingInv, CopyInv, AtInv
  <2>2. CASE reader.pc # "bump"
    BY <1>1, <1>2, <2>2 DEF RingInv, CopyInv, AtInv
  <2>3. QED
    BY <2>1, <2>2
<1> DEFINE s == ContentsOf(BUF_LEN, r, a, f)
<1>5. Content' = Append(s, key)
  <2>1. ContentsOf(BUF_LEN, r, next, e) = Append(ContentsOf(BUF_LEN, r, a, e), e[a])
    <3> HIDE DEF e, f
    <3> QED BY <1>1, <1>2, RingChange
  <2>2. ContentsOf(BUF_LEN, r, a, e) = s
    <3>1. r \in Index /\ a \in Index /\ f \in [Index -> Key]
      BY <1>1
    <3>2. ContentsOf(BUF_LEN, r, a, [f EXCEPT ![a] = key]) = ContentsOf(BUF_LEN, r, a, f)
      BY <3>1, WriteHides, Zenon
    <3>3. QED
      BY <3>2, Zenon
  <2>3. Content' = ContentsOf(BUF_LEN, r, next, e)
    BY <1>2, Zenon DEF Content
  <2>4. QED
    BY <1>2, <2>1, <2>2, <2>3, Zenon
<1>6. ring.w = a => Content = s
  BY DEF Content
<1>7. ring.w = next => Content = Append(s, f[a]) /\ s \in Seq(Key) /\ f[a] \in Key
  <2>1. ContentsOf(BUF_LEN, r, next, f) = Append(s, f[a]) /\ f[a] \in Key
    BY <1>1, RingChange
  <2>2. s \in Seq(Key)
    <3> DEFINE g == [ring EXCEPT !.w = a]
    <3>1. g \in Rings /\ g.r = r /\ g.w = a /\ g.slot = f
      BY <1>1 DEF Rings
    <3>2. Holds(g) \in Seq(Key)
      BY <3>1, HoldsKeys
    <3>3. QED
      BY <3>1, <3>2, Zenon DEF Holds
  <2>3. QED
    BY <2>1, <2>2 DEF Content
<1>8. ring.w = next => Content # <<>> /\ Content' = [Content EXCEPT ![Len(Content)] = key]
  <2> DEFINE x == f[a]
  <2> HIDE DEF s, x
  <2>1. ASSUME s \in Seq(Key), x \in Key
        PROVE  Append(s, x) # <<>> /\ Append(s, key) = [Append(s, x) EXCEPT ![Len(Append(s, x))] = key]
    <3>1. /\ Append(s, x) \in Seq(Key) /\ Len(Append(s, x)) = Len(s) + 1 /\ Append(s, x) # <<>>
          /\ Append(s, key) \in Seq(Key) /\ Len(Append(s, key)) = Len(s) + 1
          /\ Append(s, key)[Len(s) + 1] = key
          /\ \A i \in 1 .. Len(s) : Append(s, x)[i] = s[i] /\ Append(s, key)[i] = s[i]
      BY <2>1, AppendProperties
    <3> DEFINE q == Append(s, x)
               t == [q EXCEPT ![Len(q)] = key]
    <3>2. t \in Seq(Key) /\ Len(t) = Len(s) + 1 /\ \A i \in 1 .. Len(s) + 1 : t[i] = Append(s, key)[i]
      <4> DEFINE n == Len(s) + 1
      <4>0. n \in Nat /\ n > 0
        BY <2>1, LenProperties
      <4>1. q \in [1 .. n -> Key] /\ Len(q) = n
        BY <2>1, <3>1, LenProperties
      <4>2. t \in [1 .. n -> Key] /\ t[n] = key /\ \A i \in 1 .. n : i # n => t[i] = q[i]
        <5> HIDE DEF n, q
        <5> QED BY <4>0, <4>1
      <4>3. t \in Seq(Key) /\ Len(t) = n
        <5> HIDE DEF n, t
        <5> QED BY <4>0, <4>1, <4>2
      <4>4. QED
        BY <2>1, <3>1, <4>2, <4>3
    <3>3. Append(s, key) = t
      <4> HIDE DEF t
      <4> QED BY <3>1, <3>2, SeqEqual
    <3>4. QED
      BY <3>1, <3>3, Zenon
  <2>2. QED
    BY <1>5, <1>7, <2>1, Zenon DEF x
<1>9. QED
  BY <1>1, <1>2, <1>3, <1>4, <1>5, <1>6, <1>8, Zenon DEF RingInv

-------------------------------------------------------------------------------
\* A process that reads the slot at r has the oldest key of the ring.
LEMMA FetchCopies ==
    ASSUME RingInv, ring.r # ring.w
    PROVE  /\ ring.slot[ring.r] \in Key /\ Content # <<>>
           /\ Head(Content) = ring.slot[ring.r]
           /\ Tail(Content) = ContentsOf(BUF_LEN, Succ(ring.r), ring.w, ring.slot)
<1>1. ring.slot \in [Index -> Key] /\ ring.r \in Index /\ ring.w \in Index
  BY DEF RingInv, Rings
<1>2. QED
  BY <1>1, RingChange DEF Content

\* When it moves r, that key leaves the ring.
LEMMA BumpGets ==
    ASSUME RingInv, NEW n \in Nat, Bump(n)
    PROVE  /\ RingInv' /\ ring'.at = None
           /\ Content # <<>> /\ Content' = Tail(Content)
           /\ reader.keys \in Seq(Key) /\ reader.keys # <<>>
           /\ reader.keys[Len(reader.keys)] = Head(Content)
           /\ reader'.got = Head(Content)
           /\ reader' = [reader EXCEPT !.pc = After(reader.keys, n), !.got = Head(Content)]
<1> DEFINE key == reader.keys[Len(reader.keys)]
<1>1. /\ ring' = [ring EXCEPT !.r = Succ(ring.r)] /\ ring.at = None
      /\ reader' = [reader EXCEPT !.pc = After(reader.keys, n), !.got = key]
      /\ reader.pc = "bump"
  BY DEF Bump, At
<1>2. ring \in Rings /\ reader \in Process /\ ring.r # ring.w /\ key = ring.slot[ring.r]
  BY <1>1 DEF RingInv, CopyInv
<1>3. /\ key \in Key /\ Content # <<>> /\ Head(Content) = key
      /\ Tail(Content) = ContentsOf(BUF_LEN, Succ(ring.r), ring.w, ring.slot)
  BY <1>2, FetchCopies
<1>4. Succ(ring.r) \in Index /\ After(reader.keys, n) \in {"fetch", "user"}
  BY <1>2, IndexFacts DEF After, Rings
<1>5. reader' \in Process /\ reader'.pc # "bump" /\ reader'.got = key
  BY <1>1, <1>2, <1>3, <1>4, Zenon DEF Process
<1>6. /\ ring' \in Rings /\ ring'.r = Succ(ring.r) /\ ring'.w = ring.w
      /\ ring'.slot = ring.slot /\ ring'.at = None
  BY <1>1, <1>2, <1>4 DEF Rings
<1>7. CopyInv' /\ AtInv'
  BY <1>5, <1>6 DEF CopyInv, AtInv
<1>8. Content' = Tail(Content)
  BY <1>3, <1>6 DEF Content
<1>9. reader.keys \in Seq(Key) /\ reader.keys # <<>>
  BY <1>1, <1>2 DEF Process, RingInv, CopyInv
<1>10. QED
  BY <1>1, <1>3, <1>5, <1>6, <1>7, <1>8, <1>9 DEF RingInv

\* The rest of a read is not seen by the queue.
LEMMA ReadRests ==
    ASSUME RingInv, NEW n \in Nat,
           Poll \/ Call \/ CallNonblock \/ Wake \/ Signal \/ Fetch \/ FetchNothing(n)
    PROVE  RingInv' /\ ring' = ring /\ UNCHANGED <<Content, reader.got>>
<1>0. /\ ring \in Rings /\ reader \in Process /\ 0 \in Key
      /\ ring.r \in Index /\ ring.w \in Index /\ ring.slot \in [Index -> Key]
  BY IndexFacts DEF RingInv, Rings
<1>1. CASE Poll \/ Call \/ CallNonblock \/ Wake \/ Signal \/ FetchNothing(n)
  <2>1. ring' = ring /\ reader' \in Process /\ reader'.pc # "bump" /\ reader'.got = reader.got
    <3>1. CASE Poll \/ Wake
      <4>1. PICK pc \in {"polled", "fetch"} : ring' = ring /\ reader' = [reader EXCEPT !.pc = pc]
        BY <3>1 DEF Poll, Wake
      <4>2. reader' \in Process /\ reader'.pc = pc /\ reader'.got = reader.got
        BY <1>0, <4>1, Zenon DEF Process
      <4>3. QED
        BY <4>1, <4>2
    <3>2. CASE Call \/ CallNonblock
      <4>1. PICK pc \in {"user", "wait"} :
                ring' = ring /\ reader' = [reader EXCEPT !.pc = pc, !.keys = <<>>]
        BY <3>2 DEF Call, CallNonblock
      <4>2. <<>> \in Seq(Key)
        OBVIOUS
      <4>3. reader' \in Process /\ reader'.pc = pc /\ reader'.got = reader.got
        BY <1>0, <4>1, <4>2, Zenon DEF Process
      <4>4. QED
        BY <4>1, <4>3
    <3>3. CASE Signal
      <4>1. ring' = ring /\ reader' = [reader EXCEPT !.pc = "fetch", !.cut = TRUE]
        BY <3>3 DEF Signal
      <4>2. reader' \in Process /\ reader'.pc = "fetch" /\ reader'.got = reader.got
        BY <1>0, <4>1, Zenon DEF Process
      <4>3. QED
        BY <4>1, <4>2
    <3>4. CASE FetchNothing(n)
      <4> DEFINE keys == Append(reader.keys, 0)
      <4>1. ring' = ring /\ reader' = [reader EXCEPT !.keys = keys, !.pc = After(keys, n)]
        BY <3>4 DEF FetchNothing
      <4>2. reader.keys \in Seq(Key)
        BY <1>0 DEF Process
      <4>3. keys \in Seq(Key) /\ After(keys, n) \in {"fetch", "user"}
        BY <1>0, <4>2, AppendProperties DEF After
      <4>4. reader' \in Process /\ reader'.pc # "bump" /\ reader'.got = reader.got
        BY <1>0, <4>1, <4>3, Zenon DEF Process
      <4>5. QED
        BY <4>1, <4>4
    <3>5. QED
      BY <1>1, <3>1, <3>2, <3>3, <3>4
  <2>2. QED
    BY <2>1, RingRests
<1>2. CASE Fetch
  <2> DEFINE key == ring.slot[ring.r]  keys == Append(reader.keys, key)
  <2>1. /\ ring' = ring /\ reader' = [reader EXCEPT !.keys = keys, !.pc = "bump"]
        /\ ring.r # ring.w /\ ring.at = None
    BY <1>2 DEF Fetch, IsEmpty, At
  <2>2. reader.keys \in Seq(Key) /\ key \in Key
    BY <1>0 DEF Process
  <2>3. keys \in Seq(Key) /\ keys # <<>> /\ keys[Len(keys)] = key
    BY <2>2, AppendProperties
  <2>4. reader' \in Process /\ reader'.keys = keys /\ reader'.got = reader.got
    BY <1>0, <2>1, <2>3, Zenon DEF Process
  <2>5. CopyInv' /\ AtInv'
    BY <2>1, <2>3, <2>4 DEF CopyInv, AtInv
  <2>6. QED
    BY <1>0, <2>1, <2>4, <2>5 DEF RingInv, Content
<1>3. QED
  BY <1>1, <1>2

\* A read is a step of the queue when it moves r, and not seen otherwise.
LEMMA ReadStep ==
    ASSUME RingInv, NEW n \in Nat, Read(n)
    PROVE  /\ RingInv' /\ ring'.at = ring.at /\ UNCHANGED <<timer, dev>>
           /\ [Queue!Next]_<<Content, reader.got>>
<1>1. UNCHANGED <<timer, dev>>
  BY DEF Read, Poll, Call, CallNonblock, Wake, Signal, GetKeys, Fetch, FetchNothing, Bump
<1>2. CASE Bump(n)
  <2>1. ring.at = None
    BY <1>2 DEF Bump, At
  <2>2. QED
    BY <1>1, <1>2, <2>1, BumpGets DEF Queue!Next, Queue!Get
<1>3. CASE Poll \/ Call \/ CallNonblock \/ Wake \/ Signal \/ Fetch \/ FetchNothing(n)
  BY <1>1, <1>3, ReadRests
<1>4. QED
  BY <1>2, <1>3 DEF Read, GetKeys

-------------------------------------------------------------------------------
\* The button and the motion sensor.

\* What their module has in common with this one.
LEMMA ButtonShares ==
    /\ GpioKeys!InitRing = InitRing /\ GpioKeys!InitReader = InitReader
    /\ GpioKeys!IsFull = IsFull /\ GpioKeys!Off = Off /\ GpioKeys!vars = vars
    /\ \A key : GpioKeys!Put(key) = Put(key)
    /\ GpioKeys!Read(1) = Read(1)
  BY DEF InitRing, InitReader, IsFull, Off, vars, Put, Stored, Succ, Index, None, Read, Poll,
         Call, CallNonblock, Wake, Signal, GetKeys, Fetch, FetchNothing, Bump, At, IsEmpty, After,
         GpioKeys!InitRing, GpioKeys!InitReader, GpioKeys!IsFull, GpioKeys!Off, GpioKeys!vars,
         GpioKeys!Put, GpioKeys!Stored, GpioKeys!Succ, GpioKeys!Index, GpioKeys!None,
         GpioKeys!Read, GpioKeys!Poll, GpioKeys!Call, GpioKeys!CallNonblock, GpioKeys!Wake,
         GpioKeys!Signal, GpioKeys!GetKeys, GpioKeys!Fetch, GpioKeys!FetchNothing,
         GpioKeys!Bump, GpioKeys!At, GpioKeys!IsEmpty, GpioKeys!After

Button == [kind : {"gpio"}, pin : {0, 1}, raised : BOOLEAN, quiet : 0 .. Delay,
           said : {0, 1}, stale : BOOLEAN]

\* What was reported last is the level, or there is more to come: an interrupt
\* or the timer.
SaidInv == timer = Off /\ ~dev.raised /\ ~dev.stale => dev.said = dev.pin

\* When the timer expires there was no edge for the time it ran.
QuietInv == timer # Off /\ ~dev.raised => dev.quiet + timer >= Delay

ButtonInv == dev \in Button /\ timer \in -1 .. Delay /\ SaidInv /\ QuietInv

\* The debounce time is a number.
LEMMA DelayType == Delay \in Nat
  BY BoundAssumption

\* A button starts with its level unknown and nothing reported.
LEMMA ButtonInit == ASSUME GpioKeys!InitTemplate \/ GpioKeys!InitMotion
                    PROVE  ButtonInv /\ RingInv /\ ring.at = None /\ Content = <<>>
<1>1. dev = [kind |-> "gpio", pin |-> 0, raised |-> FALSE, quiet |-> Delay, said |-> 0, stale |-> FALSE]
      /\ timer \in {0, Off} /\ InitRing /\ InitReader
  BY ButtonShares DEF GpioKeys!InitTemplate, GpioKeys!InitMotion, GpioKeys!InitButton
<1>2. ButtonInv
  BY <1>1, DelayType DEF ButtonInv, Button, SaidInv, QuietInv, Off
<1>3. QED
  BY <1>1, <1>2, RingInit

\* An edge is followed by the handler, which starts the timer; the timer's
\* handler reports the level there is, and so does the motion sensor's.
LEMMA ButtonStep ==
    ASSUME ButtonInv, GpioKeys!TemplateNext \/ (timer = Off /\ GpioKeys!Sr501Next)
    PROVE  ButtonInv'
<1>0. dev \in Button /\ timer \in -1 .. Delay /\ SaidInv /\ QuietInv /\ Delay \in Nat
  BY DelayType DEF ButtonInv
<1>1. CASE Read(1)
  <2>1. UNCHANGED <<timer, dev>>
    BY <1>1 DEF Read, Poll, Call, CallNonblock, Wake, Signal, GetKeys, Fetch, FetchNothing, Bump
  <2>2. QED
    BY <2>1 DEF ButtonInv, SaidInv, QuietInv
<1>2. CASE GpioKeys!Edge
  <2>1. dev' = [dev EXCEPT !.pin = 1 - dev.pin, !.raised = TRUE, !.quiet = 0] /\ timer' = timer
    BY <1>2 DEF GpioKeys!Edge
  <2>2. 1 - dev.pin \in {0, 1} /\ 0 \in 0 .. Delay
    BY <1>0 DEF Button
  <2>3. dev' \in Button /\ dev'.raised
    BY <1>0, <2>1, <2>2, Zenon DEF Button
  <2>4. QED
    BY <1>0, <2>1, <2>3 DEF ButtonInv, SaidInv, QuietInv
<1>3. CASE GpioKeys!Isr
  <2>1. dev' = [dev EXCEPT !.raised = FALSE] /\ timer' = Delay
    BY <1>3 DEF GpioKeys!Isr
  <2>2. dev' \in Button
    BY <1>0, <2>1, Zenon DEF Button
  <2>3. dev'.quiet \in 0 .. Delay
    BY <2>2 DEF Button
  <2>4. SaidInv' /\ QuietInv'
    BY <1>0, <2>1, <2>3 DEF SaidInv, QuietInv, Off
  <2>5. QED
    BY <1>0, <2>1, <2>2, <2>4 DEF ButtonInv
<1>4. CASE GpioKeys!Tick
  BY <1>0, <1>4 DEF GpioKeys!Tick, ButtonInv, Button, SaidInv, QuietInv, Off
<1>5. CASE GpioKeys!Expire \/ (timer = Off /\ GpioKeys!MotionIsr)
  <2>1. PICK raised \in {dev.raised, FALSE} :
            /\ dev' = [dev EXCEPT !.said = dev.pin, !.raised = raised, !.stale = dev.stale \/ IsFull]
            /\ timer' = Off
    BY <1>5, ButtonShares DEF GpioKeys!Expire, GpioKeys!MotionIsr, GpioKeys!ReportPin
  <2>2. dev.pin \in {0, 1} /\ raised \in BOOLEAN /\ (dev.stale \/ IsFull) \in BOOLEAN
    BY <1>0, Zenon DEF Button
  <2>3. dev' \in Button /\ dev'.said = dev'.pin
    BY <1>0, <2>1, <2>2, Zenon DEF Button
  <2>4. QED
    BY <1>0, <2>1, <2>3 DEF ButtonInv, SaidInv, QuietInv, Off
<1>6. QED
  BY <1>1, <1>2, <1>3, <1>4, <1>5, ButtonShares DEF GpioKeys!TemplateNext, GpioKeys!Sr501Next

\* Their handlers put one key at most.
LEMMA ButtonQueue ==
    ASSUME ButtonInv, RingInv, ring.at = None, GpioKeys!TemplateNext \/ GpioKeys!Sr501Next
    PROVE  RingInv' /\ ring'.at = None /\ [Queue!Next]_<<Content, reader.got>>
<1>1. CASE Read(1)
  BY <1>1, ReadStep
<1>2. CASE UNCHANGED <<ring, reader>>
  BY <1>2, RingRests DEF RingInv
<1>3. CASE Put(GpioKeys!Report(dev.pin)) /\ UNCHANGED reader
  <2>1. GpioKeys!Report(dev.pin) \in Key
    BY KeyAssumption DEF ButtonInv, Button, Reported
  <2>2. QED
    BY <1>3, <2>1, PutStep DEF Queue!Next, Queue!Put
<1>4. QED
  BY <1>1, <1>2, <1>3, ButtonShares
     DEF GpioKeys!TemplateNext, GpioKeys!Sr501Next, GpioKeys!Edge, GpioKeys!Isr, GpioKeys!Tick,
         GpioKeys!Expire, GpioKeys!MotionIsr, GpioKeys!ReportPin

-------------------------------------------------------------------------------
\* The ultrasonic range sensor.

\* The ultrasonic driver uses the ring, the timer and the process of KeyDriver.
LEMMA Sr04Shares ==
    /\ Sr04!InitRing = InitRing /\ Sr04!InitReader = InitReader
    /\ Sr04!IsFull = IsFull /\ Sr04!Off = Off /\ Sr04!None = None /\ Sr04!Content = Content
    /\ \A key : Sr04!Put(key) = Put(key)
    /\ \A key, i : Sr04!Stored(key, i) = Stored(key, i)
    /\ \A pc : Sr04!At(pc) = At(pc)
    /\ Sr04!Read(1) = Read(1)
  BY DEF InitRing, InitReader, IsFull, Off, None, Content, Put, Stored, Succ, Index, Read, Poll,
         Call, CallNonblock, Wake, Signal, GetKeys, Fetch, FetchNothing, Bump, At, IsEmpty, After,
         Sr04!InitRing, Sr04!InitReader, Sr04!IsFull, Sr04!Off, Sr04!None, Sr04!Content,
         Sr04!ContentsOf, ContentsOf, Sr04!CountOf, CountOf,
         Sr04!Put, Sr04!Stored, Sr04!Succ, Sr04!Index, Sr04!Read, Sr04!Poll, Sr04!Call,
         Sr04!CallNonblock, Sr04!Wake, Sr04!Signal, Sr04!GetKeys, Sr04!Fetch,
         Sr04!FetchNothing, Sr04!Bump, Sr04!At, Sr04!IsEmpty, Sr04!After

\* What Append, Head, Tail and a replaced end do to a sequence.
LEMMA SeqKeeps ==
    ASSUME NEW T, NEW s \in Seq(T), NEW k \in T
    PROVE  /\ Append(s, k) \in Seq(T)
           /\ s # <<>> => /\ Head(s) \in T /\ Tail(s) \in Seq(T)
                          /\ [s EXCEPT ![Len(s)] = k] \in Seq(T)
<1>1. Append(s, k) \in Seq(T)
  BY AppendProperties
<1>2. s # <<>> => Head(s) \in T /\ Tail(s) \in Seq(T)
  BY HeadTailProperties
<1>3. ASSUME s # <<>> PROVE [s EXCEPT ![Len(s)] = k] \in Seq(T)
  <2> DEFINE n == Len(s)  t == [s EXCEPT ![n] = k]
  <2>1. n \in Nat /\ s \in [1 .. n -> T]
    BY LenProperties
  <2>2. t \in [1 .. n -> T]
    <3> HIDE DEF n
    <3> QED BY <2>1
  <2>3. t \in Seq(T)
    <3> HIDE DEF n, t
    <3> QED BY <2>1, <2>2
  <2>4. QED
    BY <2>3
<1>4. QED
  BY <1>1, <1>2, <1>3

Sensor == [kind : {"sr04"}, ping : 0 .. MaxPing, phase : {"idle", "sent", "high"},
           rising : Nat, lost : Nat]

\* A rising time is that of a ping; with one edge lost at most, it is gone before
\* the next echo's edge or replaced by its time.
PingInv == /\ dev.phase # "idle" => dev.ping > 0
           /\ dev.rising # 0 => \E n \in 1 .. dev.ping : dev.rising = Sr04!PING * n

RiseInv == /\ dev.lost < 2 /\ dev.phase = "high" /\ dev.rising # 0
                  => dev.rising = Sr04!PING * dev.ping
           /\ dev.lost = 0 /\ dev.phase # "high" => dev.rising = 0

\* The echo cannot put two keys into one interrupted put.
SentInv == ring.at # None /\ dev.phase # "idle" => ring.w = ring.at

SensorInv == dev \in Sensor /\ PingInv /\ RiseInv /\ SentInv

Echoes == {Sr04!ECHO, Sr04!Timeout, 0}
EchoInv == dev.lost < 2 => Content \in Seq(Echoes) /\ reader.got \in Echoes

\* The sensor starts with no measurement under way.
LEMMA SensorInit == ASSUME Sr04!InitSr04
                    PROVE  SensorInv /\ EchoInv /\ RingInv /\ ring.at = None /\ Content = <<>>
<1>1. /\ dev = [kind |-> "sr04", ping |-> 0, phase |-> "idle", rising |-> 0, lost |-> 0]
      /\ InitRing /\ InitReader
  BY Sr04Shares DEF Sr04!InitSr04, Sr04!InitSensor
<1>2. RingInv /\ ring.at = None /\ Content = <<>>
  BY <1>1, RingInit
<1>3. SensorInv
  BY <1>1, <1>2, BoundAssumption DEF SensorInv, Sensor, PingInv, RiseInv, SentInv
<1>4. EchoInv
  BY <1>1, <1>2 DEF EchoInv, Echoes, InitReader
<1>5. QED
  BY <1>2, <1>3, <1>4

\* What the falling edge puts is the time of an echo, of this one as long as one
\* edge at most was lost.
LEMMA MeasuredTime ==
    ASSUME SensorInv, dev.phase = "high", dev.rising # 0,
           NEW key, key = Sr04!PING * dev.ping + Sr04!ECHO - dev.rising
    PROVE  key \in Key /\ (dev.lost < 2 => key \in Echoes)
<1>1. PICK n \in 1 .. dev.ping : dev.rising = Sr04!PING * n
  BY DEF SensorInv, PingInv
<1>2. dev.ping \in 0 .. MaxPing /\ MaxPing \in Nat
  BY BoundAssumption DEF SensorInv, Sensor
<1>3. dev.ping - n \in 0 .. MaxPing - 1 /\ key = Sr04!PING * (dev.ping - n) + Sr04!ECHO
  BY <1>1, <1>2 DEF Sr04!PING, Sr04!ECHO
<1>4. key \in Key
  BY <1>3, KeyAssumption DEF Reported
<1>5. dev.lost < 2 => key = Sr04!ECHO
  BY <1>1, <1>2 DEF SensorInv, RiseInv, Sr04!PING, Sr04!ECHO
<1>6. QED
  BY <1>4, <1>5 DEF Echoes

\* Every step of the sensor keeps its invariant.
LEMMA SensorStep ==
    ASSUME SensorInv, RingInv,
           Sr04!Sr04Next \/ (ring.at = None /\ (Sr04!Sr04UntimedNext \/ Sr04!BenchNext))
    PROVE  SensorInv' /\ dev'.lost >= dev.lost
<1>0. /\ dev \in Sensor /\ PingInv /\ RiseInv /\ SentInv /\ MaxPing \in Nat
      /\ dev.ping \in 0 .. MaxPing /\ dev.phase \in {"idle", "sent", "high"}
      /\ dev.rising \in Nat /\ dev.lost \in Nat
  BY BoundAssumption DEF SensorInv, Sensor
<1>1. CASE Read(1)
  <2>1. UNCHANGED dev /\ ring'.at = ring.at
    BY <1>1, ReadStep
  <2>2. ring.at # None => ring' = ring
    BY <1>1 DEF Read, Poll, Call, CallNonblock, Wake, Signal, GetKeys, Fetch, FetchNothing, Bump, At
  <2>3. QED
    BY <1>0, <2>1, <2>2 DEF SensorInv, PingInv, RiseInv, SentInv, Sensor
<1>2. CASE Sr04!Pulse \/ Sr04!PulseOnly
  <2>1. ring' = ring /\ ring.at = None /\ dev' = Sr04!Ping
    BY <1>2, Sr04Shares DEF Sr04!Pulse, Sr04!PulseOnly, At
  <2>2. CASE dev.phase = "idle" /\ dev.ping < MaxPing
    <3>1. dev' = [dev EXCEPT !.ping = dev.ping + 1, !.phase = "sent",
                             !.rising = dev.rising, !.lost = dev.lost]
      BY <1>0, <2>1, <2>2, Zenon DEF Sr04!Ping, Sensor
    <3>2. dev.ping + 1 \in 0 .. MaxPing
      BY <1>0, <2>2
    <3>3. /\ dev' \in Sensor /\ dev'.ping = dev.ping + 1 /\ dev'.phase = "sent"
          /\ dev'.rising = dev.rising /\ dev'.lost = dev.lost
      BY <1>0, <3>1, <3>2, Zenon DEF Sensor
    <3>4. PingInv'
      <4>1. \A n \in 1 .. dev.ping : n \in 1 .. dev'.ping
        BY <1>0, <3>3
      <4>2. QED
        BY <1>0, <3>3, <4>1 DEF PingInv
    <3>5. RiseInv' /\ SentInv'
      BY <1>0, <2>1, <2>2, <3>3 DEF RiseInv, SentInv
    <3>6. QED
      BY <1>0, <3>3, <3>4, <3>5 DEF SensorInv
  <2>3. CASE ~(dev.phase = "idle" /\ dev.ping < MaxPing)
    BY <1>0, <2>1, <2>3 DEF Sr04!Ping, SensorInv, PingInv, RiseInv, SentInv, Sensor
  <2>4. QED
    BY <2>2, <2>3
<1>3. CASE Sr04!Arm
  BY <1>0, <1>3 DEF Sr04!Arm, SensorInv, PingInv, RiseInv, SentInv, Sensor
<1>4. CASE Sr04!EchoRises
  <2>1. /\ ring' = ring /\ dev.phase = "sent" /\ Sr04!PING * dev.ping \in Nat /\ dev.lost + 1 \in Nat
        /\ \/ dev' = [dev EXCEPT !.phase = "high", !.rising = Sr04!PING * dev.ping]
           \/ dev' = [dev EXCEPT !.phase = "high", !.lost = dev.lost + 1]
    BY <1>0, <1>4 DEF Sr04!EchoRises, Sr04!Lose, Sr04!PING
  <2>2. \/ dev' = [dev EXCEPT !.ping = dev.ping, !.phase = "high",
                              !.rising = Sr04!PING * dev.ping, !.lost = dev.lost]
        \/ dev' = [dev EXCEPT !.ping = dev.ping, !.phase = "high",
                              !.rising = dev.rising, !.lost = dev.lost + 1]
    BY <1>0, <2>1, Zenon DEF Sensor
  <2>3. /\ dev' \in Sensor /\ dev'.ping = dev.ping /\ dev'.phase = "high"
        /\ \/ dev'.rising = Sr04!PING * dev.ping /\ dev'.lost = dev.lost
           \/ dev'.rising = dev.rising /\ dev'.lost = dev.lost + 1
    BY <1>0, <2>1, <2>2, Zenon DEF Sensor
  <2>4. PingInv'
    <3>1. dev.ping \in 1 .. dev.ping
      BY <1>0, <2>1 DEF PingInv
    <3>2. QED
      BY <1>0, <2>1, <2>3, <3>1 DEF PingInv
  <2>5. RiseInv' /\ SentInv'
    BY <1>0, <2>1, <2>3 DEF RiseInv, SentInv
  <2>6. QED
    BY <1>0, <2>3, <2>4, <2>5 DEF SensorInv
<1>5. CASE Sr04!NoEcho
  BY <1>0, <1>5 DEF Sr04!NoEcho, SensorInv, PingInv, RiseInv, SentInv, Sensor
<1>6. CASE Sr04!EchoFalls
  <2>1. /\ dev.phase = "high" /\ 0 \in Nat /\ dev.lost + 1 \in Nat
        /\ \/ dev.rising = 0 /\ dev' = [dev EXCEPT !.phase = "idle"]
           \/ dev' = [dev EXCEPT !.phase = "idle", !.rising = 0]
           \/ dev' = [dev EXCEPT !.phase = "idle", !.lost = dev.lost + 1]
    BY <1>0, <1>6 DEF Sr04!EchoFalls, Sr04!MissedRise, Sr04!Measure, Sr04!Lose
  <2>2. \/ dev' = [dev EXCEPT !.ping = dev.ping, !.phase = "idle", !.rising = 0, !.lost = dev.lost]
        \/ dev' = [dev EXCEPT !.ping = dev.ping, !.phase = "idle",
                              !.rising = dev.rising, !.lost = dev.lost + 1]
    BY <1>0, <2>1, Zenon DEF Sensor
  <2>3. /\ dev' \in Sensor /\ dev'.ping = dev.ping /\ dev'.phase = "idle"
        /\ \/ dev'.rising = 0 /\ dev'.lost = dev.lost
           \/ dev'.rising = dev.rising /\ dev'.lost = dev.lost + 1
    BY <1>0, <2>1, <2>2, Zenon DEF Sensor
  <2>4. PingInv' /\ RiseInv' /\ SentInv'
    BY <1>0, <2>1, <2>3 DEF PingInv, RiseInv, SentInv
  <2>5. QED
    BY <1>0, <2>3, <2>4 DEF SensorInv
<1>7. CASE Sr04!Expire
  <2>1. dev' = dev /\ reader' = reader /\ ring.at = None
        /\ ring' = IF IsFull THEN ring ELSE [ring EXCEPT !.at = ring.w]
    BY <1>7, Sr04Shares DEF Sr04!Expire
  <2>2. ring'.at # None => ring'.w = ring'.at
    BY <2>1, PutBegins
  <2>3. QED
    BY <1>0, <2>1, <2>2 DEF SensorInv, PingInv, RiseInv, SentInv, Sensor
<1>8. CASE Sr04!PutTimeout
  <2>1. dev' = dev /\ ring'.at = None
    BY <1>8, Sr04Shares DEF Sr04!PutTimeout, Stored, RingInv, Rings
  <2>2. QED
    BY <1>0, <2>1 DEF SensorInv, PingInv, RiseInv, SentInv, Sensor
<1>9. QED
  BY <1>1, <1>2, <1>3, <1>4, <1>5, <1>6, <1>7, <1>8, Sr04Shares
     DEF Sr04!Sr04Next, Sr04!Sr04UntimedNext, Sr04!BenchNext, Sr04!SensorSteps

\* The timer's put may be cut in two by the echo's: the echo's key is lost then.
LEMMA SensorQueue ==
    ASSUME SensorInv, RingInv,
           Sr04!Sr04Next \/ (ring.at = None /\ (Sr04!Sr04UntimedNext \/ Sr04!BenchNext))
    PROVE  /\ RingInv' /\ [Queue!Next]_<<Content, reader.got>>
           /\ ring.at = None /\ ~Sr04!Sr04Next => ring'.at = None
           /\ EchoInv => EchoInv'
<1>0. SensorInv' /\ dev'.lost >= dev.lost /\ dev.lost \in Nat /\ dev'.lost \in Nat
  BY SensorStep DEF SensorInv, Sensor
<1>1. CASE Read(1)
  <2>1. RingInv' /\ ring'.at = ring.at /\ UNCHANGED dev /\ [Queue!Next]_<<Content, reader.got>>
    BY <1>1, ReadStep
  <2>2. ASSUME EchoInv, dev.lost < 2 PROVE Content' \in Seq(Echoes) /\ reader'.got \in Echoes
    <3>1. Content \in Seq(Echoes) /\ reader.got \in Echoes
      BY <2>2 DEF EchoInv
    <3>2. CASE Bump(1)
      <4>1. Content # <<>> /\ Content' = Tail(Content) /\ reader'.got = Head(Content)
        BY <3>2, BumpGets
      <4>2. QED
        BY <3>1, <4>1, HeadTailProperties
    <3>3. CASE ~Bump(1)
      BY <1>1, <3>1, <3>3, ReadRests DEF Read, GetKeys
    <3>4. QED
      BY <3>2, <3>3
  <2>3. QED
    BY <2>1, <2>2 DEF EchoInv
<1>2. CASE /\ ring' = ring
           /\ \/ reader' = reader
              \/ reader' \in Process /\ reader'.pc # "bump" /\ reader'.got = reader.got
  <2>1. RingInv' /\ UNCHANGED <<Content, reader.got>>
    BY <1>2, RingRests DEF RingInv
  <2>2. QED
    BY <1>0, <1>2, <2>1 DEF EchoInv
<1>3. CASE Sr04!Measure /\ dev.phase = "high"
  <2> DEFINE key == Sr04!PING * dev.ping + Sr04!ECHO - dev.rising
  <2>1. /\ Put(key) /\ reader' = reader /\ dev.rising # 0
        /\ ring.at # None => ring.w = ring.at
    BY <1>3, Sr04Shares DEF Sr04!Measure, SensorInv, SentInv
  <2>2. key \in Key /\ (dev.lost < 2 => key \in Echoes)
    BY <1>3, <2>1, MeasuredTime
  <2> HIDE DEF key
  <2>3. /\ RingInv' /\ ring'.at = ring.at
        /\ Content' = Content \/ Content' = Append(Content, key)
    BY <2>1, <2>2, PutStep
  <2>4. EchoInv => EchoInv'
    BY <1>0, <2>1, <2>2, <2>3, AppendProperties DEF EchoInv
  <2>5. QED
    BY <2>1, <2>2, <2>3, <2>4 DEF Queue!Next, Queue!Put
<1>4. CASE Sr04!Expire
  <2>1. reader' = reader /\ RingInv' /\ Content' = Content
    BY <1>4, Sr04Shares, PutBegins DEF Sr04!Expire
  <2>2. QED
    BY <1>0, <1>4, <2>1 DEF EchoInv, Sr04!Sr04Next
<1>5. CASE Sr04!PutTimeout
  <2> DEFINE key == Sr04!Timeout
  <2>1. /\ ring.at # None /\ reader' = reader /\ key \in Key /\ key \in Echoes
        /\ ring' = [Stored(key, ring.at) EXCEPT !.at = None]
    BY <1>5, Sr04Shares, KeyAssumption DEF Sr04!PutTimeout, Reported, Echoes
  <2> HIDE DEF key
  <2>2. /\ RingInv' /\ ring'.at = None
        /\ \/ Content' = Append(Content, key)
           \/ Content # <<>> /\ Content' = [Content EXCEPT ![Len(Content)] = key]
    BY <2>1, PutEnds
  <2>3. EchoInv => EchoInv'
    BY <1>0, <2>1, <2>2, SeqKeeps DEF EchoInv
  <2>4. QED
    BY <2>1, <2>2, <2>3 DEF Queue!Next, Queue!Put, Queue!PutOver
<1>6. CASE Sr04!Pulse \/ Sr04!Arm
  <2>1. PICK pc \in {"arm", "user"} : ring' = ring /\ reader' = [reader EXCEPT !.pc = pc]
    BY <1>6 DEF Sr04!Pulse, Sr04!Arm
  <2>2. reader' \in Process /\ reader'.pc = pc /\ reader'.got = reader.got
    BY <2>1, Zenon DEF RingInv, Process
  <2>3. QED
    BY <1>2, <2>1, <2>2
<1>7. QED
  BY <1>1, <1>2, <1>3, <1>4, <1>5, <1>6, Sr04Shares
     DEF Sr04!Sr04Next, Sr04!Sr04UntimedNext, Sr04!BenchNext, Sr04!SensorSteps, Sr04!PulseOnly,
         Sr04!EchoRises, Sr04!NoEcho, Sr04!EchoFalls, Sr04!MissedRise, Sr04!Lose

-------------------------------------------------------------------------------
\* The infrared receiver.

\* The infrared driver uses the ring, the timer and the process of KeyDriver.
LEMMA IrdaShares ==
    /\ Irda!InitRing = InitRing /\ Irda!InitReader = InitReader
    /\ Irda!Off = Off /\ Irda!Content = Content
    /\ \A a, b : Irda!PutPair(a, b) = PutPair(a, b)
    /\ Irda!NoRoomFor(2) = NoRoomFor(2) /\ Irda!NoRoomFor(1) = NoRoomFor(1)
    /\ Irda!Splits = (NoRoomFor(2) /\ ~NoRoomFor(1))
    /\ Irda!Read(2) = Read(2)
  BY DEF InitRing, InitReader, IsFull, Off, None, Content, PutPair, NoRoomFor, Stored, Succ, Index,
         Read, Poll, Call, CallNonblock, Wake, Signal, GetKeys, Fetch, FetchNothing, Bump, At,
         IsEmpty, After, ContentsOf, CountOf,
         Irda!InitRing, Irda!InitReader, Irda!IsFull, Irda!Off, Irda!None, Irda!Content,
         Irda!ContentsOf, Irda!CountOf, Irda!PutPair, Irda!NoRoomFor, Irda!Splits, Irda!Stored, Irda!Succ,
         Irda!Index, Irda!Read, Irda!Poll, Irda!Call, Irda!CallNonblock, Irda!Wake, Irda!Signal,
         Irda!GetKeys, Irda!Fetch, Irda!FetchNothing, Irda!Bump, Irda!At, Irda!IsEmpty, Irda!After

Receiver == [kind : {"irda"}, cnt : Nat, fits : BOOLEAN, burst : {"frame", "repeat", "noise"},
             edge : Nat, clean : BOOLEAN, heard : BOOLEAN, fired : BOOLEAN, lost : Nat,
             bursts : Nat, broken : BOOLEAN]

\* How many edges a burst has.
EdgesIn(burst) == IF burst = "frame" THEN FRAME ELSE IF burst = "repeat" THEN 4 ELSE 1

\* The edges of a frame that began in silence are all stored and fit, until it has
\* been understood; when the light is out and the timer's handler is done nothing is
\* stored; the handler is not under way when a frame that is clean has begun.
CountInv == /\ dev.cnt < FRAME /\ dev.edge <= EdgesIn(dev.burst)
            /\ timer = Off /\ ~dev.fired => dev.cnt = 0

Begun == dev.clean /\ dev.edge < FRAME /\ dev.edge # 0

CleanInv == dev.clean =>
                /\ dev.burst = "frame"
                /\ dev.edge = 0 => timer = Off
                /\ Begun => dev.cnt = dev.edge /\ dev.fits /\ ~dev.fired
                /\ dev.edge = FRAME => dev.heard

ReceiverInv == dev \in Receiver /\ CountInv /\ CleanInv

\* Bursts and their edges.
LEMMA ReceiverFacts ==
    /\ FRAME \in Nat /\ FRAME > 4
    /\ DOMAIN Irda!EdgesOf = {"frame", "repeat", "noise"}
    /\ dev \in Receiver => (Irda!Between <=> dev.edge = EdgesIn(dev.burst))
    /\ \A burst : EdgesIn(burst) \in Nat
<1>1. FRAME \in Nat /\ FRAME > 4 /\ \A burst : EdgesIn(burst) \in Nat
  BY FrameAssumption DEF EdgesIn
<1>2. DOMAIN Irda!EdgesOf = {"frame", "repeat", "noise"}
  BY DEF Irda!EdgesOf
<1>3. ASSUME dev \in Receiver PROVE Irda!EdgesOf[dev.burst] = EdgesIn(dev.burst)
  BY <1>3 DEF Receiver, Irda!EdgesOf, EdgesIn
<1>4. QED
  BY <1>1, <1>2, <1>3 DEF Irda!Between

\* The receiver starts with nothing stored.
LEMMA ReceiverInit ==
    ASSUME Irda!InitIrda
    PROVE  ReceiverInv /\ RingInv /\ ring.at = None /\ Content = <<>> /\ InitReader
<1>1. /\ dev = [kind |-> "irda", cnt |-> 0, fits |-> TRUE, burst |-> "noise", edge |-> 1,
                clean |-> FALSE, heard |-> FALSE, fired |-> FALSE, lost |-> 0, bursts |-> 0,
                broken |-> FALSE]
      /\ InitRing /\ InitReader
  BY IrdaShares DEF Irda!InitIrda
<1>2. dev \in Receiver
  BY <1>1 DEF Receiver
<1>3. CountInv /\ CleanInv
  BY <1>1, ReceiverFacts DEF CountInv, CleanInv, EdgesIn
<1>4. QED
  BY <1>1, <1>2, <1>3, RingInit DEF ReceiverInv

\* What a put of the receiver is: a pair that means something, and broken says
\* that the ring has room for one of the two.
Splits == NoRoomFor(2) /\ ~NoRoomFor(1)

Putting == \E a, b \in Key : /\ <<a, b>> \in {Irda!Code, Irda!Error} /\ PutPair(a, b)
                             /\ reader' = reader /\ (dev'.broken <=> dev.broken \/ Splits)

\* The pairs that the infrared driver reports.
LEMMA PairKeys ==
    /\ Irda!Code = <<1, 2>> /\ Irda!Error = <<255, 255>>
    /\ Irda!Code[1] = 1 /\ Irda!Code[2] = 2 /\ Irda!Error[1] = 255 /\ Irda!Error[2] = 255
    /\ 1 \in Key /\ 2 \in Key /\ 255 \in Key
  BY KeyAssumption DEF Irda!Code, Irda!Error, Reported

\* A step of the receiver puts a pair, leaves the ring alone, or is the process reading.
LEMMA ReceiverStep ==
    ASSUME ReceiverInv, Irda!IrdaNext
    PROVE  /\ ReceiverInv'
           /\ \/ Putting
              \/ UNCHANGED <<ring, reader>> /\ dev'.broken = dev.broken
              \/ Read(2) /\ dev' = dev
<1>0. /\ dev \in Receiver /\ CountInv /\ CleanInv /\ FRAME \in Nat /\ FRAME > 4
      /\ dev.cnt \in Nat /\ dev.edge \in Nat /\ dev.lost \in Nat /\ dev.bursts \in Nat
      /\ dev.burst \in {"frame", "repeat", "noise"}
      /\ EdgesIn("frame") = FRAME /\ EdgesIn(dev.burst) \in Nat
  BY ReceiverFacts DEF ReceiverInv, Receiver, EdgesIn
<1>a. dev.fits \in BOOLEAN /\ dev.clean \in BOOLEAN /\ dev.heard \in BOOLEAN
      /\ dev.fired \in BOOLEAN /\ dev.broken \in BOOLEAN
  BY <1>0, Zenon DEF Receiver
<1>1. CASE Read(2)
  <2>1. UNCHANGED <<timer, dev>>
    BY <1>1 DEF Read, Poll, Call, CallNonblock, Wake, Signal, GetKeys, Fetch, FetchNothing, Bump
  <2>2. QED
    BY <1>1, <2>1 DEF ReceiverInv, CountInv, CleanInv, Begun
<1>2. CASE Irda!BurstStarts
  <2>1. PICK burst \in {"frame", "repeat", "noise"} :
            dev' = [dev EXCEPT !.burst = burst, !.edge = 0, !.bursts = dev.bursts + 1,
                               !.heard = FALSE, !.clean = (burst = "frame" /\ timer = Off)]
    BY <1>2, ReceiverFacts, IrdaShares DEF Irda!BurstStarts
  <2>2. dev.bursts + 1 \in Nat /\ 0 \in Nat /\ (burst = "frame" /\ timer = Off) \in BOOLEAN
    BY <1>0
  <2>3. /\ dev' \in Receiver /\ dev'.burst = burst /\ dev'.edge = 0 /\ dev'.cnt = dev.cnt
        /\ dev'.fits = dev.fits /\ dev'.clean = (burst = "frame" /\ timer = Off)
        /\ dev'.fired = dev.fired /\ dev'.broken = dev.broken
    BY <1>0, <1>a, <2>1, <2>2, Zenon DEF Receiver
  <2>4. timer' = timer /\ UNCHANGED <<ring, reader>>
    BY <1>2 DEF Irda!BurstStarts
  <2>5. CountInv'
    BY <1>0, <2>3, <2>4, ReceiverFacts DEF CountInv
  <2>6. dev'.clean => burst = "frame" /\ timer = Off
    BY <2>3, Zenon
  <2>7. CleanInv'
    <3>1. 0 # FRAME
      BY <1>0
    <3>2. QED
      BY <2>3, <2>4, <2>6, <3>1, Zenon DEF CleanInv, Begun
  <2>8. QED
    BY <2>3, <2>4, <2>5, <2>7 DEF ReceiverInv
<1>3. CASE Irda!Lose
  <2>1. /\ dev' = [dev EXCEPT !.edge = dev.edge + 1, !.clean = FALSE, !.lost = dev.lost + 1]
        /\ UNCHANGED <<ring, timer, reader>> /\ dev.edge # EdgesIn(dev.burst)
    BY <1>0, <1>3, ReceiverFacts DEF Irda!Lose
  <2>2. dev.edge + 1 \in Nat /\ dev.lost + 1 \in Nat
    BY <1>0
  <2>3. /\ dev' \in Receiver /\ dev'.burst = dev.burst /\ dev'.edge = dev.edge + 1
        /\ dev'.cnt = dev.cnt /\ dev'.clean = FALSE /\ dev'.fired = dev.fired
        /\ dev'.broken = dev.broken
    BY <1>0, <1>a, <2>1, <2>2, Zenon DEF Receiver
  <2>4. CountInv' /\ CleanInv'
    BY <1>0, <2>1, <2>3 DEF CountInv, CleanInv
  <2>5. QED
    BY <2>1, <2>3, <2>4 DEF ReceiverInv
<1>4. CASE Irda!Edge
  <2> DEFINE fits == (dev.cnt = 0 \/ dev.fits) /\ dev.burst = "frame" /\ dev.edge = dev.cnt
             still == dev.clean /\ ~dev.fired
  <2>1. timer' = 0 /\ reader' = reader /\ dev.edge # EdgesIn(dev.burst)
    BY <1>0, <1>4, ReceiverFacts DEF Irda!Edge
  <2>2. /\ dev.cnt + 1 \in Nat /\ dev.edge + 1 \in Nat /\ 0 \in Nat /\ dev.edge + 1 # 0
        /\ dev.edge + 1 <= EdgesIn(dev.burst)
    BY <1>0, <2>1 DEF CountInv
  <2>3. fits \in BOOLEAN /\ still \in BOOLEAN /\ (dev.broken \/ Splits) \in BOOLEAN
    BY Zenon
  <2>4. still => /\ dev.burst = "frame" /\ dev.edge < FRAME /\ dev.cnt = dev.edge /\ fits
                 /\ dev.cnt + 1 = FRAME => dev.fits
    <3>1. still => dev.burst = "frame" /\ dev.edge < FRAME
      BY <1>0, <2>2 DEF CleanInv
    <3>2. still /\ dev.edge = 0 => dev.cnt = 0
      BY <1>0 DEF CleanInv, CountInv
    <3>3. still /\ dev.edge # 0 => dev.cnt = dev.edge /\ dev.fits
      BY <1>0, <3>1 DEF CleanInv, Begun
    <3>4. QED
      BY <1>0, <3>1, <3>2, <3>3
  <2>5. CASE Irda!OtherEdge
    <3>1. /\ dev' = [dev EXCEPT !.cnt = dev.cnt + 1, !.edge = dev.edge + 1, !.fits = fits,
                                !.clean = still]
          /\ ring' = ring /\ dev.cnt + 1 < FRAME
      BY <2>5 DEF Irda!OtherEdge, Irda!Fits
    <3>2. /\ dev' \in Receiver /\ dev'.burst = dev.burst /\ dev'.edge = dev.edge + 1
          /\ dev'.cnt = dev.cnt + 1 /\ dev'.clean = still /\ dev'.fits = fits
          /\ dev'.fired = dev.fired /\ dev'.broken = dev.broken
      BY <1>0, <1>a, <2>2, <2>3, <3>1, Zenon DEF Receiver
    <3>3. CountInv'
      BY <1>0, <2>1, <2>2, <3>1, <3>2 DEF CountInv, Off
    <3>4. still => dev.edge + 1 < FRAME
      BY <1>0, <2>4, <3>1
    <3>5. CleanInv'
      <4>1. dev.edge + 1 < FRAME => dev.edge + 1 # FRAME
        BY <1>0
      <4>2. QED
        BY <2>2, <2>4, <3>2, <3>4, <4>1, Zenon DEF CleanInv, Begun
    <3>6. QED
      BY <2>1, <3>1, <3>2, <3>3, <3>5 DEF ReceiverInv
  <2>6. CASE Irda!LastEdge
    <3>1. /\ dev' = [dev EXCEPT !.cnt = 0, !.edge = dev.edge + 1, !.fits = TRUE, !.clean = still,
                                !.heard = dev.fits, !.broken = dev.broken \/ Splits]
          /\ dev.cnt + 1 = FRAME /\ Irda!Parse(dev.fits)
      BY <2>6, IrdaShares DEF Irda!LastEdge, Splits
    <3>2. /\ dev' \in Receiver /\ dev'.burst = dev.burst /\ dev'.edge = dev.edge + 1
          /\ dev'.cnt = 0 /\ dev'.clean = still /\ dev'.heard = dev.fits
          /\ dev'.broken = (dev.broken \/ Splits)
      BY <1>0, <1>a, <2>2, <2>3, <3>1, Zenon DEF Receiver
    <3>3. CountInv'
      BY <1>0, <2>1, <2>2, <3>2 DEF CountInv, Off
    <3>4. still => dev.edge + 1 = FRAME /\ dev.fits
      BY <1>0, <2>4, <3>1
    <3>5. CleanInv'
      <4>1. dev.edge + 1 = FRAME => ~(dev.edge + 1 < FRAME)
        BY <1>0
      <4>2. QED
        BY <2>2, <2>4, <3>2, <3>4, <4>1, Zenon DEF CleanInv, Begun
    <3>6. PutPair(1, 2) \/ PutPair(255, 255)
      BY <3>1, IrdaShares, PairKeys DEF Irda!Parse
    <3>7. Putting
      <4>1. dev'.broken <=> dev.broken \/ Splits
        BY <3>2, Zenon
      <4>2. ASSUME NEW a \in Key, NEW b \in Key, <<a, b>> \in {Irda!Code, Irda!Error}, PutPair(a, b)
            PROVE  Putting
        BY <2>1, <4>1, <4>2, Zenon DEF Putting
      <4>3. QED
        BY <3>6, <4>2, PairKeys
    <3>8. QED
      BY <3>2, <3>3, <3>5, <3>7 DEF ReceiverInv
  <2>7. QED
    BY <1>4, <2>5, <2>6 DEF Irda!Edge
<1>5. CASE Irda!Expire
  <2>1. /\ dev' = [dev EXCEPT !.fired = TRUE] /\ UNCHANGED <<ring, reader>>
        /\ dev.edge = EdgesIn(dev.burst)
    BY <1>0, <1>5, ReceiverFacts DEF Irda!Expire
  <2>2. /\ dev' \in Receiver /\ dev'.burst = dev.burst /\ dev'.edge = dev.edge
        /\ dev'.cnt = dev.cnt /\ dev'.clean = dev.clean /\ dev'.heard = dev.heard
        /\ dev'.fired = TRUE /\ dev'.broken = dev.broken
    BY <1>0, <1>a, <2>1, Zenon DEF Receiver
  <2>3. CountInv' /\ CleanInv'
    BY <1>0, <2>1, <2>2 DEF CountInv, CleanInv, Begun
  <2>4. QED
    BY <2>1, <2>2, <2>3 DEF ReceiverInv
<1>6. CASE Irda!HandleTimeout
  <2>1. /\ dev' = [dev EXCEPT !.fired = FALSE, !.cnt = 0, !.fits = TRUE,
                              !.broken = dev.broken \/ Splits]
        /\ PutPair(255, 255) /\ UNCHANGED <<timer, reader>> /\ dev.fired
    BY <1>6, IrdaShares, PairKeys DEF Irda!HandleTimeout, Splits
  <2>2. (dev.broken \/ Splits) \in BOOLEAN /\ 0 \in Nat
    BY Zenon
  <2>3. /\ dev' \in Receiver /\ dev'.burst = dev.burst /\ dev'.edge = dev.edge
        /\ dev'.cnt = 0 /\ dev'.clean = dev.clean /\ dev'.heard = dev.heard
        /\ dev'.fired = FALSE /\ dev'.broken = (dev.broken \/ Splits)
    BY <1>0, <1>a, <2>1, <2>2, Zenon DEF Receiver
  <2>4. CountInv' /\ CleanInv'
    BY <1>0, <2>1, <2>3 DEF CountInv, CleanInv, Begun
  <2>5. Putting
    <3>1. (dev'.broken <=> dev.broken \/ Splits) /\ reader' = reader
      BY <2>1, <2>3, Zenon
    <3>2. <<255, 255>> \in {Irda!Code, Irda!Error} /\ 255 \in Key
      BY PairKeys
    <3>3. QED
      BY <2>1, <3>1, <3>2, Zenon DEF Putting
  <2>6. QED
    BY <2>3, <2>4, <2>5 DEF ReceiverInv
<1>7. QED
  BY <1>1, <1>2, <1>3, <1>4, <1>5, <1>6, IrdaShares DEF Irda!IrdaNext, Irda!IrdaRead
-------------------------------------------------------------------------------
\* The bytes of the receiver's ring, two by two.

\* Two more that are a pair leave whole pairs, and so does taking two away.
LEMMA WholeAppends ==
    ASSUME NEW s \in Seq(Key), NEW a \in Key, NEW b \in Key,
           <<a, b>> \in {Irda!Code, Irda!Error}, Irda!Whole(s)
    PROVE  Irda!Whole(Append(Append(s, a), b))
<1> DEFINE n == Len(s)  t == Append(Append(s, a), b)
<1>1. n \in Nat /\ n % 2 = 0
  BY DEF Irda!Whole
<1>2. /\ Len(t) = n + 2 /\ t[n + 1] = a /\ t[n + 2] = b
      /\ \A i \in 1 .. n : t[i] = s[i]
  BY AppendProperties
<1>3. (n + 2) % 2 = 0
  <2> HIDE DEF n
  <2> QED BY <1>1
<1>4. ASSUME NEW i \in 1 .. (n + 2) \div 2
      PROVE  <<t[2 * i - 1], t[2 * i]>> \in {Irda!Code, Irda!Error}
  <2>1. CASE i \in 1 .. n \div 2
    <3>1. 2 * i - 1 \in 1 .. n /\ 2 * i \in 1 .. n
      <4> HIDE DEF n
      <4> QED BY <1>1, <2>1
    <3>2. <<s[2 * i - 1], s[2 * i]>> \in {Irda!Code, Irda!Error}
      BY <2>1, Zenon DEF Irda!Whole
    <3>3. t[2 * i - 1] = s[2 * i - 1] /\ t[2 * i] = s[2 * i]
      BY <1>2, <3>1, Zenon
    <3>4. QED
      BY <3>2, <3>3, Zenon
  <2>2. CASE i \notin 1 .. n \div 2
    <3>1. 2 * i - 1 = n + 1 /\ 2 * i = n + 2
      <4> HIDE DEF n
      <4> QED BY <1>1, <2>2
    <3>2. t[2 * i - 1] = a /\ t[2 * i] = b
      BY <1>2, <3>1, Zenon
    <3>3. QED
      BY <3>2, Zenon
  <2>3. QED
    BY <2>1, <2>2
<1>5. QED
  BY <1>2, <1>3, <1>4, Zenon DEF Irda!Whole

\* Whole pairs stay whole when one of them is taken away.
LEMMA WholeDrops ==
    ASSUME NEW p \in Seq(Key), NEW s \in Seq(Key), Len(p) = 2, Irda!Whole(p \o s)
    PROVE  Irda!Whole(s)
<1> DEFINE n == Len(s)  t == p \o s
<1>1. n \in Nat
  BY LenProperties
<1>2. Len(t) = n + 2 /\ \A i \in 1 .. n : s[i] = t[i + 2]
  <2>1. Len(t) = Len(p) + Len(s) /\ \A i \in 1 .. Len(p) + Len(s) :
                                        t[i] = IF i <= Len(p) THEN p[i] ELSE s[i - Len(p)]
    BY ConcatProperties
  <2>a. \A i \in 1 .. 2 + n : t[i] = IF i <= 2 THEN p[i] ELSE s[i - 2]
    BY <2>1, Zenon
  <2>2. ASSUME NEW i \in 1 .. n PROVE s[i] = t[i + 2]
    <3>1. i + 2 \in 1 .. 2 + n /\ ~(i + 2 <= 2) /\ i + 2 - 2 = i
      <4> HIDE DEF n
      <4> QED BY <1>1
    <3>2. t[i + 2] = s[i + 2 - 2]
      <4> HIDE DEF t, n
      <4> QED BY <2>a, <3>1
    <3>3. QED
      BY <3>1, <3>2, Zenon
  <2>3. Len(t) = n + 2
    BY <2>1, <1>1
  <2>4. QED
    BY <2>2, <2>3
<1>3. /\ (n + 2) % 2 = 0
      /\ \A i \in 1 .. (n + 2) \div 2 : <<t[2 * i - 1], t[2 * i]>> \in {Irda!Code, Irda!Error}
  BY <1>2, Zenon DEF Irda!Whole
<1>4. n % 2 = 0
  <2> HIDE DEF n
  <2> QED BY <1>1, <1>3
<1>5. ASSUME NEW i \in 1 .. n \div 2
      PROVE  <<s[2 * i - 1], s[2 * i]>> \in {Irda!Code, Irda!Error}
  <2>1. /\ 2 * i - 1 \in 1 .. n /\ 2 * i \in 1 .. n /\ i + 1 \in 1 .. (n + 2) \div 2
        /\ 2 * i - 1 + 2 = 2 * (i + 1) - 1 /\ 2 * i + 2 = 2 * (i + 1)
    <3> HIDE DEF n
    <3> QED BY <1>1, <1>4
  <2>2. s[2 * i - 1] = t[2 * (i + 1) - 1] /\ s[2 * i] = t[2 * (i + 1)]
    <3>1. s[2 * i - 1] = t[2 * i - 1 + 2] /\ s[2 * i] = t[2 * i + 2]
      BY <1>2, <2>1, Zenon
    <3>2. QED
      BY <2>1, <3>1, Zenon
  <2>3. <<t[2 * (i + 1) - 1], t[2 * (i + 1)]>> \in {Irda!Code, Irda!Error}
    BY <1>3, <2>1, Zenon
  <2>4. QED
    BY <2>2, <2>3, Zenon
<1>6. QED
  BY <1>4, <1>5, Zenon DEF Irda!Whole

\* The key that a read got last is the head of the ring until r moves.
LEMMA HeadMoves ==
    ASSUME NEW k \in Seq(Key), k # <<>>, NEW c \in Seq(Key), c # <<>>, k[Len(k)] = Head(c)
    PROVE  SubSeq(k, 1, Len(k) - 1) \o c = k \o Tail(c)
<1> DEFINE n == Len(k)  m == Len(c)  front == SubSeq(k, 1, n - 1)
<1>1. n \in Nat /\ n > 0 /\ m \in Nat /\ m > 0
  BY EmptySeq, LenProperties
<1>2. /\ front \in Seq(Key) /\ Len(front) = n - 1 /\ \A i \in 1 .. n - 1 : front[i] = k[i]
  <2>1. n - 1 \in Int /\ 1 \in Int /\ \A i \in 1 .. n - 1 : k[i] \in Key /\ 1 + i - 1 = i
    BY <1>1, ElementOfSeq
  <2>2. /\ front \in Seq(Key) /\ Len(front) = IF 1 <= n - 1 THEN n - 1 - 1 + 1 ELSE 0
        /\ \A i \in 1 .. n - 1 - 1 + 1 : front[i] = k[1 + i - 1]
    <3> HIDE DEF n
    <3> QED BY <2>1, SubSeqProperties
  <2>3. QED
    <3> HIDE DEF n, front
    <3> QED BY <1>1, <2>1, <2>2
<1>3. /\ Tail(c) \in Seq(Key) /\ Len(Tail(c)) = m - 1 /\ \A i \in 1 .. m - 1 : Tail(c)[i] = c[i + 1]
      /\ Head(c) = c[1]
  BY HeadTailProperties
<1> DEFINE s == front \o c  t == k \o Tail(c)
<1> HIDE DEF front, n, m
<1>4. /\ s \in Seq(Key) /\ Len(s) = n - 1 + m
      /\ \A i \in 1 .. n - 1 + m : s[i] = IF i <= n - 1 THEN front[i] ELSE c[i - (n - 1)]
  <2>1. /\ s \in Seq(Key) /\ Len(s) = Len(front) + Len(c)
        /\ \A i \in 1 .. Len(front) + Len(c) :
               s[i] = IF i <= Len(front) THEN front[i] ELSE c[i - Len(front)]
    BY <1>2, ConcatProperties
  <2>2. QED
    BY <1>2, <2>1, Zenon DEF m
<1>5. /\ t \in Seq(Key) /\ Len(t) = n + (m - 1)
      /\ \A i \in 1 .. n + (m - 1) : t[i] = IF i <= n THEN k[i] ELSE Tail(c)[i - n]
  BY <1>3, ConcatProperties DEF n
<1> HIDE DEF s, t
<1>6. ASSUME NEW i \in 1 .. n - 1 + m PROVE s[i] = t[i]
  <2>0. i \in 1 .. n + (m - 1)
    BY <1>1
  <2>1. CASE i <= n - 1
    <3>1. i \in 1 .. n - 1 /\ i <= n
      BY <1>1, <2>1
    <3>2. QED
      BY <1>2, <1>4, <1>5, <2>0, <2>1, <3>1, Zenon
  <2>2. CASE i = n
    <3>1. ~(i <= n - 1) /\ i <= n /\ i - (n - 1) = 1
      BY <1>1, <2>2
    <3>2. s[i] = c[1] /\ t[i] = k[n]
      BY <1>4, <1>5, <2>0, <2>2, <3>1, Zenon
    <3>3. QED
      BY <1>3, <3>2 DEF n
  <2>3. CASE i > n
    <3>1. ~(i <= n - 1) /\ ~(i <= n) /\ i - n \in 1 .. m - 1 /\ i - (n - 1) = i - n + 1
      BY <1>1, <2>3
    <3>2. s[i] = c[i - n + 1] /\ t[i] = Tail(c)[i - n]
      BY <1>4, <1>5, <2>0, <3>1, Zenon
    <3>3. QED
      BY <1>3, <3>1, <3>2, Zenon
  <2>4. QED
    BY <1>1, <2>1, <2>2, <2>3
<1>7. s = t
  <2>1. Len(s) = Len(t) /\ \A i \in 1 .. Len(s) : s[i] = t[i]
    BY <1>1, <1>4, <1>5, <1>6
  <2>2. QED
    BY <1>4, <1>5, <2>1, SeqEqual
<1>8. QED
  BY <1>7 DEF s, t, front, n

\* Appending a pair to a concatenation.
LEMMA AppendsConcat ==
    ASSUME NEW k \in Seq(Key), NEW c \in Seq(Key), NEW a \in Key, NEW b \in Key
    PROVE  /\ k \o c \in Seq(Key) /\ Len(k \o c) = Len(k) + Len(c)
           /\ k \o Append(Append(c, a), b) = Append(Append(k \o c, a), b)
           /\ k \o <<>> = k /\ <<>> \o k = k
<1>1. Append(c, a) \in Seq(Key)
  BY AppendProperties
<1>2. ASSUME NEW d \in Seq(Key), NEW e \in Key PROVE k \o Append(d, e) = Append(k \o d, e)
  <2>1. <<e>> \in Seq(Key) /\ k \o d \in Seq(Key)
    BY ConcatProperties
  <2>2. Append(d, e) = d \o <<e>> /\ Append(k \o d, e) = (k \o d) \o <<e>>
    BY <2>1, AppendIsConcat
  <2>3. k \o (d \o <<e>>) = (k \o d) \o <<e>>
    BY <2>1, ConcatAssociative
  <2>4. QED
    BY <2>2, <2>3
<1>3. k \o Append(Append(c, a), b) = Append(Append(k \o c, a), b)
  BY <1>1, <1>2
<1>4. QED
  BY <1>3, ConcatProperties, ConcatEmptySeq

\* The keys that a read has and the ring has no longer.
Kept == IF reader.pc = "bump" THEN SubSeq(reader.keys, 1, Len(reader.keys) - 1) ELSE reader.keys

\* How many keys a read has where; one that has begun finds its second key.
Progress ==
    /\ reader.pc \in {"user", "polled"} => reader.keys = <<>> \/ Len(reader.keys) = 2
    /\ reader.pc = "wait" => reader.keys = <<>>
    /\ reader.pc = "fetch" => \/ reader.keys = <<>> /\ Content # <<>>
                              \/ Len(reader.keys) = 1
    /\ reader.pc = "bump" => Len(reader.keys) \in {1, 2}

PairInv == ~dev.broken /\ ~reader.cut => Irda!Whole(Kept \o Content) /\ Progress

\* An empty ring holds whole pairs.
LEMMA PairInit == ASSUME InitReader, Content = <<>> PROVE PairInv
<1>1. reader.pc = "user" /\ reader.keys = <<>> /\ Kept = <<>>
  BY DEF InitReader, Kept
<1>2. <<>> \o <<>> = <<>> /\ Len(<<>>) = 0
  BY ConcatEmptySeq, EmptySeq
<1>3. Irda!Whole(<<>>)
  BY <1>2 DEF Irda!Whole
<1>4. QED
  BY <1>1, <1>2, <1>3 DEF PairInv, Progress

\* What the reader has been given is a sequence of keys.
LEMMA KeptKeys == ASSUME RingInv PROVE Kept \in Seq(Key) /\ reader.keys \in Seq(Key)
<1>1. reader.keys \in Seq(Key) /\ (reader.pc = "bump" => reader.keys # <<>>)
  BY DEF RingInv, Process, CopyInv
<1>2. CASE reader.pc = "bump"
  <2> DEFINE k == reader.keys
  <2>1. Len(k) \in Nat /\ \A i \in 1 .. Len(k) - 1 : k[i] \in Key
    BY <1>1, LenProperties, ElementOfSeq
  <2>2. SubSeq(k, 1, Len(k) - 1) \in Seq(Key)
    <3> HIDE DEF k
    <3> QED BY <2>1, SubSeqProperties
  <2>3. QED
    BY <1>1, <1>2, <2>2 DEF Kept
<1>3. QED
  BY <1>1, <1>2 DEF Kept

\* A step of a read leaves the bytes it has and those in the ring in pairs.
LEMMA PairRead ==
    ASSUME RingInv, PairInv, Read(2), dev' = dev
    PROVE  PairInv'
<1> SUFFICES ASSUME ~dev.broken, ~reader'.cut
             PROVE  Irda!Whole(Kept \o Content)' /\ Progress'
  BY DEF PairInv
<1>0. /\ reader \in Process /\ reader.keys \in Seq(Key) /\ Content \in Seq(Key)
      /\ (Content = <<>> <=> IsEmpty) /\ Kept \in Seq(Key)
  BY KeptKeys, ContentKeys DEF RingInv, Process
<1>1. CASE Poll \/ Wake
  <2>1. PICK pc \in {"polled", "fetch"} :
            /\ reader' = [reader EXCEPT !.pc = pc] /\ ~IsEmpty /\ UNCHANGED Content
            /\ \/ reader.pc = "user" /\ pc = "polled"
               \/ reader.pc = "wait" /\ pc = "fetch"
    BY <1>1 DEF Poll, Wake, At, Content
  <2>2. reader'.pc = pc /\ reader'.keys = reader.keys /\ reader'.cut = reader.cut
    BY <1>0, <2>1 DEF Process
  <2>3. Irda!Whole(Kept \o Content) /\ Progress /\ Kept' = Kept
    BY <2>1, <2>2 DEF PairInv, Kept
  <2>4. QED
    BY <1>0, <2>1, <2>2, <2>3 DEF Progress, Irda!Whole
<1>2. CASE Call \/ CallNonblock
  <2>1. PICK pc \in {"user", "wait"} :
            /\ reader' = [reader EXCEPT !.pc = pc, !.keys = <<>>] /\ UNCHANGED Content
            /\ reader.pc \in {"user", "polled"}
    BY <1>2 DEF Call, CallNonblock, At, Content
  <2>2. reader'.pc = pc /\ reader'.keys = <<>> /\ reader'.cut = reader.cut
    BY <1>0, <2>1 DEF Process
  <2>3. Irda!Whole(reader.keys \o Content) /\ (reader.keys = <<>> \/ Len(reader.keys) = 2)
    BY <2>1, <2>2 DEF PairInv, Progress, Kept
  <2>4. Irda!Whole(Content) /\ <<>> \o Content = Content
    BY <1>0, <2>3, WholeDrops, ConcatEmptySeq
  <2>5. QED
    BY <2>1, <2>2, <2>4 DEF Progress, Kept, Irda!Whole
<1>3. CASE Signal
  <2>1. reader' = [reader EXCEPT !.pc = "fetch", !.cut = TRUE]
    BY <1>3 DEF Signal
  <2>2. reader'.cut
    BY <1>0, <2>1 DEF Process
  <2>3. QED
    BY <2>2
<1>4. CASE Fetch
  <2> DEFINE key == ring.slot[ring.r]  keys == Append(reader.keys, key)
  <2>1. /\ reader' = [reader EXCEPT !.keys = keys, !.pc = "bump"]
        /\ reader.pc = "fetch" /\ UNCHANGED Content /\ ring.r # ring.w
    BY <1>4 DEF Fetch, At, Content, IsEmpty
  <2>2. key \in Key
    BY <2>1, FetchCopies
  <2>3. reader'.pc = "bump" /\ reader'.keys = keys /\ reader'.cut = reader.cut
    BY <1>0, <2>1, Zenon DEF Process
  <2>4. Irda!Whole(reader.keys \o Content) /\ (reader.keys = <<>> \/ Len(reader.keys) = 1)
    BY <2>1, <2>3 DEF PairInv, Progress, Kept
  <2>5. SubSeq(keys, 1, Len(keys) - 1) = reader.keys /\ Len(keys) \in {1, 2}
    <3> DEFINE n == Len(reader.keys)
    <3>1. /\ keys \in Seq(Key) /\ Len(keys) = n + 1 /\ n \in {0, 1}
          /\ \A i \in 1 .. n : keys[i] = reader.keys[i]
      <4> HIDE DEF key
      <4> QED BY <1>0, <2>2, <2>4, AppendProperties, EmptySeq
    <3>2. n + 1 - 1 = n /\ n \in Nat /\ \A i \in 1 .. n : keys[i] \in Key
      BY <1>0, <3>1, ElementOfSeq
    <3>3. Len(keys) - 1 = n
      <4> HIDE DEF keys, n
      <4> QED BY <3>1, <3>2
    <3>4. SubSeq(keys, 1, n) = reader.keys
      <4> DEFINE t == SubSeq(keys, 1, n)
      <4>1. /\ t \in Seq(Key) /\ Len(t) = IF 1 <= n THEN n - 1 + 1 ELSE 0
            /\ \A i \in 1 .. n - 1 + 1 : t[i] = keys[1 + i - 1]
        <5> HIDE DEF keys, n
        <5> QED BY <3>2, SubSeqProperties
      <4>2. t \in Seq(Key) /\ Len(t) = n /\ \A i \in 1 .. n : t[i] = keys[i]
        <5> HIDE DEF keys, n, t
        <5> QED BY <3>2, <4>1
      <4>3. \A i \in 1 .. n : t[i] = reader.keys[i]
        <5> HIDE DEF keys, n, t
        <5> QED BY <3>1, <4>2
      <4> HIDE DEF t
      <4>4. t = reader.keys
        BY <1>0, <4>2, <4>3, SeqEqual
      <4>5. QED
        BY <4>4 DEF t
    <3>5. Len(keys) \in {1, 2}
      <4> HIDE DEF keys, n
      <4> QED BY <3>1
    <3>6. QED
      BY <3>3, <3>4, <3>5, Zenon
  <2>6. Kept' = reader.keys
    BY <2>3, <2>5, Zenon DEF Kept
  <2>7. QED
    BY <2>1, <2>3, <2>4, <2>5, <2>6, Zenon DEF Progress, Irda!Whole
<1>5. CASE FetchNothing(2)
  <2>1. reader.pc = "fetch" /\ Content = <<>> /\ ~reader.cut
    <3>1. reader.pc = "fetch" /\ IsEmpty
      BY <1>5 DEF FetchNothing, At
    <3>2. reader' = [reader EXCEPT !.keys = Append(reader.keys, 0), !.pc = After(Append(reader.keys, 0), 2)]
      BY <1>5 DEF FetchNothing
    <3>3. reader'.cut = reader.cut
      BY <1>0, <3>2, Zenon DEF Process
    <3>4. QED
      BY <1>0, <3>1, <3>3, Zenon
  <2>2. Irda!Whole(reader.keys \o Content) /\ Len(reader.keys) = 1
    BY <2>1 DEF PairInv, Progress, Kept
  <2>3. reader.keys \o Content = reader.keys
    BY <1>0, <2>1, ConcatEmptySeq
  <2>4. Len(reader.keys) % 2 = 0
    BY <2>2, <2>3, Zenon DEF Irda!Whole
  <2>5. QED
    BY <2>2, <2>4
<1>6. CASE Bump(2)
  <2>1. /\ reader.pc = "bump" /\ Content # <<>> /\ Content' = Tail(Content)
        /\ reader.keys # <<>> /\ reader.keys[Len(reader.keys)] = Head(Content)
        /\ reader' = [reader EXCEPT !.pc = After(reader.keys, 2), !.got = Head(Content)]
    BY <1>6, BumpGets DEF Bump, At
  <2>2. /\ reader'.pc = After(reader.keys, 2) /\ reader'.keys = reader.keys
        /\ reader'.cut = reader.cut
    BY <1>0, <2>1, Zenon DEF Process
  <2>3. Irda!Whole(Kept \o Content) /\ Len(reader.keys) \in {1, 2}
    BY <2>1, <2>2 DEF PairInv, Progress
  <2>4. Kept \o Content = reader.keys \o Content'
    BY <1>0, <2>1, HeadMoves DEF Kept
  <2>5. /\ Len(reader.keys) = 1 => reader'.pc = "fetch"
        /\ Len(reader.keys) = 2 => reader'.pc = "user"
    <3>1. reader'.pc = IF Len(reader.keys) < 2 THEN "fetch" ELSE "user"
      BY <2>2, Zenon DEF After
    <3> DEFINE n == Len(reader.keys)
    <3>2. n \in {1, 2}
      BY <2>3
    <3> HIDE DEF n
    <3>3. (n = 1 => n < 2) /\ (n = 2 => ~(n < 2))
      BY <3>2
    <3>4. QED
      BY <3>1, <3>3, Zenon DEF n
  <2>6. Kept' = reader.keys
    BY <2>2, <2>3, <2>5 DEF Kept
  <2>7. QED
    BY <2>2, <2>3, <2>4, <2>5, <2>6 DEF Progress, Irda!Whole
<1>7. QED
  BY <1>1, <1>2, <1>3, <1>4, <1>5, <1>6 DEF Read, GetKeys

\* The handlers put pairs, both bytes or the ring is broken.
LEMMA ReceiverQueue ==
    ASSUME ReceiverInv, RingInv, ring.at = None, Irda!IrdaNext
    PROVE  /\ RingInv' /\ ring'.at = None /\ [Queue!Next]_<<Content, reader.got>>
           /\ PairInv => PairInv'
<1>1. CASE Putting
  <2>1. PICK a \in Key, b \in Key :
            /\ <<a, b>> \in {Irda!Code, Irda!Error} /\ PutPair(a, b)
            /\ reader' = reader /\ (dev'.broken <=> dev.broken \/ Splits)
    BY <1>1 DEF Putting
  <2>2. /\ RingInv' /\ ring'.at = None
        /\ \/ Content' \in {Content, Append(Content, a)}
           \/ Content' = Append(Append(Content, a), b)
        /\ Splits \/ Content' \in {Content, Append(Append(Content, a), b)}
    BY <2>1, PairStep DEF Splits
  <2>3. Content \in Seq(Key) /\ Kept \in Seq(Key) /\ Kept' = Kept
    BY <2>1, ContentKeys, KeptKeys DEF Kept
  <2>4. [Queue!Next]_<<Content, reader.got>>
    BY <2>1, PairQueue
  <2>5. PairInv => PairInv'
    <3> SUFFICES ASSUME PairInv, ~dev'.broken, ~reader.cut
                 PROVE  Irda!Whole(Kept' \o Content') /\ Progress'
      BY <2>1 DEF PairInv, Irda!Whole
    <3>1. /\ Irda!Whole(Kept \o Content) /\ Progress
          /\ Content' \in {Content, Append(Append(Content, a), b)}
      BY <2>1, <2>2, Zenon DEF PairInv
    <3>2. CASE Content' = Content
      BY <2>1, <2>3, <3>1, <3>2, Zenon DEF Progress, Irda!Whole
    <3>3. CASE Content' = Append(Append(Content, a), b)
      <4>1. Irda!Whole(Append(Append(Kept \o Content, a), b))
        BY <2>1, <2>3, <3>1, AppendsConcat, WholeAppends
      <4>2. Kept \o Append(Append(Content, a), b) = Append(Append(Kept \o Content, a), b)
        BY <2>3, AppendsConcat
      <4>3. Irda!Whole(Kept' \o Content')
        BY <2>3, <3>3, <4>1, <4>2, Zenon
      <4>4. Content' # <<>>
        BY <2>3, <3>3, AppendProperties
      <4>5. QED
        BY <2>1, <3>1, <4>3, <4>4 DEF Progress
    <3>4. QED
      BY <3>1, <3>2, <3>3
  <2>6. QED
    BY <2>2, <2>4, <2>5
<1>2. CASE UNCHANGED <<ring, reader>> /\ dev'.broken = dev.broken
  <2>1. RingInv' /\ UNCHANGED <<Content, reader.got>>
    BY <1>2, RingRests DEF RingInv
  <2>2. QED
    BY <1>2, <2>1 DEF PairInv, Progress, Kept, Irda!Whole
<1>3. CASE Read(2) /\ dev' = dev
  BY <1>3, ReadStep, PairRead
<1>4. QED
  BY <1>1, <1>2, <1>3, ReceiverStep

-------------------------------------------------------------------------------
\* The temperature and humidity sensor.

\* The thermometer's driver uses the ring, the timer and the process of KeyDriver.
LEMMA Dht11Shares ==
    /\ Dht11!InitRing = InitRing /\ Dht11!InitReader = InitReader
    /\ Dht11!Off = Off
    /\ \A a, b : Dht11!PutPair(a, b) = PutPair(a, b)
    /\ \A pc : Dht11!At(pc) = At(pc)
    /\ Dht11!Wake = Wake /\ Dht11!Signal = Signal
    /\ Dht11!GetKeys(2) = GetKeys(2)
  BY DEF InitRing, InitReader, IsFull, Off, None, PutPair, Stored, Succ, Index,
         Wake, Signal, GetKeys, Fetch, FetchNothing, Bump, At, IsEmpty, After,
         Dht11!InitRing, Dht11!InitReader, Dht11!IsFull, Dht11!Off, Dht11!None, Dht11!PutPair,
         Dht11!Stored, Dht11!Succ, Dht11!Index, Dht11!Wake, Dht11!Signal, Dht11!GetKeys,
         Dht11!Fetch, Dht11!FetchNothing, Dht11!Bump, Dht11!At, Dht11!IsEmpty, Dht11!After

Thermometer ==
    [kind : {"dht11", "dht11ring"}, cnt : Nat, irq : BOOLEAN, reading : 0 .. MaxReading,
     sends : BOOLEAN, times : {Dht11!Garbled} \cup 1 .. MaxReading,
     val : {Dht11!Garbled} \cup 0 .. MaxReading, flag : {0, -1}, done : BOOLEAN,
     good : {Dht11!Error} \cup 1 .. MaxReading]

ClimateInv == dev \in Thermometer /\ (dev.sends => dev.reading > 0)

\* What the driver makes of the edges it has counted, and of val and g_flag.
Outcome(d) == IF d.cnt < Dht11!ENOUGH \/ d.times = Dht11!Garbled THEN Dht11!Error ELSE d.times
Result(d) == IF d.flag # 0 \/ d.val = Dht11!Garbled THEN Dht11!Error ELSE d.val

\* Types of the thermometer's fields and answers.
LEMMA ClimateFacts ==
    /\ MaxReading \in Nat /\ Dht11!Error = -1 /\ Dht11!Garbled = -2 /\ Dht11!ENOUGH = 81
    /\ Dht11!EDGES = 84
    /\ \A key \in {Dht11!Error} \cup 1 .. MaxReading : key \in Key
    /\ \A d \in Thermometer :
              /\ d.cnt \in Nat /\ d.reading \in 0 .. MaxReading /\ d.flag \in {0, -1}
              /\ d.times \in {Dht11!Garbled} \cup 1 .. MaxReading
              /\ d.val \in {Dht11!Garbled} \cup 0 .. MaxReading
              /\ d.good \in {Dht11!Error} \cup 1 .. MaxReading
              /\ Outcome(d) \in {Dht11!Error} \cup 1 .. MaxReading
              /\ Result(d) \in {Dht11!Error, 0} \cup 1 .. MaxReading
<1>1. MaxReading \in Nat /\ Dht11!Error = -1 /\ Dht11!Garbled = -2 /\ Dht11!ENOUGH = 81
      /\ Dht11!EDGES = 84
  BY BoundAssumption DEF Dht11!Error, Dht11!Garbled, Dht11!ENOUGH, Dht11!EDGES
<1>2. \A key \in {Dht11!Error} \cup 1 .. MaxReading : key \in Key
  BY <1>1, KeyAssumption DEF Reported, Sr04!Timeout
<1>3. ASSUME NEW d \in Thermometer
      PROVE  /\ d.cnt \in Nat /\ d.reading \in 0 .. MaxReading /\ d.flag \in {0, -1}
             /\ d.times \in {Dht11!Garbled} \cup 1 .. MaxReading
             /\ d.val \in {Dht11!Garbled} \cup 0 .. MaxReading
             /\ d.good \in {Dht11!Error} \cup 1 .. MaxReading
             /\ Outcome(d) \in {Dht11!Error} \cup 1 .. MaxReading
             /\ Result(d) \in {Dht11!Error, 0} \cup 1 .. MaxReading
  <2>1. /\ d.cnt \in Nat /\ d.reading \in 0 .. MaxReading /\ d.flag \in {0, -1}
        /\ d.times \in {Dht11!Garbled} \cup 1 .. MaxReading
        /\ d.val \in {Dht11!Garbled} \cup 0 .. MaxReading
        /\ d.good \in {Dht11!Error} \cup 1 .. MaxReading
    BY DEF Thermometer
  <2>2. QED
    BY <1>1, <2>1 DEF Outcome, Result
<1>4. QED
  BY <1>1, <1>2, <1>3

\* An answer that arrives while nothing is counted says what the read should return.
LEMMA ToldFacts ==
    ASSUME ClimateInv, dev.sends, NEW n \in Nat, NEW times \in {dev.reading, Dht11!Garbled}
    PROVE  LET d == Dht11!Told(n, times)
           IN  /\ d \in Thermometer /\ d.kind = dev.kind /\ d.cnt = dev.cnt + n /\ ~d.sends
               /\ d.irq = dev.irq /\ d.flag = dev.flag /\ d.val = dev.val /\ d.done = dev.done
               /\ dev.cnt = 0 => d.good = Outcome(d)
<1> DEFINE d == Dht11!Told(n, times)
           good == IF n < Dht11!ENOUGH \/ times = Dht11!Garbled THEN Dht11!Error ELSE times
<1>1. dev \in Thermometer /\ dev.cnt \in Nat /\ dev.reading \in 1 .. MaxReading
  BY ClimateFacts DEF ClimateInv
<1>2. d = [dev EXCEPT !.cnt = dev.cnt + n, !.sends = FALSE, !.times = times, !.good = good]
  BY DEF Dht11!Told
<1>3. /\ dev.cnt + n \in Nat /\ FALSE \in BOOLEAN
      /\ times \in {Dht11!Garbled} \cup 1 .. MaxReading
      /\ good \in {Dht11!Error} \cup 1 .. MaxReading
  BY <1>1
<1>4. /\ d \in Thermometer /\ d.kind = dev.kind /\ d.cnt = dev.cnt + n /\ d.sends = FALSE
      /\ d.irq = dev.irq /\ d.flag = dev.flag /\ d.val = dev.val /\ d.done = dev.done
      /\ d.times = times /\ d.good = good
  <2> HIDE DEF good
  <2> QED BY <1>1, <1>2, <1>3, Zenon DEF Thermometer
<1>5. dev.cnt = 0 => good = Outcome(d)
  <2> HIDE DEF d
  <2> QED BY <1>1, <1>4 DEF Outcome
<1>6. QED
  <2> HIDE DEF good
  <2> QED BY <1>4, <1>5, Zenon

\* Sequences of one value.
LEMMA Twins ==
    ASSUME NEW k \in Key
    PROVE  /\ Append(<<>>, k) = <<k>> /\ Append(<<k>>, k) = <<k, k>>
           /\ Append(Append(<<>>, k), k) = <<k, k>>
           /\ <<k>> # <<>> /\ <<k, k>> # <<>> /\ <<k>> # <<k, k>>
           /\ Head(<<k>>) = k /\ Head(<<k, k>>) = k
           /\ Tail(<<k>>) = <<>> /\ Tail(<<k, k>>) = <<k>>
           /\ Len(<<k>>) = 1 /\ Len(<<k, k>>) = 2
           /\ <<k, k>> \in Seq(Key)
<1> DEFINE s == <<k>>  t == <<k, k>>
<1>1. /\ s \in Seq(Key) /\ Len(s) = 1 /\ s[1] = k /\ s # <<>> /\ Head(s) = k
      /\ t \in Seq(Key) /\ Len(t) = 2 /\ t[1] = k /\ t[2] = k /\ t # <<>> /\ Head(t) = k
      /\ <<>> \in Seq(Key) /\ Len(<<>>) = 0
  OBVIOUS
<1> HIDE DEF s, t
<1>2. Append(<<>>, k) = s
  <2>1. /\ Append(<<>>, k) \in Seq(Key) /\ Len(Append(<<>>, k)) = 1
        /\ Append(<<>>, k)[1] = k
    BY <1>1, AppendProperties
  <2>2. QED
    BY <1>1, <2>1, SeqEqual
<1>3. Append(s, k) = t
  <2>1. /\ Append(s, k) \in Seq(Key) /\ Len(Append(s, k)) = 2
        /\ Append(s, k)[1] = k /\ Append(s, k)[2] = k
    BY <1>1, AppendProperties
  <2>2. QED
    BY <1>1, <2>1, SeqEqual
<1>4. Tail(s) = <<>>
  <2>1. Tail(s) \in Seq(Key) /\ Len(Tail(s)) = Len(s) - 1
    BY <1>1, HeadTailProperties
  <2>2. Len(Tail(s)) = 0
    BY <1>1, <2>1
  <2>3. QED
    BY <2>1, <2>2, EmptySeq
<1>5. Tail(t) = s
  <2> DEFINE u == Tail(t)
  <2>1. u \in Seq(Key) /\ Len(u) = Len(t) - 1 /\ \A i \in 1 .. Len(u) : u[i] = t[i + 1]
    BY <1>1, HeadTailProperties
  <2> HIDE DEF u
  <2>2. Len(u) = 1
    BY <1>1, <2>1
  <2>3. \A i \in 1 .. 1 : u[i] = s[i]
    BY <1>1, <2>1, <2>2
  <2>4. u = s
    BY <1>1, <2>1, <2>2, <2>3, SeqEqual
  <2>5. QED
    BY <2>4 DEF u
<1>6. s # t
  BY <1>1
<1>7. QED
  BY <1>1, <1>2, <1>3, <1>4, <1>5, <1>6, Zenon DEF s, t

\* Both bytes of an answer go into the ring if it was empty and holds two.
LEMMA ParsedToRing ==
    ASSUME RingInv, ring.at = None, UNCHANGED reader,
           NEW d \in Thermometer, d.sends => d.reading > 0, Dht11!ParseToRing(d)
    PROVE  /\ RingInv' /\ ring'.at = None /\ [Queue!Next]_<<Content, reader.got>>
           /\ ClimateInv' /\ dev'.kind = d.kind /\ dev'.cnt = 0 /\ dev'.irq = d.irq
           /\ dev'.sends = d.sends /\ dev'.good = d.good
           /\ BUF_LEN > 2 /\ Content = <<>> => Content' = <<Outcome(d), Outcome(d)>>
<1> DEFINE key == Outcome(d)
<1>1. PutPair(key, key) /\ dev' = [d EXCEPT !.cnt = 0] /\ key \in Key
  BY ClimateFacts, Dht11Shares DEF Dht11!ParseToRing, Outcome
<1>2. /\ dev' \in Thermometer /\ dev'.kind = d.kind /\ dev'.cnt = 0 /\ dev'.irq = d.irq
      /\ dev'.reading = d.reading /\ dev'.sends = d.sends /\ dev'.good = d.good
  <2>1. 0 \in Nat
    OBVIOUS
  <2>2. QED
    BY <1>1, <2>1, Zenon DEF Thermometer
<1> HIDE DEF key
<1>3. /\ RingInv' /\ ring'.at = None /\ [Queue!Next]_<<Content, reader.got>>
      /\ ~NoRoomFor(2) => Content' = Append(Append(Content, key), key)
  BY <1>1, PairStep, PairQueue
<1>4. ASSUME BUF_LEN > 2, Content = <<>> PROVE ~NoRoomFor(2)
  <2>1. ring.r = ring.w /\ ring.r \in Index /\ ring.w \in Index /\ BUF_LEN \in Nat
    BY <1>4, ContentKeys, IndexFacts DEF IsEmpty, RingInv, Rings
  <2>2. ring.r - ring.w - 1 = -1
    BY <2>1, IndexFacts
  <2> DEFINE x == ring.r - ring.w - 1
  <2>3. x \in Int /\ x < 0 /\ -BUF_LEN <= x /\ x < BUF_LEN
    BY <1>4, <2>1, <2>2
  <2>4. x % BUF_LEN = BUF_LEN - 1
    <3>1. x = -1
      BY <2>2
    <3> HIDE DEF x
    <3>2. x % BUF_LEN = IF x < 0 THEN x + BUF_LEN ELSE x
      <4>1. BUF_LEN \in Nat /\ BUF_LEN > 1
        BY IndexFacts
      <4>2. QED
        BY <2>3, <4>1, ModBelow
    <3>3. QED
      BY <2>1, <3>1, <3>2
  <2>5. QED
    BY <1>4, <2>1, <2>4 DEF NoRoomFor
<1>5. Append(Append(<<>>, key), key) = <<key, key>>
  BY <1>1, Twins
<1>6. ClimateInv'
  BY <1>2, Zenon DEF ClimateInv
<1>7. QED
  BY <1>2, <1>3, <1>4, <1>5, <1>6, Zenon DEF key

\* val and g_flag say the same if g_flag was not set.
LEMMA ParsedToFlags ==
    ASSUME NEW d \in Thermometer, d.sends => d.reading > 0, Dht11!ParseToFlags(d)
    PROVE  /\ ring' = ring /\ ClimateInv' /\ dev'.kind = d.kind /\ dev'.cnt = d.cnt
           /\ dev'.irq = d.irq /\ dev'.sends = d.sends /\ dev'.good = d.good /\ dev'.done
           /\ d.flag = 0 => Result(dev') = Outcome(d)
<1> DEFINE flag == IF d.cnt < Dht11!ENOUGH THEN -1 ELSE d.flag
           val == IF d.cnt < Dht11!ENOUGH THEN d.val ELSE d.times
<1>1. ring' = ring /\ dev' = [d EXCEPT !.done = TRUE, !.flag = flag, !.val = val]
  BY DEF Dht11!ParseToFlags
<1>2. flag \in {0, -1} /\ val \in {Dht11!Garbled} \cup 0 .. MaxReading /\ TRUE \in BOOLEAN
  BY ClimateFacts
<1> HIDE DEF flag, val
<1>3. /\ dev' \in Thermometer /\ dev'.kind = d.kind /\ dev'.cnt = d.cnt /\ dev'.irq = d.irq
      /\ dev'.reading = d.reading /\ dev'.sends = d.sends /\ dev'.good = d.good
      /\ dev'.done = TRUE /\ dev'.flag = flag /\ dev'.val = val
  BY <1>1, <1>2, Zenon DEF Thermometer
<1>4. ASSUME d.flag = 0 PROVE Result(dev') = Outcome(d)
  <2>1. Result(dev') = IF flag # 0 \/ val = Dht11!Garbled THEN Dht11!Error ELSE val
    BY <1>3, Zenon DEF Result
  <2>2. QED
    BY <1>4, <2>1, ClimateFacts DEF flag, val, Outcome
<1>5. ClimateInv'
  BY <1>3, Zenon DEF ClimateInv
<1>6. QED
  BY <1>1, <1>3, <1>4, <1>5, Zenon

\* A read starts the sensor and listens; the steps of the sensor are the same in
\* both drivers but for the parsing.
LEMMA PulseStep ==
    ASSUME ClimateInv, RingInv, NEW cnt \in Nat, Dht11!Pulse(cnt)
    PROVE  /\ ClimateInv' /\ RingInv' /\ UNCHANGED <<ring, timer, Content, reader.got>>
           /\ reader.pc = "user" /\ reader'.pc = "listen" /\ reader'.keys = <<>>
           /\ reader'.cut = reader.cut
           /\ dev'.kind = dev.kind /\ dev'.cnt = cnt /\ dev'.irq = dev.irq /\ dev'.flag = dev.flag
           /\ dev'.done = dev.done /\ dev'.good = Dht11!Error
<1>1. /\ reader.pc = "user" /\ reader' = [reader EXCEPT !.pc = "listen", !.keys = <<>>]
      /\ UNCHANGED <<ring, timer>>
  BY Dht11Shares DEF Dht11!Pulse, At
<1>2. PICK answers \in BOOLEAN :
          /\ answers => dev.reading < MaxReading
          /\ dev' = [dev EXCEPT !.cnt = cnt, !.sends = answers, !.good = Dht11!Error,
                                !.reading = IF answers THEN dev.reading + 1 ELSE dev.reading]
  BY DEF Dht11!Pulse
<1> DEFINE reading == IF answers THEN dev.reading + 1 ELSE dev.reading
<1>3. dev \in Thermometer /\ dev.reading \in 0 .. MaxReading /\ MaxReading \in Nat
  BY ClimateFacts DEF ClimateInv
<1>4. reading \in 0 .. MaxReading /\ (answers => reading > 0)
  BY <1>2, <1>3
<1> HIDE DEF reading
<1>5. /\ dev' \in Thermometer /\ dev'.kind = dev.kind /\ dev'.cnt = cnt /\ dev'.irq = dev.irq
      /\ dev'.flag = dev.flag /\ dev'.done = dev.done /\ dev'.good = Dht11!Error
      /\ dev'.sends = answers /\ dev'.reading = reading
  <2>1. Dht11!Error \in {Dht11!Error} \cup 1 .. MaxReading
    OBVIOUS
  <2>2. dev' = [dev EXCEPT !.cnt = cnt, !.sends = answers, !.good = Dht11!Error, !.reading = reading]
    BY <1>2 DEF reading
  <2>3. QED
    BY <1>3, <1>4, <2>1, <2>2, Zenon DEF Thermometer
<1>6. ClimateInv'
  BY <1>4, <1>5, Zenon DEF ClimateInv
<1>7. /\ reader' \in Process /\ reader'.pc = "listen" /\ reader'.keys = <<>>
      /\ reader'.cut = reader.cut /\ reader'.got = reader.got
  <2>1. <<>> \in Seq(Key) /\ reader \in Process
    BY DEF RingInv
  <2>2. QED
    BY <1>1, <2>1, Zenon DEF Process
<1>8. RingInv' /\ UNCHANGED <<Content, reader.got>>
  BY <1>1, <1>7, RingRests
<1>9. QED
  BY <1>1, <1>5, <1>6, <1>7, <1>8

\* The pulse has been sent: the driver listens.
LEMMA ListenStep ==
    ASSUME ClimateInv, RingInv, Dht11!Listen
    PROVE  /\ ClimateInv' /\ RingInv' /\ UNCHANGED <<ring, Content, reader.got>> /\ timer' = 0
           /\ reader.pc = "listen" /\ reader'.pc = "wait" /\ reader'.keys = reader.keys
           /\ reader'.cut = reader.cut /\ dev'.irq
           /\ dev'.kind = dev.kind /\ dev'.cnt = dev.cnt /\ dev'.sends = dev.sends
           /\ dev'.times = dev.times /\ dev'.flag = dev.flag
           /\ dev'.done = dev.done /\ dev'.good = dev.good
<1>1. /\ reader.pc = "listen" /\ reader' = [reader EXCEPT !.pc = "wait"]
      /\ dev' = [dev EXCEPT !.irq = TRUE] /\ ring' = ring /\ timer' = 0
  BY Dht11Shares DEF Dht11!Listen, At
<1>2. /\ dev' \in Thermometer /\ dev'.kind = dev.kind /\ dev'.cnt = dev.cnt /\ dev'.irq = TRUE
      /\ dev'.sends = dev.sends /\ dev'.times = dev.times /\ dev'.flag = dev.flag
      /\ dev'.done = dev.done /\ dev'.good = dev.good /\ dev'.reading = dev.reading
  <2>1. TRUE \in BOOLEAN /\ dev \in Thermometer
    BY DEF ClimateInv
  <2>2. QED
    BY <1>1, <2>1, Zenon DEF Thermometer
<1>3. /\ reader' \in Process /\ reader'.pc = "wait" /\ reader'.keys = reader.keys
      /\ reader'.cut = reader.cut /\ reader'.got = reader.got
  BY <1>1, Zenon DEF RingInv, Process
<1>4. RingInv' /\ UNCHANGED <<Content, reader.got>>
  BY <1>1, <1>3, RingRests
<1>5. QED
  BY <1>1, <1>2, <1>3, <1>4, Zenon DEF ClimateInv

\* The sensor answers while nobody listens.
LEMMA MissedStep ==
    ASSUME ClimateInv, RingInv, Dht11!Missed
    PROVE  /\ ClimateInv' /\ RingInv' /\ UNCHANGED <<ring, timer, reader, Content>>
           /\ ~dev.irq /\ ~dev'.sends
           /\ dev'.kind = dev.kind /\ dev'.cnt = dev.cnt /\ dev'.irq = dev.irq
           /\ dev'.times = dev.times /\ dev'.flag = dev.flag /\ dev'.val = dev.val
           /\ dev'.done = dev.done /\ dev'.good = dev.good
<1>1. /\ dev' = [dev EXCEPT !.sends = FALSE] /\ UNCHANGED <<ring, timer, reader>>
      /\ ~dev.irq
  BY DEF Dht11!Missed
<1>2. /\ dev' \in Thermometer /\ dev'.kind = dev.kind /\ dev'.cnt = dev.cnt /\ dev'.irq = dev.irq
      /\ dev'.sends = FALSE /\ dev'.times = dev.times /\ dev'.flag = dev.flag /\ dev'.val = dev.val
      /\ dev'.done = dev.done /\ dev'.good = dev.good
  <2>1. FALSE \in BOOLEAN /\ dev \in Thermometer
    BY DEF ClimateInv
  <2>2. QED
    BY <1>1, <2>1, Zenon DEF Thermometer
<1>3. RingInv' /\ UNCHANGED Content
  BY <1>1, RingRests DEF RingInv
<1>4. QED
  BY <1>1, <1>2, <1>3, Zenon DEF ClimateInv

\* Edges that arrive are told, and the 84th is followed by the parsing.
LEMMA AnswerStep ==
    ASSUME ClimateInv, Dht11!Answer
    PROVE  /\ dev.irq /\ dev.sends /\ reader' = reader
           /\ \/ /\ UNCHANGED <<ring, timer>> /\ ClimateInv' /\ ~dev'.sends
                 /\ dev'.kind = dev.kind /\ dev'.irq = dev.irq /\ dev'.flag = dev.flag
                 /\ dev'.done = dev.done
                 /\ dev.cnt = 0 => dev'.good = Outcome(dev')
              \/ \E d \in Thermometer :
                     /\ Dht11!Parse(d) /\ timer' = Off
                     /\ d.kind = dev.kind /\ ~d.sends /\ d.irq = dev.irq /\ d.flag = dev.flag
                     /\ dev.cnt = 0 => d.good = Outcome(d)
<1>1. dev.irq /\ dev.sends /\ reader' = reader
  BY DEF Dht11!Answer
<1>2. PICK n \in {Dht11!ENOUGH - 1, Dht11!ENOUGH, Dht11!EDGES},
           times \in {dev.reading, Dht11!Garbled} :
          IF n = Dht11!EDGES THEN Dht11!Parse(Dht11!Told(n, times)) /\ timer' = Dht11!Off
          ELSE dev' = Dht11!Told(n, times) /\ UNCHANGED <<ring, timer>>
  BY DEF Dht11!Answer
<1> DEFINE d == Dht11!Told(n, times)
<1>3. n \in Nat
  BY ClimateFacts
<1>4. /\ d \in Thermometer /\ d.kind = dev.kind /\ ~d.sends
      /\ d.irq = dev.irq /\ d.flag = dev.flag /\ d.val = dev.val /\ d.done = dev.done
      /\ dev.cnt = 0 => d.good = Outcome(d)
  BY <1>1, <1>3, ToldFacts, Zenon
<1>5. CASE n = Dht11!EDGES
  <2>1. Dht11!Parse(d) /\ timer' = Off
    BY <1>2, <1>5, Dht11Shares, Zenon
  <2> HIDE DEF d
  <2>2. QED
    BY <1>1, <1>4, <2>1, Zenon
<1>6. CASE n # Dht11!EDGES
  <2>1. dev' = d /\ UNCHANGED <<ring, timer>>
    BY <1>2, <1>6, Zenon
  <2> HIDE DEF d
  <2>2. ClimateInv'
    BY <1>4, <2>1, Zenon DEF ClimateInv
  <2>3. QED
    BY <1>1, <1>4, <2>1, <2>2, Zenon
<1>7. QED
  BY <1>5, <1>6

\* The ring's driver.  As long as no signal cuts a read short, the ring is empty but
\* for the answer to the read that is running, and the timer runs only for it.
Pair == <<dev.good, dev.good>>

Unanswered == /\ timer = 0 /\ Content = <<>>
              /\ dev.sends => dev.cnt = 0
              /\ ~dev.sends => Outcome(dev) = dev.good

Answered == timer = Off /\ Content = Pair /\ ~dev.sends /\ dev.cnt = 0

RingFresh ==
    /\ reader.pc \in {"user", "listen", "wait", "fetch", "bump"}
    /\ reader.pc \in {"user", "listen"} =>
           Content = <<>> /\ ~dev.irq /\ timer = Off /\ dev.cnt = 0
    /\ reader.pc = "user" => reader.keys \in {<<>>, Pair}
    /\ reader.pc = "listen" => reader.keys = <<>> /\ dev.good = Dht11!Error
    /\ reader.pc = "wait" => dev.irq /\ reader.keys = <<>> /\ (Unanswered \/ Answered)
    /\ reader.pc \in {"fetch", "bump"} => timer = Off /\ dev.cnt = 0 /\ ~dev.sends
    /\ reader.pc = "fetch" => \/ reader.keys = <<>> /\ Content = Pair
                              \/ reader.keys = <<dev.good>> /\ Content = <<dev.good>>
    /\ reader.pc = "bump" => /\ ~dev.irq
                             /\ \/ reader.keys = <<dev.good>> /\ Content = Pair
                                \/ reader.keys = Pair /\ Content = <<dev.good>>

RingFreshInv == ~reader.cut => RingFresh

\* A read that gets the two bytes; the one that moves r to the end returns.
LEMMA FreshGets ==
    ASSUME ClimateInv, RingInv, RingFresh, GetKeys(2), ~dev.irq, dev' = dev, timer' = timer
    PROVE  RingFresh'
<1>0. /\ dev.good \in Key /\ reader \in Process /\ 0 \in Key
      /\ (Content = <<>> <=> ring.r = ring.w)
  BY ClimateFacts, ContentKeys, IndexFacts DEF RingInv, ClimateInv, IsEmpty
<1> DEFINE g == dev.good
<1>a. /\ Append(<<>>, g) = <<g>> /\ Append(<<g>>, g) = <<g, g>>
      /\ <<g>> # <<>> /\ <<g, g>> # <<>>
      /\ Head(<<g>>) = g /\ Head(<<g, g>>) = g
      /\ Tail(<<g>>) = <<>> /\ Tail(<<g, g>>) = <<g>>
      /\ Len(<<g>>) = 1 /\ Len(<<g, g>>) = 2
  BY <1>0, Twins, Zenon
<1>1. CASE Fetch
  <2>1. /\ reader.pc = "fetch" /\ ring.r # ring.w /\ UNCHANGED <<ring, Content>>
        /\ reader' = [reader EXCEPT !.keys = Append(reader.keys, ring.slot[ring.r]), !.pc = "bump"]
    BY <1>1 DEF Fetch, At, IsEmpty, Content
  <2>2. /\ reader'.pc = "bump" /\ reader'.keys = Append(reader.keys, ring.slot[ring.r])
    BY <1>0, <2>1, Zenon DEF Process
  <2>3. Head(Content) = ring.slot[ring.r]
    BY <2>1, FetchCopies
  <2>4. \/ reader.keys = <<>> /\ Content = <<g, g>>
        \/ reader.keys = <<g>> /\ Content = <<g>>
    BY <2>1 DEF RingFresh, Pair
  <2>5. \/ reader'.keys = <<g>> /\ Content' = <<g, g>>
        \/ reader'.keys = <<g, g>> /\ Content' = <<g>>
    BY <1>a, <2>1, <2>2, <2>3, <2>4, Zenon
  <2>6. timer = Off /\ dev.cnt = 0 /\ ~dev.sends
    BY <2>1 DEF RingFresh
  <2>7. QED
    BY <2>2, <2>5, <2>6, Zenon DEF RingFresh, Pair
<1>2. CASE FetchNothing(2)
  <2>1. reader.pc = "fetch" /\ Content = <<>>
    BY <1>0, <1>2 DEF FetchNothing, At, IsEmpty
  <2>2. QED
    BY <1>a, <2>1, Zenon DEF RingFresh, Pair
<1>3. CASE Bump(2)
  <2>1. /\ reader.pc = "bump" /\ Content' = Tail(Content)
        /\ reader' = [reader EXCEPT !.pc = After(reader.keys, 2), !.got = Head(Content)]
    BY <1>3, BumpGets DEF Bump, At
  <2>2. reader'.pc = After(reader.keys, 2) /\ reader'.keys = reader.keys
    BY <1>0, <2>1, Zenon DEF Process
  <2>3. timer = Off /\ dev.cnt = 0 /\ ~dev.sends /\ ~dev.irq
    BY <2>1 DEF RingFresh
  <2>4. CASE reader.keys = <<g>> /\ Content = <<g, g>>
    <3>1. reader'.pc = "fetch" /\ reader'.keys = <<g>> /\ Content' = <<g>>
      <4>1. After(<<g>>, 2) = "fetch"
        BY <1>a DEF After
      <4>2. QED
        BY <1>a, <2>1, <2>2, <2>4, <4>1, Zenon
    <3>2. QED
      BY <2>3, <3>1, Zenon DEF RingFresh
  <2>5. CASE reader.keys = <<g, g>> /\ Content = <<g>>
    <3>1. reader'.pc = "user" /\ reader'.keys = <<g, g>> /\ Content' = <<>>
      <4>1. After(<<g, g>>, 2) = "user"
        BY <1>a DEF After
      <4>2. QED
        BY <1>a, <2>1, <2>2, <2>5, <4>1, Zenon
    <3>2. QED
      BY <2>3, <3>1, Zenon DEF RingFresh, Pair
  <2>6. QED
    BY <2>1, <2>4, <2>5, Zenon DEF RingFresh, Pair
<1>4. QED
  BY <1>1, <1>2, <1>3 DEF GetKeys

\* Every step of the driver that puts its answer in the ring.
LEMMA RingAnswers ==
    ASSUME ClimateInv, RingInv, ring.at = None, dev.kind = "dht11ring", Dht11!RingDht11Next
    PROVE  /\ ClimateInv' /\ dev'.kind = "dht11ring"
           /\ RingInv' /\ ring'.at = None /\ [Queue!Next]_<<Content, reader.got>>
           /\ BUF_LEN > 2 /\ RingFreshInv => RingFreshInv'
<1>0. /\ dev \in Thermometer /\ reader \in Process /\ (dev.sends => dev.reading > 0)
      /\ (Content = <<>> <=> IsEmpty) /\ 0 \in Nat /\ dev.good \in Key
  BY ClimateFacts, ContentKeys DEF RingInv, ClimateInv
<1>1. CASE Dht11!Pulse(0)
  <2>1. /\ ClimateInv' /\ RingInv' /\ UNCHANGED <<ring, timer, Content, reader.got>>
        /\ reader.pc = "user" /\ reader'.pc = "listen" /\ reader'.keys = <<>>
        /\ reader'.cut = reader.cut
        /\ dev'.kind = dev.kind /\ dev'.cnt = 0 /\ dev'.irq = dev.irq
        /\ dev'.good = Dht11!Error
    BY <1>0, <1>1, PulseStep
  <2>2. RingFresh => RingFresh'
    BY <2>1, Zenon DEF RingFresh
  <2>3. QED
    BY <2>1, <2>2 DEF RingFreshInv
<1>2. CASE Dht11!Listen
  <2>1. /\ ClimateInv' /\ RingInv' /\ UNCHANGED <<ring, Content, reader.got>> /\ timer' = 0
        /\ reader.pc = "listen" /\ reader'.pc = "wait" /\ reader'.keys = reader.keys
        /\ reader'.cut = reader.cut /\ dev'.irq
        /\ dev'.kind = dev.kind /\ dev'.cnt = dev.cnt /\ dev'.good = dev.good
    BY <1>2, ListenStep
  <2>2. ASSUME RingFresh PROVE RingFresh'
    <3>1. Content = <<>> /\ dev.cnt = 0 /\ reader.keys = <<>> /\ dev.good = Dht11!Error
      BY <2>1, <2>2 DEF RingFresh
    <3>2. Outcome(dev') = Dht11!Error
      BY <2>1, <3>1, ClimateFacts DEF Outcome
    <3>3. Unanswered'
      BY <2>1, <3>1, <3>2, Zenon DEF Unanswered
    <3>4. QED
      BY <2>1, <3>1, <3>3, Zenon DEF RingFresh
  <2>3. QED
    BY <2>1, <2>2 DEF RingFreshInv
<1>3. CASE Dht11!Missed
  <2>1. /\ ClimateInv' /\ RingInv' /\ UNCHANGED <<ring, timer, reader, Content>>
        /\ ~dev.irq /\ ~dev'.sends
        /\ dev'.kind = dev.kind /\ dev'.cnt = dev.cnt /\ dev'.irq = dev.irq
        /\ dev'.good = dev.good
    BY <1>3, MissedStep
  <2>2. RingFresh => RingFresh'
    BY <2>1, Zenon DEF RingFresh, Pair
  <2>3. QED
    BY <2>1, <2>2 DEF RingFreshInv
<1>4. CASE Dht11!Answer
  <2>1. /\ dev.irq /\ dev.sends /\ reader' = reader
        /\ RingFresh => reader.pc = "wait" /\ reader.keys = <<>> /\ Content = <<>> /\ dev.cnt = 0
                        /\ timer = 0
    BY <1>4, AnswerStep, Zenon DEF RingFresh, Unanswered, Answered
  <2>2. CASE /\ UNCHANGED <<ring, timer>> /\ ClimateInv' /\ ~dev'.sends
             /\ dev'.kind = dev.kind /\ dev'.irq = dev.irq /\ dev'.flag = dev.flag
             /\ dev'.done = dev.done
             /\ dev.cnt = 0 => dev'.good = Outcome(dev')
    <3>1. RingInv' /\ UNCHANGED <<Content, reader.got>>
      BY <2>1, <2>2, RingRests DEF RingInv
    <3>2. RingFresh => RingFresh'
      BY <2>1, <2>2, <3>1, Zenon DEF RingFresh, Unanswered
    <3>3. QED
      BY <2>1, <2>2, <3>1, <3>2 DEF RingFreshInv
  <2>3. CASE \E d \in Thermometer :
                 /\ Dht11!Parse(d) /\ timer' = Off
                 /\ d.kind = dev.kind /\ ~d.sends /\ d.irq = dev.irq /\ d.flag = dev.flag
                 /\ dev.cnt = 0 => d.good = Outcome(d)
    <3>1. PICK d \in Thermometer :
                 /\ Dht11!Parse(d) /\ timer' = Off
                 /\ d.kind = dev.kind /\ ~d.sends /\ d.irq = dev.irq /\ d.flag = dev.flag
                 /\ dev.cnt = 0 => d.good = Outcome(d)
      BY <2>3
    <3>2. Dht11!ParseToRing(d)
      BY <3>1 DEF Dht11!Parse
    <3>3. /\ RingInv' /\ ring'.at = None /\ [Queue!Next]_<<Content, reader.got>>
          /\ ClimateInv' /\ dev'.kind = d.kind /\ dev'.cnt = 0 /\ dev'.irq = d.irq
          /\ dev'.sends = d.sends /\ dev'.good = d.good
          /\ BUF_LEN > 2 /\ Content = <<>> => Content' = <<Outcome(d), Outcome(d)>>
      BY <2>1, <3>1, <3>2, ParsedToRing
    <3>4. BUF_LEN > 2 /\ RingFresh => RingFresh'
      BY <2>1, <3>1, <3>3, Zenon DEF RingFresh, Answered, Pair
    <3>5. QED
      BY <2>1, <3>1, <3>3, <3>4 DEF RingFreshInv
  <2>4. QED
    BY <1>4, <2>2, <2>3, AnswerStep
<1>5. CASE Dht11!Expire
  <2>1. /\ timer = 0 /\ (dev.sends => reader.pc = "listen") /\ timer' = Off
        /\ Dht11!ParseToRing(dev) /\ reader' = reader
    BY <1>5, Dht11Shares DEF Dht11!Expire, Dht11!Parse, At
  <2>2. RingFresh => /\ reader.pc = "wait" /\ reader.keys = <<>> /\ Content = <<>> /\ ~dev.sends
                     /\ dev.irq /\ Outcome(dev) = dev.good
    <3>1. 0 # Off
      BY DEF Off
    <3>2. QED
      BY <2>1, <3>1, Zenon DEF RingFresh, Unanswered, Answered
  <2>3. /\ RingInv' /\ ring'.at = None /\ [Queue!Next]_<<Content, reader.got>>
        /\ ClimateInv' /\ dev'.kind = dev.kind /\ dev'.cnt = 0 /\ dev'.irq = dev.irq
        /\ dev'.sends = dev.sends /\ dev'.good = dev.good
        /\ BUF_LEN > 2 /\ Content = <<>> => Content' = <<Outcome(dev), Outcome(dev)>>
    BY <1>0, <2>1, ParsedToRing
  <2>4. BUF_LEN > 2 /\ RingFresh => RingFresh'
    BY <2>1, <2>2, <2>3, Zenon DEF RingFresh, Answered, Pair
  <2>5. QED
    BY <2>1, <2>3, <2>4 DEF RingFreshInv
<1>6. CASE Signal
  <2>1. RingInv' /\ ring' = ring /\ UNCHANGED <<Content, reader.got, dev>>
    BY <1>6, ReadRests DEF Signal
  <2>2. reader'.cut
    <3>1. reader' = [reader EXCEPT !.pc = "fetch", !.cut = TRUE]
      BY <1>6 DEF Signal
    <3>2. QED
      BY <1>0, <3>1 DEF Process
  <2>3. QED
    BY <2>1, <2>2 DEF RingFreshInv, ClimateInv
<1>7. CASE Wake
  <2>1. RingInv' /\ ring' = ring /\ UNCHANGED <<Content, reader.got, dev, timer>>
    BY <1>7, ReadRests DEF Wake
  <2>2. reader.pc = "wait" /\ reader' = [reader EXCEPT !.pc = "fetch"] /\ Content # <<>>
    BY <1>0, <1>7 DEF Wake, At
  <2>3. reader'.pc = "fetch" /\ reader'.keys = reader.keys /\ reader'.cut = reader.cut
    BY <1>0, <2>2, Zenon DEF Process
  <2>4. RingFresh => RingFresh'
    BY <2>1, <2>2, <2>3, Zenon DEF RingFresh, Unanswered, Answered, Pair
  <2>5. QED
    BY <2>1, <2>3, <2>4 DEF RingFreshInv, ClimateInv
<1>8. CASE Dht11!FreeIrq
  <2>1. /\ reader.pc = "fetch" /\ dev' = [dev EXCEPT !.irq = FALSE]
        /\ UNCHANGED <<ring, timer, reader>>
    BY <1>8, Dht11Shares DEF Dht11!FreeIrq, At
  <2>2. /\ dev' \in Thermometer /\ dev'.kind = dev.kind /\ dev'.cnt = dev.cnt
        /\ dev'.sends = dev.sends /\ dev'.good = dev.good /\ dev'.reading = dev.reading
    <3>1. FALSE \in BOOLEAN
      OBVIOUS
    <3>2. QED
      BY <1>0, <2>1, <3>1, Zenon DEF Thermometer
  <2>3. RingInv' /\ UNCHANGED <<Content, reader.got>>
    BY <2>1, RingRests DEF RingInv
  <2>4. RingFresh => RingFresh'
    BY <2>1, <2>2, <2>3, Zenon DEF RingFresh, Pair
  <2>5. ClimateInv'
    BY <1>0, <2>2, Zenon DEF ClimateInv
  <2>6. QED
    BY <2>1, <2>2, <2>3, <2>4, <2>5 DEF RingFreshInv
<1>9. CASE ~dev.irq /\ GetKeys(2)
  <2>1. /\ RingInv' /\ ring'.at = None /\ UNCHANGED <<timer, dev>>
        /\ [Queue!Next]_<<Content, reader.got>>
    BY <1>9, ReadStep DEF Read
  <2>2. reader'.cut = reader.cut
    <3>1. CASE Fetch
      BY <1>0, <3>1, Zenon DEF Fetch, Process
    <3>2. CASE FetchNothing(2)
      BY <1>0, <3>2, Zenon DEF FetchNothing, Process
    <3>3. CASE Bump(2)
      BY <1>0, <3>3, Zenon DEF Bump, Process
    <3>4. QED
      BY <1>9, <3>1, <3>2, <3>3 DEF GetKeys
  <2>3. RingFresh => RingFresh'
    BY <1>9, <2>1, FreshGets
  <2>4. QED
    BY <2>1, <2>2, <2>3 DEF RingFreshInv, ClimateInv
<1>10. QED
  BY <1>1, <1>2, <1>3, <1>4, <1>5, <1>6, <1>7, <1>8, <1>9, Dht11Shares
     DEF Dht11!RingDht11Next, Dht11!RingReturns

\* The driver that answers through val and the flags: as long as no signal cuts a
\* read short they are clear when a read starts, and set only by its answer.
Untold == /\ timer = 0 /\ ~dev.done /\ dev.flag = 0
          /\ dev.sends => dev.cnt = 0
          /\ ~dev.sends => Outcome(dev) = dev.good

Said == timer = Off /\ dev.done /\ ~dev.sends /\ Result(dev) = dev.good

FlagsFresh ==
    /\ reader.pc \in {"user", "listen", "wait", "end", "copy"}
    /\ reader.pc \in {"user", "listen"} =>
           ~dev.irq /\ timer = Off /\ dev.cnt = 0 /\ ~dev.done /\ dev.flag = 0
    /\ reader.pc = "user" => reader.keys \in {<<>>, Pair}
    /\ reader.pc = "listen" => dev.good = Dht11!Error
    /\ reader.pc = "wait" => dev.irq /\ (Untold \/ Said)
    /\ reader.pc = "end" => Said
    /\ reader.pc = "copy" => /\ timer = Off /\ ~dev.irq /\ ~dev.done /\ dev.cnt = 0
                             /\ Result(dev) = dev.good

FlagsFreshInv == ~reader.cut => FlagsFresh

\* Every step of the driver that keeps its answer in g_flag.
LEMMA FlagsAnswer ==
    ASSUME ClimateInv, RingInv, dev.kind = "dht11", Dht11!FlagsDht11Next
    PROVE  /\ ClimateInv' /\ dev'.kind = "dht11" /\ ring' = ring
           /\ RingInv' /\ UNCHANGED <<Content, reader.got>>
           /\ FlagsFreshInv => FlagsFreshInv'
<1>0. /\ dev \in Thermometer /\ reader \in Process /\ (dev.sends => dev.reading > 0)
      /\ dev.cnt \in Nat /\ 0 \in Nat /\ TRUE \in BOOLEAN /\ FALSE \in BOOLEAN
  BY ClimateFacts DEF RingInv, ClimateInv
<1>a. ASSUME UNCHANGED <<ring, reader>> PROVE RingInv' /\ UNCHANGED <<Content, reader.got>>
  BY <1>a, RingRests DEF RingInv
<1>1. CASE Dht11!Pulse(dev.cnt)
  <2>1. /\ ClimateInv' /\ RingInv' /\ UNCHANGED <<ring, timer, Content, reader.got>>
        /\ reader.pc = "user" /\ reader'.pc = "listen" /\ reader'.cut = reader.cut
        /\ dev'.kind = dev.kind /\ dev'.cnt = dev.cnt /\ dev'.irq = dev.irq /\ dev'.flag = dev.flag
        /\ dev'.done = dev.done /\ dev'.good = Dht11!Error
    BY <1>0, <1>1, PulseStep
  <2>2. FlagsFresh => FlagsFresh'
    BY <2>1, Zenon DEF FlagsFresh
  <2>3. QED
    BY <2>1, <2>2 DEF FlagsFreshInv
<1>2. CASE Dht11!Listen
  <2>1. /\ ClimateInv' /\ RingInv' /\ UNCHANGED <<ring, Content, reader.got>> /\ timer' = 0
        /\ reader.pc = "listen" /\ reader'.pc = "wait" /\ reader'.cut = reader.cut /\ dev'.irq
        /\ dev'.kind = dev.kind /\ dev'.cnt = dev.cnt /\ dev'.flag = dev.flag
        /\ dev'.done = dev.done /\ dev'.good = dev.good
    BY <1>2, ListenStep
  <2>2. ASSUME FlagsFresh PROVE FlagsFresh'
    <3>1. dev.cnt = 0 /\ ~dev.done /\ dev.flag = 0 /\ dev.good = Dht11!Error
      BY <2>1, <2>2 DEF FlagsFresh
    <3>2. Outcome(dev') = Dht11!Error
      BY <2>1, <3>1, ClimateFacts DEF Outcome
    <3>3. Untold'
      BY <2>1, <3>1, <3>2, Zenon DEF Untold
    <3>4. QED
      BY <2>1, <3>3, Zenon DEF FlagsFresh
  <2>3. QED
    BY <2>1, <2>2 DEF FlagsFreshInv
<1>3. CASE Dht11!Missed
  <2>1. /\ ClimateInv' /\ RingInv' /\ UNCHANGED <<ring, timer, reader, Content>>
        /\ ~dev.irq /\ ~dev'.sends
        /\ dev'.kind = dev.kind /\ dev'.cnt = dev.cnt /\ dev'.irq = dev.irq
        /\ dev'.flag = dev.flag /\ dev'.val = dev.val /\ dev'.done = dev.done
        /\ dev'.good = dev.good
    BY <1>3, MissedStep
  <2>2. Result(dev') = Result(dev)
    BY <2>1, Zenon DEF Result
  <2>3. FlagsFresh => FlagsFresh'
    BY <2>1, <2>2, Zenon DEF FlagsFresh, Said, Pair
  <2>4. QED
    BY <2>1, <2>3 DEF FlagsFreshInv
<1>4. CASE Dht11!Answer
  <2>1. /\ dev.irq /\ dev.sends /\ reader' = reader
        /\ FlagsFresh => /\ reader.pc = "wait" /\ dev.cnt = 0 /\ timer = 0
                         /\ dev.flag = 0 /\ ~dev.done
    BY <1>4, AnswerStep, Zenon DEF FlagsFresh, Untold, Said
  <2>2. CASE /\ UNCHANGED <<ring, timer>> /\ ClimateInv' /\ ~dev'.sends
             /\ dev'.kind = dev.kind /\ dev'.irq = dev.irq /\ dev'.flag = dev.flag
             /\ dev'.done = dev.done
             /\ dev.cnt = 0 => dev'.good = Outcome(dev')
    <3>1. FlagsFresh => FlagsFresh'
      BY <2>1, <2>2, Zenon DEF FlagsFresh, Untold
    <3>2. QED
      BY <1>a, <2>1, <2>2, <3>1 DEF FlagsFreshInv
  <2>3. CASE \E d \in Thermometer :
                 /\ Dht11!Parse(d) /\ timer' = Off
                 /\ d.kind = dev.kind /\ ~d.sends /\ d.irq = dev.irq /\ d.flag = dev.flag
                 /\ dev.cnt = 0 => d.good = Outcome(d)
    <3>1. PICK d \in Thermometer :
                 /\ Dht11!Parse(d) /\ timer' = Off
                 /\ d.kind = dev.kind /\ ~d.sends /\ d.irq = dev.irq /\ d.flag = dev.flag
                 /\ dev.cnt = 0 => d.good = Outcome(d)
      BY <2>3
    <3>2. Dht11!ParseToFlags(d)
      BY <3>1 DEF Dht11!Parse
    <3>3. /\ ring' = ring /\ ClimateInv' /\ dev'.kind = d.kind /\ dev'.irq = d.irq
          /\ dev'.sends = d.sends /\ dev'.good = d.good /\ dev'.done
          /\ d.flag = 0 => Result(dev') = Outcome(d)
      BY <3>1, <3>2, ParsedToFlags
    <3>4. FlagsFresh => FlagsFresh'
      BY <2>1, <3>1, <3>3, Zenon DEF FlagsFresh, Said
    <3>5. QED
      BY <1>a, <2>1, <3>1, <3>3, <3>4 DEF FlagsFreshInv
  <2>4. QED
    BY <1>4, <2>2, <2>3, AnswerStep
<1>5. CASE Dht11!Expire
  <2>1. /\ timer = 0 /\ (dev.sends => reader.pc = "listen") /\ timer' = Off
        /\ Dht11!ParseToFlags(dev) /\ reader' = reader
    BY <1>5, Dht11Shares DEF Dht11!Expire, Dht11!Parse, At
  <2>2. FlagsFresh => /\ reader.pc = "wait" /\ ~dev.sends /\ dev.irq /\ dev.flag = 0
                      /\ Outcome(dev) = dev.good
    <3>1. 0 # Off
      BY DEF Off
    <3>2. QED
      BY <2>1, <3>1, Zenon DEF FlagsFresh, Untold, Said
  <2>3. /\ ring' = ring /\ ClimateInv' /\ dev'.kind = dev.kind /\ dev'.irq = dev.irq
        /\ dev'.sends = dev.sends /\ dev'.good = dev.good /\ dev'.done
        /\ dev.flag = 0 => Result(dev') = Outcome(dev)
    BY <1>0, <2>1, ParsedToFlags
  <2>4. FlagsFresh => FlagsFresh'
    BY <2>1, <2>2, <2>3, Zenon DEF FlagsFresh, Said
  <2>5. QED
    BY <1>a, <2>1, <2>3, <2>4 DEF FlagsFreshInv
<1>6. CASE Dht11!FlagsSignal
  <2>1. reader' = [reader EXCEPT !.pc = "end", !.cut = TRUE] /\ ring' = ring /\ dev' = dev
    BY <1>6 DEF Dht11!FlagsSignal
  <2>2. reader' \in Process /\ reader'.pc = "end" /\ reader'.cut = TRUE /\ reader'.got = reader.got
    BY <1>0, <2>1, Zenon DEF Process
  <2>3. RingInv' /\ UNCHANGED <<Content, reader.got>>
    BY <2>1, <2>2, RingRests
  <2>4. QED
    BY <2>1, <2>2, <2>3 DEF FlagsFreshInv, ClimateInv
<1>7. CASE Dht11!FlagsWake
  <2>1. /\ reader.pc = "wait" /\ dev.done /\ reader' = [reader EXCEPT !.pc = "end"]
        /\ UNCHANGED <<ring, timer, dev>>
    BY <1>7, Dht11Shares DEF Dht11!FlagsWake, At
  <2>2. /\ reader' \in Process /\ reader'.pc = "end" /\ reader'.cut = reader.cut
        /\ reader'.got = reader.got
    BY <1>0, <2>1, Zenon DEF Process
  <2>3. RingInv' /\ UNCHANGED <<Content, reader.got>>
    BY <2>1, <2>2, RingRests
  <2>4. FlagsFresh => FlagsFresh'
    BY <2>1, <2>2, Zenon DEF FlagsFresh, Untold, Said
  <2>5. QED
    BY <2>1, <2>2, <2>3, <2>4 DEF FlagsFreshInv, ClimateInv
<1>8. CASE Dht11!End
  <2>1. /\ reader.pc = "end" /\ reader' = [reader EXCEPT !.pc = "copy"]
        /\ dev' = [dev EXCEPT !.irq = FALSE, !.done = FALSE, !.cnt = 0]
        /\ UNCHANGED <<ring, timer>>
    BY <1>8, Dht11Shares DEF Dht11!End, At
  <2>2. /\ reader' \in Process /\ reader'.pc = "copy" /\ reader'.cut = reader.cut
        /\ reader'.got = reader.got
    BY <1>0, <2>1, Zenon DEF Process
  <2>3. /\ dev' \in Thermometer /\ dev'.kind = dev.kind /\ dev'.irq = FALSE /\ dev'.done = FALSE
        /\ dev'.cnt = 0 /\ dev'.sends = dev.sends /\ dev'.reading = dev.reading
        /\ dev'.flag = dev.flag /\ dev'.val = dev.val /\ dev'.good = dev.good
    BY <1>0, <2>1, Zenon DEF Thermometer
  <2>4. RingInv' /\ UNCHANGED <<Content, reader.got>>
    BY <2>1, <2>2, RingRests
  <2>5. Result(dev') = Result(dev)
    BY <2>3, Zenon DEF Result
  <2>6. FlagsFresh => FlagsFresh'
    BY <2>1, <2>2, <2>3, <2>5, Zenon DEF FlagsFresh, Said
  <2>7. QED
    BY <1>0, <2>1, <2>2, <2>3, <2>4, <2>6, Zenon DEF FlagsFreshInv, ClimateInv
<1>9. CASE Dht11!Copy
  <2> DEFINE key == Result(dev)
  <2>1. /\ reader.pc = "copy" /\ reader' = [reader EXCEPT !.pc = "user", !.keys = <<key, key>>]
        /\ dev' = [dev EXCEPT !.flag = 0] /\ UNCHANGED <<ring, timer>>
    BY <1>9, Dht11Shares DEF Dht11!Copy, At, Result
  <2>2. key \in Key
    BY <1>0, ClimateFacts, IndexFacts
  <2>3. <<key, key>> \in Seq(Key)
    BY <2>2, Twins
  <2>4. /\ reader' \in Process /\ reader'.pc = "user" /\ reader'.keys = <<key, key>>
        /\ reader'.cut = reader.cut /\ reader'.got = reader.got
    BY <1>0, <2>1, <2>3, Zenon DEF Process
  <2>5. /\ dev' \in Thermometer /\ dev'.kind = dev.kind /\ dev'.irq = dev.irq
        /\ dev'.done = dev.done /\ dev'.cnt = dev.cnt /\ dev'.sends = dev.sends
        /\ dev'.reading = dev.reading /\ dev'.flag = 0 /\ dev'.good = dev.good
    <3>1. 0 \in {0, -1}
      OBVIOUS
    <3>2. QED
      BY <1>0, <2>1, <3>1, Zenon DEF Thermometer
  <2>6. RingInv' /\ UNCHANGED <<Content, reader.got>>
    BY <2>1, <2>4, RingRests
  <2>7. FlagsFresh => FlagsFresh'
    BY <2>1, <2>4, <2>5, Zenon DEF FlagsFresh, Pair
  <2>8. QED
    BY <1>0, <2>1, <2>4, <2>5, <2>6, <2>7, Zenon DEF FlagsFreshInv, ClimateInv
<1>10. QED
  BY <1>1, <1>2, <1>3, <1>4, <1>5, <1>6, <1>7, <1>8, <1>9
     DEF Dht11!FlagsDht11Next, Dht11!FlagsReturn

\* Both thermometers start with no request.
LEMMA ClimateInit ==
    ASSUME NEW kind \in {"dht11", "dht11ring"}, Dht11!InitDht11(kind)
    PROVE  /\ ClimateInv /\ dev.kind = kind /\ RingFreshInv /\ FlagsFreshInv
           /\ RingInv /\ ring.at = None /\ Content = <<>>
<1>1. /\ InitRing /\ InitReader /\ timer = Off
      /\ dev = [kind |-> kind, cnt |-> 0, irq |-> FALSE, reading |-> 0, sends |-> FALSE,
                times |-> Dht11!Garbled, val |-> 0, flag |-> 0, done |-> FALSE,
                good |-> Dht11!Error]
  BY Dht11Shares DEF Dht11!InitDht11
<1>2. 0 \in Nat /\ 0 \in 0 .. MaxReading /\ FALSE \in BOOLEAN /\ 0 \in {0, -1}
  BY ClimateFacts
<1>3. ClimateInv /\ dev.kind = kind
  <2>1. /\ Dht11!Garbled \in {Dht11!Garbled} \cup 1 .. MaxReading
        /\ 0 \in {Dht11!Garbled} \cup 0 .. MaxReading
        /\ Dht11!Error \in {Dht11!Error} \cup 1 .. MaxReading
    BY <1>2
  <2>2. dev \in Thermometer /\ dev.sends = FALSE /\ dev.kind = kind
    BY <1>1, <1>2, <2>1, Zenon DEF Thermometer
  <2>3. QED
    BY <2>2 DEF ClimateInv
<1>4. RingInv /\ ring.at = None /\ Content = <<>>
  BY <1>1, RingInit
<1>5. /\ reader.pc = "user" /\ reader.keys = <<>> /\ ~dev.irq /\ dev.cnt = 0 /\ ~dev.done
      /\ dev.flag = 0
  BY <1>1 DEF InitReader
<1>6. RingFreshInv /\ FlagsFreshInv
  BY <1>1, <1>4, <1>5, Zenon DEF RingFreshInv, RingFresh, FlagsFreshInv, FlagsFresh
<1>7. QED
  BY <1>3, <1>4, <1>6

-------------------------------------------------------------------------------
\* Whatever driver is loaded.

DriversInv ==
    /\ drv \in {"template", "sr501", "sr04", "sr04untimed", "bench", "irda", "dht11", "dht11ring"}
    /\ RingInv /\ (drv # "sr04" => ring.at = None)
    /\ drv \in {"template", "sr501"} => ButtonInv
    /\ drv = "sr501" => timer = Off
    /\ drv \in {"sr04", "sr04untimed", "bench"} => SensorInv /\ EchoInv
    /\ drv = "irda" => ReceiverInv /\ PairInv
    /\ drv \in {"dht11", "dht11ring"} => ClimateInv /\ dev.kind = drv
    /\ drv = "dht11" => FlagsFreshInv
    /\ drv = "dht11ring" /\ BUF_LEN > 2 => RingFreshInv

\* Each of the eight drivers starts in the invariant.
LEMMA DriversInit == ASSUME Init PROVE DriversInv /\ Queue!Init
<1>1. DriversInv /\ Content = <<>>
  <2>1. CASE drv = "template" /\ GpioKeys!InitTemplate
    BY <2>1, ButtonInit, Zenon DEF DriversInv
  <2>2. CASE drv = "sr501" /\ GpioKeys!InitMotion
    <3>1. timer = Off
      BY <2>2, ButtonShares DEF GpioKeys!InitMotion
    <3>2. QED
      BY <2>2, <3>1, ButtonInit, Zenon DEF DriversInv
  <2>3. CASE drv \in {"sr04", "sr04untimed", "bench"} /\ Sr04!InitSr04
    BY <2>3, SensorInit, Zenon DEF DriversInv
  <2>4. CASE drv = "irda" /\ Irda!InitIrda
    BY <2>4, ReceiverInit, PairInit, Zenon DEF DriversInv
  <2>5. CASE drv \in {"dht11", "dht11ring"} /\ Dht11!InitDht11(drv)
    BY <2>5, ClimateInit, Zenon DEF DriversInv
  <2>6. QED
    BY <2>1, <2>2, <2>3, <2>4, <2>5 DEF Init
<1>2. reader.got \in Key
  BY <1>1 DEF DriversInv, RingInv, Process
<1>3. QED
  BY <1>1, <1>2 DEF Queue!Init

\* Each disjunct keeps what the invariant says of its driver, and is a step of the
\* queue or not seen by it.
LEMMA DriversStep ==
    ASSUME DriversInv, Next
    PROVE  DriversInv' /\ [Queue!Next]_<<Content, reader.got>>
<1>0. drv' = drv /\ RingInv
  BY DEF Next, DriversInv
<1>1. CASE Template
  <2>1. drv = "template" /\ GpioKeys!TemplateNext /\ ButtonInv /\ ring.at = None
    BY <1>1 DEF Template, DriversInv
  <2>2. ButtonInv' /\ RingInv' /\ ring'.at = None /\ [Queue!Next]_<<Content, reader.got>>
    BY <1>0, <2>1, ButtonStep, ButtonQueue
  <2>3. QED
    BY <1>0, <2>1, <2>2, Zenon DEF DriversInv
<1>2. CASE Sr501
  <2>1. drv = "sr501" /\ GpioKeys!Sr501Next /\ ButtonInv /\ ring.at = None /\ timer = Off
    BY <1>2 DEF Sr501, DriversInv
  <2>2. ButtonInv' /\ RingInv' /\ ring'.at = None /\ [Queue!Next]_<<Content, reader.got>>
    BY <1>0, <2>1, ButtonStep, ButtonQueue
  <2>3. timer' = Off
    <3>1. CASE Read(1)
      BY <1>0, <2>1, <3>1, ReadStep
    <3>2. CASE GpioKeys!Edge \/ GpioKeys!MotionIsr
      BY <2>1, <3>2 DEF GpioKeys!Edge, GpioKeys!MotionIsr
    <3>3. QED
      BY <2>1, <3>1, <3>2, ButtonShares DEF GpioKeys!Sr501Next
  <2>4. QED
    BY <1>0, <2>1, <2>2, <2>3, Zenon DEF DriversInv
<1>3. CASE Sr04Timed
  <2>1. drv = "sr04" /\ Sr04!Sr04Next /\ SensorInv /\ EchoInv
    BY <1>3 DEF Sr04Timed, DriversInv
  <2>2. SensorInv' /\ EchoInv' /\ RingInv' /\ [Queue!Next]_<<Content, reader.got>>
    BY <1>0, <2>1, SensorStep, SensorQueue
  <2>3. QED
    BY <1>0, <2>1, <2>2, Zenon DEF DriversInv
<1>4. CASE Sr04Untimed \/ Bench
  <2>1. /\ drv \in {"sr04untimed", "bench"} /\ (Sr04!Sr04UntimedNext \/ Sr04!BenchNext)
        /\ SensorInv /\ EchoInv /\ ring.at = None
    BY <1>4 DEF Sr04Untimed, Bench, DriversInv
  <2>2. /\ SensorInv' /\ EchoInv' /\ RingInv' /\ ring'.at = None
        /\ [Queue!Next]_<<Content, reader.got>>
    <3>1. /\ SensorInv' /\ EchoInv' /\ RingInv' /\ [Queue!Next]_<<Content, reader.got>>
      BY <1>0, <2>1, SensorStep, SensorQueue
    <3>2. CASE Read(1)
      BY <1>0, <2>1, <3>1, <3>2, ReadStep
    <3>3. CASE Sr04!PulseOnly \/ Sr04!SensorSteps
      <4>1. CASE Sr04!Measure /\ dev.phase = "high"
        <5> DEFINE key == Sr04!PING * dev.ping + Sr04!ECHO - dev.rising
        <5>1. Put(key) /\ reader' = reader /\ dev.rising # 0
          BY <4>1, Sr04Shares DEF Sr04!Measure
        <5>2. key \in Key
          BY <2>1, <4>1, <5>1, MeasuredTime
        <5> HIDE DEF key
        <5>3. ring'.at = None
          BY <1>0, <2>1, <5>1, <5>2, PutStep
        <5>4. QED
          BY <3>1, <5>3
      <4>2. CASE ring' = ring
        BY <2>1, <3>1, <4>2
      <4>3. QED
        BY <3>3, <4>1, <4>2 DEF Sr04!PulseOnly, Sr04!SensorSteps, Sr04!EchoRises, Sr04!NoEcho,
           Sr04!EchoFalls, Sr04!MissedRise, Sr04!Lose
    <3>4. QED
      BY <2>1, <3>2, <3>3, Sr04Shares DEF Sr04!Sr04UntimedNext, Sr04!BenchNext
  <2>3. QED
    BY <1>0, <2>1, <2>2, Zenon DEF DriversInv
<1>5. CASE IrdaLoaded
  <2>1. drv = "irda" /\ Irda!IrdaNext /\ ReceiverInv /\ PairInv /\ ring.at = None
    BY <1>5 DEF IrdaLoaded, DriversInv
  <2>2. /\ ReceiverInv' /\ PairInv' /\ RingInv' /\ ring'.at = None
        /\ [Queue!Next]_<<Content, reader.got>>
    BY <1>0, <2>1, ReceiverStep, ReceiverQueue
  <2>3. QED
    BY <1>0, <2>1, <2>2, Zenon DEF DriversInv
<1>6. CASE Dht11Ring
  <2>1. /\ drv = "dht11ring" /\ Dht11!RingDht11Next /\ ClimateInv /\ dev.kind = "dht11ring"
        /\ ring.at = None /\ (BUF_LEN > 2 => RingFreshInv)
    BY <1>6 DEF Dht11Ring, DriversInv
  <2>2. /\ ClimateInv' /\ dev'.kind = "dht11ring" /\ RingInv' /\ ring'.at = None
        /\ [Queue!Next]_<<Content, reader.got>>
        /\ BUF_LEN > 2 => RingFreshInv'
    BY <1>0, <2>1, RingAnswers
  <2>3. QED
    BY <1>0, <2>1, <2>2, Zenon DEF DriversInv
<1>7. CASE Dht11Flags
  <2>1. /\ drv = "dht11" /\ Dht11!FlagsDht11Next /\ ClimateInv /\ dev.kind = "dht11"
        /\ ring.at = None /\ FlagsFreshInv
    BY <1>7 DEF Dht11Flags, DriversInv
  <2>2. /\ ClimateInv' /\ dev'.kind = "dht11" /\ RingInv' /\ ring' = ring
        /\ UNCHANGED <<Content, reader.got>> /\ FlagsFreshInv'
    BY <1>0, <2>1, FlagsAnswer
  <2>3. QED
    BY <1>0, <2>1, <2>2, Zenon DEF DriversInv
<1>8. QED
  BY <1>1, <1>2, <1>3, <1>4, <1>5, <1>6, <1>7 DEF Next

\* A step that changes nothing keeps the invariant.
LEMMA DriversStutter ==
    ASSUME DriversInv, UNCHANGED allvars
    PROVE  DriversInv' /\ [Queue!Next]_<<Content, reader.got>>
<1>1. UNCHANGED <<ring, timer, reader, dev, drv>>
  BY DEF allvars, vars
<1>2. UNCHANGED <<Content, reader.got>>
  BY <1>1 DEF Content
<1>3. RingInv'
  BY <1>1, RingRests DEF DriversInv, RingInv
<1>4. ButtonInv => ButtonInv'
  BY <1>1 DEF ButtonInv, SaidInv, QuietInv
<1>5. (SensorInv => SensorInv') /\ (EchoInv => EchoInv')
  BY <1>1, <1>2 DEF SensorInv, PingInv, RiseInv, SentInv, EchoInv
<1>6. ReceiverInv => ReceiverInv'
  BY <1>1 DEF ReceiverInv, CountInv, CleanInv, Begun
<1>7. PairInv => PairInv'
  BY <1>1, <1>2 DEF PairInv, Progress, Kept, Irda!Whole
<1>8. ClimateInv => ClimateInv'
  BY <1>1 DEF ClimateInv
<1>9. FlagsFreshInv => FlagsFreshInv'
  BY <1>1, Zenon DEF FlagsFreshInv, FlagsFresh, Untold, Said, Result, Outcome, Pair
<1>10. RingFreshInv => RingFreshInv'
  BY <1>1, <1>2, Zenon DEF RingFreshInv, RingFresh, Unanswered, Answered, Outcome, Pair
<1>11. DriversInv'
  BY <1>1, <1>3, <1>4, <1>5, <1>6, <1>7, <1>8, <1>9, <1>10, Zenon DEF DriversInv
<1>12. QED
  BY <1>2, <1>11

\* The inductive invariant of all these drivers.
THEOREM DriversInvariant == Spec => []DriversInv
<1>1. Init => DriversInv
  BY DriversInit
<1>2. DriversInv /\ [Next]_allvars => DriversInv'
  BY DriversStep, DriversStutter
<1>3. QED
  BY <1>1, <1>2, PTL DEF Spec

\* The ring that handlers fill and one process empties without a lock is a queue, in
\* every driver, whatever the length of the ring.
THEOREM RingsAreQueues == Spec => RingIsQueue
<1>1. Init => Queue!Init
  BY DriversInit
<1>2. DriversInv /\ [Next]_allvars => [Queue!Next]_<<Content, reader.got>>
  BY DriversStep, DriversStutter
<1>3. QED
  BY <1>1, <1>2, DriversInvariant, PTL DEF Spec, RingIsQueue, Queue!Spec

\* What the button and the motion sensor reported last is the level of the pin, and
\* the button's timer expires only after a quiet time, whatever the debounce time.
THEOREM ReportsSettle == Spec => SettledReport
<1> DEFINE P == dev.kind = "gpio" /\ timer = GpioKeys!Off /\ ~dev.raised /\ ~dev.stale
                    => dev.said = dev.pin
           A == dev.kind = "gpio" /\ timer = 0 /\ timer' = GpioKeys!Off /\ ~dev.raised
                    => dev.quiet >= Delay
<1>1. DriversInv /\ dev.kind = "gpio" => ButtonInv
  BY DEF DriversInv, SensorInv, Sensor, ReceiverInv, Receiver
<1>2. DriversInv => P
  BY <1>1, ButtonShares DEF ButtonInv, SaidInv
<1>3. DriversInv /\ [Next]_allvars => [A]_(GpioKeys!vars)
  BY <1>1, ButtonShares, DelayType DEF ButtonInv, QuietInv, Button, Off
<1>4. QED
  BY <1>2, <1>3, DriversInvariant, PTL DEF Spec, SettledReport, GpioKeys!SettledReport

\* Every time in the ring or read is that of one echo, if one edge was lost at most,
\* for any number of pings.
THEOREM EchoesAreTrue == Spec => []TrueEcho
<1>1. DriversInv => TrueEcho
  <2> SUFFICES ASSUME DriversInv, dev.kind = "sr04", dev.lost < 2
               PROVE  \A key \in {Content[i] : i \in DOMAIN Content} \cup {reader.got} :
                          key \in Echoes
    BY Sr04Shares DEF TrueEcho, Sr04!TrueEcho, Echoes
  <2>1. EchoInv
    BY ClimateFacts DEF DriversInv, ButtonInv, Button, ReceiverInv, Receiver
  <2>2. Content \in Seq(Echoes) /\ reader.got \in Echoes
    BY <2>1 DEF EchoInv
  <2>3. \A i \in DOMAIN Content : Content[i] \in Echoes
    BY <2>2, LenProperties, ElementOfSeq
  <2>4. QED
    BY <2>2, <2>3
<1>2. QED
  BY <1>1, DriversInvariant, PTL

\* The bytes of the infrared driver stay in pairs until the ring drops one of a pair
\* or a signal cuts a read short.
THEOREM PairsStayWhole == Spec => []PairsWhole
<1>1. DriversInv => PairsWhole
  <2> SUFFICES ASSUME DriversInv, dev.kind = "irda", ~dev.broken, ~reader.cut
               PROVE  Irda!Whole(Kept \o Content)
    BY IrdaShares DEF PairsWhole, Irda!PairsWhole, Kept
  <2>1. PairInv
    BY DEF DriversInv, ButtonInv, Button, SensorInv, Sensor
  <2>2. QED
    BY <2>1 DEF PairInv
<1>2. QED
  BY <1>1, DriversInvariant, PTL

\* A key pressed after a silence is understood, for frames of every length, unless the
\* timer's handler resets the count behind an edge that came before it.
THEOREM PressesAreHeard == Spec => []PressHeard
<1>1. DriversInv => PressHeard
  <2> SUFFICES ASSUME DriversInv, dev.kind = "irda", Irda!Between, dev.clean
               PROVE  dev.heard
    BY DEF PressHeard, Irda!PressHeard
  <2>1. ReceiverInv
    BY DEF DriversInv, ButtonInv, Button, SensorInv, Sensor
  <2>2. dev.burst = "frame" /\ dev.edge = EdgesIn(dev.burst)
    BY <2>1, ReceiverFacts DEF ReceiverInv, CleanInv
  <2>3. QED
    BY <2>1, <2>2 DEF ReceiverInv, CleanInv, EdgesIn
<1>2. QED
  BY <1>1, DriversInvariant, PTL

\* As long as no signal has cut a read short, a read of the temperature returns this
\* read's measurement or an error, in both drivers, for any number of measurements; the
\* ring has room for an answer.
THEOREM AnswersAreFresh == ASSUME BUF_LEN > 2 PROVE Spec => []FreshAnswer
<1>1. DriversInv => FreshAnswer
  <2> SUFFICES ASSUME DriversInv, dev.kind \in {"dht11", "dht11ring"}, reader.pc = "user",
                      ~reader.cut, reader.keys # <<>>
               PROVE  reader.keys = Pair
    BY DEF FreshAnswer, Dht11!FreshAnswer, Pair
  <2>1. drv = dev.kind
    BY DEF DriversInv, ButtonInv, Button, SensorInv, Sensor, ReceiverInv, Receiver
  <2>2. CASE drv = "dht11"
    BY <2>2 DEF DriversInv, FlagsFreshInv, FlagsFresh
  <2>3. CASE drv = "dht11ring"
    BY <2>3 DEF DriversInv, RingFreshInv, RingFresh
  <2>4. QED
    BY <2>1, <2>2, <2>3
<1>2. QED
  BY <1>1, DriversInvariant, PTL

===============================================================================
