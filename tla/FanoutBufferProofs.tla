------------------------- MODULE FanoutBufferProofs -------------------------
(***************************************************************************)
(* The fan-out buffer, for any number of cursors, any capacity and appends *)
(* and reads of any size.  The argument: what the ring holds is always in  *)
(* its place, while the backlog is in its place only from the position of  *)
(* the slowest open cursor on.  A cursor is counted by every item that it  *)
(* has yet to observe, so nothing that it needs is dropped until the grace *)
(* period is over, and nothing of the ring is dropped before its turn.     *)
(***************************************************************************)
EXTENDS FanoutBuffer, TLAPS, FiniteSetTheorems, SequenceTheorems, WellFoundedInduction

OpenSet == {c \in Cursors : Open(c)}
RingEntry == [item : Items \cup {-1}, wait : Counts]
Entry == [item : Items, wait : Counts, expired : BOOLEAN]

\* The buffer as Append passes it from step to step.
Buf == [pos |-> pos, len |-> len, ring |-> ring, overflow |-> overflow]

End(b) == b.pos + b.len
Base(b) == b.pos - Len(b.overflow)
EntryAt(b, p) ==
    IF p >= b.pos THEN b.ring[p % Capacity] ELSE b.overflow[p - Base(b) + 1]

\* Types, the ring in its place, and a backlog of items in order, of which those before g
\* have expired.
Shape(b, g) ==
    /\ b = [pos |-> b.pos, len |-> b.len, ring |-> b.ring, overflow |-> b.overflow]
    /\ b.pos \in Nat /\ b.len \in 0..Capacity /\ End(b) <= MaxItems
    /\ b.ring \in [0..(Capacity - 1) -> RingEntry] /\ b.overflow \in Seq(Entry)
    /\ \A p \in b.pos..(End(b) - 1) : b.ring[p % Capacity].item = p
    /\ g <= b.pos
    /\ \A i \in 1..Len(b.overflow) :
         /\ b.overflow[i].item < b.pos
         /\ b.overflow[i].expired <=> b.overflow[i].item < g
    /\ \A i, j \in 1..Len(b.overflow) : i < j => b.overflow[i].item < b.overflow[j].item

\* What an open cursor has yet to read is in its place and counts it, or it is too late.
Exact(b) ==
    \A c \in Cursors : Open(c) =>
      /\ cursor[c] < Base(b) => cursor[c] < graceOver
      /\ \A p \in cursor[c]..(End(b) - 1) : p >= Base(b) =>
           EntryAt(b, p).item = p /\ EntryAt(b, p).wait = Cardinality(Waiting(p))

\* The rest of the state.
Rest ==
    /\ closed \in BOOLEAN /\ cursors \in Counts
    /\ notify \in Nat /\ notifying \subseteq 0..(notify - 1)
    /\ pc \in [Cursors -> {"none", "ready", "blocked", "woken", "failed", "closing", "closed"}]
    /\ cursor \in [Cursors -> Nat] /\ cend \in [Cursors -> Nat] /\ channel \in [Cursors -> Nat]
    /\ graceOver \in Nat
    /\ \A c \in Cursors : cursor[c] <= pos + len /\ cend[c] <= pos + len

FInv ==
    /\ Rest /\ Shape(Buf, graceOver)
    /\ ~closed => Exact(Buf) /\ cursors = Cardinality(OpenSet)

-----------------------------------------------------------------------------
(* Induction and slots *)

\* Every nonempty set of natural numbers has a least element.
LEMMA LeastNat ==
    ASSUME NEW T \in SUBSET Nat, T # {}
    PROVE  \E x \in T : \A y \in T : x <= y
<1> DEFINE R == OpToRel(<, Nat)
<1>1. IsWellFoundedOn(R, Nat)
  BY NatLessThanWellFounded
<1>2. \A y, x \in Nat : y < x => <<y, x>> \in R
  BY DEF OpToRel
<1> HIDE DEF R
<1>3. PICK x \in T : \A y \in T : ~(<<y, x>> \in R)
  BY <1>1, WFMin
<1>4. ASSUME NEW y \in T PROVE x <= y
  <2>1. ~(y < x)
    BY <1>2, <1>3
  <2>2. x \in Nat /\ y \in Nat
    OBVIOUS
  <2> QED BY <2>1, <2>2
<1> QED BY <1>4

\* Induction, with the set of the numbers that have the property.
LEMMA Induction ==
    ASSUME NEW G \in SUBSET Nat, 0 \in G, \A n \in G : n + 1 \in G
    PROVE  G = Nat
<1> DEFINE T == Nat \ G
<1>1. SUFFICES ASSUME T # {} PROVE FALSE
  OBVIOUS
<1>2. PICK x \in T : \A y \in T : x <= y
  BY <1>1, LeastNat
<1>3. x \in Nat /\ x # 0 /\ x - 1 \in Nat
  BY <1>2
<1>4. CASE x - 1 \in G
  BY <1>3, <1>4
<1>5. CASE x - 1 \notin G
  BY <1>2, <1>3, <1>5
<1> QED BY <1>4, <1>5

\* Division with a remainder.
LEMMA DivMod ==
    ASSUME NEW a \in Nat, NEW c \in Nat \ {0}
    PROVE  a % c \in 0..(c - 1) /\ a \div c \in Nat /\ a = c * (a \div c) + (a % c)
OBVIOUS

\* The remainder is unique.
LEMMA RemainderUnique ==
    ASSUME NEW c \in Nat \ {0}, NEW p \in Int, NEW q \in Int, NEW r \in 0..(c - 1),
           NEW t \in 0..(c - 1), c * p + r = c * q + t
    PROVE  r = t
<1>1. CASE p = q
  BY <1>1
<1>2. CASE p > q
  <2>1. c * (p - q) >= c
    <3>1. \A d \in Nat \ {0} : c * d >= c
      OBVIOUS
    <3> QED BY <1>2, <3>1
  <2>2. c * (p - q) = c * p - c * q
    OBVIOUS
  <2> QED BY <2>1, <2>2
<1>3. CASE q > p
  <2>1. c * (q - p) >= c
    <3>1. \A d \in Nat \ {0} : c * d >= c
      OBVIOUS
    <3> QED BY <1>3, <3>1
  <2>2. c * (q - p) = c * q - c * p
    OBVIOUS
  <2> QED BY <2>1, <2>2
<1> QED BY <1>1, <1>2, <1>3

\* The slot that is d after the slot of a.
LEMMA SlotAfter ==
    ASSUME NEW a \in Nat, NEW c \in Nat \ {0}, NEW d \in 0..c
    PROVE  (a + d) % c = IF (a % c) + d < c THEN (a % c) + d ELSE (a % c) + d - c
<1> DEFINE p == a \div c
           q == (a + d) \div c
           r == (a + d) % c
           x == a % c
<1>1. x \in 0..(c - 1) /\ p \in Nat /\ a = c * p + x
  BY DivMod
<1>2. r \in 0..(c - 1) /\ q \in Nat /\ a + d = c * q + r
  <2>1. a + d \in Nat
    OBVIOUS
  <2> QED BY <2>1, DivMod, Zenon
<1> HIDE DEF p, q, r, x
<1>3. CASE x + d < c
  <2>1. x + d \in 0..(c - 1) /\ c * p + (x + d) = c * q + r
    BY <1>1, <1>2, <1>3
  <2>2. x + d = r
    BY <1>1, <1>2, <2>1, RemainderUnique
  <2> QED BY <1>3, <2>2 DEF x, r
<1>4. CASE ~(x + d < c)
  <2>1. x + d - c \in 0..(c - 1)
    BY <1>1, <1>4
  <2>2. c * (p + 1) = c * p + c
    BY <1>1
  <2>3. c * (p + 1) + (x + d - c) = c * q + r
    BY <1>1, <1>2, <2>2
  <2> DEFINE y == x + d - c
             s == p + 1
  <2>4. y \in 0..(c - 1) /\ s \in Int /\ c * s + y = c * q + r
    BY <1>1, <2>1, <2>3
  <2> HIDE DEF y, s
  <2>5. y = r
    <3>1. q \in Int
      BY <1>2
    <3> QED BY <1>2, <2>4, <3>1, RemainderUnique, Zenon
  <2> QED BY <1>4, <2>5 DEF x, y, r
<1> QED BY <1>3, <1>4

\* Two positions that are less than cap apart are in different slots.
LEMMA SlotsDiffer ==
    ASSUME NEW c \in Nat \ {0}, NEW i \in Nat, NEW j \in Nat, i < j, j < i + c
    PROVE  i % c # j % c
<1> DEFINE d == j - i
<1>1. d \in 0..c /\ d > 0 /\ d < c /\ i + d = j
  OBVIOUS
<1> HIDE DEF d
<1>2. (i + d) % c = IF (i % c) + d < c THEN (i % c) + d ELSE (i % c) + d - c
  BY <1>1, SlotAfter
<1>3. i % c \in 0..(c - 1)
  BY DivMod
<1> QED BY <1>1, <1>2, <1>3

-----------------------------------------------------------------------------
(* Counting *)

\* A cursor that waits for an item is counted.
LEMMA WaitingFinite ==
    ASSUME NEW p
    PROVE  /\ IsFiniteSet(Waiting(p)) /\ Cardinality(Waiting(p)) \in Nat
           /\ Waiting(p) # {} => Cardinality(Waiting(p)) > 0
           /\ Cardinality(Waiting(p)) < WaitModulus
<1>1. Waiting(p) \subseteq Cursors
  BY DEF Waiting
<1>2. IsFiniteSet(Waiting(p)) /\ Cardinality(Waiting(p)) <= Cardinality(Cursors)
  BY <1>1, FS_Subset, FanoutAssumption
<1>3. Cardinality(Waiting(p)) \in Nat /\ Cardinality(Cursors) \in Nat
  BY <1>2, FS_CardinalityType, FanoutAssumption
<1>4. Waiting(p) # {} => Cardinality(Waiting(p)) # 0
  BY <1>2, FS_EmptySet
<1> QED BY <1>2, <1>3, <1>4, FanoutAssumption

\* The open cursors are counted.
LEMMA OpenFinite ==
    IsFiniteSet(OpenSet) /\ Cardinality(OpenSet) \in Nat /\ Cardinality(OpenSet) < WaitModulus
<1>1. OpenSet \subseteq Cursors
  BY DEF OpenSet
<1>2. IsFiniteSet(OpenSet) /\ Cardinality(OpenSet) <= Cardinality(Cursors)
  BY <1>1, FS_Subset, FanoutAssumption
<1>3. Cardinality(OpenSet) \in Nat /\ Cardinality(Cursors) \in Nat
  BY <1>2, FS_CardinalityType, FanoutAssumption
<1> QED BY <1>2, <1>3, FanoutAssumption

\* One cursor less, one cursor more.
LEMMA OneLess ==
    ASSUME NEW S, IsFiniteSet(S), NEW c \in S
    PROVE  Cardinality(S \ {c}) = Cardinality(S) - 1 /\ Cardinality(S) > 0
<1>1. Cardinality(S) \in Nat /\ Cardinality(S) # 0
  BY FS_CardinalityType, FS_EmptySet
<1> QED BY <1>1, FS_RemoveElement

\* The counters are unsigned: they are lowered without a wrap as long as they are not 0.
LEMMA DecreasedBy ==
    ASSUME NEW w \in Counts
    PROVE  Decreased(w) \in Counts /\ (w > 0 => Decreased(w) = w - 1)
<1>1. WaitModulus \in Nat \ {0} /\ w \in Nat /\ w < WaitModulus
  BY FanoutAssumption DEF Counts
<1>2. w + WaitModulus - 1 \in Nat
  BY <1>1
<1>3. Decreased(w) \in Counts
  BY <1>1, <1>2, DivMod, Zenon DEF Decreased, Counts
<1>4. ASSUME w > 0 PROVE Decreased(w) = w - 1
  <2> DEFINE a == w - 1
             q == (w + WaitModulus - 1) \div WaitModulus
             r == (w + WaitModulus - 1) % WaitModulus
  <2>1. a \in 0..(WaitModulus - 1) /\ WaitModulus * 1 + a = w + WaitModulus - 1 /\ 1 \in Int
    BY <1>1, <1>4
  <2>2. r \in 0..(WaitModulus - 1) /\ q \in Nat /\ w + WaitModulus - 1 = WaitModulus * q + r
    BY <1>1, <1>2, DivMod, Zenon
  <2> HIDE DEF a, q, r
  <2>3. q \in Int /\ WaitModulus * 1 + a = WaitModulus * q + r
    BY <2>1, <2>2
  <2>4. a = r
    BY <1>1, <2>1, <2>2, <2>3, RemainderUnique, Zenon
  <2> QED BY <2>4 DEF Decreased, a, r
<1> QED BY <1>3, <1>4

-----------------------------------------------------------------------------
(* cleanupSlots *)

\* Where the loop over the ring stops.
LEMMA SeenTo ==
    ASSUME NEW b, NEW g, Shape(b, g)
    PROVE  /\ Seen(b) \in 0..b.len
           /\ \A i \in 0..(Seen(b) - 1) : b.ring[(b.pos + i) % Capacity].wait = 0
<1> DEFINE wait(i) == b.ring[(b.pos + i) % Capacity].wait
           T == {n \in 0..b.len : n < b.len => wait(n) > 0}
<1>1. b.len \in Nat /\ b.pos \in Nat
  BY FanoutAssumption DEF Shape
<1>2. T \in SUBSET Nat /\ b.len \in T
  BY <1>1
<1>3. PICK n \in T : \A m \in T : n <= m
  BY <1>2, LeastNat
<1>4. ASSUME NEW i \in 0..(n - 1) PROVE wait(i) = 0
  <2>1. i \notin T /\ i \in 0..b.len /\ i < b.len /\ b.pos + i \in Nat
    BY <1>1, <1>3
  <2>2. ~(wait(i) > 0)
    BY <2>1
  <2>3. wait(i) \in Nat
    <3>1. (b.pos + i) % Capacity \in 0..(Capacity - 1)
      BY <2>1, FanoutAssumption, DivMod, Zenon
    <3>2. b.ring[(b.pos + i) % Capacity] \in RingEntry
      BY <3>1, Zenon DEF Shape
    <3> QED BY <3>2, FanoutAssumption DEF RingEntry, Counts
  <2> HIDE DEF wait
  <2> QED BY <2>2, <2>3
<1>5. n \in 0..b.len /\ (n < b.len => wait(n) > 0)
  BY <1>3
<1>6. /\ Seen(b) \in 0..b.len
      /\ \A i \in 0..(Seen(b) - 1) : b.ring[(b.pos + i) % Capacity].wait = 0
  BY <1>4, <1>5, Zenon DEF Seen
<1> QED BY <1>6

\* What is cleared of the backlog is nobody's, or its time is over.
LEMMA ClearedTo ==
    ASSUME NEW o \in Seq(Entry)
    PROVE  /\ clearOverflowTo(o) \in 0..Len(o)
           /\ \A i \in 1..clearOverflowTo(o) : ~Wanted(o[i])
<1>1. CASE o = <<>>
  BY <1>1 DEF clearOverflowTo
<1>2. CASE o # <<>> /\ \A i \in 1..Len(o) : ~Wanted(o[i])
  <2>1. Len(o) \in Nat /\ Len(o) > 0 /\ clearOverflowTo(o) = Len(o) - 1
    BY <1>2, EmptySeq DEF clearOverflowTo
  <2> QED BY <1>2, <2>1
<1>3. CASE o # <<>> /\ ~(\A i \in 1..Len(o) : ~Wanted(o[i]))
  <2> DEFINE T == {i \in 1..Len(o) : Wanted(o[i])}
             k == CHOOSE i \in 1..Len(o) : Wanted(o[i]) /\ \A j \in 1..(i - 1) : ~Wanted(o[j])
  <2>1. T \in SUBSET Nat /\ T # {}
    BY <1>3
  <2>2. PICK i \in T : \A j \in T : i <= j
    BY <2>1, LeastNat
  <2>3. i \in 1..Len(o) /\ Wanted(o[i]) /\ \A j \in 1..(i - 1) : ~Wanted(o[j])
    BY <2>2
  <2>4. k \in 1..Len(o) /\ \A j \in 1..(k - 1) : ~Wanted(o[j])
    BY <2>3, Zenon
  <2>5. clearOverflowTo(o) = k - 1
    BY <1>3, Zenon DEF clearOverflowTo
  <2> HIDE DEF k
  <2> QED BY <2>4, <2>5
<1> QED BY <1>1, <1>2, <1>3

\* Positions and their slots.
LEMMA SlotOf ==
    ASSUME NEW p \in Nat
    PROVE  p % Capacity \in 0..(Capacity - 1)
BY DivMod, FanoutAssumption, Zenon

\* The index of a position in the backlog.
LEMMA IndexIn ==
    ASSUME NEW p \in Int, NEW base \in Int, NEW n \in Int, p >= base, p < base + n
    PROVE  p - base + 1 \in 1..n /\ \A m \in Int : n <= m => p - base + 1 \in 1..m
OBVIOUS

\* The parts of a buffer.
LEMMA Parts ==
    ASSUME NEW b, NEW g, Shape(b, g)
    PROVE  /\ b.pos \in Nat /\ b.len \in Nat /\ b.len <= Capacity /\ Capacity \in Nat \ {0}
           /\ b.overflow \in Seq(Entry) /\ Len(b.overflow) \in Nat
           /\ End(b) = b.pos + b.len /\ Base(b) = b.pos - Len(b.overflow)
           /\ End(b) \in Nat /\ Base(b) \in Int
BY FanoutAssumption DEF Shape, End, Base

\* An item that an open cursor has yet to read counts it.
LEMMA Counted ==
    ASSUME NEW b, Exact(b), NEW c \in Cursors, Open(c), NEW p \in cursor[c]..(End(b) - 1),
           cursor \in [Cursors -> Nat], p >= Base(b)
    PROVE  EntryAt(b, p).item = p /\ EntryAt(b, p).wait > 0
<1>1. c \in Waiting(p)
  BY DEF Waiting
<1>2. EntryAt(b, p).item = p /\ EntryAt(b, p).wait = Cardinality(Waiting(p))
  BY Zenon DEF Exact
<1> QED BY <1>1, <1>2, WaitingFinite

\* Nothing of the ring is freed that an open cursor has yet to read, and what is cleared of
\* the backlog leaves the rest in its place.
LEMMA CleanupStep ==
    ASSUME NEW b, Shape(b, graceOver), Exact(b), cursor \in [Cursors -> Nat], graceOver \in Nat
    PROVE  LET a == cleanupSlots(b) IN Shape(a, graceOver) /\ Exact(a) /\ End(a) = End(b)
<1> DEFINE n == Seen(b)
           k == clearOverflowTo(b.overflow)
           o == SubSeq(b.overflow, k + 1, Len(b.overflow))
           freed == {(b.pos + i) % Capacity : i \in 0..(n - 1)}
           ringA == [s \in DOMAIN b.ring |-> IF s \in freed THEN NoEntry ELSE b.ring[s]]
           a == cleanupSlots(b)
<1>1. a = [pos |-> b.pos + n, len |-> b.len - n, ring |-> ringA, overflow |-> o]
  BY Zenon DEF cleanupSlots
<1>2. /\ b.pos \in Nat /\ b.len \in Nat /\ b.len <= Capacity /\ Capacity \in Nat \ {0}
      /\ b.overflow \in Seq(Entry) /\ Len(b.overflow) \in Nat
      /\ End(b) = b.pos + b.len /\ Base(b) = b.pos - Len(b.overflow)
  BY Parts
<1>3. n \in 0..b.len /\ \A i \in 0..(n - 1) : b.ring[(b.pos + i) % Capacity].wait = 0
  BY SeenTo, Zenon
<1>4. k \in 0..Len(b.overflow) /\ \A i \in 1..k : ~Wanted(b.overflow[i])
  BY <1>2, ClearedTo, Zenon
<1> HIDE DEF n, k
<1>n. /\ n \in Nat /\ n <= b.len /\ k \in Nat /\ k <= Len(b.overflow)
      /\ b.pos \in Nat /\ b.len \in Nat /\ Len(b.overflow) \in Nat
      /\ b.len <= Capacity /\ Capacity \in Nat
      /\ End(b) = b.pos + b.len /\ Base(b) = b.pos - Len(b.overflow)
  BY <1>2, <1>3, <1>4
<1>5. /\ o \in Seq(Entry) /\ Len(o) = Len(b.overflow) - k
      /\ \A i \in 1..Len(o) : o[i] = b.overflow[k + i]
  <2>1. k + 1 \in 1..(Len(b.overflow) + 1)
    BY <1>2, <1>4
  <2> QED BY <1>2, <1>4, <2>1, SubSeqProperties
<1>6. ASSUME NEW p \in (b.pos + n)..(End(b) - 1)
      PROVE  /\ p \in Nat /\ p % Capacity \in DOMAIN b.ring
             /\ ringA[p % Capacity] = b.ring[p % Capacity]
  <2>1. p \in Nat
    BY <1>2, <1>3
  <2>2. p % Capacity \in DOMAIN b.ring
    BY <2>1, SlotOf DEF Shape
  <2>3. ASSUME NEW i \in 0..(n - 1) PROVE (b.pos + i) % Capacity # p % Capacity
    <3>1. b.pos + i \in Nat /\ b.pos + i < p /\ p < (b.pos + i) + Capacity
      <4>1. i \in Nat /\ i < n
        BY <1>n
      <4>2. p >= b.pos + n /\ p < b.pos + b.len
        BY <1>n, <2>1
      <4>3. b.pos \in Nat /\ b.len \in Nat /\ Capacity \in Nat /\ b.len <= Capacity /\ n \in Nat
        BY <1>n
      <4> QED BY <2>1, <4>1, <4>2, <4>3
    <3> QED BY <1>2, <2>1, <3>1, SlotsDiffer, Zenon
  <2> QED BY <2>1, <2>2, <2>3
<1>7. /\ a.pos = b.pos + n /\ a.len = b.len - n /\ a.ring = ringA /\ a.overflow = o
      /\ a = [pos |-> a.pos, len |-> a.len, ring |-> a.ring, overflow |-> a.overflow]
  <2> HIDE DEF a, o, ringA
  <2> QED BY <1>1
<1>8. ringA \in [0..(Capacity - 1) -> RingEntry]
  <2>1. NoEntry \in RingEntry
    BY FanoutAssumption, FS_CardinalityType DEF NoEntry, RingEntry, Counts
  <2>2. b.ring \in [0..(Capacity - 1) -> RingEntry]
    BY DEF Shape
  <2> HIDE DEF freed
  <2> QED BY <2>1, <2>2, Zenon
<1> HIDE DEF a, o, ringA, freed
<1>9. End(a) = End(b) /\ Base(a) = Base(b) + n + k /\ End(b) <= MaxItems
  BY <1>2, <1>3, <1>4, <1>5, <1>7 DEF End, Base, Shape
<1>10. Shape(a, graceOver)
  <2>1. a.pos \in Nat /\ a.len \in 0..Capacity /\ graceOver <= a.pos
    BY <1>2, <1>3, <1>7 DEF Shape
  <2>2. \A p \in a.pos..(End(a) - 1) : a.ring[p % Capacity].item = p
    <3> SUFFICES ASSUME NEW p \in a.pos..(End(a) - 1) PROVE a.ring[p % Capacity].item = p
      OBVIOUS
    <3>1. a.ring[p % Capacity] = b.ring[p % Capacity]
      BY <1>6, <1>7, <1>9
    <3>2. p \in b.pos..(End(b) - 1)
      BY <1>2, <1>3, <1>7, <1>9
    <3> QED BY <3>1, <3>2 DEF Shape
  <2>3. \A i \in 1..Len(o) : k + i \in 1..Len(b.overflow) /\ o[i] = b.overflow[k + i]
    <3>1. Len(o) = Len(b.overflow) - k
      BY <1>5
    <3>2. \A i \in 1..Len(o) : k + i \in 1..Len(b.overflow)
      BY <1>n, <3>1
    <3> QED BY <1>5, <3>2
  <2>4. ASSUME NEW i \in 1..Len(o)
        PROVE  o[i].item < a.pos /\ (o[i].expired <=> o[i].item < graceOver)
    <3>1. o[i].item < b.pos /\ (o[i].expired <=> o[i].item < graceOver)
      BY <2>3, Zenon DEF Shape
    <3>2. o[i].item \in Int
      <4>1. o[i] \in Entry
        BY <1>5, ElementOfSeq
      <4> QED BY <4>1, FanoutAssumption DEF Entry, Items
    <3>3. o[i].item < a.pos
      BY <1>2, <1>3, <1>7, <3>1, <3>2
    <3> QED BY <3>1, <3>3
  <2>5. ASSUME NEW i \in 1..Len(o), NEW j \in 1..Len(o), i < j PROVE o[i].item < o[j].item
    <3>1. k + i < k + j
      BY <1>4, <1>5, <2>5
    <3> QED BY <2>3, <3>1 DEF Shape
  <2> QED BY <1>5, <1>7, <1>8, <1>9, <2>1, <2>2, <2>4, <2>5, Zenon DEF Shape
<1>11. ASSUME NEW c \in Cursors, Open(c), n > 0 PROVE cursor[c] >= b.pos + n
  <2> SUFFICES ASSUME ~(cursor[c] >= b.pos + n) PROVE FALSE
    OBVIOUS
  <2> DEFINE p == IF cursor[c] >= b.pos THEN cursor[c] ELSE b.pos
  <2>1. /\ cursor[c] \in Nat /\ p \in cursor[c]..(End(b) - 1) /\ p >= Base(b) /\ p >= b.pos
        /\ p - b.pos \in 0..(n - 1) /\ b.pos + (p - b.pos) = p
    BY <1>2, <1>3, <1>11
  <2> HIDE DEF p
  <2>2. EntryAt(b, p).wait > 0
    BY <1>11, <2>1, Counted, Zenon
  <2>3. EntryAt(b, p) = b.ring[p % Capacity]
    BY <2>1 DEF EntryAt
  <2>4. b.ring[p % Capacity].wait = 0
    BY <1>3, <2>1
  <2> QED BY <2>2, <2>3, <2>4
<1>12. Exact(a)
  <2> SUFFICES ASSUME NEW c \in Cursors, Open(c)
               PROVE  /\ cursor[c] < Base(a) => cursor[c] < graceOver
                      /\ \A p \in cursor[c]..(End(a) - 1) : p >= Base(a) =>
                           /\ EntryAt(a, p).item = p
                           /\ EntryAt(a, p).wait = Cardinality(Waiting(p))
    BY Zenon DEF Exact
  <2>1. cursor[c] \in Nat
    OBVIOUS
  <2>2. ASSUME cursor[c] < Base(a) PROVE cursor[c] < graceOver
    <3>1. n = 0
      BY <1>2, <1>3, <1>4, <1>9, <1>11, <2>1, <2>2
    <3>2. CASE cursor[c] < Base(b)
      BY <3>2, Zenon DEF Exact
    <3>3. CASE ~(cursor[c] < Base(b))
      <4> DEFINE p == cursor[c]
                 i == p - Base(b) + 1
      <4>1. /\ p \in cursor[c]..(End(b) - 1) /\ p >= Base(b) /\ ~(p >= b.pos)
            /\ i \in 1..k /\ i \in 1..Len(b.overflow)
        <5>1. Base(a) = Base(b) + k /\ Base(b) \in Int /\ End(b) \in Int
          BY <1>n, <1>9, <3>1
        <5>2. p \in Nat /\ p >= Base(b) /\ p < Base(b) + k
          BY <1>n, <2>1, <2>2, <3>3, <5>1
        <5>3. p < b.pos /\ p < End(b)
          <6>1. b.pos \in Nat /\ b.len \in Nat /\ End(b) = b.pos + b.len
            BY <1>n
          <6>2. k \in Nat /\ Base(b) + k <= b.pos
            BY <1>n
          <6> HIDE DEF p
          <6> QED BY <5>1, <5>2, <6>1, <6>2
        <5>4. i \in 1..k /\ i \in 1..Len(b.overflow)
          <6>1. k \in Int /\ Len(b.overflow) \in Int /\ k <= Len(b.overflow) /\ p \in Int
            BY <1>n, <2>1
          <6> HIDE DEF p
          <6> QED BY <5>1, <5>2, <6>1, IndexIn, Zenon
        <5> HIDE DEF i
        <5> QED BY <1>n, <2>1, <5>1, <5>2, <5>3, <5>4, SMTT(30)
      <4>2. EntryAt(b, p).item = p /\ EntryAt(b, p).wait > 0
        BY <4>1, Counted, Zenon
      <4>3. EntryAt(b, p) = b.overflow[i]
        BY <4>1, Zenon DEF EntryAt
      <4> HIDE DEF p, i
      <4>4. b.overflow[i].expired
        BY <1>4, <4>1, <4>2, <4>3, Zenon DEF Wanted
      <4>5. b.overflow[i].item < graceOver
        BY <4>1, <4>4, Zenon DEF Shape
      <4> QED BY <4>2, <4>3, <4>5 DEF p
    <3> QED BY <3>2, <3>3
  <2>3. ASSUME NEW p \in cursor[c]..(End(a) - 1), p >= Base(a)
        PROVE  EntryAt(a, p) = EntryAt(b, p) /\ p >= Base(b)
    <3>1. p \in Nat /\ p >= Base(b)
      BY <1>2, <1>3, <1>4, <1>9, <2>1, <2>3
    <3>2. CASE p >= a.pos
      <4>1. p >= b.pos /\ p \in (b.pos + n)..(End(b) - 1)
        BY <1>2, <1>3, <1>7, <1>9, <3>1, <3>2
      <4>2. a.ring[p % Capacity] = b.ring[p % Capacity]
        BY <1>6, <1>7, <4>1
      <4> QED BY <3>1, <3>2, <4>1, <4>2 DEF EntryAt
    <3>3. CASE ~(p >= a.pos)
      <4>1. n = 0
        BY <1>2, <1>3, <1>7, <1>11, <2>1, <3>1, <3>3
      <4>2. /\ ~(p >= b.pos) /\ p - Base(a) + 1 \in 1..Len(o)
            /\ k + (p - Base(a) + 1) = p - Base(b) + 1
        <5>1. Len(o) = Len(b.overflow) - k /\ a.pos = b.pos + n
          BY <1>5, <1>7
        <5>2. Base(a) = Base(b) + k /\ Base(b) \in Int
          BY <1>n, <1>9, <4>1
        <5>3. p < b.pos /\ p >= Base(b) + k
          <6>1. a.pos = b.pos /\ b.pos \in Nat /\ k \in Nat
            BY <1>n, <4>1, <5>1
          <6> QED BY <2>3, <3>1, <3>3, <5>2, <6>1
        <5>4. /\ k \in Nat /\ b.pos \in Nat /\ Len(b.overflow) \in Nat
              /\ Base(b) = b.pos - Len(b.overflow)
          BY <1>n
        <5>5. p < Base(b) + Len(b.overflow) /\ p >= Base(a) /\ p < Base(a) + Len(o)
          <6>1. \A x, q, l, j, d, e, m \in Int :
                  d = q - l /\ e = d + j /\ m = l - j /\ x < q /\ x >= d + j =>
                    x < d + l /\ x >= e /\ x < e + m
            OBVIOUS
          <6>2. /\ p \in Int /\ b.pos \in Int /\ Len(b.overflow) \in Int /\ k \in Int
                /\ Base(a) \in Int /\ Base(b) \in Int /\ Len(o) \in Int
            BY <3>1, <5>1, <5>2, <5>4
          <6> QED BY <5>1, <5>2, <5>3, <5>4, <6>1, <6>2, Zenon
        <5>6. p \in Int /\ Base(a) \in Int /\ Len(o) \in Int
          BY <3>1, <5>1, <5>2, <5>4
        <5>7. p - Base(a) + 1 \in 1..Len(o)
          BY <5>5, <5>6, IndexIn, Zenon
        <5>8. k + (p - Base(a) + 1) = p - Base(b) + 1
          BY <3>1, <5>2, <5>4
        <5>9. ~(p >= b.pos)
          BY <3>1, <5>3, <5>4
        <5> QED BY <5>7, <5>8, <5>9
      <4>3. o[p - Base(a) + 1] = b.overflow[p - Base(b) + 1]
        BY <1>5, <4>2
      <4> QED BY <1>7, <3>1, <3>3, <4>2, <4>3 DEF EntryAt
    <3> QED BY <3>2, <3>3
  <2>4. ASSUME NEW p \in cursor[c]..(End(a) - 1), p >= Base(a)
        PROVE  EntryAt(a, p).item = p /\ EntryAt(a, p).wait = Cardinality(Waiting(p))
    <3>1. EntryAt(a, p) = EntryAt(b, p) /\ p >= Base(b) /\ p \in cursor[c]..(End(b) - 1)
      BY <1>9, <2>3, <2>4
    <3> QED BY <3>1, Zenon DEF Exact
  <2> QED BY <2>2, <2>4
<1> QED BY <1>9, <1>10, <1>12 DEF a

-----------------------------------------------------------------------------
(* Append *)

\* The oldest item moves to the end of the backlog: every position keeps its entry.
LEMMA EnsureStep ==
    ASSUME NEW b, Shape(b, graceOver), Exact(b), cursor \in [Cursors -> Nat], graceOver \in Nat
    PROVE  LET e == ensureSlot(b)
           IN  Shape(e, graceOver) /\ Exact(e) /\ End(e) = End(b) /\ e.len < Capacity
<1> DEFINE e == ensureSlot(b)
           oldest == b.ring[b.pos % Capacity]
           last == [item |-> oldest.item, wait |-> oldest.wait, expired |-> FALSE]
           o == Append(b.overflow, last)
           ringE == [b.ring EXCEPT ![b.pos % Capacity] = NoEntry]
<1>1. /\ b.pos \in Nat /\ b.len \in Nat /\ b.len <= Capacity /\ Capacity \in Nat \ {0}
      /\ b.overflow \in Seq(Entry) /\ Len(b.overflow) \in Nat
      /\ End(b) = b.pos + b.len /\ Base(b) = b.pos - Len(b.overflow)
  BY Parts
<1>2. CASE b.len < Capacity
  <2>1. e = b
    BY <1>2, Zenon DEF ensureSlot
  <2> QED BY <1>2, <2>1
<1>3. CASE ~(b.len < Capacity)
  <2>1. e = [pos |-> b.pos + 1, len |-> b.len - 1, ring |-> ringE, overflow |-> o]
    BY <1>3, Zenon DEF ensureSlot
  <2>2. b.len = Capacity /\ b.pos \in b.pos..(End(b) - 1) /\ End(b) <= MaxItems
    BY <1>1, <1>3 DEF Shape
  <2>3. /\ b.pos % Capacity \in 0..(Capacity - 1)
        /\ b.ring \in [0..(Capacity - 1) -> RingEntry] /\ oldest \in RingEntry
        /\ oldest.item = b.pos
    BY <1>1, <2>2, SlotOf DEF Shape
  <2>4. last \in Entry /\ last.item = b.pos /\ last.wait = oldest.wait /\ ~last.expired
    <3>1. b.pos \in Items
      BY <1>1, <2>2, FanoutAssumption DEF Items
    <3>2. oldest.wait \in Counts
      BY <2>3 DEF RingEntry
    <3> HIDE DEF oldest
    <3> QED BY <2>3, <3>1, <3>2 DEF Entry
  <2> HIDE DEF last
  <2>5. /\ o \in Seq(Entry) /\ Len(o) = Len(b.overflow) + 1 /\ o[Len(b.overflow) + 1] = last
        /\ \A i \in 1..Len(b.overflow) : o[i] = b.overflow[i]
    BY <1>1, <2>4, AppendProperties
  <2>6. NoEntry \in RingEntry
    BY FanoutAssumption, FS_CardinalityType DEF NoEntry, RingEntry, Counts
  <2>7. ringE \in [0..(Capacity - 1) -> RingEntry]
    BY <2>3, <2>6
  <2>8. ASSUME NEW p \in (b.pos + 1)..(End(b) - 1)
        PROVE  p \in Nat /\ ringE[p % Capacity] = b.ring[p % Capacity]
    <3>1. p \in Nat /\ b.pos < p /\ p < b.pos + Capacity
      BY <1>1, <2>2
    <3>2. b.pos % Capacity # p % Capacity /\ p % Capacity \in 0..(Capacity - 1)
      BY <1>1, <3>1, SlotsDiffer, SlotOf, Zenon
    <3> QED BY <2>3, <3>1, <3>2
  <2> HIDE DEF o, ringE
  <2>9. /\ e.pos = b.pos + 1 /\ e.len = b.len - 1 /\ e.ring = ringE /\ e.overflow = o
        /\ e = [pos |-> e.pos, len |-> e.len, ring |-> e.ring, overflow |-> e.overflow]
    <3> HIDE DEF e
    <3> QED BY <2>1
  <2> HIDE DEF e
  <2>10. End(e) = End(b) /\ Base(e) = Base(b) /\ e.len < Capacity
    <3>1. /\ Len(e.overflow) = Len(b.overflow) + 1 /\ e.pos = b.pos + 1 /\ e.len = b.len - 1
          /\ b.pos \in Nat /\ b.len \in Nat /\ Len(b.overflow) \in Nat /\ b.len <= Capacity
          /\ Capacity \in Nat
      BY <1>1, <2>5, <2>9
    <3>2. End(e) = End(b)
      BY <3>1 DEF End
    <3>3. Base(e) = Base(b)
      BY <3>1, SMTT(30) DEF Base
    <3>4. e.len < Capacity
      BY <3>1
    <3> QED BY <3>2, <3>3, <3>4
  <2>11. Shape(e, graceOver)
    <3>1. e.pos \in Nat /\ e.len \in 0..Capacity /\ graceOver <= e.pos /\ End(e) <= MaxItems
      BY <1>1, <2>2, <2>9, <2>10 DEF Shape
    <3>2. \A p \in e.pos..(End(e) - 1) : e.ring[p % Capacity].item = p
      <4> SUFFICES ASSUME NEW p \in e.pos..(End(e) - 1) PROVE e.ring[p % Capacity].item = p
        OBVIOUS
      <4>1. e.ring[p % Capacity] = b.ring[p % Capacity] /\ p \in b.pos..(End(b) - 1)
        BY <1>1, <2>8, <2>9, <2>10
      <4> QED BY <4>1 DEF Shape
    <3>3. ASSUME NEW i \in 1..Len(o)
          PROVE  o[i].item \in Int /\ o[i].item < e.pos /\ (o[i].expired <=> o[i].item < graceOver)
      <4>1. CASE i = Len(b.overflow) + 1
        <5>1. o[i].item = b.pos /\ ~o[i].expired /\ graceOver <= b.pos
          BY <2>4, <2>5, <4>1 DEF Shape
        <5> QED BY <1>1, <2>9, <5>1
      <4>2. CASE i # Len(b.overflow) + 1
        <5>1. i \in 1..Len(b.overflow)
          BY <1>1, <2>5, <4>2
        <5>2. o[i] = b.overflow[i]
          BY <2>5, <5>1
        <5>3. o[i].item < b.pos /\ (o[i].expired <=> o[i].item < graceOver)
          BY <5>1, <5>2, Zenon DEF Shape
        <5>4. o[i].item \in Int
          <6>1. b.overflow[i] \in Entry
            BY <1>1, <5>1, ElementOfSeq
          <6> QED BY <5>2, <6>1, FanoutAssumption DEF Entry, Items
        <5> QED BY <1>1, <2>9, <5>3, <5>4
      <4> QED BY <4>1, <4>2
    <3>4. ASSUME NEW i \in 1..Len(o), NEW j \in 1..Len(o), i < j PROVE o[i].item < o[j].item
      <4>1. i \in 1..Len(b.overflow)
        BY <1>1, <2>5, <3>4
      <4>2. CASE j = Len(b.overflow) + 1
        <5>1. o[i] = b.overflow[i] /\ o[j].item = b.pos
          BY <2>4, <2>5, <4>1, <4>2
        <5> QED BY <4>1, <5>1 DEF Shape
      <4>3. CASE j # Len(b.overflow) + 1
        <5>1. j \in 1..Len(b.overflow)
          BY <1>1, <2>5, <4>3
        <5>2. o[i] = b.overflow[i] /\ o[j] = b.overflow[j]
          BY <2>5, <4>1, <5>1
        <5> QED BY <3>4, <4>1, <5>1, <5>2 DEF Shape
      <4> QED BY <4>2, <4>3
    <3> QED BY <2>5, <2>7, <2>9, <3>1, <3>2, <3>3, <3>4, Zenon DEF Shape
  <2>12. ASSUME NEW p \in Int, p >= Base(e), p < End(e)
         PROVE  EntryAt(e, p).item = EntryAt(b, p).item /\ EntryAt(e, p).wait = EntryAt(b, p).wait
    <3>1. CASE p >= b.pos + 1
      <4>1. p \in (b.pos + 1)..(End(b) - 1) /\ p >= b.pos /\ p >= e.pos
        BY <1>1, <2>9, <2>10, <2>12, <3>1
      <4>2. ringE[p % Capacity] = b.ring[p % Capacity]
        BY <2>8, <4>1
      <4> QED BY <2>9, <4>1, <4>2, Zenon DEF EntryAt
    <3>2. CASE p = b.pos
      <4>1. p >= b.pos /\ ~(p >= e.pos) /\ p - Base(e) + 1 = Len(b.overflow) + 1
        BY <1>1, <2>9, <2>10, <3>2
      <4>2. EntryAt(e, p) = last /\ EntryAt(b, p) = oldest
        BY <2>5, <2>9, <3>2, <4>1, Zenon DEF EntryAt
      <4> QED BY <2>3, <2>4, <4>2
    <3>3. CASE p < b.pos
      <4>1. ~(p >= b.pos) /\ ~(p >= e.pos)
        BY <1>1, <2>9, <3>3
      <4>2. Len(b.overflow) \in Int /\ Base(b) \in Int /\ p < Base(b) + Len(b.overflow)
        BY <1>1, <3>3
      <4>3. p - Base(b) + 1 \in 1..Len(b.overflow)
        BY <2>10, <2>12, <4>2, IndexIn, Zenon
      <4> QED BY <2>5, <2>9, <2>10, <4>1, <4>3, Zenon DEF EntryAt
    <3> QED BY <1>1, <3>1, <3>2, <3>3
  <2>13. Exact(e)
    <3> SUFFICES ASSUME NEW c \in Cursors, Open(c)
                 PROVE  /\ cursor[c] < Base(e) => cursor[c] < graceOver
                        /\ \A p \in cursor[c]..(End(e) - 1) : p >= Base(e) =>
                             /\ EntryAt(e, p).item = p
                             /\ EntryAt(e, p).wait = Cardinality(Waiting(p))
      BY Zenon DEF Exact
    <3>1. cursor[c] < Base(e) => cursor[c] < graceOver
      BY <2>10, Zenon DEF Exact
    <3>2. ASSUME NEW p \in cursor[c]..(End(e) - 1), p >= Base(e)
          PROVE  EntryAt(e, p).item = p /\ EntryAt(e, p).wait = Cardinality(Waiting(p))
      <4>1. p \in Int /\ p < End(e) /\ p \in cursor[c]..(End(b) - 1) /\ p >= Base(b)
        BY <1>1, <2>10, <3>2
      <4> QED BY <2>12, <3>2, <4>1, Zenon DEF Exact
    <3> QED BY <3>1, <3>2
  <2> QED BY <2>10, <2>11, <2>13 DEF e
<1> QED BY <1>2, <1>3

\* Every open cursor has yet to read an item that is appended, and nobody else.
LEMMA WaitingForNew ==
    ASSUME Rest, NEW p \in Nat, p >= pos + len, pos + len \in Nat
    PROVE  Waiting(p) = OpenSet
<1>1. ASSUME NEW c \in Cursors PROVE cursor[c] <= p /\ ~(p < cend[c])
  <2>1. cursor[c] \in Nat /\ cend[c] \in Nat /\ cursor[c] <= pos + len /\ cend[c] <= pos + len
    BY DEF Rest
  <2> QED BY <2>1
<1> QED BY <1>1, Zenon DEF Waiting, OpenSet

\* An item is put in the slot after the last one, and counts every open cursor.
LEMMA InsertStep ==
    ASSUME NEW b, Shape(b, graceOver), Exact(b), Rest, cursors = Cardinality(OpenSet),
           End(b) >= pos + len, pos + len \in Nat, End(b) < MaxItems
    PROVE  LET a == Insert(b, End(b))
           IN  Shape(a, graceOver) /\ Exact(a) /\ End(a) = End(b) + 1
<1> DEFINE e == ensureSlot(b)
           z == e.pos + e.len
           new == [item |-> End(b), wait |-> cursors]
           a == Insert(b, End(b))
           ringA == [e.ring EXCEPT ![z % Capacity] = new]
<1>1. cursor \in [Cursors -> Nat] /\ graceOver \in Nat /\ cursors \in Counts
  BY DEF Rest
<1>2. Shape(e, graceOver) /\ Exact(e) /\ End(e) = End(b) /\ e.len < Capacity
  BY <1>1, EnsureStep, Zenon
<1>3. a = [e EXCEPT !.ring[z % Capacity] = new, !.len = @ + 1]
  BY Zenon DEF Insert
<1> HIDE DEF e
<1>4. /\ e.pos \in Nat /\ e.len \in Nat /\ Capacity \in Nat \ {0}
      /\ e.overflow \in Seq(Entry) /\ Len(e.overflow) \in Nat
      /\ End(e) = z /\ Base(e) = e.pos - Len(e.overflow) /\ z \in Nat /\ z = End(b)
  BY <1>2, Parts
<1>5. /\ e = [pos |-> e.pos, len |-> e.len, ring |-> e.ring, overflow |-> e.overflow]
      /\ e.ring \in [0..(Capacity - 1) -> RingEntry]
  BY <1>2 DEF Shape
<1>6. z % Capacity \in 0..(Capacity - 1)
  BY <1>4, SlotOf, Zenon
<1> HIDE DEF z, a
<1>7. /\ a.pos = e.pos /\ a.len = e.len + 1 /\ a.ring = ringA /\ a.overflow = e.overflow
      /\ a = [pos |-> a.pos, len |-> a.len, ring |-> a.ring, overflow |-> a.overflow]
  <2>1. a = [pos |-> e.pos, len |-> e.len + 1, ring |-> ringA, overflow |-> e.overflow]
    <3> HIDE DEF new
    <3> QED BY <1>3, <1>5
  <2> HIDE DEF ringA
  <2> QED BY <2>1
<1>8. new \in RingEntry /\ new.item = z /\ new.wait = Cardinality(Waiting(z))
  <2>1. z \in Items
    BY <1>4, FanoutAssumption DEF Items
  <2>2. Waiting(z) = OpenSet
    BY <1>4, WaitingForNew
  <2> QED BY <1>1, <1>4, <2>1, <2>2 DEF RingEntry
<1> HIDE DEF new
<1>9. ringA \in [0..(Capacity - 1) -> RingEntry] /\ ringA[z % Capacity] = new
  BY <1>5, <1>6, <1>8
<1>10. ASSUME NEW p \in e.pos..(z - 1) PROVE ringA[p % Capacity] = e.ring[p % Capacity]
  <2>1. p \in Nat /\ p < z /\ z < p + Capacity
    <3>1. e.len < Capacity /\ z = e.pos + e.len
      BY <1>2 DEF z
    <3> QED BY <1>4, <3>1
  <2>2. p % Capacity # z % Capacity /\ p % Capacity \in 0..(Capacity - 1)
    BY <1>4, <2>1, SlotsDiffer, SlotOf, Zenon
  <2> QED BY <1>5, <1>6, <2>2
<1> HIDE DEF ringA
<1>11. End(a) = z + 1 /\ Base(a) = Base(e)
  BY <1>4, <1>7 DEF End, Base
<1>12. Shape(a, graceOver)
  <2>1. a.pos \in Nat /\ a.len \in 0..Capacity /\ graceOver <= a.pos /\ End(a) <= MaxItems
    BY <1>2, <1>4, <1>7, <1>11, FanoutAssumption DEF Shape
  <2>2. \A p \in a.pos..(End(a) - 1) : a.ring[p % Capacity].item = p
    <3> SUFFICES ASSUME NEW p \in a.pos..(End(a) - 1) PROVE a.ring[p % Capacity].item = p
      OBVIOUS
    <3>1. CASE p = z
      BY <1>7, <1>8, <1>9, <3>1
    <3>2. CASE p # z
      <4>1. p \in e.pos..(z - 1) /\ p \in e.pos..(End(e) - 1)
        BY <1>4, <1>7, <1>11, <3>2
      <4> QED BY <1>2, <1>7, <1>10, <4>1 DEF Shape
    <3> QED BY <3>1, <3>2
  <2> QED BY <1>2, <1>7, <1>9, <2>1, <2>2, Zenon DEF Shape
<1>13. Exact(a)
  <2> SUFFICES ASSUME NEW c \in Cursors, Open(c)
               PROVE  /\ cursor[c] < Base(a) => cursor[c] < graceOver
                      /\ \A p \in cursor[c]..(End(a) - 1) : p >= Base(a) =>
                           /\ EntryAt(a, p).item = p
                           /\ EntryAt(a, p).wait = Cardinality(Waiting(p))
    BY Zenon DEF Exact
  <2>1. cursor[c] < Base(a) => cursor[c] < graceOver
    BY <1>2, <1>11, Zenon DEF Exact
  <2>2. ASSUME NEW p \in cursor[c]..(End(a) - 1), p >= Base(a)
        PROVE  EntryAt(a, p).item = p /\ EntryAt(a, p).wait = Cardinality(Waiting(p))
    <3>1. p \in Int /\ cursor[c] \in Nat /\ p <= z
      BY <1>1, <1>4, <1>11
    <3>2. CASE p = z
      <4>1. p >= a.pos
        BY <1>4, <1>7, <3>2 DEF z
      <4>2. EntryAt(a, p) = new
        BY <1>7, <1>9, <3>2, <4>1, Zenon DEF EntryAt
      <4> QED BY <1>8, <3>2, <4>2
    <3>3. CASE p # z
      <4>1. p \in cursor[c]..(End(e) - 1) /\ p >= Base(e)
        BY <1>1, <1>4, <1>11, <2>2, <3>1, <3>3
      <4>2. EntryAt(a, p) = EntryAt(e, p)
        <5>1. CASE p >= e.pos
          <6>1. p \in e.pos..(z - 1)
            BY <1>4, <3>1, <3>3, <5>1
          <6> QED BY <1>7, <1>10, <5>1, <6>1, Zenon DEF EntryAt
        <5>2. CASE ~(p >= e.pos)
          BY <1>7, <1>11, <5>2, Zenon DEF EntryAt
        <5> QED BY <5>1, <5>2
      <4> QED BY <1>2, <4>1, <4>2, Zenon DEF Exact
    <3> QED BY <3>2, <3>3
  <2> QED BY <2>1, <2>2
<1>14. End(a) = End(b) + 1
  BY <1>4, <1>11
<1> QED BY <1>12, <1>13, <1>14 DEF a

\* The buffer after each of n insertions from b, of items numbered from first.
Insertions(g, b, n, first) ==
    g = [i \in 0..n |-> IF i = 0 THEN b ELSE Insert(g[i - 1], first + i - 1)]

\* There is such a table.
LEMMA InsertionsExist ==
    ASSUME NEW b, NEW first \in Nat, NEW n \in Nat
    PROVE  \E g : Insertions(g, b, n, first)
<1> DEFINE G == {m \in Nat : \E g : Insertions(g, b, m, first)}
<1>1. 0 \in G
  <2> DEFINE g == [i \in 0..0 |-> b]
  <2>1. g = [i \in 0..0 |-> IF i = 0 THEN b ELSE Insert(g[i - 1], first + i - 1)]
    OBVIOUS
  <2>2. Insertions(g, b, 0, first)
    BY <2>1, Zenon DEF Insertions
  <2> HIDE DEF g
  <2> QED BY <2>2
<1>2. ASSUME NEW m \in G PROVE m + 1 \in G
  <2>1. m \in Nat
    OBVIOUS
  <2>2. PICK g : Insertions(g, b, m, first)
    OBVIOUS
  <2> DEFINE h == [i \in 0..(m + 1) |-> IF i = m + 1 THEN Insert(g[m], first + m) ELSE g[i]]
  <2>3. ASSUME NEW i \in 0..(m + 1)
        PROVE  h[i] = IF i = 0 THEN b ELSE Insert(h[i - 1], first + i - 1)
    <3>1. CASE i = m + 1
      <4>1. i # 0 /\ i - 1 = m /\ m \in 0..(m + 1) /\ m # m + 1 /\ first + i - 1 = first + m
        BY <2>1, <3>1
      <4>2. h[i] = Insert(g[m], first + m) /\ h[m] = g[m]
        BY <3>1, <4>1, Zenon
      <4> HIDE DEF h
      <4> QED BY <4>1, <4>2
    <3>2. CASE i # m + 1
      <4>1. i \in 0..m
        BY <2>1, <3>2
      <4>2. g[i] = IF i = 0 THEN b ELSE Insert(g[i - 1], first + i - 1)
        BY <2>2, <4>1, Zenon DEF Insertions
      <4>3. h[i] = g[i]
        BY <3>2, Zenon
      <4>4. CASE i = 0
        BY <4>2, <4>3, <4>4, Zenon
      <4>5. CASE i # 0
        <5>1. i - 1 \in 0..(m + 1) /\ i - 1 # m + 1
          BY <2>1, <4>1, <4>5
        <5>2. h[i - 1] = g[i - 1]
          BY <5>1, Zenon
        <5> HIDE DEF h
        <5> QED BY <4>2, <4>3, <4>5, <5>2, Zenon
      <4> QED BY <4>4, <4>5
    <3> QED BY <3>1, <3>2
  <2>4. DOMAIN h = 0..(m + 1) /\ h = [i \in 0..(m + 1) |-> h[i]]
    BY Zenon
  <2> HIDE DEF h
  <2>5. h = [i \in 0..(m + 1) |-> IF i = 0 THEN b ELSE Insert(h[i - 1], first + i - 1)]
    BY <2>3, <2>4, Zenon
  <2>6. Insertions(h, b, m + 1, first)
    BY <2>5, Zenon DEF Insertions
  <2> QED BY <2>1, <2>6
<1> HIDE DEF G
<1>3. G \in SUBSET Nat
  BY DEF G
<1>4. G = Nat
  BY <1>1, <1>2, <1>3, Induction
<1> QED BY <1>4 DEF G

\* Every insertion keeps the buffer in shape.
LEMMA InsertAll ==
    ASSUME NEW b, Shape(b, graceOver), Exact(b), Rest, cursors = Cardinality(OpenSet),
           End(b) = pos + len, pos + len \in Nat, NEW n \in Nat, End(b) + n <= MaxItems,
           NEW g, Insertions(g, b, n, pos + len)
    PROVE  Shape(g[n], graceOver) /\ Exact(g[n]) /\ End(g[n]) = pos + len + n
<1> DEFINE first == pos + len
           G == {i \in Nat : i <= n =>
                   Shape(g[i], graceOver) /\ Exact(g[i]) /\ End(g[i]) = first + i}
<1>0. first \in Nat /\ End(b) = first /\ End(b) >= first /\ MaxItems \in Nat
  BY FanoutAssumption
<1>1. 0 \in G
  <2>1. g[0] = b
    BY DEF Insertions
  <2> QED BY <1>0, <2>1
<1>2. ASSUME NEW i \in G PROVE i + 1 \in G
  <2>1. i \in Nat /\ i + 1 \in Nat
    OBVIOUS
  <2> SUFFICES ASSUME i + 1 <= n
               PROVE  /\ Shape(g[i + 1], graceOver) /\ Exact(g[i + 1])
                      /\ End(g[i + 1]) = first + (i + 1)
    BY <2>1
  <2>2. i <= n /\ i + 1 \in 0..n /\ i + 1 # 0 /\ (i + 1) - 1 = i /\ first + (i + 1) - 1 = first + i
    BY <1>0, <2>1
  <2>3. Shape(g[i], graceOver) /\ Exact(g[i]) /\ End(g[i]) = first + i
    BY <2>2
  <2> HIDE DEF G
  <2>4. g[i + 1] = Insert(g[i], first + i)
    BY <2>2 DEF Insertions
  <2> HIDE DEF first
  <2>5. End(g[i]) >= first /\ End(g[i]) < MaxItems
    BY <1>0, <2>1, <2>2, <2>3
  <2>6. /\ Shape(g[i + 1], graceOver) /\ Exact(g[i + 1]) /\ End(g[i + 1]) = End(g[i]) + 1
    BY <2>3, <2>4, <2>5, InsertStep, Zenon DEF first
  <2> QED BY <1>0, <2>1, <2>3, <2>6
<1> HIDE DEF G
<1>3. G \in SUBSET Nat
  BY DEF G
<1>4. G = Nat
  BY <1>1, <1>2, <1>3, Induction
<1> QED BY <1>4 DEF G

\* What Append leaves.
LEMMA AppendStep ==
    ASSUME FInv, NEW n \in Nat, AppendItems(n)
    PROVE  /\ Shape(Buf', graceOver) /\ Exact(Buf') /\ End(Buf') = pos + len + n
           /\ pos' + len' = pos + len + n
<1> DEFINE b == cleanupSlots(Buf)
           f == CHOOSE g : Insertions(g, b, n, pos + len)
<1>1. /\ pos' = f[n].pos /\ len' = f[n].len /\ ring' = f[n].ring /\ overflow' = f[n].overflow
      /\ ~closed /\ pos + len + n <= MaxItems
  BY Zenon DEF AppendItems, Buf, Insertions
<1>2. Rest /\ Shape(Buf, graceOver) /\ Exact(Buf) /\ cursors = Cardinality(OpenSet)
  BY <1>1 DEF FInv
<1>3. Buf.pos = pos /\ Buf.len = len /\ End(Buf) = pos + len /\ pos + len \in Nat
  <2>1. Buf.pos = pos /\ Buf.len = len
    BY DEF Buf
  <2>2. End(Buf) = Buf.pos + Buf.len /\ End(Buf) \in Nat
    BY <1>2, Parts, Zenon
  <2> QED BY <2>1, <2>2
<1>4. Shape(b, graceOver) /\ Exact(b) /\ End(b) = pos + len
  <2>1. cursor \in [Cursors -> Nat] /\ graceOver \in Nat
    BY <1>2 DEF Rest
  <2> QED BY <1>2, <1>3, <2>1, CleanupStep, Zenon
<1>5. Insertions(f, b, n, pos + len)
  BY <1>3, InsertionsExist, Zenon
<1> HIDE DEF b, f
<1>6. Shape(f[n], graceOver) /\ Exact(f[n]) /\ End(f[n]) = pos + len + n
  <2>1. End(b) + n <= MaxItems
    BY <1>1, <1>4
  <2> QED BY <1>2, <1>3, <1>4, <1>5, <2>1, InsertAll, Zenon
<1>7. Buf' = f[n]
  <2>1. f[n] = [pos |-> f[n].pos, len |-> f[n].len, ring |-> f[n].ring, overflow |-> f[n].overflow]
    BY <1>6, Zenon DEF Shape
  <2> QED BY <1>1, <2>1, Zenon DEF Buf
<1>8. pos' + len' = End(f[n])
  BY <1>1 DEF End
<1> QED BY <1>6, <1>7, <1>8

-----------------------------------------------------------------------------
(* The steps *)

\* Exact after a step that moves cursors and counts them off.
LEMMA ExactAfter ==
    ASSUME Shape(Buf, graceOver), Exact(Buf), Base(Buf') = Base(Buf), End(Buf') = End(Buf),
           graceOver \in Nat, graceOver' \in Nat, graceOver <= graceOver',
           cursor \in [Cursors -> Nat], cursor' \in [Cursors -> Nat],
           \A d \in Cursors : Open(d)' =>
             \/ /\ Open(d) /\ cursor[d] <= cursor'[d]
                /\ cursor'[d] = cursor[d] \/ cursor'[d] >= Base(Buf)
             \/ cursor'[d] = End(Buf),
           \A p \in Nat :
             /\ p >= Base(Buf) /\ p < End(Buf)
             /\ EntryAt(Buf, p).wait = Cardinality(Waiting(p))
             => /\ EntryAt(Buf', p).item = EntryAt(Buf, p).item
                /\ EntryAt(Buf', p).wait = Cardinality(Waiting(p)')
    PROVE  Exact(Buf)'
<1>1. /\ Buf.pos \in Nat /\ Buf.len \in Nat /\ Len(Buf.overflow) \in Nat
      /\ End(Buf) = Buf.pos + Buf.len /\ Base(Buf) = Buf.pos - Len(Buf.overflow)
      /\ End(Buf) \in Nat /\ Base(Buf) \in Int
  BY Parts, Zenon
<1>2. ASSUME NEW c \in Cursors, Open(c)'
      PROVE  /\ cursor'[c] < Base(Buf') => cursor'[c] < graceOver'
             /\ \A p \in cursor'[c]..(End(Buf') - 1) : p >= Base(Buf') =>
                  EntryAt(Buf', p).item = p /\ EntryAt(Buf', p).wait = Cardinality(Waiting(p)')
  <2>0. cursor'[c] \in Nat /\ cursor[c] \in Nat
    OBVIOUS
  <2>1. CASE cursor'[c] = End(Buf)
    <3>1. ~(cursor'[c] < Base(Buf')) /\ cursor'[c]..(End(Buf') - 1) = {}
      BY <1>1, <2>1
    <3> QED BY <3>1
  <2>2. CASE /\ Open(c) /\ cursor[c] <= cursor'[c]
             /\ cursor'[c] = cursor[c] \/ cursor'[c] >= Base(Buf)
    <3>1. ASSUME cursor'[c] < Base(Buf') PROVE cursor'[c] < graceOver'
      <4>1. cursor[c] < Base(Buf) /\ cursor'[c] = cursor[c]
        BY <1>1, <2>0, <2>2, <3>1
      <4>2. cursor[c] < graceOver
        BY <2>2, <4>1, Zenon DEF Exact
      <4> QED BY <2>0, <4>1, <4>2
    <3>2. ASSUME NEW p \in cursor'[c]..(End(Buf') - 1), p >= Base(Buf')
          PROVE  EntryAt(Buf', p).item = p /\ EntryAt(Buf', p).wait = Cardinality(Waiting(p)')
      <4>1. p \in Nat /\ p \in cursor[c]..(End(Buf) - 1) /\ p >= Base(Buf) /\ p < End(Buf)
        <5>1. End(Buf') = End(Buf) /\ Base(Buf') = Base(Buf)
          OBVIOUS
        <5> QED BY <1>1, <2>0, <2>2, <3>2, <5>1
      <4>2. EntryAt(Buf, p).item = p /\ EntryAt(Buf, p).wait = Cardinality(Waiting(p))
        BY <2>2, <4>1, Zenon DEF Exact
      <4>3. /\ EntryAt(Buf', p).item = EntryAt(Buf, p).item
            /\ EntryAt(Buf', p).wait = Cardinality(Waiting(p)')
        BY <4>1, <4>2, Zenon
      <4> QED BY <4>2, <4>3, Zenon
    <3> QED BY <3>1, <3>2
  <2> QED BY <1>2, <2>1, <2>2, Zenon
<1> QED BY <1>2, Zenon DEF Exact

\* What the entries are after those at the positions P were observed.
LEMMA ObserveStep ==
    ASSUME Shape(Buf, graceOver), NEW P \in SUBSET Nat, Observe(P), pos' = pos, len' = len
    PROVE  /\ Shape(Buf', graceOver) /\ End(Buf') = End(Buf) /\ Base(Buf') = Base(Buf)
           /\ \A p \in Nat : p >= Base(Buf) /\ p < End(Buf) =>
                /\ EntryAt(Buf, p).wait \in Counts
                /\ EntryAt(Buf', p).item = EntryAt(Buf, p).item
                /\ EntryAt(Buf', p).wait = IF p \in P THEN Decreased(EntryAt(Buf, p).wait)
                                           ELSE EntryAt(Buf, p).wait
<1>1. /\ Buf.pos = pos /\ Buf.len = len /\ Buf.ring = ring /\ Buf.overflow = overflow
      /\ Buf' = [pos |-> pos, len |-> len, ring |-> ring', overflow |-> overflow']
  BY DEF Buf
<1>2. /\ Buf'.pos = pos /\ Buf'.len = len /\ Buf'.ring = ring' /\ Buf'.overflow = overflow'
      /\ Buf' = [pos |-> Buf'.pos, len |-> Buf'.len, ring |-> Buf'.ring,
                 overflow |-> Buf'.overflow]
  BY <1>1
<1>3. /\ pos \in Nat /\ len \in Nat /\ len <= Capacity /\ Capacity \in Nat \ {0}
      /\ overflow \in Seq(Entry) /\ Len(overflow) \in Nat
      /\ End(Buf) = pos + len /\ Base(Buf) = pos - Len(overflow)
      /\ End(Buf) \in Nat /\ Base(Buf) \in Int
  BY <1>1, Parts, Zenon
<1>4. /\ ring \in [0..(Capacity - 1) -> RingEntry]
      /\ \A p \in pos..(End(Buf) - 1) : ring[p % Capacity].item = p
      /\ graceOver <= pos /\ len \in 0..Capacity /\ End(Buf) <= MaxItems
      /\ \A i \in 1..Len(overflow) : /\ overflow[i].item < pos
                                     /\ overflow[i].expired <=> overflow[i].item < graceOver
      /\ \A i, j \in 1..Len(overflow) : i < j => overflow[i].item < overflow[j].item
  BY <1>1, Zenon DEF Shape
<1> DEFINE atSlot(s) == \E p \in P : InRing(p) /\ p % Capacity = s
           atIndex(i) == \E p \in P : InOverflow(p) /\ Len(overflow) - (pos - p) + 1 = i
<1>5. ASSUME NEW s \in 0..(Capacity - 1)
      PROVE  /\ ring'[s] \in RingEntry /\ ring[s].wait \in Counts
             /\ ring'[s].item = ring[s].item
             /\ ring'[s].wait = IF atSlot(s) THEN Decreased(ring[s].wait) ELSE ring[s].wait
  <2>1. ring[s] \in RingEntry /\ s \in DOMAIN ring
    BY <1>4
  <2>2. ring[s].item \in Items \cup {-1} /\ ring[s].wait \in Counts
        /\ ring[s] = [item |-> ring[s].item, wait |-> ring[s].wait]
    BY <2>1 DEF RingEntry
  <2>3. ring'[s] = IF atSlot(s) THEN [ring[s] EXCEPT !.wait = Decreased(@)] ELSE ring[s]
    BY <2>1, Zenon DEF Observe
  <2>4. Decreased(ring[s].wait) \in Counts
    BY <2>2, DecreasedBy
  <2> HIDE DEF atSlot
  <2> QED BY <2>2, <2>3, <2>4 DEF RingEntry
<1>6. DOMAIN ring' = 0..(Capacity - 1) /\ ring' = [s \in 0..(Capacity - 1) |-> ring'[s]]
  BY <1>4 DEF Observe
<1>7. ring' \in [0..(Capacity - 1) -> RingEntry]
  BY <1>5, <1>6, Zenon
<1>8. ASSUME NEW i \in 1..Len(overflow)
      PROVE  /\ overflow'[i] \in Entry /\ overflow[i].wait \in Counts
             /\ overflow'[i].item = overflow[i].item
             /\ overflow'[i].expired = overflow[i].expired
             /\ overflow'[i].wait = IF atIndex(i) THEN Decreased(overflow[i].wait)
                                    ELSE overflow[i].wait
  <2>1. overflow[i] \in Entry
    BY <1>3, ElementOfSeq
  <2>2. /\ overflow[i].item \in Items /\ overflow[i].wait \in Counts
        /\ overflow[i].expired \in BOOLEAN
        /\ overflow[i] = [item |-> overflow[i].item, wait |-> overflow[i].wait,
                          expired |-> overflow[i].expired]
    BY <2>1 DEF Entry
  <2>3. overflow'[i] = IF atIndex(i) THEN [overflow[i] EXCEPT !.wait = Decreased(@)]
                       ELSE overflow[i]
    BY Zenon DEF Observe
  <2>4. Decreased(overflow[i].wait) \in Counts
    BY <2>2, DecreasedBy
  <2>5. [overflow[i] EXCEPT !.wait = Decreased(@)] =
          [item |-> overflow[i].item, wait |-> Decreased(overflow[i].wait),
           expired |-> overflow[i].expired]
    BY <2>2
  <2> HIDE DEF atIndex
  <2> QED BY <2>2, <2>3, <2>4, <2>5 DEF Entry
<1>9. overflow' \in Seq(Entry) /\ Len(overflow') = Len(overflow)
  <2>1. DOMAIN overflow' = 1..Len(overflow)
        /\ overflow' = [i \in 1..Len(overflow) |-> overflow'[i]]
    BY DEF Observe
  <2>2. overflow' \in [1..Len(overflow) -> Entry]
    BY <1>8, <2>1, Zenon
  <2> QED BY <1>3, <2>2, IsASeq, LenProperties
<1>10. End(Buf') = End(Buf) /\ Base(Buf') = Base(Buf)
  BY <1>2, <1>3, <1>9 DEF End, Base
<1>11. Shape(Buf', graceOver)
  <2>1. \A p \in pos..(End(Buf) - 1) : ring'[p % Capacity].item = p
    <3> SUFFICES ASSUME NEW p \in pos..(End(Buf) - 1) PROVE ring'[p % Capacity].item = p
      OBVIOUS
    <3>1. p \in Nat
      BY <1>3
    <3>2. p % Capacity \in 0..(Capacity - 1)
      BY <3>1, SlotOf
    <3> QED BY <1>4, <1>5, <3>2, Zenon
  <2>2. \A i \in 1..Len(overflow) : /\ overflow'[i].item < pos
                                    /\ overflow'[i].expired <=> overflow'[i].item < graceOver
    BY <1>4, <1>8, Zenon
  <2>3. \A i, j \in 1..Len(overflow) : i < j => overflow'[i].item < overflow'[j].item
    BY <1>4, <1>8, Zenon
  <2> QED BY <1>2, <1>3, <1>4, <1>7, <1>9, <1>10, <2>1, <2>2, <2>3, Zenon DEF Shape
<1>12. ASSUME NEW p \in Nat, p >= Base(Buf), p < End(Buf)
       PROVE  /\ EntryAt(Buf, p).wait \in Counts
              /\ EntryAt(Buf', p).item = EntryAt(Buf, p).item
              /\ EntryAt(Buf', p).wait = IF p \in P THEN Decreased(EntryAt(Buf, p).wait)
                                         ELSE EntryAt(Buf, p).wait
  <2>1. CASE p >= pos
    <3>1. EntryAt(Buf, p) = ring[p % Capacity] /\ EntryAt(Buf', p) = ring'[p % Capacity]
      BY <1>1, <1>2, <2>1, Zenon DEF EntryAt
    <3>2. p % Capacity \in 0..(Capacity - 1)
      BY SlotOf
    <3>3. ASSUME atSlot(p % Capacity) PROVE p \in P
      <4>1. PICK q \in P : InRing(q) /\ q % Capacity = p % Capacity
        BY <3>3, Zenon
      <4>2. q \in Nat /\ q >= pos /\ q < pos + len
        BY <4>1 DEF InRing
      <4>3. p < pos + len
        BY <1>3, <1>12
      <4>4. CASE p < q
        <5>1. q < p + Capacity
          BY <1>3, <2>1, <4>2
        <5> QED BY <1>3, <4>1, <4>2, <4>4, <5>1, SlotsDiffer, Zenon
      <4>5. CASE q < p
        <5>1. p < q + Capacity
          BY <1>3, <4>2, <4>3
        <5> QED BY <1>3, <4>1, <4>2, <4>5, <5>1, SlotsDiffer, Zenon
      <4>6. CASE q = p
        BY <4>6
      <4> QED BY <4>2, <4>4, <4>5, <4>6
    <3>4. ASSUME p \in P PROVE atSlot(p % Capacity)
      <4>1. InRing(p)
        BY <1>3, <1>12, <2>1 DEF InRing
      <4> QED BY <3>4, <4>1, Zenon
    <3> HIDE DEF atSlot
    <3> QED BY <1>5, <3>1, <3>2, <3>3, <3>4, Zenon
  <2>2. CASE ~(p >= pos)
    <3> DEFINE i == p - Base(Buf) + 1
    <3>1. EntryAt(Buf, p) = overflow[i] /\ EntryAt(Buf', p) = overflow'[i]
      BY <1>1, <1>2, <1>10, <2>2, Zenon DEF EntryAt
    <3>2. i \in 1..Len(overflow)
      <4>1. p \in Int /\ Len(overflow) \in Int /\ p < Base(Buf) + Len(overflow)
        BY <1>3, <2>2
      <4> QED BY <1>3, <1>12, <4>1, IndexIn, Zenon
    <3>3. ASSUME atIndex(i) PROVE p \in P
      <4>1. PICK q \in P : InOverflow(q) /\ Len(overflow) - (pos - q) + 1 = i
        BY <3>3, Zenon
      <4>2. q \in Nat
        OBVIOUS
      <4>3. q = p
        BY <1>3, <4>1, <4>2
      <4> QED BY <4>3
    <3>4. ASSUME p \in P PROVE atIndex(i)
      <4>1. InOverflow(p) /\ Len(overflow) - (pos - p) + 1 = i
        BY <1>3, <1>12, <2>2 DEF InOverflow
      <4> QED BY <3>4, <4>1, Zenon
    <3> HIDE DEF atIndex, i
    <3> QED BY <1>8, <3>1, <3>2, <3>3, <3>4, Zenon
  <2> QED BY <2>1, <2>2
<1> QED BY <1>10, <1>11, <1>12

\* The counters stay exact when a cursor observes, or counts off, what it waited for.
LEMMA CursorObserves ==
    ASSUME FInv, ~closed, NEW c \in Cursors, NEW P \in SUBSET Nat, Observe(P), pos' = pos,
           len' = len, graceOver' = graceOver, cursor' \in [Cursors -> Nat],
           \A d \in Cursors : Open(d)' =>
             /\ Open(d) /\ cursor[d] <= cursor'[d]
             /\ cursor'[d] = cursor[d] \/ cursor'[d] >= Base(Buf),
           \A p \in P : c \in Waiting(p),
           \A p \in Nat : Waiting(p)' = IF p \in P THEN Waiting(p) \ {c} ELSE Waiting(p)
    PROVE  Shape(Buf', graceOver') /\ Exact(Buf)'
<1>1. /\ Shape(Buf, graceOver) /\ Exact(Buf)
      /\ cursor \in [Cursors -> Nat] /\ graceOver \in Nat
  BY DEF FInv, Rest
<1>2. /\ Shape(Buf', graceOver) /\ End(Buf') = End(Buf) /\ Base(Buf') = Base(Buf)
      /\ \A p \in Nat : p >= Base(Buf) /\ p < End(Buf) =>
           /\ EntryAt(Buf, p).wait \in Counts
           /\ EntryAt(Buf', p).item = EntryAt(Buf, p).item
           /\ EntryAt(Buf', p).wait = IF p \in P THEN Decreased(EntryAt(Buf, p).wait)
                                      ELSE EntryAt(Buf, p).wait
  BY <1>1, ObserveStep, Zenon
<1>3. ASSUME NEW p \in Nat, p >= Base(Buf), p < End(Buf),
             EntryAt(Buf, p).wait = Cardinality(Waiting(p))
      PROVE  /\ EntryAt(Buf', p).item = EntryAt(Buf, p).item
             /\ EntryAt(Buf', p).wait = Cardinality(Waiting(p)')
  <2>1. CASE p \notin P
    BY <1>2, <1>3, <2>1, Zenon
  <2>2. CASE p \in P
    <3>1. EntryAt(Buf', p).wait = Decreased(Cardinality(Waiting(p)))
          /\ Cardinality(Waiting(p)) \in Counts
      BY <1>2, <1>3, <2>2, Zenon
    <3>2. c \in Waiting(p) /\ Waiting(p)' = Waiting(p) \ {c}
      BY <2>2, Zenon
    <3>3. IsFiniteSet(Waiting(p))
      BY WaitingFinite
    <3>4. Cardinality(Waiting(p) \ {c}) = Cardinality(Waiting(p)) - 1
          /\ Cardinality(Waiting(p)) > 0
      BY <3>2, <3>3, OneLess, Zenon
    <3>5. Decreased(Cardinality(Waiting(p))) = Cardinality(Waiting(p)) - 1
      BY <3>1, <3>4, DecreasedBy, Zenon
    <3> QED BY <1>2, <1>3, <3>1, <3>2, <3>4, <3>5, Zenon
  <2> QED BY <2>1, <2>2
<1>4. graceOver <= graceOver' /\ graceOver' \in Nat
  BY <1>1
<1>5. Exact(Buf)'
  BY <1>1, <1>2, <1>3, <1>4, ExactAfter, Zenon
<1> QED BY <1>2, <1>5

\* A Read observes the items from its cursor to the new one.
LEMMA ReadStep ==
    ASSUME FInv, ~closed, NEW c \in Cursors, pc[c] \in {"ready", "woken"}, NEW n \in Nat \ {0},
           Healthy(cursor[c]), cursor[c] < pos + len,
           NEW end, end = IF cursor[c] + n < pos + len THEN cursor[c] + n ELSE pos + len,
           Observe(cursor[c]..(end - 1)), cursor' = [cursor EXCEPT ![c] = end], Goto(c, "ready"),
           UNCHANGED <<pos, len, graceOver, cend>>
    PROVE  /\ Shape(Buf', graceOver') /\ Exact(Buf)'
           /\ end \in Nat /\ end <= pos + len
<1> DEFINE P == cursor[c]..(end - 1)
<1>1. /\ cursor \in [Cursors -> Nat] /\ Rest /\ Shape(Buf, graceOver)
      /\ pc \in [Cursors -> {"none", "ready", "blocked", "woken", "failed", "closing", "closed"}]
      /\ cend \in [Cursors -> Nat]
  BY DEF FInv, Rest
<1>2. /\ pos \in Nat /\ len \in Nat /\ Len(overflow) \in Nat
      /\ Base(Buf) = pos - Len(overflow)
  <2>1. Buf.pos = pos /\ Buf.len = len /\ Buf.overflow = overflow
    BY DEF Buf
  <2> QED BY <1>1, <2>1, Parts, Zenon
<1>3. cursor[c] \in Nat
  BY <1>1
<1>4. end \in Nat /\ end <= pos + len /\ cursor[c] < end
  BY <1>2, <1>3
<1>5. cursor[c] >= Base(Buf)
  BY <1>2, <1>3 DEF Healthy, InOverflow
<1>6. cursor' \in [Cursors -> Nat] /\ cursor'[c] = end
      /\ \A d \in Cursors \ {c} : cursor'[d] = cursor[d] /\ pc'[d] = pc[d]
  BY <1>1, <1>4 DEF Goto
<1>7. pc'[c] = "ready" /\ cend' = cend
  BY <1>1 DEF Goto
<1>8. \A d \in Cursors : Open(d)' =>
        /\ Open(d) /\ cursor[d] <= cursor'[d]
        /\ cursor'[d] = cursor[d] \/ cursor'[d] >= Base(Buf)
  <2> SUFFICES ASSUME NEW d \in Cursors, Open(d)'
               PROVE  /\ Open(d) /\ cursor[d] <= cursor'[d]
                      /\ cursor'[d] = cursor[d] \/ cursor'[d] >= Base(Buf)
    OBVIOUS
  <2>1. CASE d = c
    <3>1. Open(d)
      BY <2>1 DEF Open
    <3> QED BY <1>2, <1>3, <1>4, <1>5, <1>6, <2>1, <3>1, SMTT(30)
  <2>2. CASE d # c
    <3>1. cursor'[d] = cursor[d] /\ pc'[d] = pc[d] /\ cursor[d] \in Nat
      BY <1>1, <1>6, <2>2
    <3>2. Open(d)
      BY <3>1 DEF Open
    <3> QED BY <3>1, <3>2
  <2> QED BY <2>1, <2>2
<1>9. \A p \in Nat : c \in Waiting(p) <=> cursor[c] <= p
  BY DEF Waiting, Open
<1>10. \A p \in Nat : c \in Waiting(p)' <=> end <= p
  BY <1>6, <1>7 DEF Waiting, Open
<1>11. \A p \in Nat : \A d \in Cursors \ {c} : d \in Waiting(p)' <=> d \in Waiting(p)
  BY <1>6, <1>7, Zenon DEF Waiting, Open
<1>12. P \in SUBSET Nat /\ \A p \in Nat : p \in P <=> cursor[c] <= p /\ p < end
  BY <1>3, <1>4
<1> HIDE DEF P
<1>13. \A p \in P : c \in Waiting(p)
  BY <1>9, <1>12, Zenon
<1>14. ASSUME NEW p \in Nat
       PROVE  Waiting(p)' = IF p \in P THEN Waiting(p) \ {c} ELSE Waiting(p)
  <2>1. p \in P => c \notin Waiting(p)'
    BY <1>4, <1>10, <1>12
  <2>2. p \notin P => (c \in Waiting(p)' <=> c \in Waiting(p))
    BY <1>3, <1>4, <1>9, <1>10, <1>12
  <2>3. Waiting(p) \subseteq Cursors /\ Waiting(p)' \subseteq Cursors
    BY DEF Waiting
  <2>4. CASE p \in P
    <3>1. \A d \in Cursors : d \in Waiting(p)' <=> d \in Waiting(p) \ {c}
      BY <1>11, <2>1, <2>4, Zenon
    <3>2. Waiting(p)' = Waiting(p) \ {c}
      BY <2>3, <3>1, Zenon
    <3> QED BY <2>4, <3>2, Zenon
  <2>5. CASE p \notin P
    <3>1. \A d \in Cursors : d \in Waiting(p)' <=> d \in Waiting(p)
      BY <1>11, <2>2, <2>5, Zenon
    <3>2. Waiting(p)' = Waiting(p)
      BY <2>3, <3>1, Zenon
    <3> QED BY <2>5, <3>2, Zenon
  <2> QED BY <2>4, <2>5
<1>15. Observe(P) /\ pos' = pos /\ len' = len /\ graceOver' = graceOver
  BY DEF P
<1> QED BY <1>4, <1>6, <1>8, <1>12, <1>13, <1>14, <1>15, CursorObserves, Zenon

\* A cursor that is closed counts off what it will never read.
LEMMA CountOffStep ==
    ASSUME FInv, ~closed, NEW c \in Cursors, CountOff(c)
    PROVE  Shape(Buf', graceOver') /\ Exact(Buf)'
<1> DEFINE P == cursor[c]..(cend[c] - 1)
<1>1. /\ cursor \in [Cursors -> Nat]
      /\ pc \in [Cursors -> {"none", "ready", "blocked", "woken", "failed", "closing", "closed"}]
      /\ cend \in [Cursors -> Nat]
  BY DEF FInv, Rest
<1>2. /\ pc[c] = "closing" /\ Observe(P) /\ pc'[c] = "closed"
      /\ \A d \in Cursors \ {c} : cend'[d] = cend[d] /\ pc'[d] = pc[d]
      /\ pos' = pos /\ len' = len /\ graceOver' = graceOver /\ cursor' = cursor
  BY <1>1 DEF CountOff, Unread, Goto
<1>3. cursor[c] \in Nat /\ cend[c] \in Nat
  BY <1>1
<1>4. \A d \in Cursors : Open(d)' =>
        /\ Open(d) /\ cursor[d] <= cursor'[d]
        /\ cursor'[d] = cursor[d] \/ cursor'[d] >= Base(Buf)
  <2> SUFFICES ASSUME NEW d \in Cursors, Open(d)'
               PROVE  Open(d) /\ cursor[d] <= cursor'[d] /\ cursor'[d] = cursor[d]
    OBVIOUS
  <2>1. d # c
    BY <1>2 DEF Open
  <2>2. Open(d)
    BY <1>2, <2>1 DEF Open
  <2> QED BY <1>1, <1>2, <2>2
<1>5. \A p \in Nat : c \in Waiting(p) <=> cursor[c] <= p /\ p < cend[c]
  BY <1>2 DEF Waiting, Open
<1>6. \A p \in Nat : c \notin Waiting(p)'
  BY <1>2 DEF Waiting, Open
<1>7. \A p \in Nat : \A d \in Cursors \ {c} : d \in Waiting(p)' <=> d \in Waiting(p)
  BY <1>2, Zenon DEF Waiting, Open
<1>8. P \in SUBSET Nat /\ \A p \in Nat : p \in P <=> cursor[c] <= p /\ p < cend[c]
  BY <1>3
<1> HIDE DEF P
<1>9. \A p \in P : c \in Waiting(p)
  BY <1>5, <1>8, Zenon
<1>10. ASSUME NEW p \in Nat
       PROVE  Waiting(p)' = IF p \in P THEN Waiting(p) \ {c} ELSE Waiting(p)
  <2>1. Waiting(p) \subseteq Cursors /\ Waiting(p)' \subseteq Cursors
    BY DEF Waiting
  <2>2. CASE p \in P
    <3>1. \A d \in Cursors : d \in Waiting(p)' <=> d \in Waiting(p) \ {c}
      BY <1>6, <1>7, Zenon
    <3>2. Waiting(p)' = Waiting(p) \ {c}
      BY <2>1, <3>1, Zenon
    <3> QED BY <2>2, <3>2, Zenon
  <2>3. CASE p \notin P
    <3>1. \A d \in Cursors : d \in Waiting(p)' <=> d \in Waiting(p)
      BY <1>5, <1>6, <1>7, <1>8, <2>3, Zenon
    <3>2. Waiting(p)' = Waiting(p)
      BY <2>1, <3>1, Zenon
    <3> QED BY <2>3, <3>2, Zenon
  <2> QED BY <2>2, <2>3
<1>11. cursor' \in [Cursors -> Nat]
  BY <1>1, <1>2
<1> QED BY <1>2, <1>4, <1>8, <1>9, <1>10, <1>11, CursorObserves, Zenon

\* A step that leaves the entries alone, and who waits for which.
LEMMA QuietStep ==
    ASSUME FInv, ~closed, UNCHANGED entries, graceOver' = graceOver, cursor' \in [Cursors -> Nat],
           \A d \in Cursors : Open(d)' =>
             (Open(d) /\ cursor'[d] = cursor[d]) \/ cursor'[d] = pos + len,
           \A p \in Nat : p < pos + len => Waiting(p)' = Waiting(p)
    PROVE  Exact(Buf)'
<1>1. /\ Shape(Buf, graceOver) /\ Exact(Buf)
      /\ cursor \in [Cursors -> Nat] /\ graceOver \in Nat
  BY DEF FInv, Rest
<1>2. Buf' = Buf
  BY Zenon DEF Buf, entries
<1>3. End(Buf) = pos + len
  BY DEF Buf, End
<1>4. End(Buf') = End(Buf) /\ Base(Buf') = Base(Buf)
  BY <1>2, Zenon
<1>5. \A p \in Nat :
        /\ p >= Base(Buf) /\ p < End(Buf)
        /\ EntryAt(Buf, p).wait = Cardinality(Waiting(p))
        => /\ EntryAt(Buf', p).item = EntryAt(Buf, p).item
           /\ EntryAt(Buf', p).wait = Cardinality(Waiting(p)')
  BY <1>2, <1>3, Zenon
<1>6. graceOver <= graceOver' /\ graceOver' \in Nat
  BY <1>1
<1>7. \A d \in Cursors : Open(d)' =>
        \/ /\ Open(d) /\ cursor[d] <= cursor'[d]
           /\ cursor'[d] = cursor[d] \/ cursor'[d] >= Base(Buf)
        \/ cursor'[d] = End(Buf)
  <2>1. \A d \in Cursors : cursor'[d] = cursor[d] => cursor[d] <= cursor'[d]
    BY <1>1
  <2> QED BY <1>3, <2>1, Zenon
<1> QED BY <1>1, <1>4, <1>5, <1>6, <1>7, ExactAfter, Zenon

\* The items of the backlog are in order, so a grace period ends for a prefix of it.
LEMMA ElapseStep ==
    ASSUME FInv, NEW n \in 1..Len(overflow), Elapse(n)
    PROVE  /\ Shape(Buf', graceOver') /\ graceOver' \in Nat /\ (Exact(Buf) => Exact(Buf)')
<1>1. /\ Buf.pos = pos /\ Buf.len = len /\ Buf.ring = ring /\ Buf.overflow = overflow
      /\ Shape(Buf, graceOver) /\ cursor \in [Cursors -> Nat] /\ graceOver \in Nat
  BY DEF Buf, FInv, Rest
<1>2. /\ pos' = pos /\ len' = len /\ ring' = ring /\ graceOver' = overflow[n].item + 1
      /\ cursor' = cursor /\ cend' = cend /\ pc' = pc /\ ~overflow[n].expired
  BY DEF Elapse, reading
<1>3. /\ Buf'.pos = pos /\ Buf'.len = len /\ Buf'.ring = ring /\ Buf'.overflow = overflow'
      /\ Buf' = [pos |-> Buf'.pos, len |-> Buf'.len, ring |-> Buf'.ring,
                 overflow |-> Buf'.overflow]
  BY <1>2 DEF Buf
<1>4. /\ pos \in Nat /\ len \in Nat
      /\ overflow \in Seq(Entry) /\ Len(overflow) \in Nat
      /\ End(Buf) = pos + len /\ Base(Buf) = pos - Len(overflow)
      /\ End(Buf) \in Nat /\ Base(Buf) \in Int
  BY <1>1, Parts, Zenon
<1>5. /\ ring \in [0..(Capacity - 1) -> RingEntry]
      /\ \A p \in pos..(End(Buf) - 1) : ring[p % Capacity].item = p
      /\ graceOver <= pos /\ len \in 0..Capacity /\ End(Buf) <= MaxItems
      /\ \A i \in 1..Len(overflow) : /\ overflow[i].item < pos
                                     /\ overflow[i].expired <=> overflow[i].item < graceOver
      /\ \A i, j \in 1..Len(overflow) : i < j => overflow[i].item < overflow[j].item
  BY <1>1, Zenon DEF Shape
<1>6. \A i \in 1..Len(overflow) : overflow[i] \in Entry /\ overflow[i].item \in Nat
  <2> SUFFICES ASSUME NEW i \in 1..Len(overflow)
               PROVE  overflow[i] \in Entry /\ overflow[i].item \in Nat
    OBVIOUS
  <2>1. overflow[i] \in Entry
    BY <1>4, ElementOfSeq
  <2> QED BY <2>1, FanoutAssumption DEF Entry, Items
<1>7. /\ graceOver' \in Nat /\ graceOver' <= pos /\ graceOver <= overflow[n].item
      /\ graceOver <= graceOver'
  <2>1. overflow[n].item \in Nat /\ overflow[n].item < pos /\ ~(overflow[n].item < graceOver)
    BY <1>2, <1>5, <1>6, Zenon
  <2>2. \A g, q, x \in Nat : x < q /\ ~(x < g) =>
          x + 1 \in Nat /\ x + 1 <= q /\ g <= x /\ g <= x + 1
    OBVIOUS
  <2>3. graceOver \in Nat
    BY <1>1
  <2> QED BY <1>2, <1>4, <2>1, <2>2, <2>3, Zenon
<1>8. ASSUME NEW i \in 1..Len(overflow)
      PROVE  /\ overflow'[i] \in Entry
             /\ overflow'[i].item = overflow[i].item /\ overflow'[i].wait = overflow[i].wait
             /\ overflow'[i].expired <=> overflow[i].item < graceOver'
  <2>1. overflow'[i] = IF i <= n THEN [overflow[i] EXCEPT !.expired = TRUE] ELSE overflow[i]
    BY Zenon DEF Elapse
  <2>2. overflow[i] \in Entry /\ overflow[i].item \in Nat /\ overflow[n].item \in Nat
    BY <1>6
  <2>3. CASE i <= n
    <3>1. /\ overflow'[i] = [overflow[i] EXCEPT !.expired = TRUE]
      BY <2>1, <2>3
    <3>2. overflow'[i] \in Entry /\ overflow'[i].item = overflow[i].item
          /\ overflow'[i].wait = overflow[i].wait /\ overflow'[i].expired
      BY <2>2, <3>1 DEF Entry
    <3>3. overflow[i].item < graceOver'
      <4>1. CASE i = n
        BY <1>2, <2>2, <4>1
      <4>2. CASE i < n
        <5>1. overflow[i].item < overflow[n].item
          BY <1>5, <4>2, Zenon
        <5> QED BY <1>2, <2>2, <5>1
      <4> QED BY <2>3, <4>1, <4>2
    <3> QED BY <3>2, <3>3
  <2>4. CASE ~(i <= n)
    <3>1. overflow'[i] = overflow[i]
      BY <2>1, <2>4
    <3>2. n < i
      BY <2>4
    <3>3. overflow[n].item < overflow[i].item
      BY <1>5, <3>2, Zenon
    <3>4. ~(overflow[i].item < graceOver') /\ ~(overflow[i].item < graceOver)
      BY <1>1, <1>2, <1>7, <2>2, <3>3
    <3>5. ~overflow[i].expired
      BY <1>5, <3>4, Zenon
    <3> QED BY <2>2, <3>1, <3>4, <3>5
  <2> QED BY <2>3, <2>4
<1>9. overflow' \in Seq(Entry) /\ Len(overflow') = Len(overflow)
  <2>1. DOMAIN overflow' = 1..Len(overflow)
        /\ overflow' = [i \in 1..Len(overflow) |-> overflow'[i]]
    BY DEF Elapse
  <2>2. overflow' \in [1..Len(overflow) -> Entry]
    BY <1>8, <2>1, Zenon
  <2> QED BY <1>4, <2>2, IsASeq, LenProperties
<1>10. End(Buf') = End(Buf) /\ Base(Buf') = Base(Buf)
  BY <1>3, <1>4, <1>9 DEF End, Base
<1>11. Shape(Buf', graceOver')
  <2>1. \A i \in 1..Len(overflow) : /\ overflow'[i].item < pos
                                    /\ overflow'[i].expired <=> overflow'[i].item < graceOver'
    BY <1>5, <1>8, Zenon
  <2>2. \A i, j \in 1..Len(overflow) : i < j => overflow'[i].item < overflow'[j].item
    BY <1>5, <1>8, Zenon
  <2> QED BY <1>3, <1>4, <1>5, <1>7, <1>9, <1>10, <2>1, <2>2, Zenon DEF Shape
<1>12. ASSUME Exact(Buf) PROVE Exact(Buf)'
  <2>1. \A d \in Cursors : Open(d)' =>
          \/ /\ Open(d) /\ cursor[d] <= cursor'[d]
             /\ cursor'[d] = cursor[d] \/ cursor'[d] >= Base(Buf)
          \/ cursor'[d] = End(Buf)
    BY <1>1, <1>2 DEF Open
  <2>2. ASSUME NEW p \in Nat, p >= Base(Buf), p < End(Buf),
               EntryAt(Buf, p).wait = Cardinality(Waiting(p))
        PROVE  /\ EntryAt(Buf', p).item = EntryAt(Buf, p).item
               /\ EntryAt(Buf', p).wait = Cardinality(Waiting(p)')
    <3>1. Waiting(p)' = Waiting(p)
      BY <1>2, Zenon DEF Waiting, Open
    <3>2. CASE p >= pos
      <4>1. EntryAt(Buf', p) = EntryAt(Buf, p)
        BY <1>1, <1>3, <3>2, Zenon DEF EntryAt
      <4> QED BY <2>2, <3>1, <4>1, Zenon
    <3>3. CASE ~(p >= pos)
      <4>1. p \in Int /\ Len(overflow) \in Int /\ p < Base(Buf) + Len(overflow)
        BY <1>4, <3>3
      <4>2. p - Base(Buf) + 1 \in 1..Len(overflow)
        BY <1>4, <2>2, <4>1, IndexIn, Zenon
      <4>3. EntryAt(Buf, p) = overflow[p - Base(Buf) + 1]
            /\ EntryAt(Buf', p) = overflow'[p - Base(Buf) + 1]
        BY <1>1, <1>3, <1>10, <3>3, Zenon DEF EntryAt
      <4> QED BY <1>8, <2>2, <3>1, <4>2, <4>3, Zenon
    <3> QED BY <3>2, <3>3
  <2>3. cursor' \in [Cursors -> Nat]
    BY <1>1, <1>2
  <2> QED BY <1>1, <1>7, <1>10, <1>12, <2>1, <2>2, <2>3, ExactAfter, Zenon
<1> QED BY <1>7, <1>11, <1>12

\* At the start the buffer is empty.
LEMMA FInit == Init => FInv
<1> SUFFICES ASSUME Init PROVE FInv
  OBVIOUS
<1> USE FanoutAssumption
<1>1. Rest
  <2>1. WaitModulus \in Nat \ {0}
    BY FS_CardinalityType
  <2>2. cursors \in Counts /\ graceOver \in Nat
    <3>1. cursors = 0 /\ graceOver = 0
      BY Zenon DEF Init
    <3> QED BY <2>1, <3>1 DEF Counts
  <2>b. closed \in BOOLEAN
    BY Zenon DEF Init
  <2>3. notify \in Nat /\ notifying \subseteq 0..(notify - 1)
    BY DEF Init
  <2>4. /\ pc \in [Cursors -> {"none", "ready", "blocked", "woken", "failed", "closing", "closed"}]
        /\ cursor \in [Cursors -> Nat] /\ cend \in [Cursors -> Nat]
        /\ channel \in [Cursors -> Nat]
    BY DEF Init
  <2>5. \A c \in Cursors : cursor[c] <= pos + len /\ cend[c] <= pos + len
    BY DEF Init
  <2> QED BY <2>2, <2>b, <2>3, <2>4, <2>5, Zenon DEF Rest
<1>2. /\ Buf.pos = 0 /\ Buf.len = 0 /\ Buf.overflow = <<>>
      /\ Buf.ring = [s \in 0..(Capacity - 1) |-> NoEntry]
      /\ Buf = [pos |-> Buf.pos, len |-> Buf.len, ring |-> Buf.ring, overflow |-> Buf.overflow]
  BY DEF Init, Buf
<1>3. NoEntry \in RingEntry
  <2>1. 0 \in Counts
    BY FS_CardinalityType DEF Counts
  <2> QED BY <2>1 DEF NoEntry, RingEntry
<1>4. End(Buf) = 0 /\ <<>> \in Seq(Entry) /\ Len(<<>>) = 0
  BY <1>2 DEF End
<1>5. Shape(Buf, graceOver)
  BY <1>2, <1>3, <1>4 DEF Shape, Init
<1>6. \A c \in Cursors : ~Open(c)
  BY DEF Init, Open
<1>7. Exact(Buf)
  BY <1>6, Zenon DEF Exact
<1>8. OpenSet = {} /\ cursors = 0
  BY <1>6 DEF OpenSet, Init
<1> QED BY <1>1, <1>5, <1>7, <1>8, FS_EmptySet DEF FInv

\* The part of a step that leaves the entries alone.
LEMMA SameBuffer ==
    ASSUME FInv, UNCHANGED <<entries, graceOver>>
    PROVE  Shape(Buf, graceOver)' /\ pos' + len' = pos + len /\ pos + len \in Nat
<1>1. Buf' = Buf /\ graceOver' = graceOver
  BY Zenon DEF Buf, entries
<1>2. Shape(Buf, graceOver)
  BY DEF FInv
<1>3. pos' + len' = pos + len
  BY DEF entries
<1>4. End(Buf) = pos + len /\ End(Buf) \in Nat
  BY <1>2, Parts DEF Buf, End
<1> QED BY <1>1, <1>2, <1>3, <1>4, Zenon

\* A cursor goes on without a move.
LEMMA GotoStep ==
    ASSUME FInv, NEW c \in Cursors, Open(c),
           NEW w \in {"ready", "blocked", "woken", "failed"}, Goto(c, w),
           UNCHANGED <<buffer, cursor, cend>>, channel' \in [Cursors -> Nat]
    PROVE  FInv'
<1>1. UNCHANGED <<entries, graceOver>>
  BY DEF buffer
<1>2. Shape(Buf, graceOver)' /\ pos' + len' = pos + len
  BY <1>1, SameBuffer
<1>3. pc \in [Cursors -> {"none", "ready", "blocked", "woken", "failed", "closing", "closed"}]
  BY DEF FInv, Rest
<1>4. /\ pc' \in [Cursors -> {"none", "ready", "blocked", "woken", "failed", "closing", "closed"}]
      /\ pc'[c] = w /\ \A d \in Cursors \ {c} : pc'[d] = pc[d]
  BY <1>3 DEF Goto
<1>5. Rest'
  BY <1>2, <1>4 DEF FInv, Rest, buffer
<1>6. Open(c)'
  BY <1>4 DEF Open
<1>7. \A d \in Cursors : Open(d)' <=> Open(d)
  BY <1>4, <1>6, Zenon DEF Open
<1>8. \A d \in Cursors : pc'[d] = "closing" <=> pc[d] = "closing"
  <2>1. pc'[c] # "closing" /\ pc[c] # "closing"
    BY <1>4 DEF Open
  <2> QED BY <1>4, <2>1, Zenon
<1>9. \A p \in Nat : Waiting(p)' = Waiting(p)
  BY <1>7, <1>8, Zenon DEF Waiting
<1>10. OpenSet' = OpenSet /\ closed' = closed /\ cursors' = cursors /\ cursor' = cursor
       /\ graceOver' = graceOver
  BY <1>7 DEF OpenSet, buffer
<1>11. ASSUME ~closed PROVE Exact(Buf)' /\ cursors' = Cardinality(OpenSet)'
  <2>1. cursor' \in [Cursors -> Nat]
    BY <1>10 DEF FInv, Rest
  <2>2. Exact(Buf)'
    BY <1>1, <1>7, <1>9, <1>10, <1>11, <2>1, QuietStep, Zenon
  <2> QED BY <1>10, <1>11, <2>2 DEF FInv
<1> QED BY <1>2, <1>5, <1>10, <1>11 DEF FInv

\* Append.
LEMMA AppendKeeps ==
    ASSUME FInv, NEW n \in Nat, AppendItems(n)
    PROVE  FInv'
<1>1. /\ Shape(Buf', graceOver) /\ Exact(Buf') /\ pos' + len' = pos + len + n
  BY AppendStep
<1>2. /\ ~closed /\ notify' = notify + 1 /\ notifying' = notifying \cup {notify}
      /\ cursors' = cursors /\ closed' = closed /\ graceOver' = graceOver
      /\ pc' = pc /\ cursor' = cursor /\ channel' = channel /\ cend' = cend
  BY DEF AppendItems, reading
<1>3. Rest /\ pos + len \in Nat
  <2>1. End(Buf) = pos + len
    BY DEF Buf, End
  <2>2. Rest /\ Shape(Buf, graceOver)
    BY DEF FInv
  <2> QED BY <2>1, <2>2, Parts
<1>4. Rest'
  <2>1. notify' \in Nat /\ notifying' \subseteq 0..(notify' - 1)
    BY <1>2, <1>3 DEF Rest
  <2>2. \A c \in Cursors : cursor'[c] <= pos' + len' /\ cend'[c] <= pos' + len'
    BY <1>1, <1>2, <1>3 DEF Rest
  <2> QED BY <1>2, <1>3, <2>1, <2>2, Zenon DEF Rest
<1>5. Exact(Buf)'
  <2>1. \A c \in Cursors : Open(c)' <=> Open(c)
    BY <1>2, Zenon DEF Open
  <2>2. \A p : Waiting(p)' = Waiting(p)
    BY <1>2, Zenon DEF Waiting, Open
  <2>3. \A c \in Cursors : Open(c)' =>
          /\ cursor'[c] < Base(Buf') => cursor'[c] < graceOver'
          /\ \A p \in cursor'[c]..(End(Buf') - 1) : p >= Base(Buf') =>
               EntryAt(Buf', p).item = p /\ EntryAt(Buf', p).wait = Cardinality(Waiting(p)')
    BY <1>1, <1>2, <2>1, <2>2, Zenon DEF Exact
  <2> QED BY <2>3, Zenon DEF Exact
<1>6. OpenSet' = OpenSet
  BY <1>2, Zenon DEF OpenSet, Open
<1> QED BY <1>1, <1>2, <1>4, <1>5, <1>6, Zenon DEF FInv

\* The steps of a cursor that opens or closes.
LEMMA CursorKeeps ==
    ASSUME FInv, NEW c \in Cursors, NewCursor(c) \/ CloseCursor(c) \/ CountOff(c)
    PROVE  FInv'
<1> DEFINE PCs == {"none", "ready", "blocked", "woken", "failed", "closing", "closed"}
<1>1. /\ Rest /\ Shape(Buf, graceOver)
      /\ pc \in [Cursors -> PCs] /\ cursor \in [Cursors -> Nat] /\ cend \in [Cursors -> Nat]
      /\ \A d \in Cursors : cursor[d] <= pos + len /\ cend[d] <= pos + len
  BY Zenon DEF FInv, Rest
<1>2. closed' = closed /\ graceOver' = graceOver /\ notify' = notify /\ notifying' = notifying
      /\ channel' = channel
  BY DEF NewCursor, CloseCursor, CountOff
<1>3. pos' + len' = pos + len /\ pos + len \in Nat
  <2>1. pos' = pos /\ len' = len
    BY DEF NewCursor, CloseCursor, CountOff, entries
  <2>2. End(Buf) = pos + len
    BY DEF Buf, End
  <2> QED BY <1>1, <2>1, <2>2, Parts
<1>4. \E w \in PCs : pc' = [pc EXCEPT ![c] = w]
  BY DEF NewCursor, CloseCursor, CountOff, Goto
<1>5. pc' \in [Cursors -> PCs] /\ \A d \in Cursors \ {c} : pc'[d] = pc[d]
  BY <1>1, <1>4
<1>6. ASSUME cursors' \in Counts, cursor' \in [Cursors -> Nat], cend' \in [Cursors -> Nat],
             \A d \in Cursors : cursor'[d] <= pos + len /\ cend'[d] <= pos + len
      PROVE  Rest'
  BY <1>1, <1>2, <1>3, <1>5, <1>6, Zenon DEF Rest
<1>7. OpenSet \subseteq Cursors /\ OpenSet' \subseteq Cursors /\ IsFiniteSet(OpenSet)
      /\ \A d \in Cursors \ {c} : d \in OpenSet' <=> d \in OpenSet
  BY <1>5, OpenFinite, Zenon DEF OpenSet, Open
<1>8. ASSUME NEW p \in Nat
      PROVE  Waiting(p) \subseteq Cursors /\ Waiting(p)' \subseteq Cursors
  BY Zenon DEF Waiting
<1> HIDE DEF PCs
<1>9. CASE NewCursor(c) /\ closed
  <2>1. cursor' = [cursor EXCEPT ![c] = 0] /\ cursors' = cursors /\ cend' = cend
        /\ UNCHANGED <<entries, graceOver>>
    BY <1>9 DEF NewCursor
  <2>2. Shape(Buf, graceOver)'
    BY <2>1, SameBuffer
  <2>3. cursor' \in [Cursors -> Nat] /\ \A d \in Cursors : cursor'[d] <= pos + len
    BY <1>1, <1>3, <2>1
  <2>4. Rest'
    BY <1>1, <1>6, <2>1, <2>3 DEF Rest
  <2> QED BY <1>2, <1>9, <2>2, <2>4 DEF FInv
<1>10. CASE NewCursor(c) /\ ~closed
  <2>1. cursor' = [cursor EXCEPT ![c] = pos + len] /\ cursors' = cursors + 1 /\ cend' = cend
        /\ UNCHANGED <<entries, graceOver>> /\ pc[c] = "none"
    BY <1>10 DEF NewCursor
  <2>2. Shape(Buf, graceOver)'
    BY <2>1, SameBuffer
  <2>3. /\ cursor' \in [Cursors -> Nat] /\ \A d \in Cursors : cursor'[d] <= pos + len
        /\ cursor'[c] = pos + len /\ \A d \in Cursors \ {c} : cursor'[d] = cursor[d]
    BY <1>1, <1>3, <2>1
  <2>4. pc'[c] = "ready"
    BY <1>1, <1>10 DEF NewCursor, Goto
  <2>5. OpenSet' = OpenSet \cup {c} /\ c \notin OpenSet
    <3>1. c \in OpenSet' /\ c \notin OpenSet
      BY <2>1, <2>4 DEF OpenSet, Open
    <3> QED BY <1>7, <3>1
  <2>6. cursors = Cardinality(OpenSet)
    BY <1>10 DEF FInv
  <2>7. cursors' = Cardinality(OpenSet)' /\ cursors' \in Counts
    <3>1. Cardinality(OpenSet \cup {c}) = Cardinality(OpenSet) + 1
      BY <1>7, <2>5, FS_AddElement
    <3>2. Cardinality(OpenSet') \in Nat /\ Cardinality(OpenSet') < WaitModulus
      <4>1. Cardinality(OpenSet') <= Cardinality(Cursors) /\ IsFiniteSet(OpenSet')
        BY <1>7, FS_Subset, FanoutAssumption
      <4>2. Cardinality(OpenSet') \in Nat /\ Cardinality(Cursors) \in Nat
        BY <4>1, FS_CardinalityType, FanoutAssumption
      <4> QED BY <4>1, <4>2, FanoutAssumption
    <3>3. cursors' = Cardinality(OpenSet')
      BY <2>1, <2>5, <2>6, <3>1
    <3> QED BY <3>2, <3>3, FanoutAssumption DEF Counts
  <2>8. Rest'
    BY <1>1, <1>6, <2>1, <2>3, <2>7 DEF Rest
  <2>9. ASSUME NEW p \in Nat, p < pos + len PROVE Waiting(p)' = Waiting(p)
    <3>1. c \notin Waiting(p)'
      BY <1>3, <2>3, <2>9 DEF Waiting
    <3>2. c \notin Waiting(p)
      BY <2>1 DEF Waiting, Open
    <3>3. \A d \in Cursors \ {c} : d \in Waiting(p)' <=> d \in Waiting(p)
      BY <1>5, <2>1, <2>3, Zenon DEF Waiting, Open
    <3> QED BY <1>8, <3>1, <3>2, <3>3
  <2>10. \A d \in Cursors : Open(d)' =>
           (Open(d) /\ cursor'[d] = cursor[d]) \/ cursor'[d] = pos + len
    BY <1>5, <2>3, Zenon DEF Open
  <2>11. Exact(Buf)'
    BY <1>2, <1>10, <2>1, <2>3, <2>9, <2>10, QuietStep, Zenon
  <2> QED BY <1>2, <2>2, <2>7, <2>8, <2>11 DEF FInv
<1>11. CASE CloseCursor(c) /\ closed
  <2>1. cursor' = cursor /\ cursors' = cursors /\ cend' = cend /\ UNCHANGED <<entries, graceOver>>
    BY <1>11 DEF CloseCursor
  <2>2. Shape(Buf, graceOver)'
    BY <2>1, SameBuffer
  <2>3. Rest'
    BY <1>1, <1>6, <2>1 DEF Rest
  <2> QED BY <1>2, <1>11, <2>2, <2>3 DEF FInv
<1>12. CASE CloseCursor(c) /\ ~closed
  <2>1. cursor' = cursor /\ cursors' = cursors - 1 /\ cend' = [cend EXCEPT ![c] = pos + len]
        /\ UNCHANGED <<entries, graceOver>> /\ pc[c] \in {"ready", "failed"}
    BY <1>12 DEF CloseCursor
  <2>2. Shape(Buf, graceOver)'
    BY <2>1, SameBuffer
  <2>3. /\ cend' \in [Cursors -> Nat] /\ \A d \in Cursors : cend'[d] <= pos + len
        /\ cend'[c] = pos + len /\ \A d \in Cursors \ {c} : cend'[d] = cend[d]
    BY <1>1, <1>3, <2>1
  <2>4. pc'[c] = "closing"
    BY <1>1, <1>12 DEF CloseCursor, Goto
  <2>5. OpenSet' = OpenSet \ {c} /\ c \in OpenSet
    <3>1. c \notin OpenSet' /\ c \in OpenSet
      BY <2>1, <2>4 DEF OpenSet, Open
    <3> QED BY <1>7, <3>1
  <2>6. cursors = Cardinality(OpenSet)
    BY <1>12 DEF FInv
  <2>7. cursors' = Cardinality(OpenSet)' /\ cursors' \in Counts
    <3>1. Cardinality(OpenSet \ {c}) = Cardinality(OpenSet) - 1 /\ Cardinality(OpenSet) > 0
      BY <1>7, <2>5, OneLess
    <3>2. Cardinality(OpenSet) \in Nat /\ Cardinality(OpenSet) < WaitModulus
      BY OpenFinite
    <3>3. cursors' = Cardinality(OpenSet')
      BY <2>1, <2>5, <2>6, <3>1
    <3> QED BY <2>1, <2>6, <3>1, <3>2, <3>3, FanoutAssumption DEF Counts
  <2>8. Rest'
    BY <1>1, <1>6, <2>1, <2>3, <2>7
  <2>9. ASSUME NEW p \in Nat, p < pos + len PROVE Waiting(p)' = Waiting(p)
    <3>1. c \in Waiting(p)' <=> cursor[c] <= p
      BY <2>1, <2>3, <2>4, <2>9 DEF Waiting, Open
    <3>2. c \in Waiting(p) <=> cursor[c] <= p
      BY <2>1 DEF Waiting, Open
    <3>3. \A d \in Cursors \ {c} : d \in Waiting(p)' <=> d \in Waiting(p)
      BY <1>5, <2>1, <2>3, Zenon DEF Waiting, Open
    <3> QED BY <1>8, <3>1, <3>2, <3>3
  <2>10. \A d \in Cursors : Open(d)' =>
           (Open(d) /\ cursor'[d] = cursor[d]) \/ cursor'[d] = pos + len
    <3>1. ~Open(c)'
      BY <2>4 DEF Open
    <3> QED BY <1>5, <2>1, <3>1, Zenon DEF Open
  <2>11. cursor' \in [Cursors -> Nat]
    BY <1>1, <2>1
  <2>12. Exact(Buf)'
    BY <1>2, <1>12, <2>1, <2>9, <2>10, <2>11, QuietStep, Zenon
  <2> QED BY <1>2, <2>2, <2>7, <2>8, <2>12 DEF FInv
<1>13. CASE CountOff(c)
  <2>1. cursor' = cursor /\ cursors' = cursors /\ cend' = [cend EXCEPT ![c] = 0]
        /\ pc[c] = "closing" /\ pos' = pos /\ len' = len
    BY <1>13 DEF CountOff
  <2>2. pc'[c] = "closed"
    BY <1>1, <1>13 DEF CountOff, Goto
  <2>3. cend' \in [Cursors -> Nat] /\ \A d \in Cursors : cend'[d] <= pos + len
    BY <1>1, <1>3, <2>1
  <2>4. Rest'
    BY <1>1, <1>6, <2>1, <2>3 DEF Rest
  <2>5. OpenSet' = OpenSet
    <3>1. c \notin OpenSet' /\ c \notin OpenSet
      BY <2>1, <2>2 DEF OpenSet, Open
    <3> QED BY <1>7, <3>1
  <2>6. CASE closed
    <3>1. UNCHANGED <<entries, graceOver>>
      BY <1>13, <2>6 DEF CountOff, entries
    <3>2. Shape(Buf, graceOver)'
      BY <3>1, SameBuffer
    <3> QED BY <1>2, <2>4, <2>6, <3>2 DEF FInv
  <2>7. CASE ~closed
    <3>1. Shape(Buf', graceOver') /\ Exact(Buf)'
      BY <1>13, <2>7, CountOffStep
    <3>2. cursors = Cardinality(OpenSet)
      BY <2>7 DEF FInv
    <3>3. cursors' = Cardinality(OpenSet)'
      BY <2>1, <2>5, <3>2
    <3> QED BY <1>2, <2>4, <3>1, <3>3, Zenon DEF FInv
  <2> QED BY <2>6, <2>7
<1> QED BY <1>9, <1>10, <1>11, <1>12, <1>13

\* A turn of the loop in Cursor.read.
LEMMA TurnKeeps ==
    ASSUME FInv, NEW c \in Cursors, NEW n \in ReadSizes, Read(c, n) \/ ReadAgain(c, n)
    PROVE  FInv'
<1> DEFINE PCs == {"none", "ready", "blocked", "woken", "failed", "closing", "closed"}
<1>1. /\ pc \in [Cursors -> PCs] /\ cursor \in [Cursors -> Nat] /\ cend \in [Cursors -> Nat]
      /\ channel \in [Cursors -> Nat] /\ notify \in Nat /\ Rest
      /\ \A d \in Cursors : cursor[d] <= pos + len /\ cend[d] <= pos + len
  BY Zenon DEF FInv, Rest
<1>2. pc[c] \in {"ready", "woken"} /\ Turn(c, n) /\ Open(c) /\ n \in Nat \ {0}
  BY FanoutAssumption DEF Read, ReadAgain, Open
<1>3. CASE /\ closed \/ ~Healthy(cursor[c])
           /\ Goto(c, "failed") /\ UNCHANGED <<buffer, cursor, channel, cend>>
  <2>1. channel' \in [Cursors -> Nat] /\ UNCHANGED <<buffer, cursor, cend>>
    BY <1>1, <1>3
  <2>2. "failed" \in {"ready", "blocked", "woken", "failed"}
    OBVIOUS
  <2> QED BY <1>2, <1>3, <2>1, <2>2, GotoStep, Zenon
<1>4. CASE /\ Goto(c, "blocked") /\ channel' = [channel EXCEPT ![c] = notify]
           /\ UNCHANGED <<buffer, cursor, cend>>
  <2>1. channel' \in [Cursors -> Nat]
    BY <1>1, <1>4
  <2>2. "blocked" \in {"ready", "blocked", "woken", "failed"}
    OBVIOUS
  <2> QED BY <1>2, <1>4, <2>1, <2>2, GotoStep, Zenon
<1>5. ASSUME ~closed, Healthy(cursor[c]), cursor[c] < pos + len, NEW end,
             end = IF cursor[c] + n < pos + len THEN cursor[c] + n ELSE pos + len,
             Observe(cursor[c]..(end - 1)), cursor' = [cursor EXCEPT ![c] = end],
             Goto(c, "ready"),
             UNCHANGED <<pos, len, cursors, closed, notify, notifying, graceOver, channel, cend>>
      PROVE  FInv'
  <2>1. /\ Shape(Buf', graceOver') /\ Exact(Buf)'
        /\ end \in Nat /\ end <= pos + len
    BY <1>2, <1>5, ReadStep, Zenon
  <2>2. /\ cursor' \in [Cursors -> Nat]
        /\ \A d \in Cursors : cursor'[d] <= pos + len
    BY <1>1, <1>5, <2>1
  <2>3. pc' \in [Cursors -> PCs] /\ pc'[c] = "ready" /\ \A d \in Cursors \ {c} : pc'[d] = pc[d]
    BY <1>1, <1>5 DEF Goto
  <2>4. Rest'
    BY <1>1, <1>5, <2>2, <2>3, Zenon DEF Rest
  <2>5. OpenSet' = OpenSet
    <3>1. \A d \in Cursors : Open(d)' <=> Open(d)
      <4>1. Open(c)'
        BY <2>3 DEF Open
      <4> QED BY <1>2, <2>3, <4>1, Zenon DEF Open
    <3> QED BY <3>1 DEF OpenSet
  <2>6. cursors = Cardinality(OpenSet) /\ cursors' = cursors
    BY <1>5 DEF FInv
  <2> QED BY <2>1, <2>4, <2>5, <2>6, Zenon DEF FInv
<1> QED BY <1>2, <1>3, <1>4, <1>5, Zenon DEF Turn

\* Every step keeps the invariant.
LEMMA FNext == FInv /\ [Next]_vars => FInv'
<1> SUFFICES ASSUME FInv, [Next]_vars PROVE FInv'
  OBVIOUS
<1>1. ASSUME NEW n \in AppendSizes, AppendItems(n) PROVE FInv'
  <2>1. n \in Nat
    BY FanoutAssumption
  <2> QED BY <1>1, <2>1, AppendKeeps
<1>2. ASSUME NEW n \in notifying, Notify(n) PROVE FInv'
  <2>1. /\ UNCHANGED <<entries, graceOver, closed, cursors, notify, pc, cursor, channel, cend>>
        /\ notifying' \subseteq notifying
    BY <1>2 DEF Notify, reading
  <2>2. Shape(Buf, graceOver)' /\ pos' + len' = pos + len
    BY <2>1, SameBuffer
  <2>3. Rest'
    BY <2>1, <2>2 DEF FInv, Rest
  <2>4. Buf' = Buf /\ OpenSet' = OpenSet /\ (\A c \in Cursors : Open(c)' <=> Open(c))
        /\ \A p \in Nat : Waiting(p)' = Waiting(p)
    BY <2>1, Zenon DEF Buf, entries, OpenSet, Open, Waiting
  <2>5. ASSUME ~closed PROVE Exact(Buf)'
    <3>1. cursor' \in [Cursors -> Nat]
      BY <2>1 DEF FInv, Rest
    <3> QED BY <2>1, <2>4, <2>5, <3>1, QuietStep, Zenon
  <2> QED BY <2>1, <2>2, <2>3, <2>4, <2>5, Zenon DEF FInv
<1>3. ASSUME NEW n \in 1..Len(overflow), Elapse(n) PROVE FInv'
  <2>1. /\ Shape(Buf', graceOver') /\ graceOver' \in Nat /\ (Exact(Buf) => Exact(Buf)')
    BY <1>3, ElapseStep
  <2>2. /\ UNCHANGED <<pos, len, closed, cursors, notify, notifying, pc, cursor, channel, cend>>
    BY <1>3 DEF Elapse, reading
  <2>3. Rest'
    BY <2>1, <2>2, Zenon DEF FInv, Rest
  <2>4. OpenSet' = OpenSet
    BY <2>2, Zenon DEF OpenSet, Open
  <2> QED BY <2>1, <2>2, <2>3, <2>4, Zenon DEF FInv
<1>4. ASSUME Close PROVE FInv'
  <2>1. /\ UNCHANGED <<entries, graceOver, cursors, notify, notifying, pc, cursor, channel, cend>>
        /\ closed' = TRUE
    BY <1>4 DEF Close, reading
  <2>2. Shape(Buf, graceOver)' /\ pos' + len' = pos + len
    BY <2>1, SameBuffer
  <2>3. Rest'
    <3>1. closed' \in BOOLEAN
      BY <2>1, Zenon
    <3> QED BY <2>1, <2>2, <3>1, Zenon DEF FInv, Rest
  <2> QED BY <2>1, <2>2, <2>3, Zenon DEF FInv
<1>5. ASSUME NEW c \in Cursors, Woken(c) \/ Cancelled(c) PROVE FInv'
  <2>1. /\ pc[c] = "blocked" /\ channel' = [channel EXCEPT ![c] = 0]
        /\ Goto(c, "woken") \/ Goto(c, "failed")
        /\ UNCHANGED <<buffer, cursor, cend>>
    BY <1>5 DEF Woken, Cancelled
  <2>2. channel' \in [Cursors -> Nat] /\ Open(c)
    BY <2>1 DEF FInv, Rest, Open
  <2>3. "woken" \in {"ready", "blocked", "woken", "failed"}
        /\ "failed" \in {"ready", "blocked", "woken", "failed"}
    OBVIOUS
  <2> QED BY <2>1, <2>2, <2>3, GotoStep, Zenon
<1>6. CASE UNCHANGED vars
  <2>1. UNCHANGED <<pos, len, ring, overflow, graceOver, closed, cursors, notify, notifying, pc,
                    cursor, channel, cend>>
    BY <1>6 DEF vars, buffer, entries, reading
  <2>2. UNCHANGED <<entries, graceOver>> /\ cursor' \in [Cursors -> Nat]
    BY <2>1 DEF entries, FInv, Rest
  <2>3. Shape(Buf, graceOver)'
    BY <2>2, SameBuffer
  <2>4. Rest'
    BY <2>1, Zenon DEF FInv, Rest
  <2>5. Buf' = Buf /\ OpenSet' = OpenSet /\ (\A c \in Cursors : Open(c)' <=> Open(c))
        /\ \A p \in Nat : Waiting(p)' = Waiting(p)
    BY <2>1, Zenon DEF Buf, OpenSet, Open, Waiting
  <2>6. ASSUME ~closed PROVE Exact(Buf)'
    BY <2>1, <2>2, <2>5, <2>6, QuietStep, Zenon
  <2> QED BY <2>1, <2>3, <2>4, <2>5, <2>6, Zenon DEF FInv
<1>7. ASSUME NEW c \in Cursors, CursorStep(c) PROVE FInv'
  <2>1. CASE NewCursor(c) \/ CloseCursor(c) \/ CountOff(c)
    BY <2>1, CursorKeeps
  <2>2. CASE \E n \in ReadSizes : Read(c, n) \/ ReadAgain(c, n)
    BY <2>2, TurnKeeps
  <2> QED BY <1>5, <1>7, <2>1, <2>2, Zenon DEF CursorStep
<1> QED BY <1>1, <1>2, <1>3, <1>4, <1>6, <1>7, Zenon DEF Next

\* getEntry finds the entry of a position that is there.
LEMMA EntryFound ==
    ASSUME Shape(Buf, graceOver), NEW p \in Nat, p < pos + len
    PROVE  /\ InRing(p) \/ InOverflow(p) <=> p >= Base(Buf)
           /\ p >= Base(Buf) => getEntry(p) = EntryAt(Buf, p)
<1>1. Buf.pos = pos /\ Buf.len = len /\ Buf.ring = ring /\ Buf.overflow = overflow
  BY DEF Buf
<1>2. /\ pos \in Nat /\ len \in Nat /\ Len(overflow) \in Nat
      /\ Base(Buf) = pos - Len(overflow)
  BY <1>1, Parts, Zenon
<1>3. InRing(p) <=> p >= pos
  BY <1>2 DEF InRing
<1>4. InRing(p) \/ InOverflow(p) <=> p >= Base(Buf)
  BY <1>2, <1>3 DEF InOverflow
<1>5. Len(overflow) - (pos - p) + 1 = p - Base(Buf) + 1
  BY <1>2
<1>6. getEntry(p) = EntryAt(Buf, p)
  BY <1>1, <1>3, <1>5, Zenon DEF getEntry, EntryAt
<1> QED BY <1>4, <1>6

\* The types follow from the invariant.
LEMMA FTypes == FInv => TypeOK
<1> SUFFICES ASSUME FInv PROVE TypeOK
  OBVIOUS
<1>1. Rest /\ Shape(Buf, graceOver)
  BY DEF FInv
<1>2. Buf.pos = pos /\ Buf.len = len /\ Buf.ring = ring /\ Buf.overflow = overflow
  BY DEF Buf
<1>3. /\ pos \in Nat /\ len \in 0..Capacity /\ End(Buf) = pos + len /\ End(Buf) <= MaxItems
      /\ ring \in [0..(Capacity - 1) -> RingEntry] /\ overflow \in Seq(Entry)
      /\ graceOver <= pos
  BY <1>1, <1>2, Zenon DEF Shape, End
<1>4. pos \in Items /\ pos + len \in Items /\ graceOver \in Items
  BY <1>1, <1>3, FanoutAssumption DEF Items, Rest
<1>5. cursor \in [Cursors -> Items] /\ cend \in [Cursors -> Items]
  <2>1. \A c \in Cursors : cursor[c] \in Items /\ cend[c] \in Items
    <3> SUFFICES ASSUME NEW c \in Cursors PROVE cursor[c] \in Items /\ cend[c] \in Items
      OBVIOUS
    <3>1. cursor[c] \in Nat /\ cend[c] \in Nat /\ cursor[c] <= pos + len /\ cend[c] <= pos + len
      BY <1>1 DEF Rest
    <3> QED BY <1>3, <3>1, FanoutAssumption DEF Items
  <2> QED BY <1>1, <2>1, Zenon DEF Rest
<1>6. \A i \in 1..Len(overflow) : overflow[i] \in Entry
  BY <1>3, ElementOfSeq
<1> QED BY <1>1, <1>3, <1>4, <1>5, <1>6, Zenon DEF TypeOK, Rest, RingEntry, Entry

\* The counters, from the invariant.
LEMMA FWaitExact == FInv => WaitExact
<1> SUFFICES ASSUME FInv PROVE WaitExact
  OBVIOUS
<1>1. TypeOK
  BY FTypes
<1>2. ASSUME ~closed PROVE cursors = Cardinality({c \in Cursors : Open(c)})
  BY <1>2 DEF FInv, OpenSet
<1>3. ASSUME ~closed, NEW p \in 0..(pos + len - 1), InRing(p) \/ InOverflow(p),
             NEW c \in Cursors, Open(c), cursor[c] <= p
      PROVE  getEntry(p).wait = Cardinality(Waiting(p))
  <2>1. Shape(Buf, graceOver) /\ Exact(Buf) /\ cursor[c] \in Nat
    BY <1>3 DEF FInv, Rest
  <2>2. End(Buf) = pos + len /\ pos \in Nat /\ len \in Nat
    <3>1. Buf.pos = pos /\ Buf.len = len
      BY DEF Buf
    <3> QED BY <2>1, <3>1, Parts, Zenon
  <2>3. p \in Nat /\ p < pos + len /\ p \in cursor[c]..(End(Buf) - 1)
    BY <1>3, <2>1, <2>2
  <2>4. p >= Base(Buf) /\ getEntry(p) = EntryAt(Buf, p)
    BY <1>3, <2>1, <2>3, EntryFound, Zenon
  <2> QED BY <1>3, <2>1, <2>3, <2>4, Zenon DEF Exact
<1> QED BY <1>1, <1>2, <1>3, Zenon DEF WaitExact

\* What a cursor finds, from the invariant.
LEMMA FNoSilentGap == FInv => NoSilentGap
<1> SUFFICES ASSUME FInv, ~closed, NEW c \in Cursors, Open(c)
             PROVE  \/ \A p \in cursor[c]..(pos + len - 1) :
                         (InRing(p) \/ InOverflow(p)) /\ getEntry(p).item = p
                    \/ ~Healthy(cursor[c]) /\ cursor[c] < graceOver
  BY Zenon DEF NoSilentGap
<1>1. Shape(Buf, graceOver) /\ Exact(Buf) /\ cursor[c] \in Nat
  BY DEF FInv, Rest
<1>2. /\ pos \in Nat /\ len \in Nat /\ Len(overflow) \in Nat
      /\ End(Buf) = pos + len /\ Base(Buf) = pos - Len(overflow)
  <2>1. Buf.pos = pos /\ Buf.len = len /\ Buf.overflow = overflow
    BY DEF Buf
  <2> QED BY <1>1, <2>1, Parts, Zenon
<1>3. CASE cursor[c] >= Base(Buf)
  <2>1. ASSUME NEW p \in cursor[c]..(pos + len - 1)
        PROVE  (InRing(p) \/ InOverflow(p)) /\ getEntry(p).item = p
    <3>1. p \in Nat /\ p < pos + len /\ p \in cursor[c]..(End(Buf) - 1) /\ p >= Base(Buf)
      BY <1>1, <1>2, <1>3
    <3>2. (InRing(p) \/ InOverflow(p)) /\ getEntry(p) = EntryAt(Buf, p)
      BY <1>1, <3>1, EntryFound, Zenon
    <3>3. EntryAt(Buf, p).item = p
      BY <1>1, <3>1, Zenon DEF Exact
    <3> QED BY <3>2, <3>3
  <2> QED BY <2>1
<1>4. CASE cursor[c] < Base(Buf)
  <2>1. ~Healthy(cursor[c])
    BY <1>1, <1>2, <1>4 DEF Healthy, InOverflow
  <2>2. cursor[c] < graceOver
    BY <1>1, <1>4, Zenon DEF Exact
  <2> QED BY <2>1, <2>2
<1> QED BY <1>1, <1>2, <1>3, <1>4

-----------------------------------------------------------------------------
(* The theorems *)

\* The entries of the buffer, the counters and the cursors agree in every reachable state.
THEOREM BufferAlwaysAgrees == Spec => []FInv
<1>1. Init => FInv
  BY FInit
<1>2. FInv /\ [Next]_vars => FInv'
  BY FNext
<1> QED BY <1>1, <1>2, PTL DEF Spec

\* Until the buffer is closed, the counter of an item that an open cursor will read is the
\* number of the cursors that have yet to observe it or to count it off: Append, Cursor.read
\* and the two critical sections of closeLocked never lose or repeat a decrement, and the
\* unsigned counter never wraps.
THEOREM WaitAlwaysExact == Spec => []WaitExact
<1>1. Spec => []FInv
  BY BufferAlwaysAgrees
<1>2. FInv => WaitExact
  BY FWaitExact
<1> QED BY <1>1, <1>2, PTL

\* A cursor finds every item from its position on, each in its place, or its Read fails and
\* the grace period of the item that it would have read is over: cleanupSlots and ensureSlot
\* drop nothing of a cursor that is in time.
THEOREM NeverSilentGap == Spec => []NoSilentGap
<1>1. Spec => []FInv
  BY BufferAlwaysAgrees
<1>2. FInv => NoSilentGap
  BY FNoSilentGap
<1> QED BY <1>1, <1>2, PTL

=============================================================================
