------------------------------ MODULE RingBuffer ------------------------------
(***************************************************************************)
(* The buffer of lib/resumption/managedconn.go: a window of a byte stream, *)
(* between the absolute positions start and end, stored in an array whose  *)
(* length cap is a power of two; the byte at position i is in slot i % cap.*)
(* A slice of the array is the sequence of its slots, and a pair of slices *)
(* that the code uses one after the other is their concatenation.          *)
(***************************************************************************)
EXTENDS Integers, Sequences

CONSTANTS initialBufferSize

Zero == -1   \* what a fresh array holds

\* The zero value of a buffer: no array yet.
Empty == [cap |-> 0, data |-> <<>>, start |-> 0, end |-> 0]

len(w) == w.end - w.start

Slots(left, right) == [i \in 1..(right - left) |-> left + i - 1]

\* The used slots, in stream order.
buffered(w) ==
    LET left == w.start % w.cap
        right == w.end % w.cap
    IN  IF len(w) = 0 THEN <<>>
        ELSE IF left >= right THEN Slots(left, w.cap) \o Slots(0, right)
        ELSE Slots(left, right)

\* The two free slices, in stream order.
free1(w) ==
    LET left == w.start % w.cap
        right == w.end % w.cap
    IN  IF len(w) = 0 THEN Slots(left, w.cap)
        ELSE IF left >= right THEN Slots(right, left)
        ELSE Slots(right, w.cap)

free2(w) ==
    LET left == w.start % w.cap
        right == w.end % w.cap
    IN  IF len(w) > 0 /\ left >= right THEN <<>> ELSE Slots(0, left)

\* The bytes that a sequence of slots holds.
Bytes(w, slots) == [i \in 1..Len(slots) |-> w.data[slots[i]]]

\* copy(f2, b[copy(f1, b):]); w.end += len64(b)
Put(w, b) ==
    LET free == free1(w) \o free2(w)
    IN  [w EXCEPT !.data = [s \in DOMAIN w.data |->
                              IF \E i \in 1..Len(b) : free[i] = s
                              THEN b[CHOOSE i \in 1..Len(b) : free[i] = s]
                              ELSE w.data[s]],
                  !.end = w.end + Len(b)]

\* 2 to the power k.
Power[k \in Nat] == IF k = 0 THEN 1 ELSE 2 * Power[k - 1]

\* The smallest of base, 2 * base, 4 * base, ... that is not less than n.
Doubled(base, n) ==
    LET sizes == {base * Power[k] : k \in 0..n}
    IN  CHOOSE c \in sizes : c >= n /\ \A d \in sizes : d >= n => c <= d

\* Faulty variant: every byte stays in its slot when the array grows.
reserveInPlace(w, n) ==
    LET need == n + len(w)
        double == 2 * w.cap
        cap == Doubled(IF double > initialBufferSize THEN double
                       ELSE initialBufferSize, need)
    IN  IF need <= w.cap THEN w
        ELSE [w EXCEPT !.cap = cap,
                       !.data = [s \in 0..(cap - 1) |-> IF s < w.cap THEN w.data[s] ELSE Zero]]

reserve(w, n) ==
    LET need == n + len(w)
        double == 2 * w.cap
        cap == Doubled(IF double > initialBufferSize THEN double
                       ELSE initialBufferSize, need)
    IN  IF need <= w.cap THEN w
        ELSE Put([cap |-> cap, data |-> [s \in 0..(cap - 1) |-> Zero],
                  start |-> w.start, end |-> w.start],
                 Bytes(w, buffered(w)))

append(w, b) == Put(reserve(w, Len(b)), b)

\* How much of n bytes write takes.
writable(w, n, max) ==
    IF len(w) >= max THEN 0
    ELSE IF max - len(w) < n THEN max - len(w) ELSE n

advance(w, n) ==
    [w EXCEPT !.start = w.start + n,
              !.end = IF w.start + n > w.end THEN w.start + n ELSE w.end]

=============================================================================
