---------------------------- MODULE FanoutBuffer ----------------------------
(***************************************************************************)
(* The fan-out buffer of lib/utils/fanoutbuffer/buffer.go: a ring of items *)
(* with a backlog for cursors that fall behind, in which every item counts *)
(* the cursors that have yet to observe it.  FanoutV2 (lib/services) sends *)
(* the events of a cache to its watchers through it.                       *)
(*                                                                         *)
(* An action is what one goroutine does while it holds the buffer's lock.  *)
(* An item is named by the number of items appended before it; a notify    *)
(* channel by the number of channels made before it.                       *)
(***************************************************************************)
EXTENDS Integers, Sequences, FiniteSets

CONSTANTS Cursors, Capacity,
          WaitModulus,   \* 2^64: the counters are unsigned
          MaxItems,      \* bound: items that are appended
          AppendSizes,   \* how many items an Append may have
          ReadSizes,     \* how many items a Read has room for: it panics without any
          MaxAppends     \* bound: calls of Append at a time

ASSUME FanoutAssumption ==
    /\ IsFiniteSet(Cursors) /\ Capacity \in Nat \ {0}
    /\ MaxItems \in Nat /\ MaxAppends \in Nat
    /\ AppendSizes \subseteq Nat /\ ReadSizes \subseteq Nat \ {0}
    /\ WaitModulus \in Nat /\ Cardinality(Cursors) < WaitModulus

VARIABLES
    pos, len,       \* the ring holds the items at positions pos .. pos + len - 1
    ring,           \* slot -> item, and how many cursors wait to observe it
    overflow,       \* the backlog; an entry has expired when its grace period is over
    cursors,        \* the number of cursors
    closed,
    notify,         \* the channel that readers wait on
    notifying,      \* channels that an Append has replaced and not closed yet
    pc,             \* where the goroutine of a cursor is
    cursor,         \* the position of a cursor
    channel,        \* the channel that it waits on, 0 while it does not wait
    cend,           \* where closeLocked stops, 0 outside it
    graceOver       \* history: every item from here on is within its grace period

entries == <<pos, len, ring, overflow>>
buffer == <<entries, cursors, closed, notify, notifying, graceOver>>
reading == <<pc, cursor, channel, cend>>
vars == <<buffer, reading>>

NoEntry == [item |-> -1, wait |-> 0]

Init ==
    /\ pos = 0 /\ len = 0 /\ ring = [s \in 0..(Capacity - 1) |-> NoEntry]
    /\ overflow = <<>> /\ graceOver = 0
    /\ cursors = 0 /\ closed = FALSE
    /\ notify = 0 /\ notifying = {}
    /\ pc = [c \in Cursors |-> "none"]
    /\ cursor = [c \in Cursors |-> 0]
    /\ channel = [c \in Cursors |-> 0]
    /\ cend = [c \in Cursors |-> 0]

Goto(c, where) == pc' = [pc EXCEPT ![c] = where]

-----------------------------------------------------------------------------
(* Append *)

\* An entry of the backlog that stops the clearing.
Wanted(e) == e.wait > 0 /\ ~e.expired

\* Faulty variant: the entry at which the loop stops goes too.
clearOverflowToNext(o) ==
    IF \A i \in 1..Len(o) : ~Wanted(o[i]) THEN Len(o)
    ELSE CHOOSE i \in 1..Len(o) : Wanted(o[i]) /\ \A j \in 1..(i - 1) : ~Wanted(o[j])

\* How many entries of the backlog cleanupSlots clears: when it finds none to keep, all but
\* the last.
clearOverflowTo(o) ==
    IF o = <<>> THEN 0
    ELSE IF \A i \in 1..Len(o) : ~Wanted(o[i]) THEN Len(o) - 1
    ELSE (CHOOSE i \in 1..Len(o) : Wanted(o[i]) /\ \A j \in 1..(i - 1) : ~Wanted(o[j])) - 1

\* How many of the oldest items of the ring have been seen by all cursors.
Seen(b) ==
    CHOOSE n \in 0..b.len :
      /\ \A i \in 0..(n - 1) : b.ring[(b.pos + i) % Capacity].wait = 0
      /\ n < b.len => b.ring[(b.pos + n) % Capacity].wait > 0

cleanupSlots(b) ==
    LET n == Seen(b)
        freed == {(b.pos + i) % Capacity : i \in 0..(n - 1)}
    IN  [pos |-> b.pos + n, len |-> b.len - n,
         ring |-> [s \in DOMAIN b.ring |-> IF s \in freed THEN NoEntry ELSE b.ring[s]],
         overflow |-> SubSeq(b.overflow, clearOverflowTo(b.overflow) + 1, Len(b.overflow))]

\* The oldest item goes to the backlog if the ring is full.
ensureSlot(b) ==
    LET oldest == b.ring[b.pos % Capacity]
    IN  IF b.len < Capacity THEN b
        ELSE [pos |-> b.pos + 1, len |-> b.len - 1,
              ring |-> [b.ring EXCEPT ![b.pos % Capacity] = NoEntry],
              overflow |-> Append(b.overflow, [item |-> oldest.item, wait |-> oldest.wait,
                                               expired |-> FALSE])]

Insert(b, item) ==
    LET e == ensureSlot(b)
    IN  [e EXCEPT !.ring[(e.pos + e.len) % Capacity] = [item |-> item, wait |-> cursors],
                  !.len = @ + 1]

\* Append(n items), up to the end of its critical section.
AppendItems(n) ==
    /\ ~closed
    /\ pos + len + n <= MaxItems /\ Cardinality(notifying) < MaxAppends
    /\ LET b == cleanupSlots([pos |-> pos, len |-> len, ring |-> ring, overflow |-> overflow])
           after[i \in 0..n] == IF i = 0 THEN b ELSE Insert(after[i - 1], pos + len + i - 1)
       IN  /\ pos' = after[n].pos /\ len' = after[n].len
           /\ ring' = after[n].ring /\ overflow' = after[n].overflow
    /\ notify' = notify + 1
    /\ notifying' = notifying \cup {notify}
    /\ UNCHANGED <<cursors, closed, graceOver, reading>>

\* Faulty variant: the channel is not closed if the buffer has been closed meanwhile.
NotifyUnlessClosed(n) ==
    /\ n \in notifying /\ ~closed
    /\ notifying' = notifying \ {n}
    /\ UNCHANGED <<entries, cursors, closed, notify, graceOver, reading>>

\* Append closes the channel that it replaced.
Notify(n) ==
    /\ n \in notifying
    /\ notifying' = notifying \ {n}
    /\ UNCHANGED <<entries, cursors, closed, notify, graceOver, reading>>

Close ==
    /\ ~closed
    /\ closed' = TRUE
    /\ UNCHANGED <<entries, cursors, notify, notifying, graceOver, reading>>

\* Time passes: the grace period of the n oldest entries of the backlog ends.
Elapse(n) ==
    /\ ~overflow[n].expired
    /\ overflow' = [i \in 1..Len(overflow) |->
                      IF i <= n THEN [overflow[i] EXCEPT !.expired = TRUE] ELSE overflow[i]]
    /\ graceOver' = overflow[n].item + 1
    /\ UNCHANGED <<pos, len, ring, cursors, closed, notify, notifying, reading>>

-----------------------------------------------------------------------------
(* Cursors *)

NewCursor(c) ==
    /\ pc[c] = "none"
    /\ cursors' = IF closed THEN cursors ELSE cursors + 1
    /\ cursor' = [cursor EXCEPT ![c] = IF closed THEN 0 ELSE pos + len]
    /\ Goto(c, "ready")
    /\ UNCHANGED <<entries, closed, notify, notifying, graceOver, channel, cend>>

\* getEntry
InRing(p) == p >= pos /\ p < pos + len
InOverflow(p) == p < pos /\ pos - p <= Len(overflow)
Healthy(p) == p >= pos \/ InOverflow(p)
getEntry(p) ==
    IF InRing(p) THEN ring[p % Capacity] ELSE overflow[Len(overflow) - (pos - p) + 1]

Decreased(wait) == (wait + WaitModulus - 1) % WaitModulus

\* The entries at the positions P, as far as they are there, have been observed once more.
Observe(P) ==
    /\ ring' = [s \in DOMAIN ring |->
                  IF \E p \in P : InRing(p) /\ p % Capacity = s
                  THEN [ring[s] EXCEPT !.wait = Decreased(@)] ELSE ring[s]]
    /\ overflow' = [i \in 1..Len(overflow) |->
                      IF \E p \in P : InOverflow(p) /\ Len(overflow) - (pos - p) + 1 = i
                      THEN [overflow[i] EXCEPT !.wait = Decreased(@)] ELSE overflow[i]]

\* One turn of the loop in Cursor.read, for at most n items.
Turn(c, n) ==
    \/ /\ closed
       /\ Goto(c, "failed")
       /\ UNCHANGED <<buffer, cursor, channel, cend>>
    \/ /\ ~closed /\ ~Healthy(cursor[c])
       /\ Goto(c, "failed")
       /\ UNCHANGED <<buffer, cursor, channel, cend>>
    \/ /\ ~closed /\ Healthy(cursor[c]) /\ cursor[c] < pos + len
       /\ LET end == IF cursor[c] + n < pos + len THEN cursor[c] + n ELSE pos + len
          IN  /\ Observe(cursor[c]..(end - 1))
              /\ cursor' = [cursor EXCEPT ![c] = end]
       /\ Goto(c, "ready")
       /\ UNCHANGED <<pos, len, cursors, closed, notify, notifying, graceOver, channel, cend>>
    \/ /\ ~closed /\ cursor[c] = pos + len
       /\ Goto(c, "blocked")
       /\ channel' = [channel EXCEPT ![c] = notify]
       /\ UNCHANGED <<buffer, cursor, cend>>

\* Read or TryRead is called.
Read(c, n) == pc[c] = "ready" /\ Turn(c, n)

ChannelClosed(n) == (n < notify /\ n \notin notifying) \/ (n = notify /\ closed)

\* The channel that a Read waits on was closed.
Woken(c) ==
    /\ pc[c] = "blocked" /\ ChannelClosed(channel[c])
    /\ Goto(c, "woken")
    /\ channel' = [channel EXCEPT ![c] = 0]
    /\ UNCHANGED <<buffer, cursor, cend>>

ReadAgain(c, n) == pc[c] = "woken" /\ Turn(c, n)

\* The context of a Read is done.
Cancelled(c) ==
    /\ pc[c] = "blocked"
    /\ Goto(c, "failed")
    /\ channel' = [channel EXCEPT ![c] = 0]
    /\ UNCHANGED <<buffer, cursor, cend>>

\* closeLocked, its first critical section: after an error, or called from outside.
CloseCursor(c) ==
    /\ pc[c] \in {"ready", "failed"}
    /\ \/ /\ closed
          /\ Goto(c, "closed")
          /\ UNCHANGED <<cursors, cend>>
       \/ /\ ~closed
          /\ Goto(c, "closing")
          /\ cursors' = cursors - 1
          /\ cend' = [cend EXCEPT ![c] = pos + len]
    /\ UNCHANGED <<entries, closed, notify, notifying, graceOver, cursor, channel>>

\* Faulty variant: everything is counted off that is there at the second critical section.
UnreadNow(c) == cursor[c]..(pos + len - 1)

\* What the cursor will never read.
Unread(c) == cursor[c]..(cend[c] - 1)

\* closeLocked, its second critical section.
CountOff(c) ==
    /\ pc[c] = "closing"
    /\ \/ closed /\ UNCHANGED <<ring, overflow>>
       \/ ~closed /\ Observe(Unread(c))
    /\ Goto(c, "closed")
    /\ cend' = [cend EXCEPT ![c] = 0]
    /\ UNCHANGED <<pos, len, cursors, closed, notify, notifying, graceOver, cursor, channel>>

-----------------------------------------------------------------------------

CursorStep(c) ==
    \/ NewCursor(c) \/ Woken(c) \/ Cancelled(c) \/ CloseCursor(c) \/ CountOff(c)
    \/ \E n \in ReadSizes : Read(c, n) \/ ReadAgain(c, n)

Next ==
    \/ \E n \in AppendSizes : AppendItems(n)
    \/ \E n \in notifying : Notify(n)
    \/ \E n \in 1..Len(overflow) : Elapse(n)
    \/ Close
    \/ \E c \in Cursors : CursorStep(c)

Spec == Init /\ [][Next]_vars

\* An Append that has left its critical section goes on, and so does a Read that was woken.
Fairness ==
    /\ WF_vars(\E n \in notifying : Notify(n))
    /\ \A c \in Cursors : WF_vars(Woken(c)) /\ WF_vars(\E n \in ReadSizes : ReadAgain(c, n))

FairSpec == Spec /\ Fairness

-----------------------------------------------------------------------------
(* Properties *)

Open(c) == pc[c] \in {"ready", "blocked", "woken", "failed"}

\* The cursors that have yet to observe an item, or to count it off.
Waiting(item) ==
    {c \in Cursors : /\ cursor[c] <= item
                     /\ Open(c) \/ (pc[c] = "closing" /\ item < cend[c])}

Counts == 0..(WaitModulus - 1)
Items == 0..MaxItems

\* The types of the variables.
TypeOK ==
    /\ pos \in Items /\ len \in 0..Capacity /\ pos + len \in Items
    /\ ring \in [0..(Capacity - 1) -> [item : Items \cup {-1}, wait : Counts]]
    /\ \A i \in 1..Len(overflow) :
         overflow[i] \in [item : Items, wait : Counts, expired : BOOLEAN]
    /\ cursors \in Counts /\ closed \in BOOLEAN
    /\ notify \in Nat /\ notifying \subseteq 0..(notify - 1)
    /\ pc \in [Cursors -> {"none", "ready", "blocked", "woken", "failed", "closing", "closed"}]
    /\ cursor \in [Cursors -> Items] /\ channel \in [Cursors -> Nat]
    /\ cend \in [Cursors -> Items] /\ graceOver \in Items

\* The state is typed and, until the buffer is closed, the counter of an item that some
\* cursor will read is the number of cursors that have yet to observe it, whatever is
\* appended between the two critical sections of closeLocked.
WaitExact ==
    /\ TypeOK
    /\ ~closed =>
         /\ cursors = Cardinality({c \in Cursors : Open(c)})
         /\ \A p \in 0..(pos + len - 1) :
              (InRing(p) \/ InOverflow(p)) /\ (\E c \in Cursors : Open(c) /\ cursor[c] <= p)
              => getEntry(p).wait = Cardinality(Waiting(p))

\* No gap is silent: a cursor finds every item from its position on, each in its place, or
\* its Read fails, and then the grace period of the item that it would have read is over.
NoSilentGap ==
    ~closed => \A c \in Cursors : Open(c) =>
      \/ \A p \in cursor[c]..(pos + len - 1) :
           (InRing(p) \/ InOverflow(p)) /\ getEntry(p).item = p
      \/ ~Healthy(cursor[c]) /\ cursor[c] < graceOver

\* A Read that waits while there are items for it, or while the buffer is closed, goes on,
\* although Append closes the channel after its critical section, and a Close or another
\* Append may come first.
ReadersWoken ==
    \A c \in Cursors :
      (pc[c] = "blocked" /\ (closed \/ cursor[c] < pos + len)) ~> pc[c] # "blocked"

=============================================================================
