----------------------------- MODULE ManagedConn -----------------------------
(***************************************************************************)
(* managedConn of lib/resumption/managedconn.go as the goroutines that     *)
(* share it use it: the application reads, writes, closes and sets         *)
(* deadlines, timers fire, and the run of a transport fills the receive    *)
(* buffer, drains the send buffer and reports the end of the peer.         *)
(*                                                                         *)
(* An action is what one goroutine does between taking the mutex and       *)
(* releasing it, or waiting on the condition variable: a waiting goroutine *)
(* goes on only after a Broadcast has woken it.  A timer fires, and a      *)
(* transport writes into the free part of the receive buffer, without the  *)
(* mutex.  A byte is named by its position in the stream.                  *)
(***************************************************************************)
EXTENDS RingBuffer

CONSTANTS Setters,             \* goroutines that set deadlines
          receiveBufferSize, sendBufferSize,
          ReceiveBytes,        \* bound: bytes that the peer sends
          SendBytes,           \* bound: bytes that the application writes
          Calls                \* bound: the calls <<setter, kinds, time>> that are made

Kinds == {"read", "write"}
Times == {"zero", "past", "future"}

ASSUME ManagedConnAssumption ==
    /\ initialBufferSize \in Nat \ {0}
    /\ receiveBufferSize \in Nat \ {0} /\ sendBufferSize \in Nat \ {0}
    /\ ReceiveBytes \in Nat /\ SendBytes \in Nat
    /\ Calls \subseteq Setters \X ((SUBSET Kinds) \ {{}}) \X Times

VARIABLES
    readDeadline,   \* [timer, timeout, stopped] of the two deadlines
    writeDeadline,
    callbacks,      \* timer functions that have started and wait for the mutex
    localClosed, remoteClosed,
    receiveBuffer, sendBuffer,
    setter,         \* a call of SetDeadline, SetReadDeadline or SetWriteDeadline
    reader, writer, \* a call of Read and of Write
    tail,           \* the slice that the transport reads into
    filled,         \* how much of it holds data
    due             \* history: the deadline in force has been reached

deadlines == <<readDeadline, writeDeadline, callbacks, due>>
waiters == <<setter, reader, writer>>
transport == <<tail, filled>>
closedVars == <<localClosed, remoteClosed>>
buffers == <<receiveBuffer, sendBuffer>>
vars == <<deadlines, waiters, transport, closedVars, buffers>>

Deadline(k) == IF k = "read" THEN readDeadline ELSE writeDeadline

Unset == [timer |-> "nil", timeout |-> FALSE, stopped |-> FALSE]
Returned == [at |-> "returned", kinds |-> {}, time |-> "zero"]
NotWriting == [at |-> "returned", left |-> 0]

Init ==
    /\ readDeadline = Unset /\ writeDeadline = Unset
    /\ callbacks = [k \in Kinds |-> 0]
    /\ localClosed = FALSE /\ remoteClosed = FALSE
    /\ receiveBuffer = Empty /\ sendBuffer = Empty
    /\ setter = [s \in Setters |-> Returned]
    /\ reader = "returned"
    /\ writer = NotWriting
    /\ tail = <<>> /\ filled = 0
    /\ due = [k \in Kinds |-> FALSE]

-----------------------------------------------------------------------------
(* The condition variable *)

SettersAwake ==
    [s \in Setters |-> IF setter[s].at = "wait" THEN [setter[s] EXCEPT !.at = "woken"]
                       ELSE setter[s]]
ReaderAwake == IF reader = "wait" THEN "woken" ELSE reader
WriterAwake == IF writer.at = "wait" THEN [writer EXCEPT !.at = "woken"] ELSE writer

Broadcast == setter' = SettersAwake /\ reader' = ReaderAwake /\ writer' = WriterAwake

-----------------------------------------------------------------------------
(* Deadlines *)

\* Faulty variant: the timer's function is not waited for.
MustWaitNever(k) == FALSE

\* setDeadlineLocked has to wait: the timer is not stopped, and Stop fails.
MustWait(k) == Deadline(k).timer = "idle" /\ ~Deadline(k).stopped

\* What is left of setDeadlineLocked once the timer is stopped.
SetTo(d, t) ==
    IF t = "future" THEN [timer |-> "armed", timeout |-> FALSE, stopped |-> FALSE]
    ELSE [timer |-> IF d.timer = "nil" THEN "nil" ELSE "idle",
          timeout |-> t = "past",
          stopped |-> d.timer # "nil"]

\* The kinds, of those that a call has yet to set, that it sets before it waits.
SetNow(kinds) ==
    IF "read" \in kinds /\ MustWait("read") THEN {}
    ELSE {k \in kinds : ~MustWait(k)}

\* A deadline ahead may have passed when a call comes to it, and never comes back.
AtTime(t, time) ==
    /\ \A k \in Kinds : time[k] = t \/ (t = "future" /\ time[k] = "past")
    /\ time["read"] = "past" => time["write"] = "past"

\* The body of a call, from where it took the mutex.
SetBody(s, kinds, t) ==
    LET now == SetNow(kinds)
    IN  \E time \in [Kinds -> Times] :
          /\ AtTime(t, time)
          /\ readDeadline' = IF "read" \in now THEN SetTo(readDeadline, time["read"])
                             ELSE readDeadline
          /\ writeDeadline' = IF "write" \in now THEN SetTo(writeDeadline, time["write"])
                              ELSE writeDeadline
          /\ due' = [k \in Kinds |-> IF k \in now THEN time[k] = "past" ELSE due[k]]
          /\ LET awake == \E k \in now : time[k] = "past"
             IN  /\ setter' = [(IF awake THEN SettersAwake ELSE setter) EXCEPT
                      ![s] = IF now = kinds THEN Returned
                             ELSE [at |-> "wait", kinds |-> kinds \ now, time |-> t]]
                 /\ reader' = IF awake THEN ReaderAwake ELSE reader
                 /\ writer' = IF awake THEN WriterAwake ELSE writer
          /\ UNCHANGED <<callbacks, closedVars, buffers, transport>>

\* SetDeadline, SetReadDeadline or SetWriteDeadline is called.
SetDeadline(s, kinds, t) ==
    /\ setter[s].at = "returned" /\ ~localClosed
    /\ SetBody(s, kinds, t)

\* It was woken.
SetDeadlineAgain(s) ==
    /\ setter[s].at = "woken"
    /\ SetBody(s, setter[s].kinds, setter[s].time)

\* The timer fires; its function starts.
Fire(k) ==
    /\ Deadline(k).timer = "armed"
    /\ readDeadline' = IF k = "read" THEN [readDeadline EXCEPT !.timer = "idle"]
                       ELSE readDeadline
    /\ writeDeadline' = IF k = "write" THEN [writeDeadline EXCEPT !.timer = "idle"]
                        ELSE writeDeadline
    /\ callbacks' = [callbacks EXCEPT ![k] = @ + 1]
    /\ due' = [due EXCEPT ![k] = TRUE]
    /\ UNCHANGED <<waiters, closedVars, buffers, transport>>

\* Faulty variant: the function does not report that it is done.
TimedOutNotStopped(d) == [d EXCEPT !.timeout = TRUE]

TimedOut(d) == [timer |-> d.timer, timeout |-> TRUE, stopped |-> TRUE]

\* Faulty variant: the function wakes nobody.
CallbackSilent(k) ==
    /\ callbacks[k] > 0
    /\ readDeadline' = IF k = "read" THEN TimedOut(readDeadline) ELSE readDeadline
    /\ writeDeadline' = IF k = "write" THEN TimedOut(writeDeadline) ELSE writeDeadline
    /\ callbacks' = [callbacks EXCEPT ![k] = @ - 1]
    /\ UNCHANGED <<waiters, closedVars, buffers, transport, due>>

\* The timer's function takes the mutex.
Callback(k) ==
    /\ callbacks[k] > 0
    /\ readDeadline' = IF k = "read" THEN TimedOut(readDeadline) ELSE readDeadline
    /\ writeDeadline' = IF k = "write" THEN TimedOut(writeDeadline) ELSE writeDeadline
    /\ callbacks' = [callbacks EXCEPT ![k] = @ - 1]
    /\ Broadcast
    /\ UNCHANGED <<closedVars, buffers, transport, due>>

-----------------------------------------------------------------------------
(* Close, Read and Write *)

StopTimer(d) == IF d.timer = "armed" THEN [d EXCEPT !.timer = "idle"] ELSE d

Close ==
    /\ ~localClosed
    /\ localClosed' = TRUE
    /\ readDeadline' = StopTimer(readDeadline)
    /\ writeDeadline' = StopTimer(writeDeadline)
    /\ Broadcast
    /\ UNCHANGED <<callbacks, due, remoteClosed, buffers, transport>>

\* One turn of Read's loop: a timeout, data, the end of the stream, or a wait.
ReadTurn ==
    \/ /\ readDeadline.timeout \/ (len(receiveBuffer) = 0 /\ remoteClosed)
       /\ reader' = "returned"
       /\ UNCHANGED <<receiveBuffer, setter, writer>>
    \/ /\ ~readDeadline.timeout
       /\ \E n \in 1..len(receiveBuffer) : receiveBuffer' = advance(receiveBuffer, n)
       /\ reader' = "returned" /\ setter' = SettersAwake /\ writer' = WriterAwake
    \/ /\ ~readDeadline.timeout /\ len(receiveBuffer) = 0 /\ ~remoteClosed
       /\ reader' = "wait"
       /\ UNCHANGED <<receiveBuffer, setter, writer>>

Read ==
    /\ reader = "returned" /\ ~localClosed
    /\ ReadTurn
    /\ UNCHANGED <<deadlines, closedVars, sendBuffer, transport>>

ReadAgain ==
    /\ reader = "woken"
    /\ \/ localClosed /\ reader' = "returned"
                      /\ UNCHANGED <<receiveBuffer, setter, writer>>
       \/ ~localClosed /\ ReadTurn
    /\ UNCHANGED <<deadlines, closedVars, sendBuffer, transport>>

\* The next n bytes that the application writes.
NextBytes(w, n) == [i \in 1..n |-> w.end + i - 1]

\* One turn of Write's loop with left bytes to go.
WriteTurn(left) ==
    LET n == writable(sendBuffer, left, sendBufferSize)
    IN  /\ sendBuffer' = IF n = 0 THEN sendBuffer
                         ELSE append(sendBuffer, NextBytes(sendBuffer, n))
        /\ writer' = IF n = left THEN NotWriting ELSE [at |-> "wait", left |-> left - n]
        /\ setter' = IF n = 0 THEN setter ELSE SettersAwake
        /\ reader' = IF n = 0 THEN reader ELSE ReaderAwake

WriteFails == localClosed \/ writeDeadline.timeout \/ remoteClosed

Write(n) ==
    /\ writer.at = "returned" /\ ~WriteFails /\ sendBuffer.end + n <= SendBytes
    /\ WriteTurn(n)
    /\ UNCHANGED <<deadlines, closedVars, receiveBuffer, transport>>

WriteAgain ==
    /\ writer.at = "woken"
    /\ \/ WriteFails /\ writer' = NotWriting /\ UNCHANGED <<sendBuffer, setter, reader>>
       \/ ~WriteFails /\ WriteTurn(writer.left)
    /\ UNCHANGED <<deadlines, closedVars, receiveBuffer, transport>>

-----------------------------------------------------------------------------
(* The run of a transport *)

\* runResumeV1Read takes the first free slice, for at most n bytes of a frame.
TakeTail(n) ==
    /\ tail = <<>> /\ ~localClosed /\ ~remoteClosed
    /\ len(receiveBuffer) < receiveBufferSize
    /\ receiveBuffer.end + n <= ReceiveBytes
    /\ LET room == receiveBufferSize - len(receiveBuffer)
           next == IF room < n THEN room ELSE n
           w == reserve(receiveBuffer, next)
           slots == free1(w)
       IN  /\ receiveBuffer' = w
           /\ tail' = IF Len(slots) > n THEN SubSeq(slots, 1, n) ELSE slots
    /\ filled' = 0
    /\ UNCHANGED <<deadlines, waiters, closedVars, sendBuffer>>

\* A byte arrives; the mutex is not held.
Arrive ==
    /\ filled < Len(tail)
    /\ filled' = filled + 1
    /\ receiveBuffer' = [receiveBuffer EXCEPT
                           !.data[tail[filled + 1]] = receiveBuffer.end + filled]
    /\ UNCHANGED <<deadlines, waiters, closedVars, sendBuffer, tail>>

\* The read is over, complete or not.
AppendTail ==
    /\ tail # <<>>
    /\ IF filled = 0 THEN UNCHANGED <<receiveBuffer, waiters>>
       ELSE /\ receiveBuffer' =
                 append(receiveBuffer, Bytes(receiveBuffer, SubSeq(tail, 1, filled)))
            /\ Broadcast
    /\ tail' = <<>> /\ filled' = 0
    /\ UNCHANGED <<deadlines, closedVars, sendBuffer>>

\* Faulty variant: a Write that waits for room is not woken.
AcknowledgedSilently(n) ==
    /\ sendBuffer' = advance(sendBuffer, n)
    /\ UNCHANGED <<deadlines, waiters, closedVars, receiveBuffer, transport>>

\* The peer acknowledges n bytes.
Acknowledged(n) ==
    /\ sendBuffer' = advance(sendBuffer, n)
    /\ Broadcast
    /\ UNCHANGED <<deadlines, closedVars, receiveBuffer, transport>>

\* The peer is gone.
RemoteClose ==
    /\ ~remoteClosed /\ tail = <<>>
    /\ remoteClosed' = TRUE
    /\ Broadcast
    /\ UNCHANGED <<deadlines, localClosed, buffers, transport>>

-----------------------------------------------------------------------------

Application ==
    \/ Read \/ ReadAgain \/ WriteAgain \/ Close
    \/ \E n \in 1..SendBytes : Write(n)
    \/ \E c \in Calls : SetDeadline(c[1], c[2], c[3])
    \/ \E s \in Setters : SetDeadlineAgain(s)

Run ==
    \/ \E n \in 1..ReceiveBytes : TakeTail(n)
    \/ Arrive \/ AppendTail \/ RemoteClose
    \/ \E n \in 1..len(sendBuffer) : Acknowledged(n)

Timer == \E k \in Kinds : Fire(k) \/ Callback(k)

Next == Application \/ Run \/ Timer

Spec == Init /\ [][Next]_vars

\* A goroutine that was woken takes the mutex, time passes, and a timer's function runs.
Fairness ==
    /\ WF_vars(ReadAgain) /\ WF_vars(WriteAgain)
    /\ \A s \in Setters : WF_vars(SetDeadlineAgain(s))
    /\ \A k \in Kinds : WF_vars(Fire(k)) /\ WF_vars(Callback(k))

FairSpec == Spec /\ Fairness

-----------------------------------------------------------------------------
(* Properties *)

TimerState == [timer : {"nil", "armed", "idle"}, timeout : BOOLEAN, stopped : BOOLEAN]

DeadlinesOK ==
    /\ readDeadline \in TimerState /\ writeDeadline \in TimerState
    /\ callbacks \in [Kinds -> {0, 1}]
    /\ due \in [Kinds -> BOOLEAN]

\* Types; a timer has at most one function under way.
TypeOK ==
    /\ DeadlinesOK
    /\ localClosed \in BOOLEAN /\ remoteClosed \in BOOLEAN
    /\ setter \in [Setters -> [at : {"returned", "wait", "woken"},
                               kinds : SUBSET Kinds, time : Times]]
    /\ reader \in {"returned", "wait", "woken"}
    /\ writer \in [at : {"returned", "wait", "woken"}, left : 0..SendBytes]

\* An operation times out only when the deadline that is in force has been reached: a
\* timer that fired for an earlier deadline does not time out a later one (the wait for
\* its function in setDeadlineLocked), and a cleared deadline stays cleared.
TimeoutOnlyWhenDue == \A k \in Kinds : Deadline(k).timeout => due[k]

\* "Anything that modifies data that other functions might Wait() on should Broadcast()
\* before unlocking": a goroutine that waits, and that no Broadcast has woken, has
\* nothing to do yet.
NoMissedWakeup ==
    /\ reader = "wait" =>
         ~localClosed /\ ~remoteClosed /\ ~readDeadline.timeout /\ len(receiveBuffer) = 0
    /\ writer.at = "wait" => ~WriteFails /\ len(sendBuffer) >= sendBufferSize
    /\ \A s \in Setters : setter[s].at = "wait" => SetNow(setter[s].kinds) = {}

\* Both buffers hold the bytes of their stream from start to end, in order, whatever was
\* wrapped around, moved to a larger array, or filled in outside the mutex.
StreamInOrder ==
    \A w \in {receiveBuffer, sendBuffer} :
      Bytes(w, buffered(w)) = [i \in 1..len(w) |-> w.start + i - 1]

\* A Read that is blocked returns once its deadline is reached, unless another deadline
\* is set.
ReadUnblocked ==
    (reader # "returned" /\ due["read"]) ~> (reader = "returned" \/ ~due["read"])

\* While the connection is open, a call that waits in setDeadlineLocked waits for a timer
\* function that is under way, and that will wake it.
WaitsForCallback ==
    \A s \in Setters : setter[s].at = "wait" /\ ~localClosed =>
      \E k \in setter[s].kinds : callbacks[k] > 0

\* A call that is setting a deadline when the connection is closed returns: if the timer
\* cannot be stopped, "we have to wait for its callback to finish (as signaled by
\* d.stopped)" (setDeadlineLocked), and Close wakes whoever waits.
SetterReturns ==
    \A s \in Setters :
      (setter[s].at # "returned" /\ localClosed) ~> setter[s].at = "returned"

=============================================================================
