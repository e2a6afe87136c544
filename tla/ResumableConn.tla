---------------------------- MODULE ResumableConn ----------------------------
(***************************************************************************)
(* The symmetric resumption v1 protocol of lib/resumption/resumable.go,    *)
(* run by the two ends of one resumable connection over a set of           *)
(* unreliable transports, together with the application's view of it       *)
(* (Read, Write and Close of lib/resumption/managedconn.go) and the loop   *)
(* of lib/resumption/client.go that dials replacement transports.          *)
(*                                                                         *)
(* Every section of the code that runs under Conn.mu is one atomic action, *)
(* and so is every I/O call on a transport; cond.Wait() is a guard.  A     *)
(* byte is its label, the number of bytes its application wrote before it: *)
(* a run of bytes is the label of its first and a size, and loss,          *)
(* duplication or reordering show in the labels a receive buffer holds.    *)
(***************************************************************************)
EXTENDS Integers, Sequences

CONSTANTS Transports,         \* identities of the underlying connections
          First,              \* the one the connection is created on (firstConn)
          sendBufferSize,     \* capacity of the replay buffer
          receiveBufferSize,  \* input beyond which the read loop waits
          receiveCapacity,    \* size of the ring that reserve makes for that much input
          maxFrameSize,       \* most data in one frame
          WriteBound,         \* bound: bytes each application writes
          Closers,            \* bound: sides whose application may call Close
          Cuttable            \* bound: transports that the network may break

None == "none"  \* requestDetachLocked = nil

ASSUME ConstAssumption ==
    /\ First \in Transports
    /\ None \notin Transports
    /\ sendBufferSize \in Nat \ {0}
    /\ receiveBufferSize \in Nat \ {0}
    /\ receiveCapacity \in Nat /\ receiveBufferSize <= receiveCapacity
    /\ maxFrameSize \in Nat \ {0}
    /\ WriteBound \in [{"client", "server"} -> Nat]
    /\ Closers \subseteq {"client", "server"}
    /\ Cuttable \subseteq Transports

Sides == {"client", "server"}
Peer(s) == IF s = "client" THEN "server" ELSE "client"

VARIABLES
    \* the Conn of each side
    sendBuffer,     \* unacknowledged output (managedConn.sendBuffer)
    receiveBuffer,  \* input not yet read (managedConn.receiveBuffer)
    localClosed,    \* Close() was called
    remoteClosed,   \* the peer is known to be gone
    attached,       \* the transport that requestDetachLocked would close
    current,        \* transport whose end the client's loop waits for (detached)
    \* the call of runResumeV1Unlocking of each side, for each transport
    phase,          \* how far the call has got
    stopRequested,
    reader,         \* where its read loop is
    label,          \* the label of the next byte of the frame being read
    remainingSize,  \* how many bytes of that frame are left
    tail,           \* how many of them io.ReadFull is reading
    writer,         \* where its write loop is
    localPosition,  \* how much of the input has been acknowledged
    peerPosition,   \* how much of the output has been sent
    \* the transports, at the end of each side
    hello,          \* resume position travelling to the side
    wire,           \* frames travelling to the side
    open,           \* nc.Close() was not called
    cut,            \* per transport: the network broke it
    \* history, per side
    written,        \* bytes the application has written
    delivered       \* bytes Read has returned

buffers   == <<sendBuffer, receiveBuffer>>
closes    == <<localClosed, remoteClosed>>
reading   == <<reader, label, remainingSize, tail>>
positions == <<localPosition, peerPosition>>
runs      == <<phase, stopRequested, reading, writer, positions>>
net       == <<hello, wire, open, cut>>
history   == <<written, delivered>>

vars == <<buffers, closes, attached, current, runs, net, history>>

-----------------------------------------------------------------------------
(***************************************************************************)
(* buffer: a view of a bytestream between two absolute positions; the ring *)
(* that stores it is abstracted.  A send buffer holds, at position p, the  *)
(* byte labelled p, since Write only ever appends; what a receive buffer   *)
(* holds at p is recorded in its data.                                     *)
(***************************************************************************)
EmptySend    == [start |-> 0, end |-> 0]
EmptyReceive == [start |-> 0, end |-> 0, data |-> [p \in 0 .. -1 |-> 0]]

len(b) == b.end - b.start

\* append of n bytes to a send buffer
extend(b, n) == [start |-> b.start, end |-> b.end + n]

\* advance of a send buffer: pushes the end forward too if it passes it
advance(b, n) ==
    [start |-> b.start + n,
     end   |-> IF b.start + n > b.end THEN b.start + n ELSE b.end]

\* append, to a receive buffer, of the n bytes that start with label first
append(b, first, n) ==
    [start |-> b.start,
     end   |-> b.end + n,
     data  |-> [p \in b.start .. (b.end + n - 1) |->
                  IF p < b.end THEN b.data[p] ELSE first + (p - b.end)]]

\* read of n buffered bytes from a receive buffer
take(b, n) ==
    [start |-> b.start + n,
     end   |-> b.end,
     data  |-> [p \in (b.start + n) .. (b.end - 1) |-> b.data[p]]]

\* the localClosed branch of the read loop: input is counted, not stored
discard(b, n) ==
    [start |-> b.end + n,
     end   |-> b.end + n,
     data  |-> [p \in (b.end + n) .. (b.end + n - 1) |-> 0]]

-----------------------------------------------------------------------------
NoPosition == -1

(***************************************************************************)
(* A frame acknowledges ack bytes and carries size bytes from label first  *)
(* on; close is the errorTag.  upto is history: the position that the      *)
(* acknowledgement reaches.  No action reads it.                           *)
(***************************************************************************)
Frame(ack, upto, first, size) ==
    [ack |-> ack, upto |-> upto, first |-> first, size |-> size, close |-> FALSE]

ErrorTag(upto, first) ==
    [ack |-> 0, upto |-> upto, first |-> first, size |-> 0, close |-> TRUE]

PerRun(v) == [s \in Sides |-> [t \in Transports |-> v]]

Init ==
    /\ sendBuffer = [s \in Sides |-> EmptySend]
    /\ receiveBuffer = [s \in Sides |-> EmptyReceive]
    /\ localClosed = [s \in Sides |-> FALSE]
    /\ remoteClosed = [s \in Sides |-> FALSE]
    /\ attached = [s \in Sides |-> None]
    /\ current = First
    /\ phase = PerRun("idle") /\ stopRequested = PerRun(FALSE)
    /\ reader = PerRun("off") /\ writer = PerRun("off")
    /\ label = PerRun(0) /\ remainingSize = PerRun(0) /\ tail = PerRun(0)
    /\ localPosition = PerRun(0) /\ peerPosition = PerRun(0)
    /\ hello = PerRun(NoPosition)
    /\ wire = PerRun(<<>>)
    /\ open = PerRun(TRUE)
    /\ cut = [t \in Transports |-> FALSE]
    /\ written = [s \in Sides |-> 0]
    /\ delivered = [s \in Sides |-> <<>>]

\* The Conn exists and its creator has released its lock.
Created(s) == phase[s][First] # "idle"

-----------------------------------------------------------------------------
(***************************************************************************)
(* The application (managedConn).                                          *)
(***************************************************************************)

\* One round of Write's loop: as many bytes as there is room for, or fewer.
Write(s) ==
    /\ Created(s)
    /\ ~localClosed[s] /\ ~remoteClosed[s]
    /\ \E n \in 1 .. (sendBufferSize - len(sendBuffer[s])) :
         /\ written[s] + n <= WriteBound[s]
         /\ sendBuffer' = [sendBuffer EXCEPT ![s] = extend(@, n)]
         /\ written' = [written EXCEPT ![s] = @ + n]
    /\ UNCHANGED <<receiveBuffer, closes, attached, current, runs, net, delivered>>

\* Read with a destination of n bytes and at least that much buffered.
Read(s) ==
    /\ Created(s)
    /\ ~localClosed[s]
    /\ \E n \in 1 .. len(receiveBuffer[s]) :
         LET b == receiveBuffer[s]
         IN  /\ delivered' = [delivered EXCEPT
                                ![s] = @ \o [i \in 1..n |-> b.data[b.start + i - 1]]]
             /\ receiveBuffer' = [receiveBuffer EXCEPT ![s] = take(b, n)]
    /\ UNCHANGED <<sendBuffer, closes, attached, current, runs, net, written>>

\* Called by the application, by the client's loop when it gives up and by the
\* server's detachedTimeout.
Close(s) ==
    /\ s \in Closers
    /\ Created(s)
    /\ ~localClosed[s]
    /\ localClosed' = [localClosed EXCEPT ![s] = TRUE]
    /\ UNCHANGED <<buffers, remoteClosed, attached, current, runs, net, history>>

-----------------------------------------------------------------------------
(***************************************************************************)
(* Transports.  What is sent over a transport that is cut, or that either  *)
(* end has closed, is lost; what was in flight when it was cut may still   *)
(* be read, or the end of it may be lost.                                  *)
(***************************************************************************)
Arrives(s, t) == ~cut[t] /\ open[s][t] /\ open[Peer(s)][t]

SendFrame(s, t, f) ==
    wire' = IF Arrives(s, t)
            THEN [wire EXCEPT ![Peer(s)][t] = Append(@, f)]
            ELSE wire

\* reads and writes of s on t may fail
Dead(s, t) == ~open[s][t] \/ cut[t] \/ ~open[Peer(s)][t]

Cut(t) ==
    /\ t \in Cuttable /\ ~cut[t]
    /\ \E s \in Sides : phase[s][t] \notin {"idle", "done"}
    /\ cut' = [cut EXCEPT ![t] = TRUE]
    /\ UNCHANGED <<buffers, closes, attached, current, runs, hello, wire, open,
                   history>>

LoseFrame(s, t) ==
    /\ cut[t]
    /\ wire[s][t] # <<>>
    /\ wire' = [wire EXCEPT ![s][t] = SubSeq(@, 1, Len(@) - 1)]
    /\ UNCHANGED <<buffers, closes, attached, current, runs, hello, open, cut,
                   history>>

LoseHello(s, t) ==
    /\ cut[t]
    /\ wire[s][t] = <<>> /\ hello[s][t] # NoPosition
    /\ hello' = [hello EXCEPT ![s][t] = NoPosition]
    /\ UNCHANGED <<buffers, closes, attached, current, runs, wire, open, cut,
                   history>>

-----------------------------------------------------------------------------
(***************************************************************************)
(* runResumeV1Unlocking: attach, run, detach.                              *)
(***************************************************************************)
SetPhase(s, t, p) == phase' = [phase EXCEPT ![s][t] = p]

\* Where the read loop is, and in a frame's data: the next label, the bytes
\* left, and how many of them are being read.
ReadTo(s, t, where, next, left, n) ==
    /\ reader' = [reader EXCEPT ![s][t] = where]
    /\ label' = [label EXCEPT ![s][t] = next]
    /\ remainingSize' = [remainingSize EXCEPT ![s][t] = left]
    /\ tail' = [tail EXCEPT ![s][t] = n]

\* Both goroutines start.
StartLoops(s, t) ==
    /\ SetPhase(s, t, "loops")
    /\ ReadTo(s, t, "frame", 0, 0, 0)
    /\ writer' = [writer EXCEPT ![s][t] = "run"]

\* The end of a run: nc is closed and what still travels to it is lost.
Finish(s, t) ==
    /\ SetPhase(s, t, "done")
    /\ ReadTo(s, t, "off", 0, 0, 0)
    /\ writer' = [writer EXCEPT ![s][t] = "off"]
    /\ stopRequested' = [stopRequested EXCEPT ![s][t] = FALSE]
    /\ localPosition' = [localPosition EXCEPT ![s][t] = 0]
    /\ peerPosition' = [peerPosition EXCEPT ![s][t] = 0]
    /\ open' = [open EXCEPT ![s][t] = FALSE]
    /\ hello' = [hello EXCEPT ![s][t] = NoPosition]

Drained(s, t) == wire' = [wire EXCEPT ![s][t] = <<>>]

\* firstConn: attaching the transport the Conn was created for.  The Conn has
\* been locked since its creation, so nothing precedes this.
AttachFirst(s) ==
    /\ phase[s][First] = "idle"
    /\ attached' = [attached EXCEPT ![s] = First]
    /\ localPosition' = [localPosition EXCEPT ![s][First] = receiveBuffer[s].end]
    /\ StartLoops(s, First)
    /\ UNCHANGED <<buffers, closes, current, stopRequested, peerPosition, net,
                   history>>

\* The client's loop dials one transport at a time: on its replacement timer,
\* or, once the current run is over, while the Conn is not locally closed.
Dial(t) ==
    /\ Created("client")
    /\ phase["client"][t] = "idle" /\ t # First
    /\ \A u \in Transports : phase["client"][u] # "dialing"
    /\ phase["client"][current] = "done" => ~localClosed["client"]
    /\ SetPhase("client", t, "dialing")
    /\ UNCHANGED <<buffers, closes, attached, current, stopRequested, reading,
                   writer, positions, net, history>>

\* dialResumable fails; the server may have seen the transport or not.
DialFailed(t) ==
    /\ phase["client"][t] = "dialing"
    /\ Finish("client", t) /\ Drained("client", t)
    /\ UNCHANGED <<buffers, closes, attached, current, cut, history>>

\* resumeConnection on the server: the success tag is sent.
Accept(t) ==
    /\ Created("server")
    /\ phase["server"][t] = "idle" /\ t # First
    /\ phase["client"][t] # "idle"
    /\ SetPhase("server", t, "wait")
    /\ UNCHANGED <<buffers, closes, attached, current, stopRequested, reading,
                   writer, positions, net, history>>

\* The success tag reaches dialResumable; goAttachResumableUnlocking.
Dialed(t) ==
    /\ phase["client"][t] = "dialing"
    /\ phase["server"][t] # "idle"
    /\ SetPhase("client", t, "wait")
    /\ current' = t
    /\ UNCHANGED <<buffers, closes, attached, stopRequested, reading, writer,
                   positions, net, history>>

\* The waiting run calls the attached run's requestDetachLocked.
RequestDetach(s, t) ==
    /\ phase[s][t] = "wait"
    /\ ~remoteClosed[s]
    /\ attached[s] # None
    /\ open[s][attached[s]] \/ ~stopRequested[s][attached[s]]
    /\ open' = [open EXCEPT ![s][attached[s]] = FALSE]
    /\ stopRequested' = [stopRequested EXCEPT ![s][attached[s]] = TRUE]
    /\ UNCHANGED <<buffers, closes, attached, current, phase, reading, writer,
                   positions, hello, wire, cut, history>>

\* Faulty variant: detaching is requested but not awaited.
AttachAtOnce(s, t) ==
    /\ phase[s][t] = "wait"
    /\ ~remoteClosed[s]
    /\ attached' = [attached EXCEPT ![s] = t]
    /\ SetPhase(s, t, "handshake")
    /\ localPosition' = [localPosition EXCEPT ![s][t] = receiveBuffer[s].end]
    /\ UNCHANGED <<buffers, closes, current, stopRequested, reading, writer,
                   peerPosition, net, history>>

Attach(s, t) ==
    /\ phase[s][t] = "wait"
    /\ ~remoteClosed[s]
    /\ attached[s] = None
    /\ attached' = [attached EXCEPT ![s] = t]
    /\ SetPhase(s, t, "handshake")
    /\ localPosition' = [localPosition EXCEPT ![s][t] = receiveBuffer[s].end]
    /\ UNCHANGED <<buffers, closes, current, stopRequested, reading, writer,
                   peerPosition, net, history>>

\* "resuming a connection already closed by the peer"
Refuse(s, t) ==
    /\ phase[s][t] = "wait"
    /\ remoteClosed[s]
    /\ Finish(s, t) /\ Drained(s, t)
    /\ UNCHANGED <<buffers, closes, attached, current, cut, history>>

\* Faulty variant: requestDetachLocked is not reset to nil.
DetachForgets(s, t) ==
    /\ phase[s][t] = "loops"
    /\ reader[s][t] = "exit" /\ writer[s][t] = "exit"
    /\ Finish(s, t) /\ Drained(s, t)
    /\ UNCHANGED <<buffers, closes, attached, current, cut, history>>

\* The deferred detach once both loops have returned.
Detach(s, t) ==
    /\ phase[s][t] = "loops"
    /\ reader[s][t] = "exit" /\ writer[s][t] = "exit"
    /\ Finish(s, t) /\ Drained(s, t)
    /\ attached' = [attached EXCEPT ![s] = None]
    /\ UNCHANGED <<buffers, closes, current, cut, history>>

-----------------------------------------------------------------------------
(***************************************************************************)
(* resumeV1Handshake.                                                      *)
(***************************************************************************)
SendHello(s, t) ==
    /\ phase[s][t] = "handshake"
    /\ open[s][t]
    /\ hello' = IF Arrives(s, t)
                THEN [hello EXCEPT ![Peer(s)][t] = localPosition[s][t]]
                ELSE hello
    /\ SetPhase(s, t, "greeted")
    /\ UNCHANGED <<buffers, closes, attached, current, stopRequested, reading,
                   writer, positions, wire, open, cut, history>>

Compatible(s, p) == sendBuffer[s].start <= p /\ p <= sendBuffer[s].end

\* Faulty variant: everything received so far is acknowledged again.
ReceiveHelloReacks(s, t) ==
    /\ phase[s][t] = "greeted"
    /\ hello[s][t] # NoPosition
    /\ Compatible(s, hello[s][t])
    /\ sendBuffer' = [sendBuffer EXCEPT ![s] = advance(@, hello[s][t] - @.start)]
    /\ localPosition' = [localPosition EXCEPT ![s][t] = 0]
    /\ peerPosition' = [peerPosition EXCEPT ![s][t] = hello[s][t]]
    /\ hello' = [hello EXCEPT ![s][t] = NoPosition]
    /\ StartLoops(s, t)
    /\ UNCHANGED <<receiveBuffer, closes, attached, current, stopRequested,
                   wire, open, cut, history>>

\* Faulty variant: what the lost transport had in flight is not sent again.
ReceiveHelloSkips(s, t) ==
    /\ phase[s][t] = "greeted"
    /\ hello[s][t] # NoPosition
    /\ Compatible(s, hello[s][t])
    /\ sendBuffer' = [sendBuffer EXCEPT ![s] = advance(@, hello[s][t] - @.start)]
    /\ peerPosition' = [peerPosition EXCEPT ![s][t] = sendBuffer[s].end]
    /\ hello' = [hello EXCEPT ![s][t] = NoPosition]
    /\ StartLoops(s, t)
    /\ UNCHANGED <<receiveBuffer, closes, attached, current, stopRequested,
                   localPosition, wire, open, cut, history>>

\* The peer's position is one this side can continue from.
ReceiveHello(s, t) ==
    /\ phase[s][t] = "greeted"
    /\ hello[s][t] # NoPosition
    /\ Compatible(s, hello[s][t])
    /\ sendBuffer' = [sendBuffer EXCEPT ![s] = advance(@, hello[s][t] - @.start)]
    /\ peerPosition' = [peerPosition EXCEPT ![s][t] = hello[s][t]]
    /\ hello' = [hello EXCEPT ![s][t] = NoPosition]
    /\ StartLoops(s, t)
    /\ UNCHANGED <<receiveBuffer, closes, attached, current, stopRequested,
                   localPosition, wire, open, cut, history>>

\* "got incompatible resume position": the connection can never continue, and
\* the peer is sent the errorTag.
RejectHello(s, t) ==
    /\ phase[s][t] = "greeted"
    /\ hello[s][t] # NoPosition
    /\ ~Compatible(s, hello[s][t])
    /\ remoteClosed' = [remoteClosed EXCEPT ![s] = TRUE]
    /\ attached' = [attached EXCEPT ![s] = None]
    /\ Finish(s, t)
    /\ wire' = [x \in Sides |-> [wire[x] EXCEPT
                  ![t] = IF x = s THEN <<>>
                         ELSE IF Arrives(s, t) THEN Append(@, ErrorTag(0, 0)) ELSE @]]
    /\ UNCHANGED <<buffers, localClosed, current, cut, history>>

\* The handshakeTimeout watchdog closes nc.
HandshakeTimeout(s, t) ==
    /\ phase[s][t] \in {"handshake", "greeted"}
    /\ open[s][t]
    /\ open' = [open EXCEPT ![s][t] = FALSE]
    /\ UNCHANGED <<buffers, closes, attached, current, runs, hello, wire, cut,
                   history>>

\* The write or the read of the handshake fails.
HandshakeError(s, t) ==
    /\ phase[s][t] \in {"handshake", "greeted"}
    /\ Dead(s, t)
    /\ phase[s][t] = "greeted" /\ open[s][t] => hello[s][t] = NoPosition
    /\ Finish(s, t) /\ Drained(s, t)
    /\ attached' = [attached EXCEPT ![s] = None]
    /\ UNCHANGED <<buffers, closes, current, cut, history>>

-----------------------------------------------------------------------------
(***************************************************************************)
(* runResumeV1Read.  A frame is taken off the wire when its header is      *)
(* read; its data is then consumed in chunks, outside the lock.            *)
(***************************************************************************)
Reading(s, t, where) == phase[s][t] = "loops" /\ reader[s][t] = where

\* The read goroutine returns: nc is closed, then a stop is requested.
ReaderExits(s, t) ==
    /\ ReadTo(s, t, "exit", 0, 0, 0)
    /\ stopRequested' = [stopRequested EXCEPT ![s][t] = TRUE]
    /\ open' = [open EXCEPT ![s][t] = FALSE]
    /\ UNCHANGED <<phase, writer, positions>>

TakeFrame(s, t) == wire' = [wire EXCEPT ![s][t] = Tail(@)]

\* The errorTag: the peer is done with the connection.
ReadErrorTag(s, t) ==
    /\ Reading(s, t, "frame")
    /\ wire[s][t] # <<>> /\ Head(wire[s][t]).close
    /\ TakeFrame(s, t)
    /\ remoteClosed' = [remoteClosed EXCEPT ![s] = TRUE]
    /\ ReaderExits(s, t)
    /\ UNCHANGED <<buffers, localClosed, attached, current, hello, cut, history>>

\* Acknowledgement and size of a frame.  An acknowledgement of more than is
\* buffered, or an oversized frame, ends the run; so does an I/O error between
\* the two.
ReadHeader(s, t) ==
    /\ Reading(s, t, "frame")
    /\ wire[s][t] # <<>> /\ ~Head(wire[s][t]).close
    /\ TakeFrame(s, t)
    /\ \E torn \in BOOLEAN :
         LET f == Head(wire[s][t])
             badAck == f.ack > len(sendBuffer[s])
         IN
           /\ torn => Dead(s, t)
           /\ sendBuffer' = IF badAck THEN sendBuffer
                            ELSE [sendBuffer EXCEPT ![s] = advance(@, f.ack)]
           /\ IF badAck \/ torn \/ f.size > maxFrameSize
              THEN ReaderExits(s, t)
              ELSE /\ IF f.size = 0 THEN ReadTo(s, t, "frame", 0, 0, 0)
                                    ELSE ReadTo(s, t, "data", f.first, f.size, 0)
                   /\ UNCHANGED <<phase, stopRequested, writer, positions, open>>
    /\ UNCHANGED <<receiveBuffer, closes, attached, current, hello, cut, history>>

\* Faulty variant: a reader that waits for room does not see the stop request.
ReaderStoppedWithRoom(s, t) ==
    /\ Reading(s, t, "data")
    /\ stopRequested[s][t]
    /\ len(receiveBuffer[s]) < receiveBufferSize
    /\ ReaderExits(s, t)
    /\ UNCHANGED <<buffers, closes, attached, current, hello, wire, cut, history>>

\* "disconnection requested", found before more of the data is read
ReaderStopped(s, t) ==
    /\ Reading(s, t, "data")
    /\ stopRequested[s][t]
    /\ ReaderExits(s, t)
    /\ UNCHANGED <<buffers, closes, attached, current, hello, wire, cut, history>>

\* Locally closed: the rest of the frame is going to be discarded.
StartDiscard(s, t) ==
    /\ Reading(s, t, "data")
    /\ ~stopRequested[s][t]
    /\ localClosed[s]
    /\ ReadTo(s, t, "discard", label[s][t], remainingSize[s][t], 0)
    /\ UNCHANGED <<buffers, closes, attached, current, phase, stopRequested,
                   writer, positions, net, history>>

\* Faulty variant: room for the whole frame, whatever the limit.
ReserveFrame(s, t) ==
    /\ Reading(s, t, "data")
    /\ ~stopRequested[s][t]
    /\ ~localClosed[s]
    /\ len(receiveBuffer[s]) < receiveBufferSize
    /\ ReadTo(s, t, "fill", label[s][t], remainingSize[s][t], remainingSize[s][t])
    /\ UNCHANGED <<buffers, closes, attached, current, phase, stopRequested,
                   writer, positions, net, history>>

\* Room for a chunk is reserved under the lock.  The chunk is the first of the
\* two free slices of the ring, cut to the rest of the frame: it may be any
\* part of what is free, and reaches beyond receiveBufferSize where the ring does.
ReserveChunk(s, t) ==
    /\ Reading(s, t, "data")
    /\ ~stopRequested[s][t]
    /\ ~localClosed[s]
    /\ len(receiveBuffer[s]) < receiveBufferSize
    /\ \E n \in 1 .. remainingSize[s][t] :
         /\ n <= receiveCapacity - len(receiveBuffer[s])
         /\ ReadTo(s, t, "fill", label[s][t], remainingSize[s][t], n)
    /\ UNCHANGED <<buffers, closes, attached, current, phase, stopRequested,
                   writer, positions, net, history>>

\* Faulty variant: the last byte of the chunk is taken again.
FillChunkOverlap(s, t) ==
    /\ Reading(s, t, "fill")
    /\ receiveBuffer' = [receiveBuffer EXCEPT
                           ![s] = append(@, label[s][t], tail[s][t])]
    /\ ReadTo(s, t, "data", label[s][t] + tail[s][t] - 1,
              remainingSize[s][t] - tail[s][t] + 1, 0)
    /\ UNCHANGED <<sendBuffer, closes, attached, current, phase, stopRequested,
                   writer, positions, net, history>>

\* io.ReadFull filled the chunk, without the lock; now it is appended.
FillChunk(s, t) ==
    /\ Reading(s, t, "fill")
    /\ receiveBuffer' = [receiveBuffer EXCEPT
                           ![s] = append(@, label[s][t], tail[s][t])]
    /\ IF tail[s][t] = remainingSize[s][t]
       THEN ReadTo(s, t, "frame", 0, 0, 0)
       ELSE ReadTo(s, t, "data", label[s][t] + tail[s][t],
                   remainingSize[s][t] - tail[s][t], 0)
    /\ UNCHANGED <<sendBuffer, closes, attached, current, phase, stopRequested,
                   writer, positions, net, history>>

\* io.Copy discarded the rest of the frame.
Discard(s, t) ==
    /\ Reading(s, t, "discard")
    /\ receiveBuffer' = [receiveBuffer EXCEPT
                           ![s] = discard(@, remainingSize[s][t])]
    /\ ReadTo(s, t, "frame", 0, 0, 0)
    /\ UNCHANGED <<sendBuffer, closes, attached, current, phase, stopRequested,
                   writer, positions, net, history>>

\* Faulty variant: an I/O error is taken for the peer's close.
HeaderErrorCloses(s, t) ==
    /\ Reading(s, t, "frame")
    /\ Dead(s, t)
    /\ open[s][t] => wire[s][t] = <<>>
    /\ remoteClosed' = [remoteClosed EXCEPT ![s] = TRUE]
    /\ ReaderExits(s, t)
    /\ UNCHANGED <<buffers, localClosed, attached, current, hello, wire, cut,
                   history>>

\* I/O error between two frames.
HeaderError(s, t) ==
    /\ Reading(s, t, "frame")
    /\ Dead(s, t)
    /\ open[s][t] => wire[s][t] = <<>>
    /\ ReaderExits(s, t)
    /\ UNCHANGED <<buffers, closes, attached, current, hello, wire, cut, history>>

\* I/O error in the middle of the data; the bytes that were read still count.
FillError(s, t) ==
    /\ Reading(s, t, "fill")
    /\ Dead(s, t)
    /\ \E k \in 0 .. (tail[s][t] - 1) :
         receiveBuffer' = [receiveBuffer EXCEPT ![s] = append(@, label[s][t], k)]
    /\ ReaderExits(s, t)
    /\ UNCHANGED <<sendBuffer, closes, attached, current, hello, wire, cut, history>>

DiscardError(s, t) ==
    /\ Reading(s, t, "discard")
    /\ Dead(s, t)
    /\ \E k \in 0 .. (remainingSize[s][t] - 1) :
         receiveBuffer' = [receiveBuffer EXCEPT ![s] = discard(@, k)]
    /\ ReaderExits(s, t)
    /\ UNCHANGED <<sendBuffer, closes, attached, current, hello, wire, cut, history>>

-----------------------------------------------------------------------------
(***************************************************************************)
(* runResumeV1Write.                                                       *)
(***************************************************************************)
Writing(s, t) == phase[s][t] = "loops" /\ writer[s][t] = "run"

\* Faulty variant: data is acknowledged when its header is read.
FrameAckEarly(s, t) ==
    receiveBuffer[s].end + remainingSize[s][t] - localPosition[s][t]

FrameAck(s, t) == receiveBuffer[s].end - localPosition[s][t]
Unsent(s, t)   == sendBuffer[s].end - peerPosition[s][t]
HasFrame(s, t) == FrameAck(s, t) > 0 \/ Unsent(s, t) > 0

\* The write goroutine returns: a stop is requested, nc stays open.
WriterExits(s, t) ==
    /\ writer' = [writer EXCEPT ![s][t] = "exit"]
    /\ stopRequested' = [stopRequested EXCEPT ![s][t] = TRUE]
    /\ UNCHANGED <<phase, reading, positions>>

\* A frame with everything there is to acknowledge and, if there is data, one
\* contiguous piece of it: the first slice of the ring, or its second.
WriteFrame(s, t) ==
    /\ Writing(s, t)
    /\ HasFrame(s, t)
    /\ open[s][t]
    /\ \E n \in 0 .. maxFrameSize :
         /\ n <= Unsent(s, t) /\ (n = 0 => Unsent(s, t) = 0)
         /\ SendFrame(s, t, Frame(FrameAck(s, t), receiveBuffer[s].end,
                                  peerPosition[s][t], n))
         /\ peerPosition' = [peerPosition EXCEPT ![s][t] = @ + n]
    /\ localPosition' = [localPosition EXCEPT ![s][t] = receiveBuffer[s].end]
    /\ UNCHANGED <<buffers, closes, attached, current, phase, stopRequested,
                   reading, writer, hello, open, cut, history>>

WriteError(s, t) ==
    /\ Writing(s, t)
    /\ HasFrame(s, t)
    /\ Dead(s, t)
    /\ WriterExits(s, t)
    /\ UNCHANGED <<buffers, closes, attached, current, net, history>>

\* Nothing to send, and a stop was requested or the peer is gone.
WriterStopped(s, t) ==
    /\ Writing(s, t)
    /\ ~HasFrame(s, t)
    /\ stopRequested[s][t] \/ remoteClosed[s]
    /\ WriterExits(s, t)
    /\ UNCHANGED <<buffers, closes, attached, current, net, history>>

\* Faulty variant: the errorTag overtakes data that was not sent.
WriteErrorTagEarly(s, t) ==
    /\ Writing(s, t)
    /\ ~stopRequested[s][t] /\ ~remoteClosed[s]
    /\ localClosed[s]
    /\ SendFrame(s, t, ErrorTag(receiveBuffer[s].end, peerPosition[s][t]))
    /\ WriterExits(s, t)
    /\ UNCHANGED <<buffers, closes, attached, current, hello, open, cut, history>>

\* Faulty variant: the write loop is done without telling the peer.
WriteErrorTagSilent(s, t) ==
    /\ Writing(s, t)
    /\ ~HasFrame(s, t)
    /\ ~stopRequested[s][t] /\ ~remoteClosed[s]
    /\ localClosed[s]
    /\ WriterExits(s, t)
    /\ UNCHANGED <<buffers, closes, attached, current, net, history>>

\* Nothing to send, ever again: the errorTag, and the write loop is done.  An
\* error of this last write is ignored.
WriteErrorTag(s, t) ==
    /\ Writing(s, t)
    /\ ~HasFrame(s, t)
    /\ ~stopRequested[s][t] /\ ~remoteClosed[s]
    /\ localClosed[s]
    /\ SendFrame(s, t, ErrorTag(receiveBuffer[s].end, peerPosition[s][t]))
    /\ WriterExits(s, t)
    /\ UNCHANGED <<buffers, closes, attached, current, hello, open, cut, history>>

-----------------------------------------------------------------------------
App(s) == Write(s) \/ Read(s) \/ Close(s)

Network(s, t) == Cut(t) \/ LoseFrame(s, t) \/ LoseHello(s, t)

Dialing(t) == Dial(t) \/ DialFailed(t) \/ Accept(t) \/ Dialed(t)

Attachment(s, t) ==
    RequestDetach(s, t) \/ Attach(s, t) \/ Refuse(s, t) \/ Detach(s, t)

Handshake(s, t) ==
    \/ SendHello(s, t) \/ ReceiveHello(s, t) \/ RejectHello(s, t)
    \/ HandshakeTimeout(s, t) \/ HandshakeError(s, t)

ReadLoop(s, t) ==
    \/ ReadErrorTag(s, t) \/ ReadHeader(s, t) \/ ReaderStopped(s, t)
    \/ StartDiscard(s, t) \/ ReserveChunk(s, t) \/ FillChunk(s, t)
    \/ Discard(s, t) \/ HeaderError(s, t) \/ FillError(s, t) \/ DiscardError(s, t)

WriteLoop(s, t) ==
    \/ WriteFrame(s, t) \/ WriteError(s, t)
    \/ WriterStopped(s, t) \/ WriteErrorTag(s, t)

Next ==
    \/ \E s \in Sides : App(s) \/ AttachFirst(s)
    \/ \E t \in Transports : Dialing(t)
    \/ \E s \in Sides, t \in Transports :
         \/ Attachment(s, t)
         \/ Handshake(s, t)
         \/ ReadLoop(s, t)
         \/ WriteLoop(s, t)
         \/ Network(s, t)

Spec == Init /\ [][Next]_vars

-----------------------------------------------------------------------------
(***************************************************************************)
(* Fairness.  A goroutine that can take a step eventually takes it, and a  *)
(* timer eventually fires; an I/O call is only sure to fail once its own   *)
(* side has closed the transport.  Nothing is assumed of the network, of   *)
(* new transports or of the application.                                   *)
(***************************************************************************)
Fairness ==
    /\ \A s \in Sides : WF_vars(AttachFirst(s))
    /\ \A s \in Sides, t \in Transports :
         /\ WF_vars(Attachment(s, t))
         /\ WF_vars(SendHello(s, t) \/ ReceiveHello(s, t) \/ RejectHello(s, t))
         /\ WF_vars(HandshakeTimeout(s, t))
         /\ WF_vars(~open[s][t] /\ HandshakeError(s, t))
         /\ WF_vars(\/ ReadErrorTag(s, t) \/ ReadHeader(s, t) \/ ReaderStopped(s, t)
                    \/ StartDiscard(s, t) \/ ReserveChunk(s, t)
                    \/ FillChunk(s, t) \/ Discard(s, t))
         /\ WF_vars(~open[s][t] /\ (HeaderError(s, t) \/ FillError(s, t)
                                      \/ DiscardError(s, t)))
         /\ WF_vars(WriteFrame(s, t) \/ WriterStopped(s, t) \/ WriteErrorTag(s, t))
         /\ WF_vars(~open[s][t] /\ WriteError(s, t))

FairSpec == Spec /\ Fairness

-----------------------------------------------------------------------------
(***************************************************************************)
(* Properties.                                                             *)
(***************************************************************************)
SendType == {b \in [start : Nat, end : Nat] :
               b.start <= b.end /\ len(b) <= sendBufferSize}

IsReceive(b) ==
    /\ b = [start |-> b.start, end |-> b.end, data |-> b.data]
    /\ b.start \in Nat /\ b.end \in Nat
    /\ b.start <= b.end /\ len(b) <= receiveCapacity
    /\ b.data \in [b.start .. (b.end - 1) -> Nat]

PerRunOf(S) == [Sides -> [Transports -> S]]

FrameType == [ack : Nat, upto : Nat, first : Nat, size : Nat, close : BOOLEAN]

BuffersOK ==
    /\ sendBuffer \in [Sides -> SendType]
    /\ receiveBuffer = [s \in Sides |-> receiveBuffer[s]]
    /\ \A s \in Sides : IsReceive(receiveBuffer[s])

ConnsOK ==
    /\ localClosed \in [Sides -> BOOLEAN]
    /\ remoteClosed \in [Sides -> BOOLEAN]
    /\ attached \in [Sides -> Transports \cup {None}]
    /\ current \in Transports

PhaseNames  == {"idle", "dialing", "wait", "handshake", "greeted", "loops", "done"}
ReaderNames == {"off", "frame", "data", "fill", "discard", "exit"}
WriterNames == {"off", "run", "exit"}

RunsOK ==
    /\ phase \in PerRunOf(PhaseNames)
    /\ stopRequested \in PerRunOf(BOOLEAN)
    /\ reader \in PerRunOf(ReaderNames)
    /\ writer \in PerRunOf(WriterNames)
    /\ label \in PerRunOf(Nat) /\ remainingSize \in PerRunOf(Nat)
    /\ tail \in PerRunOf(Nat)
    /\ localPosition \in PerRunOf(Nat) /\ peerPosition \in PerRunOf(Nat)

NetOK ==
    /\ hello \in PerRunOf(Nat \cup {NoPosition})
    /\ wire \in PerRunOf(Seq(FrameType))
    /\ open \in PerRunOf(BOOLEAN)
    /\ cut \in [Transports -> BOOLEAN]

HistoryOK ==
    /\ written \in [Sides -> Nat]
    /\ delivered \in [Sides -> Seq(Nat)]

\* Types and capacities: in particular neither buffer of managedConn outgrows
\* its limit, although room is reserved in one critical section and filled in
\* another.
TypeOK == BuffersOK /\ ConnsOK /\ RunsOK /\ NetOK /\ HistoryOK

\* What Read returns, over any number of transports, is what the peer's Write
\* accepted, in order, without a gap or a repetition: delivered bytes and the
\* bytes waiting in the receive buffer carry the labels of their positions.
StreamIntact ==
    \A s \in Sides :
      /\ \A i \in 1 .. Len(delivered[s]) : delivered[s][i] = i - 1
      /\ \A p \in DOMAIN receiveBuffer[s].data : receiveBuffer[s].data[p] = p
      /\ ~localClosed[s] => receiveBuffer[s].start = Len(delivered[s])
      /\ receiveBuffer[s].end <= written[Peer(s)]

Active(s, t) == phase[s][t] \in {"handshake", "greeted", "loops"}

\* requestDetachLocked is non-nil if and only if there is a transport attached,
\* and two runs never drive the same Conn at once, however many wait for it.
SingleRun ==
    \A s \in Sides, t \in Transports : Active(s, t) <=> attached[s] = t

\* A byte leaves the replay buffer only when the peer has it: acknowledgements
\* and resume positions never run ahead of what was received.
ReplayCovers ==
    \A s \in Sides :
      /\ sendBuffer[s].start <= receiveBuffer[Peer(s)].end
      /\ receiveBuffer[Peer(s)].end <= sendBuffer[s].end

\* Two correct ends never meet "got ack bigger than current send buffer", and
\* the write loop never computes a negative skip or sends what is not buffered.
NoProtocolError ==
    \A s \in Sides, t \in Transports :
      phase[s][t] = "loops" =>
        /\ reader[s][t] = "frame" /\ wire[s][t] # <<>>
             => Head(wire[s][t]).ack <= len(sendBuffer[s])
        /\ writer[s][t] = "run"
             => Compatible(s, peerPosition[s][t])

\* No byte is lost, repeated or misplaced and nobody finds a fault with the
\* other's numbers, whichever of several transports an end attaches next.
DataSafe == StreamIntact /\ ReplayCovers /\ NoProtocolError

\* When the peer's errorTag is the next thing the read loop sees, everything
\* the peer's application wrote before it closed has been received.
CleanCloseComplete ==
    \A s \in Sides, t \in Transports :
      /\ Reading(s, t, "frame")
      /\ wire[s][t] # <<>> /\ Head(wire[s][t]).close
      /\ localClosed[Peer(s)]
      => receiveBuffer[s].end = written[Peer(s)]

\* The doc comment of Conn, "a perfect unbroken stream of bytes even if network
\* conditions would otherwise terminate a normal connection": a side finds the
\* connection closed by its peer only if the peer's application closed it.
UnbrokenStream ==
    \A s \in Sides : remoteClosed[s] => localClosed[Peer(s)]

\* The comment on requestDetachLocked: "calling it should eventually result in
\* the connection becoming detached".
DetachCompletes ==
    \A s \in Sides, t \in Transports :
      (Active(s, t) /\ ~open[s][t] /\ stopRequested[s][t]) ~> (attached[s] # t)

\* A run that waits for the attached one to be detached gets its turn or finds
\* the connection closed.
WaiterProceeds ==
    \A s \in Sides, t \in Transports :
      (phase[s][t] = "wait") ~> (phase[s][t] # "wait")

\* Both ends run their loops over t, which stays up.
Healthy(t) ==
    /\ ~cut[t]
    /\ \A s \in Sides : open[s][t] /\ phase[s][t] = "loops"

\* The application of s does not leave its receive buffer full for ever.
KeepsReading(s) == []<>(len(receiveBuffer[s]) < receiveBufferSize)

\* If the ends settle on a transport and s is read from, everything its peer
\* wrote, before or after the transport was attached, reaches it: the replay
\* buffer makes up for what earlier transports lost.
EventuallyReceived ==
    \A s \in Sides, t \in Transports :
      <>[]Healthy(t) /\ KeepsReading(s)
        => []<>(receiveBuffer[s].end = written[Peer(s)])

\* A Close is not lost: over a transport that stays up, a peer that is read from
\* learns of it.
CloseReaches ==
    \A s \in Sides, t \in Transports :
      KeepsReading(Peer(s)) =>
        ((localClosed[s] /\ Healthy(t))
           ~> (remoteClosed[Peer(s)] \/ remoteClosed[s] \/ ~Healthy(t)))

-----------------------------------------------------------------------------
(***************************************************************************)
(* Refinement: with the buffers and the transports hidden, the connection  *)
(* is the stream of module DuplexStream.                                   *)
(***************************************************************************)
Stream == INSTANCE DuplexStream WITH
            received <- [s \in Sides |-> receiveBuffer[s].end],
            closed   <- localClosed,
            gone     <- remoteClosed

\* Whatever happens to the transports, what the two applications see is the
\* abstract stream: no byte is lost or repeated, and end of file means the end.
ImplementsStream == Stream!Spec

=============================================================================
