-------------------------- MODULE ResumableConnTypes --------------------------
(***************************************************************************)
(* TypeOK and SingleRun hold in every state of ResumableConn, whatever its *)
(* constants.  Neither is inductive alone: a chunk that was reserved still *)
(* fits when it is filled only because no other run fills the same buffer, *)
(* and a run is the only one only because a run that ends was attached.    *)
(* TInv joins them with the shape of the runs (RunShape).                  *)
(***************************************************************************)
EXTENDS ResumableConnInv, TLAPS

-----------------------------------------------------------------------------
(***************************************************************************)
(* The operators that ResumableConn is built from: the buffers and the     *)
(* helpers its actions share.                                              *)
(***************************************************************************)

\* There are two sides, each the other's peer.
LEMMA PeerFacts ==
    \A s \in Sides : /\ Peer(s) \in Sides /\ Peer(s) # s /\ Peer(Peer(s)) = s
                     /\ \A r \in Sides : r # s => r = Peer(s)
BY DEF Sides, Peer

\* What the types of the buffers say of their positions.
LEMMA BufferFacts ==
    ASSUME BuffersOK, NEW s \in Sides
    PROVE  /\ sendBuffer[s] \in SendType
           /\ sendBuffer[s].start \in Nat /\ sendBuffer[s].end \in Nat
           /\ sendBuffer[s].start <= sendBuffer[s].end
           /\ sendBuffer[s].end - sendBuffer[s].start <= sendBufferSize
           /\ receiveBuffer[s].start \in Nat /\ receiveBuffer[s].end \in Nat
           /\ receiveBuffer[s].start <= receiveBuffer[s].end
           /\ receiveBuffer[s].end - receiveBuffer[s].start <= receiveCapacity
BY DEF BuffersOK, SendType, IsReceive, len

\* append: n more labels at the end, within the capacity.
LEMMA AppendFacts ==
    ASSUME NEW b, IsReceive(b), NEW first \in Nat, NEW n \in Nat,
           n <= receiveCapacity - len(b)
    PROVE  /\ IsReceive(append(b, first, n))
           /\ append(b, first, n).start = b.start
           /\ append(b, first, n).end = b.end + n
<1> USE ConstAssumption
<1> DEFINE c == append(b, first, n)
<1>0. b.start \in Nat /\ b.end \in Nat
  BY DEF IsReceive
<1>1. c.start = b.start /\ c.end = b.end + n
  BY DEF append
<1>2. c.data = [p \in b.start .. (b.end + n - 1) |->
                  IF p < b.end THEN b.data[p] ELSE first + (p - b.end)]
  BY DEF append
<1>3. c = [start |-> c.start, end |-> c.end, data |-> c.data]
  BY DEF append
<1>4. \A p \in b.start .. (b.end + n - 1) :
        (IF p < b.end THEN b.data[p] ELSE first + (p - b.end)) \in Nat
  BY SMTT(30) DEF IsReceive
<1> HIDE DEF c
<1>5. c.data \in [c.start .. (c.end - 1) -> Nat]
  <2> DEFINE g(p) == IF p < b.end THEN b.data[p] ELSE first + (p - b.end)
             S == b.start .. (b.end + n - 1)
  <2>1. c.data = [p \in S |-> g(p)]
    BY <1>2
  <2>2. \A p \in S : g(p) \in Nat
    BY <1>4
  <2>3. S = c.start .. (c.end - 1)
    BY <1>0, <1>1
  <2> HIDE DEF g, S
  <2> QED BY <2>1, <2>2, <2>3
<1>6. c.start \in Nat /\ c.end \in Nat /\ c.start <= c.end
      /\ c.end - c.start <= receiveCapacity
  BY <1>1 DEF IsReceive, len
<1> QED BY <1>1, <1>3, <1>5, <1>6 DEF IsReceive, len, c

\* take: Read consumes n bytes from the start.
LEMMA TakeFacts ==
    ASSUME NEW b, IsReceive(b), NEW n \in Nat, n <= len(b)
    PROVE  /\ IsReceive(take(b, n))
           /\ take(b, n).start = b.start + n
           /\ take(b, n).end = b.end
<1> USE ConstAssumption
<1> DEFINE c == take(b, n)
<1>0. b.start \in Nat /\ b.end \in Nat
  BY DEF IsReceive
<1>1. c.start = b.start + n /\ c.end = b.end
  BY DEF take
<1>2. c.data = [p \in (b.start + n) .. (b.end - 1) |-> b.data[p]]
  BY DEF take
<1>3. c = [start |-> c.start, end |-> c.end, data |-> c.data]
  BY DEF take
<1>4. \A p \in (b.start + n) .. (b.end - 1) : b.data[p] \in Nat
  BY DEF IsReceive
<1> HIDE DEF c
<1>5. c.data \in [c.start .. (c.end - 1) -> Nat]
  BY <1>0, <1>1, <1>2, <1>4
<1>6. c.start \in Nat /\ c.end \in Nat /\ c.start <= c.end
      /\ c.end - c.start <= receiveCapacity
  BY <1>1 DEF IsReceive, len
<1> QED BY <1>1, <1>3, <1>5, <1>6 DEF IsReceive, len, c

\* discard: after Close the positions move on and nothing is kept.
LEMMA DiscardFacts ==
    ASSUME NEW b, IsReceive(b), NEW n \in Nat
    PROVE  /\ IsReceive(discard(b, n))
           /\ discard(b, n).start = b.end + n
           /\ discard(b, n).end = b.end + n
<1> USE ConstAssumption
<1> DEFINE c == discard(b, n)
<1>0. b.start \in Nat /\ b.end \in Nat
  BY DEF IsReceive
<1>1. c.start = b.end + n /\ c.end = b.end + n
  BY DEF discard
<1>2. c.data = [p \in (b.end + n) .. (b.end + n - 1) |-> 0]
  BY DEF discard
<1>3. c = [start |-> c.start, end |-> c.end, data |-> c.data]
  BY DEF discard
<1> HIDE DEF c
<1>5. c.data \in [c.start .. (c.end - 1) -> Nat]
  BY <1>0, <1>1, <1>2
<1>6. c.start \in Nat /\ c.end \in Nat /\ c.start <= c.end
      /\ c.end - c.start <= receiveCapacity
  BY <1>1 DEF IsReceive, len
<1> QED BY <1>1, <1>3, <1>5, <1>6 DEF IsReceive, len, c

\* advance within the buffer, and extend up to the capacity
LEMMA SendFacts ==
    ASSUME NEW b \in SendType, NEW n \in Nat
    PROVE  /\ n <= len(b) =>
                /\ advance(b, n) \in SendType
                /\ advance(b, n).start = b.start + n
                /\ advance(b, n).end = b.end
           /\ n <= sendBufferSize - len(b) =>
                /\ extend(b, n) \in SendType
                /\ extend(b, n).start = b.start
                /\ extend(b, n).end = b.end + n
BY ConstAssumption DEF SendType, advance, extend, len

\* SendFrame adds a frame to one direction of one transport only.
LEMMA WireFacts ==
    ASSUME wire \in PerRunOf(Seq(FrameType)), NEW s \in Sides, NEW t \in Transports,
           NEW f \in FrameType, SendFrame(s, t, f)
    PROVE  /\ wire' \in PerRunOf(Seq(FrameType))
           /\ wire'[Peer(s)][t] = IF Arrives(s, t) THEN Append(wire[Peer(s)][t], f)
                                  ELSE wire[Peer(s)][t]
           /\ \A x \in Sides, y \in Transports :
                x # Peer(s) \/ y # t => wire'[x][y] = wire[x][y]
BY PeerFacts DEF SendFrame, PerRunOf

\* SetPhase moves one run and leaves the others where they are.
LEMMA SetPhaseFacts ==
    ASSUME RunsOK, NEW s \in Sides, NEW t \in Transports, NEW p \in PhaseNames,
           SetPhase(s, t, p)
    PROVE  /\ phase' \in PerRunOf(PhaseNames)
           /\ phase'[s][t] = p
           /\ \A x \in Sides, y \in Transports :
                x # s \/ y # t => phase'[x][y] = phase[x][y]
BY DEF SetPhase, RunsOK, PerRunOf

\* ReadTo sets the read loop of one run only.
LEMMA ReadToFacts ==
    ASSUME RunsOK, NEW s \in Sides, NEW t \in Transports, NEW where \in ReaderNames,
           NEW next \in Nat, NEW left \in Nat, NEW n \in Nat,
           ReadTo(s, t, where, next, left, n)
    PROVE  /\ reader' \in PerRunOf(ReaderNames) /\ label' \in PerRunOf(Nat)
           /\ remainingSize' \in PerRunOf(Nat) /\ tail' \in PerRunOf(Nat)
           /\ reader'[s][t] = where /\ label'[s][t] = next
           /\ remainingSize'[s][t] = left /\ tail'[s][t] = n
           /\ \A x \in Sides, y \in Transports : x # s \/ y # t =>
                /\ reader'[x][y] = reader[x][y] /\ label'[x][y] = label[x][y]
                /\ remainingSize'[x][y] = remainingSize[x][y]
                /\ tail'[x][y] = tail[x][y]
BY DEF ReadTo, RunsOK, PerRunOf

\* StartLoops starts both loops of one run, with its positions typed.
LEMMA StartLoopsFacts ==
    ASSUME RunsOK, NEW s \in Sides, NEW t \in Transports, StartLoops(s, t)
    PROVE  /\ phase' \in PerRunOf(PhaseNames) /\ writer' \in PerRunOf(WriterNames)
           /\ reader' \in PerRunOf(ReaderNames) /\ label' \in PerRunOf(Nat)
           /\ remainingSize' \in PerRunOf(Nat) /\ tail' \in PerRunOf(Nat)
           /\ phase'[s][t] = "loops" /\ writer'[s][t] = "run"
           /\ reader'[s][t] = "frame" /\ remainingSize'[s][t] = 0
           /\ \A x \in Sides, y \in Transports : x # s \/ y # t =>
                /\ phase'[x][y] = phase[x][y] /\ writer'[x][y] = writer[x][y]
                /\ reader'[x][y] = reader[x][y] /\ label'[x][y] = label[x][y]
                /\ remainingSize'[x][y] = remainingSize[x][y]
                /\ tail'[x][y] = tail[x][y]
<1>1. SetPhase(s, t, "loops") /\ "loops" \in PhaseNames
  BY DEF StartLoops, PhaseNames
<1>2. ReadTo(s, t, "frame", 0, 0, 0) /\ "frame" \in ReaderNames
  BY DEF StartLoops, ReaderNames
<1>3. /\ writer' \in PerRunOf(WriterNames) /\ writer'[s][t] = "run"
      /\ \A x \in Sides, y \in Transports :
           x # s \/ y # t => writer'[x][y] = writer[x][y]
  BY DEF StartLoops, RunsOK, PerRunOf, WriterNames
<1> QED BY <1>1, <1>2, <1>3, SetPhaseFacts, ReadToFacts

\* Finish ends one run, and its loops with it.
LEMMA FinishFacts ==
    ASSUME RunsOK, NetOK, NEW s \in Sides, NEW t \in Transports, Finish(s, t)
    PROVE  /\ RunsOK'
           /\ hello' \in PerRunOf(Nat \cup {NoPosition}) /\ open' \in PerRunOf(BOOLEAN)
           /\ phase'[s][t] = "done" /\ reader'[s][t] = "off" /\ writer'[s][t] = "off"
           /\ remainingSize'[s][t] = 0 /\ hello'[s][t] = NoPosition /\ ~open'[s][t]
           /\ \A x \in Sides, y \in Transports : x # s \/ y # t =>
                /\ phase'[x][y] = phase[x][y] /\ reader'[x][y] = reader[x][y]
                /\ label'[x][y] = label[x][y] /\ tail'[x][y] = tail[x][y]
                /\ remainingSize'[x][y] = remainingSize[x][y]
                /\ stopRequested'[x][y] = stopRequested[x][y]
                /\ writer'[x][y] = writer[x][y]
                /\ localPosition'[x][y] = localPosition[x][y]
                /\ peerPosition'[x][y] = peerPosition[x][y]
                /\ hello'[x][y] = hello[x][y] /\ open'[x][y] = open[x][y]
<1>1. /\ phase'[s][t] = "done" /\ writer'[s][t] = "off" /\ hello'[s][t] = NoPosition
      /\ ~open'[s][t]
      /\ phase' \in PerRunOf(PhaseNames) /\ stopRequested' \in PerRunOf(BOOLEAN)
      /\ writer' \in PerRunOf(WriterNames) /\ localPosition' \in PerRunOf(Nat)
      /\ peerPosition' \in PerRunOf(Nat)
      /\ hello' \in PerRunOf(Nat \cup {NoPosition}) /\ open' \in PerRunOf(BOOLEAN)
  BY DEF Finish, SetPhase, RunsOK, NetOK, PerRunOf, PhaseNames, WriterNames
<1>2. \A x \in Sides, y \in Transports : x # s \/ y # t =>
        /\ phase'[x][y] = phase[x][y] /\ writer'[x][y] = writer[x][y]
        /\ stopRequested'[x][y] = stopRequested[x][y]
        /\ localPosition'[x][y] = localPosition[x][y]
        /\ peerPosition'[x][y] = peerPosition[x][y]
        /\ hello'[x][y] = hello[x][y] /\ open'[x][y] = open[x][y]
  BY DEF Finish, SetPhase, RunsOK, NetOK, PerRunOf
<1>3. ReadTo(s, t, "off", 0, 0, 0) /\ "off" \in ReaderNames
  BY DEF Finish, ReaderNames
<1> QED BY <1>1, <1>2, <1>3, ReadToFacts DEF RunsOK

\* Drained loses only what travels to one side on one transport.
LEMMA DrainedFacts ==
    ASSUME NetOK, NEW s \in Sides, NEW t \in Transports, Drained(s, t)
    PROVE  /\ wire' \in PerRunOf(Seq(FrameType))
           /\ wire'[s][t] = <<>>
           /\ \A x \in Sides, y \in Transports :
                x # s \/ y # t => wire'[x][y] = wire[x][y]
BY DEF Drained, NetOK, PerRunOf

\* ReaderExits ends the read loop of one run and asks it to stop.
LEMMA ReaderExitsFacts ==
    ASSUME RunsOK, NetOK, NEW s \in Sides, NEW t \in Transports, ReaderExits(s, t)
    PROVE  /\ RunsOK'
           /\ open' \in PerRunOf(BOOLEAN)
           /\ reader'[s][t] = "exit" /\ remainingSize'[s][t] = 0 /\ ~open'[s][t]
           /\ stopRequested'[s][t]
           /\ phase' = phase /\ writer' = writer
           /\ localPosition' = localPosition /\ peerPosition' = peerPosition
           /\ \A x \in Sides, y \in Transports : x # s \/ y # t =>
                /\ reader'[x][y] = reader[x][y] /\ label'[x][y] = label[x][y]
                /\ remainingSize'[x][y] = remainingSize[x][y]
                /\ tail'[x][y] = tail[x][y]
                /\ stopRequested'[x][y] = stopRequested[x][y]
                /\ open'[x][y] = open[x][y]
<1>1. /\ stopRequested' \in PerRunOf(BOOLEAN) /\ open' \in PerRunOf(BOOLEAN)
      /\ stopRequested'[s][t] /\ ~open'[s][t]
      /\ \A x \in Sides, y \in Transports : x # s \/ y # t =>
           /\ stopRequested'[x][y] = stopRequested[x][y]
           /\ open'[x][y] = open[x][y]
  BY DEF ReaderExits, RunsOK, NetOK, PerRunOf
<1>2. ReadTo(s, t, "exit", 0, 0, 0) /\ "exit" \in ReaderNames
  BY DEF ReaderExits, ReaderNames
<1>3. UNCHANGED <<phase, writer, localPosition, peerPosition>>
  BY DEF ReaderExits, positions
<1> QED BY <1>1, <1>2, <1>3, ReadToFacts DEF RunsOK

\* TakeFrame takes the first frame of one direction, which is well formed.
LEMMA TakeFrameFacts ==
    ASSUME NetOK, NEW s \in Sides, NEW t \in Transports, wire[s][t] # <<>>,
           TakeFrame(s, t)
    PROVE  /\ wire' \in PerRunOf(Seq(FrameType))
           /\ wire'[s][t] = Tail(wire[s][t])
           /\ Head(wire[s][t]) \in FrameType
           /\ Head(wire[s][t]).ack \in Nat /\ Head(wire[s][t]).upto \in Nat
           /\ Head(wire[s][t]).first \in Nat /\ Head(wire[s][t]).size \in Nat
           /\ \A x \in Sides, y \in Transports :
                x # s \/ y # t => wire'[x][y] = wire[x][y]
<1>1. wire[s][t] \in Seq(FrameType) /\ wire \in PerRunOf(Seq(FrameType))
  BY DEF NetOK, PerRunOf
<1>2. Tail(wire[s][t]) \in Seq(FrameType) /\ Head(wire[s][t]) \in FrameType
  BY <1>1
<1>3. /\ wire' \in PerRunOf(Seq(FrameType)) /\ wire'[s][t] = Tail(wire[s][t])
      /\ \A x \in Sides, y \in Transports :
                x # s \/ y # t => wire'[x][y] = wire[x][y]
  BY <1>1, <1>2 DEF TakeFrame, PerRunOf
<1>4. \A f \in FrameType : /\ f.ack \in Nat /\ f.upto \in Nat
                           /\ f.first \in Nat /\ f.size \in Nat
  BY DEF FrameType
<1> QED BY <1>2, <1>3, <1>4

\* WriterExits ends the write loop of one run and asks it to stop.
LEMMA WriterExitsFacts ==
    ASSUME RunsOK, NEW s \in Sides, NEW t \in Transports, WriterExits(s, t)
    PROVE  /\ RunsOK'
           /\ writer'[s][t] = "exit" /\ stopRequested'[s][t]
           /\ phase' = phase /\ reader' = reader /\ label' = label
           /\ remainingSize' = remainingSize /\ tail' = tail
           /\ localPosition' = localPosition /\ peerPosition' = peerPosition
           /\ \A x \in Sides, y \in Transports : x # s \/ y # t =>
                writer'[x][y] = writer[x][y]
<1>1. /\ stopRequested' \in PerRunOf(BOOLEAN) /\ writer' \in PerRunOf(WriterNames)
      /\ writer'[s][t] = "exit" /\ stopRequested'[s][t]
      /\ \A x \in Sides, y \in Transports : x # s \/ y # t =>
                writer'[x][y] = writer[x][y]
  BY DEF WriterExits, RunsOK, PerRunOf, WriterNames
<1>2. UNCHANGED <<phase, reader, label, remainingSize, tail, localPosition,
                  peerPosition>>
  BY DEF WriterExits, reading, positions
<1> QED BY <1>1, <1>2 DEF RunsOK

\* The types of what belongs to one side, one transport or one run.
LEMMA EntryFacts ==
    ASSUME RunsOK, NetOK, NEW s \in Sides, NEW t \in Transports
    PROVE  /\ phase[s][t] \in PhaseNames /\ reader[s][t] \in ReaderNames
           /\ writer[s][t] \in WriterNames
           /\ label[s][t] \in Nat /\ remainingSize[s][t] \in Nat /\ tail[s][t] \in Nat
           /\ localPosition[s][t] \in Nat /\ peerPosition[s][t] \in Nat
           /\ hello[s][t] \in Nat \cup {NoPosition}
           /\ wire[s][t] \in Seq(FrameType)
           /\ open[s][t] \in BOOLEAN
BY DEF RunsOK, NetOK, PerRunOf

-----------------------------------------------------------------------------
(***************************************************************************)
(* Each action preserves TInv.                                             *)
(***************************************************************************)

\* Write: what is appended to the send buffer fits its capacity.
LEMMA WriteTypes ==
    ASSUME TInv, NEW s \in Sides, Write(s)
    PROVE  TInv'
<1> USE ConstAssumption DEF TInv, TypeOK
<1>n. PICK n \in 1 .. (sendBufferSize - len(sendBuffer[s])) :
        /\ sendBuffer' = [sendBuffer EXCEPT ![s] = extend(@, n)]
        /\ written' = [written EXCEPT ![s] = @ + n]
  BY DEF Write
<1>1. BuffersOK'
  <2>1. n \in Nat /\ n <= sendBufferSize - len(sendBuffer[s])
    BY <1>n, BufferFacts DEF len
  <2>2. sendBuffer' \in [Sides -> SendType]
    BY <1>n, <2>1, BufferFacts, SendFacts DEF BuffersOK
  <2> QED BY <2>2 DEF Write, BuffersOK
<1>2. ConnsOK'
  BY DEF Write, ConnsOK, closes
<1>3. RunsOK'
  BY DEF Write, RunsOK, runs, reading, positions
<1>4. NetOK'
  BY DEF Write, NetOK, net
<1>5. HistoryOK'
  <2>1. n \in Nat
    BY <1>n, BufferFacts DEF len
  <2> QED BY <1>n, <2>1 DEF Write, HistoryOK
<1>6. SingleRun'
  BY DEF Write, SingleRun, Active, runs
<1>7. RunShape'
  BY DEF Write, RunShape, RunShapeAt, Active, runs, reading, positions, buffers,
     closes
<1> QED BY <1>1, <1>2, <1>3, <1>4, <1>5, <1>6, <1>7

\* Read: taking bytes out of the receive buffer leaves room for a reserved chunk.
LEMMA ReadTypes ==
    ASSUME TInv, NEW s \in Sides, Read(s)
    PROVE  TInv'
<1> USE ConstAssumption DEF TInv, TypeOK
<1>m. PICK n \in 1 .. len(receiveBuffer[s]) :
        /\ delivered' = [delivered EXCEPT ![s] =
             @ \o [i \in 1..n |-> receiveBuffer[s].data[receiveBuffer[s].start + i - 1]]]
        /\ receiveBuffer' = [receiveBuffer EXCEPT ![s] = take(receiveBuffer[s], n)]
  BY DEF Read
<1>n. n \in Nat /\ 0 < n /\ n <= len(receiveBuffer[s])
  BY <1>m, BufferFacts DEF len
<1>b. IsReceive(receiveBuffer[s])
  BY DEF BuffersOK
<1>1. BuffersOK'
  <2>1. IsReceive(take(receiveBuffer[s], n))
    BY <1>n, <1>b, TakeFacts
  <2> QED BY <1>m, <2>1 DEF Read, BuffersOK
<1>2. ConnsOK'
  BY DEF Read, ConnsOK, closes
<1>3. RunsOK'
  BY DEF Read, RunsOK, runs, reading, positions
<1>4. NetOK'
  BY DEF Read, NetOK, net
<1>5. HistoryOK'
  <2>1. \A i \in 1 .. n : receiveBuffer[s].data[receiveBuffer[s].start + i - 1] \in Nat
    <3> SUFFICES ASSUME NEW i \in 1 .. n
                 PROVE  receiveBuffer[s].data[receiveBuffer[s].start + i - 1] \in Nat
      OBVIOUS
    <3>1. receiveBuffer[s].start + i - 1 \in receiveBuffer[s].start .. (receiveBuffer[s].end - 1)
      BY <1>n, BufferFacts DEF len
    <3>2. receiveBuffer[s].data \in [receiveBuffer[s].start .. (receiveBuffer[s].end - 1) -> Nat]
      BY <1>b DEF IsReceive
    <3> QED BY <3>1, <3>2
  <2> DEFINE d == [i \in 1 .. n |-> receiveBuffer[s].data[receiveBuffer[s].start + i - 1]]
  <2>2. d \in Seq(Nat)
    <3>1. d \in [1 .. n -> Nat]
      BY <2>1
    <3> HIDE DEF d
    <3> QED BY <3>1, <1>n
  <2>3. delivered' = [delivered EXCEPT ![s] = delivered[s] \o d]
    BY <1>m
  <2> HIDE DEF d
  <2>4. delivered[s] \o d \in Seq(Nat)
    BY <2>2 DEF HistoryOK
  <2>5. delivered' \in [Sides -> Seq(Nat)]
    BY <2>3, <2>4 DEF HistoryOK
  <2> QED BY <2>5 DEF Read, HistoryOK
<1>6. SingleRun'
  BY DEF Read, SingleRun, Active, runs
<1>7. RunShape'
  <2>1. /\ receiveBuffer'[s].start = receiveBuffer[s].start + n
        /\ receiveBuffer'[s].end = receiveBuffer[s].end
        /\ \A x \in Sides : x # s => receiveBuffer'[x] = receiveBuffer[x]
    BY <1>m, <1>n, <1>b, TakeFacts DEF BuffersOK
  <2>2. UNCHANGED <<phase, reader, writer, remainingSize, tail, localPosition, localClosed>>
    BY DEF Read, runs, reading, positions, closes
  <2> SUFFICES ASSUME NEW x \in Sides, NEW y \in Transports PROVE RunShapeAt(x, y)'
    BY DEF RunShape
  <2>3. CASE x = s
    <3>1. /\ receiveBuffer[s].start \in Nat /\ receiveBuffer[s].end \in Nat
          /\ tail[s][y] \in Nat
      BY BufferFacts, EntryFacts
    <3>2. RunShapeAt(s, y)
      BY DEF RunShape
    <3> QED BY <3>1, <3>2, <2>1, <2>2, <2>3, <1>n DEF RunShapeAt, Active, len
  <2>4. CASE x # s
    BY <2>1, <2>2, <2>4 DEF RunShape, RunShapeAt, Active, len
  <2> QED BY <2>3, <2>4
<1> QED BY <1>1, <1>2, <1>3, <1>4, <1>5, <1>6, <1>7

\* Close: only localClosed changes, which the read loop may rely on.
LEMMA CloseTypes ==
    ASSUME TInv, NEW s \in Sides, Close(s)
    PROVE  TInv'
<1> USE ConstAssumption DEF TInv, TypeOK
<1>1. BuffersOK'
  BY DEF Close, BuffersOK, buffers
<1>2. ConnsOK'
  BY DEF Close, ConnsOK
<1>3. RunsOK'
  BY DEF Close, RunsOK, runs, reading, positions
<1>4. NetOK'
  BY DEF Close, NetOK, net
<1>5. HistoryOK'
  BY DEF Close, HistoryOK, history
<1>6. SingleRun'
  BY DEF Close, SingleRun, Active, runs
<1>7. RunShape'
  BY DEF Close, ConnsOK, RunShape, RunShapeAt, Active, runs, reading, positions,
     buffers
<1> QED BY <1>1, <1>2, <1>3, <1>4, <1>5, <1>6, <1>7

\* Cut: only the network changes.
LEMMA CutTypes ==
    ASSUME TInv, NEW t \in Transports, Cut(t)
    PROVE  TInv'
<1> USE ConstAssumption DEF TInv, TypeOK
<1>1. BuffersOK'
  BY DEF Cut, BuffersOK, buffers
<1>2. ConnsOK'
  BY DEF Cut, ConnsOK, closes
<1>3. RunsOK'
  BY DEF Cut, RunsOK, runs, reading, positions
<1>4. NetOK'
  BY DEF Cut, NetOK, PerRunOf
<1>5. HistoryOK'
  BY DEF Cut, HistoryOK, history
<1>6. SingleRun'
  BY DEF Cut, SingleRun, Active, runs
<1>7. RunShape'
  BY DEF Cut, RunShape, RunShapeAt, Active, runs, reading, positions, buffers,
     closes
<1> QED BY <1>1, <1>2, <1>3, <1>4, <1>5, <1>6, <1>7

\* LoseFrame: a shorter wire is still one.
LEMMA LoseFrameTypes ==
    ASSUME TInv, NEW s \in Sides, NEW t \in Transports, LoseFrame(s, t)
    PROVE  TInv'
<1> USE ConstAssumption DEF TInv, TypeOK
<1>1. BuffersOK'
  BY DEF LoseFrame, BuffersOK, buffers
<1>2. ConnsOK'
  BY DEF LoseFrame, ConnsOK, closes
<1>3. RunsOK'
  BY DEF LoseFrame, RunsOK, runs, reading, positions
<1>4. NetOK'
  <2>1. SubSeq(wire[s][t], 1, Len(wire[s][t]) - 1) \in Seq(FrameType)
    <3>1. wire[s][t] \in Seq(FrameType) /\ wire[s][t] # <<>>
      BY EntryFacts DEF LoseFrame
    <3> QED BY <3>1
  <2> QED BY <2>1 DEF LoseFrame, NetOK, PerRunOf
<1>5. HistoryOK'
  BY DEF LoseFrame, HistoryOK, history
<1>6. SingleRun'
  BY DEF LoseFrame, SingleRun, Active, runs
<1>7. RunShape'
  BY DEF LoseFrame, RunShape, RunShapeAt, Active, runs, reading, positions,
     buffers, closes
<1> QED BY <1>1, <1>2, <1>3, <1>4, <1>5, <1>6, <1>7

\* LoseHello: only the network changes.
LEMMA LoseHelloTypes ==
    ASSUME TInv, NEW s \in Sides, NEW t \in Transports, LoseHello(s, t)
    PROVE  TInv'
<1> USE ConstAssumption DEF TInv, TypeOK
<1>1. BuffersOK'
  BY DEF LoseHello, BuffersOK, buffers
<1>2. ConnsOK'
  BY DEF LoseHello, ConnsOK, closes
<1>3. RunsOK'
  BY DEF LoseHello, RunsOK, runs, reading, positions
<1>4. NetOK'
  BY DEF LoseHello, NetOK, PerRunOf
<1>5. HistoryOK'
  BY DEF LoseHello, HistoryOK, history
<1>6. SingleRun'
  BY DEF LoseHello, SingleRun, Active, runs
<1>7. RunShape'
  BY DEF LoseHello, RunShape, RunShapeAt, Active, runs, reading, positions,
     buffers, closes
<1> QED BY <1>1, <1>2, <1>3, <1>4, <1>5, <1>6, <1>7

\* AttachFirst: nothing is attached to a Conn that was just created.
LEMMA AttachFirstTypes ==
    ASSUME TInv, NEW s \in Sides, AttachFirst(s)
    PROVE  TInv'
<1> USE ConstAssumption DEF TInv, TypeOK
<1>p. First \in Transports /\ StartLoops(s, First)
  BY DEF AttachFirst
<1>a. attached[s] = None
  <2>1. \A u \in Transports : ~Active(s, u)
    BY DEF AttachFirst, RunShape, RunShapeAt, Active
  <2> QED BY <2>1 DEF SingleRun, ConnsOK
<1>1. BuffersOK'
  BY DEF AttachFirst, BuffersOK, buffers
<1>2. ConnsOK'
  BY DEF AttachFirst, ConnsOK, closes
<1>3. RunsOK'
  <2>1. localPosition' \in PerRunOf(Nat)
    BY BufferFacts DEF AttachFirst, RunsOK, PerRunOf
  <2> QED BY <2>1, <1>p, StartLoopsFacts DEF AttachFirst, RunsOK
<1>4. NetOK'
  BY DEF AttachFirst, NetOK, net
<1>5. HistoryOK'
  BY DEF AttachFirst, HistoryOK, history
<1>6. SingleRun'
  <2>1. \A u \in Transports : ~Active(s, u)
    BY <1>a DEF SingleRun
  <2>2. \A u \in Transports : u # First => ~Active(s, u)'
    BY <2>1, <1>p, StartLoopsFacts DEF Active
  <2>3. \A x \in Sides, y \in Transports : x # s => Active(x, y)' = Active(x, y)
    BY <1>p, StartLoopsFacts DEF Active
  <2>4. Active(s, First)'
    BY <1>p, StartLoopsFacts DEF Active
  <2>5. attached'[s] = First /\ \A x \in Sides : x # s => attached'[x] = attached[x]
    BY DEF AttachFirst, ConnsOK
  <2> QED BY <2>2, <2>3, <2>4, <2>5 DEF SingleRun
<1>7. RunShape'
  <2>1. /\ localPosition'[s][First] = receiveBuffer[s].end
        /\ \A x \in Sides, y \in Transports : x # s \/ y # First => localPosition'[x][y] = localPosition[x][y]
    BY DEF AttachFirst, RunsOK, PerRunOf
  <2>2. UNCHANGED <<receiveBuffer, localClosed>>
    BY DEF AttachFirst, buffers, closes
  <2> QED BY <2>1, <2>2, <1>p, StartLoopsFacts, BufferFacts DEF RunShape,
             RunShapeAt, Active
<1> QED BY <1>1, <1>2, <1>3, <1>4, <1>5, <1>6, <1>7

\* DialFailed: a run that was dialing was not attached.
LEMMA DialFailedTypes ==
    ASSUME TInv, NEW t \in Transports, DialFailed(t)
    PROVE  TInv'
<1> USE ConstAssumption DEF TInv, TypeOK
<1>p. Finish("client", t) /\ Drained("client", t) /\ "client" \in Sides
  BY DEF DialFailed, Sides
<1>1. BuffersOK'
  BY DEF DialFailed, BuffersOK, buffers
<1>2. ConnsOK'
  BY DEF DialFailed, ConnsOK, closes
<1>3. RunsOK'
  BY <1>p, FinishFacts
<1>4. NetOK'
  BY <1>p, FinishFacts, DrainedFacts DEF DialFailed, NetOK
<1>5. HistoryOK'
  BY DEF DialFailed, HistoryOK, history
<1>6. SingleRun'
  <2>1. \A x \in Sides, y \in Transports : Active(x, y)' <=> Active(x, y) /\ (x # "client" \/ y # t)
    BY <1>p, FinishFacts DEF Active
  <2>2. attached' = attached /\ ~Active("client", t)
    BY DEF DialFailed, Active
  <2> QED BY <2>1, <2>2 DEF SingleRun
<1>7. RunShape'
  <2>1. UNCHANGED <<receiveBuffer, localClosed>>
    BY DEF DialFailed, buffers, closes
  <2>2. phase["client"][First] # "idle"
    BY <1>p DEF DialFailed, RunShape, RunShapeAt
  <2>3. phase'["client"][First] # "idle"
    BY <2>2, <1>p, FinishFacts
  <2> SUFFICES ASSUME NEW x \in Sides, NEW y \in Transports PROVE RunShapeAt(x, y)'
    BY DEF RunShape
  <2>4. CASE x = "client" /\ y = t
    BY <2>3, <2>4, <1>p, FinishFacts DEF RunShapeAt, Active
  <2>5. CASE x # "client" \/ y # t
    <3>1. RunShapeAt(x, y) /\ (x = "client" \/ phase'[x][First] = phase[x][First])
      BY <1>p, FinishFacts DEF RunShape
    <3> QED BY <2>1, <2>3, <2>5, <3>1, <1>p, FinishFacts DEF RunShapeAt, Active
  <2> QED BY <2>4, <2>5
<1> QED BY <1>1, <1>2, <1>3, <1>4, <1>5, <1>6, <1>7

\* Refuse: a run that was waiting was not attached.
LEMMA RefuseTypes ==
    ASSUME TInv, NEW s \in Sides, NEW t \in Transports, Refuse(s, t)
    PROVE  TInv'
<1> USE ConstAssumption DEF TInv, TypeOK
<1>p. Finish(s, t) /\ Drained(s, t) /\ s \in Sides
  BY DEF Refuse, Sides
<1>1. BuffersOK'
  BY DEF Refuse, BuffersOK, buffers
<1>2. ConnsOK'
  BY DEF Refuse, ConnsOK, closes
<1>3. RunsOK'
  BY <1>p, FinishFacts
<1>4. NetOK'
  BY <1>p, FinishFacts, DrainedFacts DEF Refuse, NetOK
<1>5. HistoryOK'
  BY DEF Refuse, HistoryOK, history
<1>6. SingleRun'
  <2>1. \A x \in Sides, y \in Transports : Active(x, y)' <=> Active(x, y) /\ (x # s \/ y # t)
    BY <1>p, FinishFacts DEF Active
  <2>2. attached' = attached /\ ~Active(s, t)
    BY DEF Refuse, Active
  <2> QED BY <2>1, <2>2 DEF SingleRun
<1>7. RunShape'
  <2>1. UNCHANGED <<receiveBuffer, localClosed>>
    BY DEF Refuse, buffers, closes
  <2>2. phase[s][First] # "idle"
    BY <1>p DEF Refuse, RunShape, RunShapeAt
  <2>3. phase'[s][First] # "idle"
    BY <2>2, <1>p, FinishFacts
  <2> SUFFICES ASSUME NEW x \in Sides, NEW y \in Transports PROVE RunShapeAt(x, y)'
    BY DEF RunShape
  <2>4. CASE x = s /\ y = t
    BY <2>3, <2>4, <1>p, FinishFacts DEF RunShapeAt, Active
  <2>5. CASE x # s \/ y # t
    <3>1. RunShapeAt(x, y) /\ (x = s \/ phase'[x][First] = phase[x][First])
      BY <1>p, FinishFacts DEF RunShape
    <3> QED BY <2>1, <2>3, <2>5, <3>1, <1>p, FinishFacts DEF RunShapeAt, Active
  <2> QED BY <2>4, <2>5
<1> QED BY <1>1, <1>2, <1>3, <1>4, <1>5, <1>6, <1>7

\* Detach: the run that ends is the attached one, which is forgotten with it.
LEMMA DetachTypes ==
    ASSUME TInv, NEW s \in Sides, NEW t \in Transports, Detach(s, t)
    PROVE  TInv'
<1> USE ConstAssumption DEF TInv, TypeOK
<1>p. Finish(s, t) /\ Drained(s, t) /\ s \in Sides
  BY DEF Detach, Sides
<1>1. BuffersOK'
  BY DEF Detach, BuffersOK, buffers
<1>2. ConnsOK'
  BY DEF Detach, ConnsOK, closes
<1>3. RunsOK'
  BY <1>p, FinishFacts
<1>4. NetOK'
  BY <1>p, FinishFacts, DrainedFacts DEF Detach, NetOK
<1>5. HistoryOK'
  BY DEF Detach, HistoryOK, history
<1>6. SingleRun'
  <2>1. \A x \in Sides, y \in Transports : Active(x, y)' <=> Active(x, y) /\ (x # s \/ y # t)
    BY <1>p, FinishFacts DEF Active
  <2>2. attached[s] = t
    BY DEF Detach, SingleRun, Active
  <2>3. attached'[s] = None /\ \A x \in Sides : x # s => attached'[x] = attached[x]
    BY DEF Detach, ConnsOK
  <2> QED BY <2>1, <2>2, <2>3 DEF SingleRun
<1>7. RunShape'
  <2>1. UNCHANGED <<receiveBuffer, localClosed>>
    BY DEF Detach, buffers, closes
  <2>2. phase[s][First] # "idle"
    BY <1>p DEF Detach, RunShape, RunShapeAt
  <2>3. phase'[s][First] # "idle"
    BY <2>2, <1>p, FinishFacts
  <2> SUFFICES ASSUME NEW x \in Sides, NEW y \in Transports PROVE RunShapeAt(x, y)'
    BY DEF RunShape
  <2>4. CASE x = s /\ y = t
    BY <2>3, <2>4, <1>p, FinishFacts DEF RunShapeAt, Active
  <2>5. CASE x # s \/ y # t
    <3>1. RunShapeAt(x, y) /\ (x = s \/ phase'[x][First] = phase[x][First])
      BY <1>p, FinishFacts DEF RunShape
    <3> QED BY <2>1, <2>3, <2>5, <3>1, <1>p, FinishFacts DEF RunShapeAt, Active
  <2> QED BY <2>4, <2>5
<1> QED BY <1>1, <1>2, <1>3, <1>4, <1>5, <1>6, <1>7

\* HandshakeError: the run that ends is the attached one, which is forgotten with it.
LEMMA HandshakeErrorTypes ==
    ASSUME TInv, NEW s \in Sides, NEW t \in Transports, HandshakeError(s, t)
    PROVE  TInv'
<1> USE ConstAssumption DEF TInv, TypeOK
<1>p. Finish(s, t) /\ Drained(s, t) /\ s \in Sides
  BY DEF HandshakeError, Sides
<1>1. BuffersOK'
  BY DEF HandshakeError, BuffersOK, buffers
<1>2. ConnsOK'
  BY DEF HandshakeError, ConnsOK, closes
<1>3. RunsOK'
  BY <1>p, FinishFacts
<1>4. NetOK'
  BY <1>p, FinishFacts, DrainedFacts DEF HandshakeError, NetOK
<1>5. HistoryOK'
  BY DEF HandshakeError, HistoryOK, history
<1>6. SingleRun'
  <2>1. \A x \in Sides, y \in Transports : Active(x, y)' <=> Active(x, y) /\ (x # s \/ y # t)
    BY <1>p, FinishFacts DEF Active
  <2>2. attached[s] = t
    BY DEF HandshakeError, SingleRun, Active
  <2>3. attached'[s] = None /\ \A x \in Sides : x # s => attached'[x] = attached[x]
    BY DEF HandshakeError, ConnsOK
  <2> QED BY <2>1, <2>2, <2>3 DEF SingleRun
<1>7. RunShape'
  <2>1. UNCHANGED <<receiveBuffer, localClosed>>
    BY DEF HandshakeError, buffers, closes
  <2>2. phase[s][First] # "idle"
    BY <1>p DEF HandshakeError, RunShape, RunShapeAt
  <2>3. phase'[s][First] # "idle"
    BY <2>2, <1>p, FinishFacts
  <2> SUFFICES ASSUME NEW x \in Sides, NEW y \in Transports PROVE RunShapeAt(x, y)'
    BY DEF RunShape
  <2>4. CASE x = s /\ y = t
    BY <2>3, <2>4, <1>p, FinishFacts DEF RunShapeAt, Active
  <2>5. CASE x # s \/ y # t
    <3>1. RunShapeAt(x, y) /\ (x = s \/ phase'[x][First] = phase[x][First])
      BY <1>p, FinishFacts DEF RunShape
    <3> QED BY <2>1, <2>3, <2>5, <3>1, <1>p, FinishFacts DEF RunShapeAt, Active
  <2> QED BY <2>4, <2>5
<1> QED BY <1>1, <1>2, <1>3, <1>4, <1>5, <1>6, <1>7

\* Dial: a run that is dialing is not attached.
LEMMA DialTypes ==
    ASSUME TInv, NEW t \in Transports, Dial(t)
    PROVE  TInv'
<1> USE ConstAssumption DEF TInv, TypeOK
<1>p. /\ SetPhase("client", t, "dialing") /\ "client" \in Sides /\ "dialing" \in PhaseNames
      /\ phase["client"][t] \notin {"handshake", "greeted", "loops"}
      /\ phase["client"][First] # "idle"
  BY DEF Dial, Sides, PhaseNames, Created, RunShape, RunShapeAt
<1>1. BuffersOK'
  BY DEF Dial, BuffersOK, buffers
<1>2. ConnsOK'
  BY DEF Dial, ConnsOK, closes
<1>3. RunsOK'
  BY <1>p, SetPhaseFacts DEF Dial, RunsOK, reading, positions
<1>4. NetOK'
  BY DEF Dial, NetOK, net
<1>5. HistoryOK'
  BY DEF Dial, HistoryOK, history
<1>6. SingleRun'
  <2>1. \A x \in Sides, y \in Transports : Active(x, y)' <=> Active(x, y)
    BY <1>p, SetPhaseFacts DEF Active
  <2> QED BY <2>1 DEF Dial, SingleRun
<1>7. RunShape'
  <2>1. UNCHANGED <<receiveBuffer, localClosed, reader, writer, remainingSize, tail, localPosition>>
    BY DEF Dial, buffers, closes, reading, positions
  <2> QED BY <2>1, <1>p, SetPhaseFacts DEF RunShape, RunShapeAt, Active
<1> QED BY <1>1, <1>2, <1>3, <1>4, <1>5, <1>6, <1>7

\* Accept: a run that waits is not attached.
LEMMA AcceptTypes ==
    ASSUME TInv, NEW t \in Transports, Accept(t)
    PROVE  TInv'
<1> USE ConstAssumption DEF TInv, TypeOK
<1>p. /\ SetPhase("server", t, "wait") /\ "server" \in Sides /\ "wait" \in PhaseNames
      /\ phase["server"][t] \notin {"handshake", "greeted", "loops"}
      /\ phase["server"][First] # "idle"
  BY DEF Accept, Sides, PhaseNames, Created, RunShape, RunShapeAt
<1>1. BuffersOK'
  BY DEF Accept, BuffersOK, buffers
<1>2. ConnsOK'
  BY DEF Accept, ConnsOK, closes
<1>3. RunsOK'
  BY <1>p, SetPhaseFacts DEF Accept, RunsOK, reading, positions
<1>4. NetOK'
  BY DEF Accept, NetOK, net
<1>5. HistoryOK'
  BY DEF Accept, HistoryOK, history
<1>6. SingleRun'
  <2>1. \A x \in Sides, y \in Transports : Active(x, y)' <=> Active(x, y)
    BY <1>p, SetPhaseFacts DEF Active
  <2> QED BY <2>1 DEF Accept, SingleRun
<1>7. RunShape'
  <2>1. UNCHANGED <<receiveBuffer, localClosed, reader, writer, remainingSize, tail, localPosition>>
    BY DEF Accept, buffers, closes, reading, positions
  <2> QED BY <2>1, <1>p, SetPhaseFacts DEF RunShape, RunShapeAt, Active
<1> QED BY <1>1, <1>2, <1>3, <1>4, <1>5, <1>6, <1>7

\* Dialed: a run that waits is not attached.
LEMMA DialedTypes ==
    ASSUME TInv, NEW t \in Transports, Dialed(t)
    PROVE  TInv'
<1> USE ConstAssumption DEF TInv, TypeOK
<1>p. /\ SetPhase("client", t, "wait") /\ "client" \in Sides /\ "wait" \in PhaseNames
      /\ phase["client"][t] \notin {"handshake", "greeted", "loops"}
      /\ phase["client"][First] # "idle"
  BY DEF Dialed, Sides, PhaseNames, Created, RunShape, RunShapeAt
<1>1. BuffersOK'
  BY DEF Dialed, BuffersOK, buffers
<1>2. ConnsOK'
  BY DEF Dialed, ConnsOK, closes
<1>3. RunsOK'
  BY <1>p, SetPhaseFacts DEF Dialed, RunsOK, reading, positions
<1>4. NetOK'
  BY DEF Dialed, NetOK, net
<1>5. HistoryOK'
  BY DEF Dialed, HistoryOK, history
<1>6. SingleRun'
  <2>1. \A x \in Sides, y \in Transports : Active(x, y)' <=> Active(x, y)
    BY <1>p, SetPhaseFacts DEF Active
  <2> QED BY <2>1 DEF Dialed, SingleRun
<1>7. RunShape'
  <2>1. UNCHANGED <<receiveBuffer, localClosed, reader, writer, remainingSize, tail, localPosition>>
    BY DEF Dialed, buffers, closes, reading, positions
  <2> QED BY <2>1, <1>p, SetPhaseFacts DEF RunShape, RunShapeAt, Active
<1> QED BY <1>1, <1>2, <1>3, <1>4, <1>5, <1>6, <1>7

\* RequestDetach: the attached run stays attached until it ends.
LEMMA RequestDetachTypes ==
    ASSUME TInv, NEW s \in Sides, NEW t \in Transports, RequestDetach(s, t)
    PROVE  TInv'
<1> USE ConstAssumption DEF TInv, TypeOK
<1>1. BuffersOK'
  BY DEF RequestDetach, BuffersOK, buffers
<1>2. ConnsOK'
  BY DEF RequestDetach, ConnsOK, closes
<1>3. RunsOK'
  BY DEF RequestDetach, RunsOK, ConnsOK, PerRunOf, reading, positions
<1>4. NetOK'
  BY DEF RequestDetach, NetOK, ConnsOK, PerRunOf
<1>5. HistoryOK'
  BY DEF RequestDetach, HistoryOK, history
<1>6. SingleRun'
  BY DEF RequestDetach, SingleRun, Active, runs
<1>7. RunShape'
  BY DEF RequestDetach, RunShape, RunShapeAt, Active, runs, reading, positions,
     buffers, closes
<1> QED BY <1>1, <1>2, <1>3, <1>4, <1>5, <1>6, <1>7

\* Attach: nothing else is attached, so this run is the only one.
LEMMA AttachTypes ==
    ASSUME TInv, NEW s \in Sides, NEW t \in Transports, Attach(s, t)
    PROVE  TInv'
<1> USE ConstAssumption DEF TInv, TypeOK
<1>p. SetPhase(s, t, "handshake") /\ "handshake" \in PhaseNames
  BY DEF Attach, PhaseNames
<1>1. BuffersOK'
  BY DEF Attach, BuffersOK, buffers
<1>2. ConnsOK'
  BY DEF Attach, ConnsOK, closes
<1>3. RunsOK'
  <2>1. localPosition' \in PerRunOf(Nat)
    BY BufferFacts DEF Attach, RunsOK, PerRunOf
  <2> QED BY <2>1, <1>p, SetPhaseFacts DEF Attach, RunsOK, reading
<1>4. NetOK'
  BY DEF Attach, NetOK, net
<1>5. HistoryOK'
  BY DEF Attach, HistoryOK, history
<1>6. SingleRun'
  <2>1. \A u \in Transports : ~Active(s, u)
    BY DEF Attach, SingleRun
  <2>2. \A x \in Sides, y \in Transports : Active(x, y)' <=> Active(x, y) \/ (x = s /\ y = t)
    BY <1>p, SetPhaseFacts DEF Active
  <2>3. attached'[s] = t /\ \A x \in Sides : x # s => attached'[x] = attached[x]
    BY DEF Attach, ConnsOK
  <2> QED BY <2>1, <2>2, <2>3 DEF SingleRun
<1>7. RunShape'
  <2>1. /\ localPosition'[s][t] = receiveBuffer[s].end
        /\ \A x \in Sides, y \in Transports :
             x # s \/ y # t => localPosition'[x][y] = localPosition[x][y]
    BY DEF Attach, RunsOK, PerRunOf
  <2>2. UNCHANGED <<receiveBuffer, localClosed, reader, writer, remainingSize, tail>>
    BY DEF Attach, buffers, closes, reading
  <2>3. phase[s][First] # "idle" /\ phase[s][t] # "loops"
    BY DEF Attach, RunShape, RunShapeAt
  <2> QED BY <2>1, <2>2, <2>3, <1>p, SetPhaseFacts, BufferFacts DEF RunShape,
             RunShapeAt, Active
<1> QED BY <1>1, <1>2, <1>3, <1>4, <1>5, <1>6, <1>7

\* SendHello: the position sent is the one taken when attaching.
LEMMA SendHelloTypes ==
    ASSUME TInv, NEW s \in Sides, NEW t \in Transports, SendHello(s, t)
    PROVE  TInv'
<1> USE ConstAssumption DEF TInv, TypeOK
<1>p. /\ SetPhase(s, t, "greeted") /\ "greeted" \in PhaseNames
      /\ phase[s][t] = "handshake"
  BY DEF SendHello, PhaseNames
<1>1. BuffersOK'
  BY DEF SendHello, BuffersOK, buffers
<1>2. ConnsOK'
  BY DEF SendHello, ConnsOK, closes
<1>3. RunsOK'
  BY <1>p, SetPhaseFacts DEF SendHello, RunsOK, reading, positions
<1>4. NetOK'
  BY EntryFacts, PeerFacts DEF SendHello, NetOK, PerRunOf
<1>5. HistoryOK'
  BY DEF SendHello, HistoryOK, history
<1>6. SingleRun'
  <2>1. \A x \in Sides, y \in Transports : Active(x, y)' <=> Active(x, y)
    BY <1>p, SetPhaseFacts DEF Active
  <2> QED BY <2>1 DEF SendHello, SingleRun
<1>7. RunShape'
  <2>1. UNCHANGED <<receiveBuffer, localClosed, reader, writer, remainingSize, tail,
                    localPosition>>
    BY DEF SendHello, buffers, closes, reading, positions
  <2>2. phase[s][First] # "idle"
    BY <1>p DEF RunShape, RunShapeAt
  <2> QED BY <2>1, <2>2, <1>p, SetPhaseFacts DEF RunShape, RunShapeAt, Active
<1> QED BY <1>1, <1>2, <1>3, <1>4, <1>5, <1>6, <1>7

\* ReceiveHello: a compatible position advances the send buffer within its data.
LEMMA ReceiveHelloTypes ==
    ASSUME TInv, NEW s \in Sides, NEW t \in Transports, ReceiveHello(s, t)
    PROVE  TInv'
<1> USE ConstAssumption DEF TInv, TypeOK
<1>p. StartLoops(s, t) /\ phase[s][t] = "greeted"
  BY DEF ReceiveHello
<1>h. hello[s][t] \in Nat
  BY EntryFacts DEF ReceiveHello
<1>1. BuffersOK'
  <2>1. hello[s][t] - sendBuffer[s].start \in Nat
        /\ hello[s][t] - sendBuffer[s].start <= len(sendBuffer[s])
    BY <1>h, BufferFacts DEF ReceiveHello, Compatible, len
  <2>2. sendBuffer' \in [Sides -> SendType]
    BY <2>1, BufferFacts, SendFacts DEF ReceiveHello, BuffersOK
  <2> QED BY <2>2 DEF ReceiveHello, BuffersOK
<1>2. ConnsOK'
  BY DEF ReceiveHello, ConnsOK, closes
<1>3. RunsOK'
  <2>1. peerPosition' \in PerRunOf(Nat)
    BY <1>h DEF ReceiveHello, RunsOK, PerRunOf
  <2> QED BY <2>1, <1>p, StartLoopsFacts DEF ReceiveHello, RunsOK
<1>4. NetOK'
  BY DEF ReceiveHello, NetOK, PerRunOf
<1>5. HistoryOK'
  BY DEF ReceiveHello, HistoryOK, history
<1>6. SingleRun'
  <2>1. \A x \in Sides, y \in Transports : Active(x, y)' <=> Active(x, y)
    BY <1>p, StartLoopsFacts DEF Active
  <2> QED BY <2>1 DEF ReceiveHello, SingleRun
<1>7. RunShape'
  <2>1. UNCHANGED <<receiveBuffer, localClosed, localPosition>>
    BY DEF ReceiveHello, closes
  <2>2. phase[s][First] # "idle" /\ localPosition[s][t] <= receiveBuffer[s].end
    BY <1>p DEF RunShape, RunShapeAt, Active
  <2> QED BY <2>1, <2>2, <1>p, StartLoopsFacts DEF RunShape, RunShapeAt, Active
<1> QED BY <1>1, <1>2, <1>3, <1>4, <1>5, <1>6, <1>7

\* RejectHello: the run that ends is the attached one, which is forgotten with it.
LEMMA RejectHelloTypes ==
    ASSUME TInv, NEW s \in Sides, NEW t \in Transports, RejectHello(s, t)
    PROVE  TInv'
<1> USE ConstAssumption DEF TInv, TypeOK
<1>p. Finish(s, t)
  BY DEF RejectHello
<1>1. BuffersOK'
  BY DEF RejectHello, BuffersOK, buffers
<1>2. ConnsOK'
  BY DEF RejectHello, ConnsOK
<1>3. RunsOK'
  BY <1>p, FinishFacts
<1>4. NetOK'
  <2>1. ErrorTag(0, 0) \in FrameType
    BY DEF ErrorTag, FrameType
  <2>2. wire[s] \in [Transports -> Seq(FrameType)] /\ wire[Peer(s)] \in [Transports -> Seq(FrameType)]
    BY PeerFacts DEF NetOK, PerRunOf
  <2>4. wire' \in PerRunOf(Seq(FrameType))
    BY <2>1, <2>2, PeerFacts DEF RejectHello, NetOK, PerRunOf
  <2> QED BY <2>4, <1>p, FinishFacts DEF RejectHello, NetOK
<1>5. HistoryOK'
  BY DEF RejectHello, HistoryOK, history
<1>6. SingleRun'
  <2>1. \A x \in Sides, y \in Transports : Active(x, y)' <=> Active(x, y) /\ (x # s \/ y # t)
    BY <1>p, FinishFacts DEF Active
  <2>2. attached[s] = t
    BY DEF RejectHello, SingleRun, Active
  <2>3. attached'[s] = None /\ \A x \in Sides : x # s => attached'[x] = attached[x]
    BY DEF RejectHello, ConnsOK
  <2> QED BY <2>1, <2>2, <2>3 DEF SingleRun
<1>7. RunShape'
  <2>1. UNCHANGED <<receiveBuffer, localClosed>> /\ phase[s][First] # "idle"
    BY DEF RejectHello, buffers, RunShape, RunShapeAt
  <2> SUFFICES ASSUME NEW x \in Sides, NEW y \in Transports PROVE RunShapeAt(x, y)'
    BY DEF RunShape
  <2>2. phase'[s][First] # "idle"
    BY <2>1, <1>p, FinishFacts
  <2>3. RunShapeAt(x, y) /\ (x = s \/ phase'[x][First] = phase[x][First])
    BY <1>p, FinishFacts DEF RunShape
  <2> QED BY <2>1, <2>2, <2>3, <1>p, FinishFacts DEF RunShapeAt, Active
<1> QED BY <1>1, <1>2, <1>3, <1>4, <1>5, <1>6, <1>7

\* HandshakeTimeout: only the transport is closed.
LEMMA HandshakeTimeoutTypes ==
    ASSUME TInv, NEW s \in Sides, NEW t \in Transports, HandshakeTimeout(s, t)
    PROVE  TInv'
<1> USE ConstAssumption DEF TInv, TypeOK
<1>1. BuffersOK'
  BY DEF HandshakeTimeout, BuffersOK, buffers
<1>2. ConnsOK'
  BY DEF HandshakeTimeout, ConnsOK, closes
<1>3. RunsOK'
  BY DEF HandshakeTimeout, RunsOK, runs, reading, positions
<1>4. NetOK'
  BY DEF HandshakeTimeout, NetOK, PerRunOf
<1>5. HistoryOK'
  BY DEF HandshakeTimeout, HistoryOK, history
<1>6. SingleRun'
  BY DEF HandshakeTimeout, SingleRun, Active, runs
<1>7. RunShape'
  BY DEF HandshakeTimeout, RunShape, RunShapeAt, Active, runs, reading,
     positions, buffers, closes
<1> QED BY <1>1, <1>2, <1>3, <1>4, <1>5, <1>6, <1>7

\* ReadErrorTag: the run stays attached until both loops are over.
LEMMA ReadErrorTagTypes ==
    ASSUME TInv, NEW s \in Sides, NEW t \in Transports, ReadErrorTag(s, t)
    PROVE  TInv'
<1> USE ConstAssumption DEF TInv, TypeOK
<1>p. ReaderExits(s, t) /\ TakeFrame(s, t) /\ wire[s][t] # <<>> /\ phase[s][t] = "loops"
  BY DEF ReadErrorTag, Reading
<1>1. BuffersOK'
  BY DEF ReadErrorTag, BuffersOK, buffers
<1>2. ConnsOK'
  BY DEF ReadErrorTag, ConnsOK
<1>3. RunsOK'
  BY <1>p, ReaderExitsFacts
<1>4. NetOK'
  BY <1>p, ReaderExitsFacts, TakeFrameFacts DEF ReadErrorTag, NetOK
<1>5. HistoryOK'
  BY DEF ReadErrorTag, HistoryOK, history
<1>6. SingleRun'
  BY <1>p, ReaderExitsFacts DEF ReadErrorTag, SingleRun, Active
<1>7. RunShape'
  <2>1. UNCHANGED <<receiveBuffer, localClosed>>
    BY DEF ReadErrorTag, buffers
  <2> QED BY <2>1, <1>p, ReaderExitsFacts DEF RunShape, RunShapeAt, Active
<1> QED BY <1>1, <1>2, <1>3, <1>4, <1>5, <1>6, <1>7

\* ReadHeader: an acknowledgement that was checked advances within the data.
LEMMA ReadHeaderTypes ==
    ASSUME TInv, NEW s \in Sides, NEW t \in Transports, ReadHeader(s, t)
    PROVE  TInv'
<1> USE ConstAssumption DEF TInv, TypeOK
<1> DEFINE f == Head(wire[s][t])
<1>q. TakeFrame(s, t) /\ wire[s][t] # <<>> /\ phase[s][t] = "loops" /\ reader[s][t] = "frame"
  BY DEF ReadHeader, Reading
<1>f. f \in FrameType /\ f.ack \in Nat /\ f.first \in Nat /\ f.size \in Nat
  BY <1>q, TakeFrameFacts
<1>p. \/ ReaderExits(s, t)
      \/ /\ \/ ReadTo(s, t, "frame", 0, 0, 0)
            \/ ReadTo(s, t, "data", f.first, f.size, 0)
         /\ UNCHANGED <<phase, stopRequested, writer, positions, open>>
  BY DEF ReadHeader
<1>b. \/ sendBuffer' = sendBuffer
      \/ /\ ~(f.ack > len(sendBuffer[s]))
         /\ sendBuffer' = [sendBuffer EXCEPT ![s] = advance(@, f.ack)]
  BY DEF ReadHeader
<1> HIDE DEF f
<1>r. {"frame", "data"} \subseteq ReaderNames /\ f.first \in Nat /\ f.size \in Nat
  BY <1>f DEF ReaderNames
<1>1. BuffersOK'
  <2>2. sendBuffer' \in [Sides -> SendType]
    <3>1. CASE ~(f.ack > len(sendBuffer[s])) /\ sendBuffer' = [sendBuffer EXCEPT ![s] = advance(@, f.ack)]
      <4>1. f.ack <= len(sendBuffer[s])
        BY <3>1, <1>f, BufferFacts DEF len
      <4> QED BY <3>1, <4>1, <1>f, BufferFacts, SendFacts DEF BuffersOK
    <3> QED BY <3>1, <1>b DEF BuffersOK
  <2> QED BY <2>2 DEF ReadHeader, BuffersOK
<1>2. ConnsOK'
  BY DEF ReadHeader, ConnsOK, closes
<1>3. RunsOK'
  <2>1. CASE ReaderExits(s, t)
    BY <2>1, ReaderExitsFacts
  <2>2. CASE ~ReaderExits(s, t)
    BY <2>2, <1>p, <1>r, ReadToFacts DEF RunsOK, positions
  <2> QED BY <2>1, <2>2
<1>4. NetOK'
  <2>1. wire' \in PerRunOf(Seq(FrameType))
    BY <1>q, TakeFrameFacts
  <2>2. open' \in PerRunOf(BOOLEAN)
    BY <1>p, ReaderExitsFacts DEF NetOK
  <2> QED BY <2>1, <2>2 DEF ReadHeader, NetOK
<1>5. HistoryOK'
  BY DEF ReadHeader, HistoryOK, history
<1>6. SingleRun'
  <2>1. UNCHANGED <<phase, attached>>
    BY <1>p, ReaderExitsFacts DEF ReadHeader
  <2> QED BY <2>1 DEF SingleRun, Active
<1>7. RunShape'
  <2>1. UNCHANGED <<receiveBuffer, localClosed>>
    BY DEF ReadHeader, closes
  <2>2. CASE ReaderExits(s, t)
    BY <2>1, <2>2, <1>q, ReaderExitsFacts DEF RunShape, RunShapeAt, Active
  <2>3. CASE ~ReaderExits(s, t)
    <3>1. UNCHANGED <<phase, writer, localPosition>>
      BY <2>3, <1>p DEF positions
    <3>2. CASE ReadTo(s, t, "frame", 0, 0, 0)
      BY <2>1, <3>1, <3>2, <1>q, <1>r, ReadToFacts, SMTT(30) DEF RunShape, RunShapeAt,
         Active
    <3>3. CASE ReadTo(s, t, "data", f.first, f.size, 0)
      BY <2>1, <3>1, <3>3, <1>q, <1>r, ReadToFacts, SMTT(30) DEF RunShape, RunShapeAt,
         Active
    <3> QED BY <2>3, <3>2, <3>3, <1>p
  <2> QED BY <2>2, <2>3
<1> QED BY <1>1, <1>2, <1>3, <1>4, <1>5, <1>6, <1>7

\* ReaderStopped: the read loop is over, the run is still attached.
LEMMA ReaderStoppedTypes ==
    ASSUME TInv, NEW s \in Sides, NEW t \in Transports, ReaderStopped(s, t)
    PROVE  TInv'
<1> USE ConstAssumption DEF TInv, TypeOK
<1>p. ReaderExits(s, t) /\ phase[s][t] = "loops"
  BY DEF ReaderStopped, Reading
<1>1. BuffersOK'
  BY DEF ReaderStopped, BuffersOK, buffers
<1>2. ConnsOK'
  BY DEF ReaderStopped, ConnsOK, closes
<1>3. RunsOK'
  BY <1>p, ReaderExitsFacts
<1>4. NetOK'
  BY <1>p, ReaderExitsFacts DEF ReaderStopped, NetOK
<1>5. HistoryOK'
  BY DEF ReaderStopped, HistoryOK, history
<1>6. SingleRun'
  BY <1>p, ReaderExitsFacts DEF ReaderStopped, SingleRun, Active
<1>7. RunShape'
  <2>1. UNCHANGED <<receiveBuffer, localClosed>>
    BY DEF ReaderStopped, buffers, closes
  <2> QED BY <2>1, <1>p, ReaderExitsFacts DEF RunShape, RunShapeAt, Active
<1> QED BY <1>1, <1>2, <1>3, <1>4, <1>5, <1>6, <1>7

\* HeaderError: the read loop is over, the run is still attached.
LEMMA HeaderErrorTypes ==
    ASSUME TInv, NEW s \in Sides, NEW t \in Transports, HeaderError(s, t)
    PROVE  TInv'
<1> USE ConstAssumption DEF TInv, TypeOK
<1>p. ReaderExits(s, t) /\ phase[s][t] = "loops"
  BY DEF HeaderError, Reading
<1>1. BuffersOK'
  BY DEF HeaderError, BuffersOK, buffers
<1>2. ConnsOK'
  BY DEF HeaderError, ConnsOK, closes
<1>3. RunsOK'
  BY <1>p, ReaderExitsFacts
<1>4. NetOK'
  BY <1>p, ReaderExitsFacts DEF HeaderError, NetOK
<1>5. HistoryOK'
  BY DEF HeaderError, HistoryOK, history
<1>6. SingleRun'
  BY <1>p, ReaderExitsFacts DEF HeaderError, SingleRun, Active
<1>7. RunShape'
  <2>1. UNCHANGED <<receiveBuffer, localClosed>>
    BY DEF HeaderError, buffers, closes
  <2> QED BY <2>1, <1>p, ReaderExitsFacts DEF RunShape, RunShapeAt, Active
<1> QED BY <1>1, <1>2, <1>3, <1>4, <1>5, <1>6, <1>7

\* StartDiscard: input is discarded only when the Conn is locally closed.
LEMMA StartDiscardTypes ==
    ASSUME TInv, NEW s \in Sides, NEW t \in Transports, StartDiscard(s, t)
    PROVE  TInv'
<1> USE ConstAssumption DEF TInv, TypeOK
<1>p. ReadTo(s, t, "discard", label[s][t], remainingSize[s][t], 0)
  BY DEF StartDiscard
<1>q. phase[s][t] = "loops" /\ localClosed[s]
  BY DEF StartDiscard, Reading
<1>n. /\ 0 \in Nat /\ "discard" \in ReaderNames
      /\ label[s][t] \in Nat /\ remainingSize[s][t] \in Nat
  BY <1>p, EntryFacts DEF ReaderNames
<1>1. BuffersOK'
  BY DEF StartDiscard, BuffersOK, buffers
<1>2. ConnsOK'
  BY DEF StartDiscard, ConnsOK, closes
<1>3. RunsOK'
  BY <1>p, <1>n, ReadToFacts DEF StartDiscard, RunsOK, positions
<1>4. NetOK'
  BY DEF StartDiscard, NetOK, net
<1>5. HistoryOK'
  BY DEF StartDiscard, HistoryOK, history
<1>6. SingleRun'
  BY DEF StartDiscard, SingleRun, Active, runs
<1>7. RunShape'
  <2>1. UNCHANGED <<receiveBuffer, localClosed, phase, writer, localPosition>>
    BY DEF StartDiscard, buffers, closes, positions
  <2> SUFFICES ASSUME NEW x \in Sides, NEW y \in Transports PROVE RunShapeAt(x, y)'
    BY DEF RunShape
  <2>2. RunShapeAt(x, y)
    BY DEF RunShape
  <2>3. CASE x = s /\ y = t
    BY <2>1, <2>2, <2>3, <1>p, <1>n, <1>q, ReadToFacts DEF RunShapeAt, Active, len
  <2>4. CASE x # s \/ y # t
    BY <2>1, <2>2, <2>4, <1>p, <1>n, <1>q, ReadToFacts, SMTT(30) DEF RunShapeAt, Active, len
  <2> QED BY <2>3, <2>4
<1> QED BY <1>1, <1>2, <1>3, <1>4, <1>5, <1>6, <1>7

\* ReserveChunk: the chunk fits both the frame and the free space.
LEMMA ReserveChunkTypes ==
    ASSUME TInv, NEW s \in Sides, NEW t \in Transports, ReserveChunk(s, t)
    PROVE  TInv'
<1> USE ConstAssumption DEF TInv, TypeOK
<1>p. PICK n \in 1 .. remainingSize[s][t] :
        /\ n <= receiveCapacity - len(receiveBuffer[s])
        /\ ReadTo(s, t, "fill", label[s][t], remainingSize[s][t], n)
  BY DEF ReserveChunk
<1>q. phase[s][t] = "loops" /\ 0 < n /\ n <= remainingSize[s][t]
  BY <1>p, EntryFacts DEF ReserveChunk, Reading
<1>n. /\ n \in Nat /\ "fill" \in ReaderNames
      /\ label[s][t] \in Nat /\ remainingSize[s][t] \in Nat
  BY <1>p, EntryFacts DEF ReaderNames
<1>1. BuffersOK'
  BY DEF ReserveChunk, BuffersOK, buffers
<1>2. ConnsOK'
  BY DEF ReserveChunk, ConnsOK, closes
<1>3. RunsOK'
  BY <1>p, <1>n, ReadToFacts DEF ReserveChunk, RunsOK, positions
<1>4. NetOK'
  BY DEF ReserveChunk, NetOK, net
<1>5. HistoryOK'
  BY DEF ReserveChunk, HistoryOK, history
<1>6. SingleRun'
  BY DEF ReserveChunk, SingleRun, Active, runs
<1>7. RunShape'
  <2>1. UNCHANGED <<receiveBuffer, localClosed, phase, writer, localPosition>>
    BY DEF ReserveChunk, buffers, closes, positions
  <2> SUFFICES ASSUME NEW x \in Sides, NEW y \in Transports PROVE RunShapeAt(x, y)'
    BY DEF RunShape
  <2>2. RunShapeAt(x, y)
    BY DEF RunShape
  <2>3. CASE x = s /\ y = t
    BY <2>1, <2>2, <2>3, <1>p, <1>n, <1>q, ReadToFacts DEF RunShapeAt, Active, len
  <2>4. CASE x # s \/ y # t
    BY <2>1, <2>2, <2>4, <1>p, <1>n, <1>q, ReadToFacts DEF RunShapeAt, Active, len
  <2> QED BY <2>3, <2>4
<1> QED BY <1>1, <1>2, <1>3, <1>4, <1>5, <1>6, <1>7

\* FillChunk: the chunk still fits, since no other run writes to the receive buffer.
LEMMA FillChunkTypes ==
    ASSUME TInv, NEW s \in Sides, NEW t \in Transports, FillChunk(s, t)
    PROVE  TInv'
<1> USE ConstAssumption DEF TInv, TypeOK
<1>q. phase[s][t] = "loops" /\ reader[s][t] = "fill"
  BY DEF FillChunk, Reading
<1>k. /\ tail[s][t] \in Nat /\ tail[s][t] <= remainingSize[s][t]
      /\ tail[s][t] <= receiveCapacity - len(receiveBuffer[s])
  BY <1>q, EntryFacts DEF RunShape, RunShapeAt
<1>r. IsReceive(receiveBuffer[s]) /\ label[s][t] \in Nat
  BY EntryFacts DEF BuffersOK
<1>b. receiveBuffer' = [receiveBuffer EXCEPT ![s] = append(receiveBuffer[s], label[s][t], tail[s][t])]
  BY DEF FillChunk
<1>u. UNCHANGED <<localClosed, phase, writer, localPosition>>
  BY DEF FillChunk, closes, positions
<1>s. \E where \in {"frame", "data"}, next \in Nat, left \in Nat :
        ReadTo(s, t, where, next, left, 0) /\ (where = "frame" => left = 0)
  <2>1. CASE tail[s][t] = remainingSize[s][t]
    BY <2>1 DEF FillChunk
  <2>2. CASE tail[s][t] # remainingSize[s][t]
    <3>1. /\ label[s][t] + tail[s][t] \in Nat
          /\ remainingSize[s][t] - tail[s][t] \in Nat
      BY <1>k, <1>r, EntryFacts
    <3>2. ReadTo(s, t, "data", label[s][t] + tail[s][t], remainingSize[s][t] - tail[s][t], 0)
      BY <2>2 DEF FillChunk
    <3> QED BY <3>1, <3>2
  <2> QED BY <2>1, <2>2
<1>t. PICK where \in {"frame", "data"}, next \in Nat, left \in Nat :
        ReadTo(s, t, where, next, left, 0) /\ (where = "frame" => left = 0)
  BY <1>s
<1>p. /\ reader' \in PerRunOf(ReaderNames) /\ label' \in PerRunOf(Nat)
      /\ remainingSize' \in PerRunOf(Nat) /\ tail' \in PerRunOf(Nat)
      /\ reader'[s][t] \in {"frame", "data"}
      /\ reader'[s][t] = "frame" => remainingSize'[s][t] = 0
      /\ \A x \in Sides, y \in Transports : x # s \/ y # t =>
           /\ reader'[x][y] = reader[x][y]
           /\ remainingSize'[x][y] = remainingSize[x][y]
           /\ tail'[x][y] = tail[x][y]
  BY <1>t, ReadToFacts DEF ReaderNames
<1>1. BuffersOK'
  <2>1. IsReceive(append(receiveBuffer[s], label[s][t], tail[s][t]))
    BY <1>k, <1>r, AppendFacts
  <2> QED BY <2>1, <1>b DEF FillChunk, BuffersOK
<1>2. ConnsOK'
  BY DEF FillChunk, ConnsOK, closes
<1>3. RunsOK'
  BY <1>p DEF FillChunk, RunsOK, positions
<1>4. NetOK'
  BY DEF FillChunk, NetOK, net
<1>5. HistoryOK'
  BY DEF FillChunk, HistoryOK, history
<1>6. SingleRun'
  <2>1. UNCHANGED <<phase, attached>>
    BY <1>u DEF FillChunk
  <2> QED BY <2>1 DEF SingleRun, Active
<1>7. RunShape'
  <2>1. /\ receiveBuffer[s].end <= receiveBuffer'[s].end
        /\ receiveBuffer'[s].end \in Nat /\ receiveBuffer[s].end \in Nat
        /\ \A x \in Sides : x # s => receiveBuffer'[x] = receiveBuffer[x]
    <3>1. /\ receiveBuffer'[s] = append(receiveBuffer[s], label[s][t], tail[s][t])
          /\ \A x \in Sides : x # s => receiveBuffer'[x] = receiveBuffer[x]
      BY <1>b DEF BuffersOK
    <3>2. append(receiveBuffer[s], label[s][t], tail[s][t]).end = receiveBuffer[s].end + tail[s][t]
      BY <1>k, <1>r, AppendFacts
    <3>3. tail[s][t] \in Nat /\ receiveBuffer[s].end \in Nat
      BY <1>k, BufferFacts
    <3> QED BY <3>1, <3>2, <3>3
  <2>2. UNCHANGED <<localClosed, phase, writer, localPosition>>
    BY <1>u
  <2>3. \A y \in Transports : y # t => phase[s][y] \notin {"handshake", "greeted", "loops"}
    BY <1>q DEF SingleRun, Active
  <2> SUFFICES ASSUME NEW x \in Sides, NEW y \in Transports PROVE RunShapeAt(x, y)'
    BY DEF RunShape
  <2>4. RunShapeAt(x, y)
    BY DEF RunShape
  <2>5. CASE x = s /\ y = t
    BY <2>1, <2>2, <2>4, <2>5, <1>q, <1>p, EntryFacts DEF RunShapeAt, Active
  <2>6. CASE x = s /\ y # t
    BY <2>2, <2>3, <2>4, <2>6, <1>p DEF RunShapeAt, Active
  <2>7. CASE x # s
    BY <2>1, <2>2, <2>4, <2>7, <1>p DEF RunShapeAt, Active, len
  <2> QED BY <2>5, <2>6, <2>7
<1> QED BY <1>1, <1>2, <1>3, <1>4, <1>5, <1>6, <1>7

\* Discard: a discarding read loop leaves the receive buffer empty.
LEMMA DiscardTypes ==
    ASSUME TInv, NEW s \in Sides, NEW t \in Transports, Discard(s, t)
    PROVE  TInv'
<1> USE ConstAssumption DEF TInv, TypeOK
<1>q. phase[s][t] = "loops" /\ reader[s][t] = "discard"
  BY DEF Discard, Reading
<1>k. remainingSize[s][t] \in Nat
  BY EntryFacts
<1>r. IsReceive(receiveBuffer[s]) /\ label[s][t] \in Nat
  BY EntryFacts DEF BuffersOK
<1>b. receiveBuffer' = [receiveBuffer EXCEPT ![s] = discard(receiveBuffer[s], remainingSize[s][t])]
  BY DEF Discard
<1>u. UNCHANGED <<localClosed, phase, writer, localPosition>>
  BY DEF Discard, closes, positions
<1>p. /\ reader' \in PerRunOf(ReaderNames) /\ label' \in PerRunOf(Nat)
      /\ remainingSize' \in PerRunOf(Nat) /\ tail' \in PerRunOf(Nat)
      /\ reader'[s][t] \in {"frame", "data"}
      /\ reader'[s][t] = "frame" => remainingSize'[s][t] = 0
      /\ \A x \in Sides, y \in Transports : x # s \/ y # t =>
           /\ reader'[x][y] = reader[x][y]
           /\ remainingSize'[x][y] = remainingSize[x][y]
           /\ tail'[x][y] = tail[x][y]
  BY ReadToFacts DEF ReaderNames, Discard
<1>1. BuffersOK'
  <2>1. IsReceive(discard(receiveBuffer[s], remainingSize[s][t]))
    BY <1>k, <1>r, DiscardFacts
  <2> QED BY <2>1, <1>b DEF Discard, BuffersOK
<1>2. ConnsOK'
  BY DEF Discard, ConnsOK, closes
<1>3. RunsOK'
  BY <1>p DEF Discard, RunsOK, positions
<1>4. NetOK'
  BY DEF Discard, NetOK, net
<1>5. HistoryOK'
  BY DEF Discard, HistoryOK, history
<1>6. SingleRun'
  <2>1. UNCHANGED <<phase, attached>>
    BY <1>u DEF Discard
  <2> QED BY <2>1 DEF SingleRun, Active
<1>7. RunShape'
  <2>1. /\ receiveBuffer[s].end <= receiveBuffer'[s].end
        /\ receiveBuffer'[s].end \in Nat /\ receiveBuffer[s].end \in Nat
        /\ \A x \in Sides : x # s => receiveBuffer'[x] = receiveBuffer[x]
    <3>1. /\ receiveBuffer'[s] = discard(receiveBuffer[s], remainingSize[s][t])
          /\ \A x \in Sides : x # s => receiveBuffer'[x] = receiveBuffer[x]
      BY <1>b DEF BuffersOK
    <3>2. discard(receiveBuffer[s], remainingSize[s][t]).end = receiveBuffer[s].end + remainingSize[s][t]
      BY <1>k, <1>r, DiscardFacts
    <3>3. remainingSize[s][t] \in Nat /\ receiveBuffer[s].end \in Nat
      BY <1>k, BufferFacts
    <3> QED BY <3>1, <3>2, <3>3
  <2>2. UNCHANGED <<localClosed, phase, writer, localPosition>>
    BY <1>u
  <2>3. \A y \in Transports : y # t => phase[s][y] \notin {"handshake", "greeted", "loops"}
    BY <1>q DEF SingleRun, Active
  <2> SUFFICES ASSUME NEW x \in Sides, NEW y \in Transports PROVE RunShapeAt(x, y)'
    BY DEF RunShape
  <2>4. RunShapeAt(x, y)
    BY DEF RunShape
  <2>5. CASE x = s /\ y = t
    BY <2>1, <2>2, <2>4, <2>5, <1>q, <1>p, EntryFacts DEF RunShapeAt, Active
  <2>6. CASE x = s /\ y # t
    BY <2>2, <2>3, <2>4, <2>6, <1>p DEF RunShapeAt, Active
  <2>7. CASE x # s
    BY <2>1, <2>2, <2>4, <2>7, <1>p DEF RunShapeAt, Active, len
  <2> QED BY <2>5, <2>6, <2>7
<1> QED BY <1>1, <1>2, <1>3, <1>4, <1>5, <1>6, <1>7

\* FillError: a part of the chunk fits where the chunk does.
LEMMA FillErrorTypes ==
    ASSUME TInv, NEW s \in Sides, NEW t \in Transports, FillError(s, t)
    PROVE  TInv'
<1> USE ConstAssumption DEF TInv, TypeOK
<1>q. phase[s][t] = "loops" /\ reader[s][t] = "fill"
  BY DEF FillError, Reading
<1>b. PICK k \in 0 .. (tail[s][t] - 1) :
        receiveBuffer' = [receiveBuffer EXCEPT ![s] = append(receiveBuffer[s], label[s][t], k)]
  BY DEF FillError
<1>l. /\ tail[s][t] \in Nat
      /\ tail[s][t] <= receiveCapacity - len(receiveBuffer[s])
  BY <1>q, EntryFacts DEF RunShape, RunShapeAt
<1>k. k \in Nat /\ k <= receiveCapacity - len(receiveBuffer[s])
  BY <1>l, <1>b, BufferFacts DEF len
<1>r. IsReceive(receiveBuffer[s]) /\ label[s][t] \in Nat
  BY EntryFacts DEF BuffersOK
<1>u. UNCHANGED <<localClosed, phase, writer, localPosition>>
  BY ReaderExitsFacts DEF FillError, closes
<1>p. /\ reader'[s][t] = "exit" /\ remainingSize'[s][t] = 0
      /\ \A x \in Sides, y \in Transports : x # s \/ y # t =>
           /\ reader'[x][y] = reader[x][y]
           /\ remainingSize'[x][y] = remainingSize[x][y]
           /\ tail'[x][y] = tail[x][y]
      /\ RunsOK' /\ phase' = phase /\ open' \in PerRunOf(BOOLEAN)
  BY ReaderExitsFacts DEF FillError
<1>1. BuffersOK'
  <2>1. IsReceive(append(receiveBuffer[s], label[s][t], k))
    BY <1>k, <1>r, AppendFacts
  <2> QED BY <2>1, <1>b DEF FillError, BuffersOK
<1>2. ConnsOK'
  BY DEF FillError, ConnsOK, closes
<1>3. RunsOK'
  BY <1>p
<1>4. NetOK'
  BY <1>p, ReaderExitsFacts DEF FillError, NetOK
<1>5. HistoryOK'
  BY DEF FillError, HistoryOK, history
<1>6. SingleRun'
  <2>1. UNCHANGED <<phase, attached>>
    BY <1>p, ReaderExitsFacts DEF FillError
  <2> QED BY <2>1 DEF SingleRun, Active
<1>7. RunShape'
  <2>1. /\ receiveBuffer[s].end <= receiveBuffer'[s].end
        /\ receiveBuffer'[s].end \in Nat /\ receiveBuffer[s].end \in Nat
        /\ \A x \in Sides : x # s => receiveBuffer'[x] = receiveBuffer[x]
    <3>1. /\ receiveBuffer'[s] = append(receiveBuffer[s], label[s][t], k)
          /\ \A x \in Sides : x # s => receiveBuffer'[x] = receiveBuffer[x]
      BY <1>b DEF BuffersOK
    <3>2. append(receiveBuffer[s], label[s][t], k).end = receiveBuffer[s].end + k
      BY <1>k, <1>r, AppendFacts
    <3>3. k \in Nat /\ receiveBuffer[s].end \in Nat
      BY <1>k, BufferFacts
    <3> QED BY <3>1, <3>2, <3>3
  <2>2. UNCHANGED <<localClosed, phase, writer, localPosition>>
    BY <1>u
  <2>3. \A y \in Transports : y # t => phase[s][y] \notin {"handshake", "greeted", "loops"}
    BY <1>q DEF SingleRun, Active
  <2> SUFFICES ASSUME NEW x \in Sides, NEW y \in Transports PROVE RunShapeAt(x, y)'
    BY DEF RunShape
  <2>4. RunShapeAt(x, y)
    BY DEF RunShape
  <2>5. CASE x = s /\ y = t
    BY <2>1, <2>2, <2>4, <2>5, <1>q, <1>p, EntryFacts DEF RunShapeAt, Active
  <2>6. CASE x = s /\ y # t
    BY <2>2, <2>3, <2>4, <2>6, <1>p DEF RunShapeAt, Active
  <2>7. CASE x # s
    BY <2>1, <2>2, <2>4, <2>7, <1>p DEF RunShapeAt, Active, len
  <2> QED BY <2>5, <2>6, <2>7
<1> QED BY <1>1, <1>2, <1>3, <1>4, <1>5, <1>6, <1>7

\* DiscardError: a discarding read loop leaves the receive buffer empty.
LEMMA DiscardErrorTypes ==
    ASSUME TInv, NEW s \in Sides, NEW t \in Transports, DiscardError(s, t)
    PROVE  TInv'
<1> USE ConstAssumption DEF TInv, TypeOK
<1>q. phase[s][t] = "loops" /\ reader[s][t] = "discard"
  BY DEF DiscardError, Reading
<1>b. PICK k \in 0 .. (remainingSize[s][t] - 1) :
        receiveBuffer' = [receiveBuffer EXCEPT ![s] = discard(receiveBuffer[s], k)]
  BY DEF DiscardError
<1>k. k \in Nat
  BY <1>b, EntryFacts
<1>r. IsReceive(receiveBuffer[s]) /\ label[s][t] \in Nat
  BY EntryFacts DEF BuffersOK
<1>u. UNCHANGED <<localClosed, phase, writer, localPosition>>
  BY ReaderExitsFacts DEF DiscardError, closes
<1>p. /\ reader'[s][t] = "exit" /\ remainingSize'[s][t] = 0
      /\ \A x \in Sides, y \in Transports : x # s \/ y # t =>
           /\ reader'[x][y] = reader[x][y]
           /\ remainingSize'[x][y] = remainingSize[x][y]
           /\ tail'[x][y] = tail[x][y]
      /\ RunsOK' /\ phase' = phase /\ open' \in PerRunOf(BOOLEAN)
  BY ReaderExitsFacts DEF DiscardError
<1>1. BuffersOK'
  <2>1. IsReceive(discard(receiveBuffer[s], k))
    BY <1>k, <1>r, DiscardFacts
  <2> QED BY <2>1, <1>b DEF DiscardError, BuffersOK
<1>2. ConnsOK'
  BY DEF DiscardError, ConnsOK, closes
<1>3. RunsOK'
  BY <1>p
<1>4. NetOK'
  BY <1>p, ReaderExitsFacts DEF DiscardError, NetOK
<1>5. HistoryOK'
  BY DEF DiscardError, HistoryOK, history
<1>6. SingleRun'
  <2>1. UNCHANGED <<phase, attached>>
    BY <1>p, ReaderExitsFacts DEF DiscardError
  <2> QED BY <2>1 DEF SingleRun, Active
<1>7. RunShape'
  <2>1. /\ receiveBuffer[s].end <= receiveBuffer'[s].end
        /\ receiveBuffer'[s].end \in Nat /\ receiveBuffer[s].end \in Nat
        /\ \A x \in Sides : x # s => receiveBuffer'[x] = receiveBuffer[x]
    <3>1. /\ receiveBuffer'[s] = discard(receiveBuffer[s], k)
          /\ \A x \in Sides : x # s => receiveBuffer'[x] = receiveBuffer[x]
      BY <1>b DEF BuffersOK
    <3>2. discard(receiveBuffer[s], k).end = receiveBuffer[s].end + k
      BY <1>k, <1>r, DiscardFacts
    <3>3. k \in Nat /\ receiveBuffer[s].end \in Nat
      BY <1>k, BufferFacts
    <3> QED BY <3>1, <3>2, <3>3
  <2>2. UNCHANGED <<localClosed, phase, writer, localPosition>>
    BY <1>u
  <2>3. \A y \in Transports : y # t => phase[s][y] \notin {"handshake", "greeted", "loops"}
    BY <1>q DEF SingleRun, Active
  <2> SUFFICES ASSUME NEW x \in Sides, NEW y \in Transports PROVE RunShapeAt(x, y)'
    BY DEF RunShape
  <2>4. RunShapeAt(x, y)
    BY DEF RunShape
  <2>5. CASE x = s /\ y = t
    BY <2>1, <2>2, <2>4, <2>5, <1>q, <1>p, EntryFacts DEF RunShapeAt, Active
  <2>6. CASE x = s /\ y # t
    BY <2>2, <2>3, <2>4, <2>6, <1>p DEF RunShapeAt, Active
  <2>7. CASE x # s
    BY <2>1, <2>2, <2>4, <2>7, <1>p DEF RunShapeAt, Active, len
  <2> QED BY <2>5, <2>6, <2>7
<1> QED BY <1>1, <1>2, <1>3, <1>4, <1>5, <1>6, <1>7

\* WriteFrame: an acknowledgement is never negative.
LEMMA WriteFrameTypes ==
    ASSUME TInv, NEW s \in Sides, NEW t \in Transports, WriteFrame(s, t)
    PROVE  TInv'
<1> USE ConstAssumption DEF TInv, TypeOK
<1>n. PICK n \in 0 .. maxFrameSize :
        /\ SendFrame(s, t, Frame(FrameAck(s, t), receiveBuffer[s].end,
                                 peerPosition[s][t], n))
        /\ peerPosition' = [peerPosition EXCEPT ![s][t] = @ + n]
  BY DEF WriteFrame
<1>1. BuffersOK'
  BY DEF WriteFrame, BuffersOK, buffers
<1>2. ConnsOK'
  BY DEF WriteFrame, ConnsOK, closes
<1>3. RunsOK'
  <2>1. localPosition' \in PerRunOf(Nat)
    BY BufferFacts DEF WriteFrame, RunsOK, PerRunOf
  <2>2. n \in Nat /\ peerPosition[s][t] + n \in Nat
    BY <1>n, EntryFacts
  <2>3. peerPosition' \in PerRunOf(Nat)
    BY <1>n, <2>2 DEF RunsOK, PerRunOf
  <2> QED BY <2>1, <2>3 DEF WriteFrame, RunsOK, reading
<1>4. NetOK'
  <2>1. FrameAck(s, t) \in Nat
    BY BufferFacts, EntryFacts DEF WriteFrame, Writing, FrameAck, RunShape,
       RunShapeAt, Active
  <2>2. Frame(FrameAck(s, t), receiveBuffer[s].end, peerPosition[s][t], n) \in FrameType
    BY <2>1, <1>n, BufferFacts, EntryFacts DEF Frame, FrameType
  <2>3. wire' \in PerRunOf(Seq(FrameType))
    BY <2>2, <1>n, WireFacts DEF NetOK
  <2> QED BY <2>3 DEF WriteFrame, NetOK
<1>5. HistoryOK'
  BY DEF WriteFrame, HistoryOK, history
<1>6. SingleRun'
  BY DEF WriteFrame, SingleRun, Active
<1>7. RunShape'
  BY BufferFacts DEF WriteFrame, RunShape, RunShapeAt, Active, reading, buffers,
     closes, len, RunsOK, PerRunOf, Writing
<1> QED BY <1>1, <1>2, <1>3, <1>4, <1>5, <1>6, <1>7

\* WriteError: the write loop is over, the run is still attached.
LEMMA WriteErrorTypes ==
    ASSUME TInv, NEW s \in Sides, NEW t \in Transports, WriteError(s, t)
    PROVE  TInv'
<1> USE ConstAssumption DEF TInv, TypeOK
<1>p. WriterExits(s, t) /\ phase[s][t] = "loops"
  BY DEF WriteError, Writing
<1>1. BuffersOK'
  BY DEF WriteError, BuffersOK, buffers
<1>2. ConnsOK'
  BY DEF WriteError, ConnsOK, closes
<1>3. RunsOK'
  BY <1>p, WriterExitsFacts
<1>4. NetOK'
  BY DEF WriteError, NetOK, net
<1>5. HistoryOK'
  BY DEF WriteError, HistoryOK, history
<1>6. SingleRun'
  BY <1>p, WriterExitsFacts DEF WriteError, SingleRun, Active
<1>7. RunShape'
  <2>1. UNCHANGED <<receiveBuffer, localClosed>>
    BY DEF WriteError, buffers, closes
  <2> QED BY <2>1, <1>p, WriterExitsFacts DEF RunShape, RunShapeAt, Active
<1> QED BY <1>1, <1>2, <1>3, <1>4, <1>5, <1>6, <1>7

\* WriterStopped: the write loop is over, the run is still attached.
LEMMA WriterStoppedTypes ==
    ASSUME TInv, NEW s \in Sides, NEW t \in Transports, WriterStopped(s, t)
    PROVE  TInv'
<1> USE ConstAssumption DEF TInv, TypeOK
<1>p. WriterExits(s, t) /\ phase[s][t] = "loops"
  BY DEF WriterStopped, Writing
<1>1. BuffersOK'
  BY DEF WriterStopped, BuffersOK, buffers
<1>2. ConnsOK'
  BY DEF WriterStopped, ConnsOK, closes
<1>3. RunsOK'
  BY <1>p, WriterExitsFacts
<1>4. NetOK'
  BY DEF WriterStopped, NetOK, net
<1>5. HistoryOK'
  BY DEF WriterStopped, HistoryOK, history
<1>6. SingleRun'
  BY <1>p, WriterExitsFacts DEF WriterStopped, SingleRun, Active
<1>7. RunShape'
  <2>1. UNCHANGED <<receiveBuffer, localClosed>>
    BY DEF WriterStopped, buffers, closes
  <2> QED BY <2>1, <1>p, WriterExitsFacts DEF RunShape, RunShapeAt, Active
<1> QED BY <1>1, <1>2, <1>3, <1>4, <1>5, <1>6, <1>7

\* WriteErrorTag: the write loop is over, the run is still attached.
LEMMA WriteErrorTagTypes ==
    ASSUME TInv, NEW s \in Sides, NEW t \in Transports, WriteErrorTag(s, t)
    PROVE  TInv'
<1> USE ConstAssumption DEF TInv, TypeOK
<1>p. WriterExits(s, t) /\ phase[s][t] = "loops"
  BY DEF WriteErrorTag, Writing
<1>1. BuffersOK'
  BY DEF WriteErrorTag, BuffersOK, buffers
<1>2. ConnsOK'
  BY DEF WriteErrorTag, ConnsOK, closes
<1>3. RunsOK'
  BY <1>p, WriterExitsFacts
<1>4. NetOK'
  <2>1. ErrorTag(receiveBuffer[s].end, peerPosition[s][t]) \in FrameType
    BY BufferFacts, EntryFacts DEF ErrorTag, FrameType
  <2>2. wire' \in PerRunOf(Seq(FrameType))
    BY <2>1, WireFacts DEF WriteErrorTag, NetOK
  <2> QED BY <2>2 DEF WriteErrorTag, NetOK
<1>5. HistoryOK'
  BY DEF WriteErrorTag, HistoryOK, history
<1>6. SingleRun'
  BY <1>p, WriterExitsFacts DEF WriteErrorTag, SingleRun, Active
<1>7. RunShape'
  <2>1. UNCHANGED <<receiveBuffer, localClosed>>
    BY DEF WriteErrorTag, buffers, closes
  <2> QED BY <2>1, <1>p, WriterExitsFacts DEF RunShape, RunShapeAt, Active
<1> QED BY <1>1, <1>2, <1>3, <1>4, <1>5, <1>6, <1>7

\* A new connection satisfies the invariant.
LEMMA InitTypes == Init => TInv
<1> USE ConstAssumption
<1> SUFFICES ASSUME Init PROVE TInv
  OBVIOUS
<1>1. BuffersOK
  <2>1. EmptySend \in SendType
    BY DEF EmptySend, SendType, len
  <2> DEFINE b == EmptyReceive
  <2>2. b = [start |-> b.start, end |-> b.end, data |-> b.data] /\ b.start = 0 /\ b.end = 0
    BY DEF EmptyReceive
  <2>3. b.data \in [0 .. -1 -> Nat]
    BY DEF EmptyReceive
  <2>4. 0 .. -1 = 0 .. (0 - 1)
    OBVIOUS
  <2> HIDE DEF b
  <2>5. IsReceive(b)
    BY <2>2, <2>3, <2>4 DEF IsReceive, len
  <2>6. IsReceive(EmptyReceive)
    BY <2>5 DEF b
  <2> QED BY <2>1, <2>6 DEF Init, BuffersOK
<1>2. ConnsOK
  BY DEF Init, ConnsOK
<1>3. RunsOK
  BY DEF Init, RunsOK, PerRun, PerRunOf, PhaseNames, ReaderNames, WriterNames
<1>4. NetOK
  BY DEF Init, NetOK, PerRun, PerRunOf, NoPosition
<1>5. HistoryOK
  BY DEF Init, HistoryOK
<1>6. SingleRun
  BY DEF Init, SingleRun, Active, PerRun
<1>7. RunShape
  BY DEF Init, RunShape, RunShapeAt, Active, PerRun
<1> QED BY <1>1, <1>2, <1>3, <1>4, <1>5, <1>6, <1>7 DEF TInv, TypeOK

\* Every step preserves it: one lemma per action.
LEMMA StepTypes == TInv /\ [Next]_vars => TInv'
<1> SUFFICES ASSUME TInv, [Next]_vars PROVE TInv'
  OBVIOUS
<1>1. ASSUME NEW s \in Sides, App(s) PROVE TInv'
  BY <1>1, WriteTypes, ReadTypes, CloseTypes DEF App
<1>2. ASSUME NEW s \in Sides, NEW t \in Transports, Network(s, t) PROVE TInv'
  BY <1>2, CutTypes, LoseFrameTypes, LoseHelloTypes DEF Network
<1>3. ASSUME NEW t \in Transports, Dialing(t) PROVE TInv'
  BY <1>3, DialTypes, DialFailedTypes, AcceptTypes, DialedTypes DEF Dialing
<1>4. ASSUME NEW s \in Sides, NEW t \in Transports, Attachment(s, t) PROVE TInv'
  BY <1>4, RequestDetachTypes, AttachTypes, RefuseTypes, DetachTypes DEF
     Attachment
<1>5. ASSUME NEW s \in Sides, NEW t \in Transports, Handshake(s, t) PROVE TInv'
  BY <1>5, SendHelloTypes, ReceiveHelloTypes, RejectHelloTypes,
     HandshakeTimeoutTypes, HandshakeErrorTypes DEF Handshake
<1>6. ASSUME NEW s \in Sides, NEW t \in Transports, ReadLoop(s, t) PROVE TInv'
  BY <1>6, ReadErrorTagTypes, ReadHeaderTypes, ReaderStoppedTypes,
     StartDiscardTypes, ReserveChunkTypes, FillChunkTypes, DiscardTypes,
     HeaderErrorTypes, FillErrorTypes, DiscardErrorTypes DEF ReadLoop
<1>7. ASSUME NEW s \in Sides, NEW t \in Transports, WriteLoop(s, t) PROVE TInv'
  BY <1>7, WriteFrameTypes, WriteErrorTypes, WriterStoppedTypes,
     WriteErrorTagTypes DEF WriteLoop
<1>8. ASSUME NEW s \in Sides, AttachFirst(s) PROVE TInv'
  BY <1>8, AttachFirstTypes
<1>9. CASE UNCHANGED vars
  BY <1>9 DEF vars, buffers, closes, runs, reading, positions, net, history,
     TInv, TypeOK,
     BuffersOK, ConnsOK, RunsOK, NetOK, HistoryOK, SingleRun, RunShape, RunShapeAt, Active
<1>10. First \in Transports
  BY ConstAssumption
<1> QED BY <1>1, <1>2, <1>3, <1>4, <1>5, <1>6, <1>7, <1>8, <1>9, <1>10 DEF Next

\* Types, capacities, the shape of the runs and the attachment, always.
THEOREM TypesAlways == Spec => []TInv
BY InitTypes, StepTypes, PTL DEF Spec

\* TypeOK for any transports and buffer sizes: reserving room in one critical
\* section of the read loop and filling it in another never overruns the receive
\* buffer, and no acknowledgement or resume position overruns the send buffer.
THEOREM TypeCorrect == Spec => []TypeOK
<1>1. TInv => TypeOK
  BY DEF TInv
<1> QED BY <1>1, TypesAlways, PTL

\* SingleRun for any number of transports: requestDetachLocked is non-nil exactly
\* while a run is attached, and two runs never drive the same Conn.
THEOREM OneRun == Spec => []SingleRun
<1>1. TInv => SingleRun
  BY DEF TInv
<1> QED BY <1>1, TypesAlways, PTL

=============================================================================
