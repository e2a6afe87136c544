------------------------- MODULE ResumableConnSafety -------------------------
(***************************************************************************)
(* The safety properties of ResumableConn, and its refinement of           *)
(* DuplexStream, for every value of the constants.                         *)
(*                                                                         *)
(* The invariant IInv says of each end s of each transport t where the     *)
(* bytes and acknowledgements in flight belong (LinkAt).  What is said of  *)
(* a frame is said relative to the buffers of the ends, which the other    *)
(* transports move too; the proof rests on RunsAlone: the buffers of s     *)
(* that matter on u move only in a run on u, because s is attached to one  *)
(* transport at a time.  So a step is shown to keep the links of its own   *)
(* transport, and to be Quiet on the others (QuietLinks, LinkStep).  On    *)
(* its own transport, most steps are quiet as well; the others start or    *)
(* end a run, or put something on the wire or take it off.                 *)
(***************************************************************************)
EXTENDS ResumableConnTypes, SequenceTheorems

-----------------------------------------------------------------------------
(***************************************************************************)
(* Sequences of frames.                                                    *)
(***************************************************************************)

\* What there is to know of a frame on the wire.
LEMMA FrameFields ==
    ASSUME NEW W \in Seq(FrameType), NEW i \in 1 .. Len(W)
    PROVE  /\ W[i] \in FrameType
           /\ W[i].ack \in Nat /\ W[i].upto \in Nat /\ W[i].first \in Nat
           /\ W[i].size \in Nat /\ W[i].close \in BOOLEAN
<1>1. W[i] \in FrameType
  OBVIOUS
<1> QED BY <1>1 DEF FrameType

\* Nothing in flight.
LEMMA EmptyWire ==
    ASSUME NEW p
    PROVE  /\ DataChain(<<>>, p) /\ DataEnd(<<>>, p) = p
           /\ AckChain(<<>>, p) /\ AckEnd(<<>>, p) = p
           /\ DataBelow(<<>>, p) /\ AckBelow(<<>>, p)
           /\ EndsAt(<<>>, p) /\ NoClose(<<>>)
BY DEF DataChain, DataEnd, AckChain, AckEnd, DataBelow, AckBelow, EndsAt, NoClose

\* The bounds may be raised.
LEMMA Raised ==
    ASSUME NEW W \in Seq(FrameType), NEW p \in Int, NEW r \in Int, p <= r
    PROVE  (DataBelow(W, p) => DataBelow(W, r)) /\ (AckBelow(W, p) => AckBelow(W, r))
BY FrameFields DEF DataBelow, AckBelow

\* A stream that nobody has closed may end anywhere.
LEMMA EndsAnywhere ==
    ASSUME NEW W \in Seq(FrameType), NoClose(W), NEW p
    PROVE  EndsAt(W, p)
BY DEF EndsAt, NoClose

\* The first frame is taken.
LEMMA TakenWire ==
    ASSUME NEW W \in Seq(FrameType), W # <<>>, NEW p \in Int
    PROVE  /\ DataChain(W, p) =>
                /\ Head(W).first = p
                /\ DataChain(Tail(W), p + Head(W).size)
                /\ DataEnd(Tail(W), p + Head(W).size) = DataEnd(W, p)
           /\ AckChain(W, p) =>
                /\ Head(W).upto = p + Head(W).ack
                /\ AckChain(Tail(W), p + Head(W).ack)
                /\ AckEnd(Tail(W), p + Head(W).ack) = AckEnd(W, p)
           /\ DataBelow(W, p) => /\ Head(W).first + Head(W).size <= p
                                 /\ DataBelow(Tail(W), p)
           /\ AckBelow(W, p) => Head(W).upto <= p /\ AckBelow(Tail(W), p)
           /\ EndsAt(W, p) => /\ Head(W).close => Head(W).first = p
                              /\ EndsAt(Tail(W), p)
           /\ NoClose(W) => ~Head(W).close /\ NoClose(Tail(W))
<1> DEFINE V == Tail(W)
<1>1. /\ V \in Seq(FrameType) /\ Len(V) = Len(W) - 1 /\ Len(W) \in Nat /\ Len(W) >= 1
      /\ Head(W) = W[1] /\ \A i \in 1 .. Len(V) : V[i] = W[i + 1]
      /\ (V = <<>> <=> Len(W) = 1)
  <2>1. /\ V \in Seq(FrameType) /\ Len(V) = Len(W) - 1
        /\ \A i \in 1 .. Len(V) : V[i] = W[i + 1]
    BY HeadTailProperties
  <2>2. Len(W) \in Nat /\ Len(W) >= 1 /\ Head(W) = W[1]
    OBVIOUS
  <2> HIDE DEF V
  <2>3. V = <<>> <=> Len(V) = 0
    BY <2>1
  <2> QED BY <2>1, <2>2, <2>3
<1>2. \A i \in 1 .. Len(W) : /\ W[i].ack \in Nat /\ W[i].upto \in Nat
                             /\ W[i].first \in Nat /\ W[i].size \in Nat
  BY FrameFields
<1> HIDE DEF V
<1>3. ASSUME DataChain(W, p)
      PROVE  /\ Head(W).first = p /\ DataChain(V, p + Head(W).size)
             /\ DataEnd(V, p + Head(W).size) = DataEnd(W, p)
  <2>1. W[1].first = p
    BY <1>1, <1>3 DEF DataChain
  <2>2. DataChain(V, p + W[1].size)
    <3> SUFFICES ASSUME NEW i \in 1 .. Len(V)
                 PROVE  V[i].first = IF i = 1 THEN p + W[1].size ELSE V[i-1].first + V[i-1].size
      BY DEF DataChain
    <3>1. i + 1 \in 1 .. Len(W) /\ i + 1 # 1 /\ V[i] = W[i + 1]
      BY <1>1
    <3>2. W[i + 1].first = W[(i + 1) - 1].first + W[(i + 1) - 1].size
      BY <1>3, <3>1 DEF DataChain
    <3>3. (i + 1) - 1 = i
      OBVIOUS
    <3>4. CASE i = 1
      BY <2>1, <3>1, <3>2, <3>3, <3>4
    <3>5. CASE i # 1
      <4>1. i - 1 \in 1 .. Len(V) /\ (i - 1) + 1 = i
        BY <3>5, <1>1
      <4>2. V[i - 1] = W[i]
        BY <4>1, <1>1
      <4> QED BY <3>1, <3>2, <3>3, <3>5, <4>2
    <3> QED BY <3>4, <3>5
  <2>3. DataEnd(V, p + W[1].size) = DataEnd(W, p)
    <3>1. CASE V = <<>>
      BY <1>1, <2>1, <3>1 DEF DataEnd
    <3>2. CASE V # <<>>
      <4>1. Len(V) \in 1 .. Len(V) /\ Len(V) + 1 = Len(W)
        BY <1>1, <3>2
      <4>2. V[Len(V)] = W[Len(W)]
        BY <1>1, <4>1
      <4> QED BY <3>2, <4>2 DEF DataEnd
    <3> QED BY <3>1, <3>2
  <2> QED BY <1>1, <2>1, <2>2, <2>3
<1>4. ASSUME AckChain(W, p)
      PROVE  /\ Head(W).upto = p + Head(W).ack /\ AckChain(V, p + Head(W).ack)
             /\ AckEnd(V, p + Head(W).ack) = AckEnd(W, p)
  <2>1. W[1].upto = p + W[1].ack
    BY <1>1, <1>4 DEF AckChain
  <2>2. AckChain(V, p + W[1].ack)
    <3> SUFFICES ASSUME NEW i \in 1 .. Len(V)
                 PROVE  V[i].upto = (IF i = 1 THEN p + W[1].ack ELSE V[i-1].upto) + V[i].ack
      BY DEF AckChain
    <3>1. i + 1 \in 1 .. Len(W) /\ i + 1 # 1 /\ V[i] = W[i + 1]
      BY <1>1
    <3>2. W[i + 1].upto = W[(i + 1) - 1].upto + W[i + 1].ack
      BY <1>4, <3>1 DEF AckChain
    <3>3. (i + 1) - 1 = i
      OBVIOUS
    <3>4. CASE i = 1
      BY <2>1, <3>1, <3>2, <3>3, <3>4
    <3>5. CASE i # 1
      <4>1. i - 1 \in 1 .. Len(V) /\ (i - 1) + 1 = i
        BY <3>5, <1>1
      <4>2. V[i - 1] = W[i]
        BY <4>1, <1>1
      <4> QED BY <3>1, <3>2, <3>3, <3>5, <4>2
    <3> QED BY <3>4, <3>5
  <2>3. AckEnd(V, p + W[1].ack) = AckEnd(W, p)
    <3>1. CASE V = <<>>
      BY <1>1, <2>1, <3>1 DEF AckEnd
    <3>2. CASE V # <<>>
      <4>1. Len(V) \in 1 .. Len(V) /\ Len(V) + 1 = Len(W)
        BY <1>1, <3>2
      <4>2. V[Len(V)] = W[Len(W)]
        BY <1>1, <4>1
      <4> QED BY <3>2, <4>2 DEF AckEnd
    <3> QED BY <3>1, <3>2
  <2> QED BY <1>1, <2>1, <2>2, <2>3
<1>5. 1 \in 1 .. Len(W) /\ \A i \in 1 .. Len(V) : i + 1 \in 1 .. Len(W)
  BY <1>1
<1>6. DataBelow(W, p) => Head(W).first + Head(W).size <= p /\ DataBelow(V, p)
  BY <1>1, <1>5 DEF DataBelow
<1>7. AckBelow(W, p) => Head(W).upto <= p /\ AckBelow(V, p)
  BY <1>1, <1>5 DEF AckBelow
<1>8. EndsAt(W, p) => (Head(W).close => Head(W).first = p) /\ EndsAt(V, p)
  BY <1>1, <1>5 DEF EndsAt
<1>9. NoClose(W) => ~Head(W).close /\ NoClose(V)
  BY <1>1, <1>5 DEF NoClose
<1> QED BY <1>3, <1>4, <1>6, <1>7, <1>8, <1>9 DEF V

\* A frame is sent.
LEMMA SentWire ==
    ASSUME NEW W \in Seq(FrameType), NEW f \in FrameType, NEW p \in Int
    PROVE  LET V == Append(W, f) IN
           /\ DataChain(W, p) /\ f.first = DataEnd(W, p) =>
                DataChain(V, p) /\ DataEnd(V, p) = f.first + f.size
           /\ AckChain(W, p) /\ f.upto = AckEnd(W, p) + f.ack =>
                AckChain(V, p) /\ AckEnd(V, p) = f.upto
           /\ DataBelow(W, p) /\ f.first + f.size <= p => DataBelow(V, p)
           /\ AckBelow(W, p) /\ f.upto <= p => AckBelow(V, p)
           /\ EndsAt(W, p) /\ (f.close => f.first = p) => EndsAt(V, p)
           /\ NoClose(W) /\ ~f.close => NoClose(V)
<1> DEFINE V == Append(W, f)
           n == Len(W)
<1>1. /\ V \in Seq(FrameType) /\ Len(V) = n + 1 /\ n \in Nat
      /\ V # <<>> /\ V[n + 1] = f /\ \A i \in 1 .. n : V[i] = W[i]
      /\ (W = <<>> <=> n = 0)
  OBVIOUS
<1>2. \A i \in 1 .. (n + 1) : i \in 1 .. n \/ i = n + 1
  BY <1>1
<1> HIDE DEF V, n
<1>3. ASSUME DataChain(W, p), f.first = DataEnd(W, p)
      PROVE  DataChain(V, p) /\ DataEnd(V, p) = f.first + f.size
  <2>1. ASSUME NEW i \in 1 .. (n + 1)
        PROVE  V[i].first = IF i = 1 THEN p ELSE V[i-1].first + V[i-1].size
    <3>1. CASE i \in 1 .. n
      <4>1. W[i].first = IF i = 1 THEN p ELSE W[i-1].first + W[i-1].size
        BY <1>3, <3>1 DEF DataChain, n
      <4>2. i # 1 => i - 1 \in 1 .. n
        BY <3>1, <1>1
      <4> QED BY <1>1, <3>1, <4>1, <4>2
    <3>2. CASE i = n + 1
      <4>1. CASE n = 0
        BY <1>1, <1>3, <3>2, <4>1 DEF DataEnd
      <4>2. CASE n # 0
        <5>1. n \in 1 .. n /\ i # 1 /\ i - 1 = n
          BY <1>1, <3>2, <4>2
        <5>2. f.first = W[n].first + W[n].size
          BY <1>1, <1>3, <4>2 DEF DataEnd, n
        <5> QED BY <1>1, <3>2, <5>1, <5>2
      <4> QED BY <4>1, <4>2
    <3> QED BY <1>2, <3>1, <3>2
  <2>2. DataChain(V, p)
    BY <1>1, <2>1 DEF DataChain
  <2> QED BY <1>1, <2>2 DEF DataEnd
<1>4. ASSUME AckChain(W, p), f.upto = AckEnd(W, p) + f.ack
      PROVE  AckChain(V, p) /\ AckEnd(V, p) = f.upto
  <2>1. ASSUME NEW i \in 1 .. (n + 1)
        PROVE  V[i].upto = (IF i = 1 THEN p ELSE V[i-1].upto) + V[i].ack
    <3>1. CASE i \in 1 .. n
      <4>1. W[i].upto = (IF i = 1 THEN p ELSE W[i-1].upto) + W[i].ack
        BY <1>4, <3>1 DEF AckChain, n
      <4>2. i # 1 => i - 1 \in 1 .. n
        BY <3>1, <1>1
      <4> QED BY <1>1, <3>1, <4>1, <4>2
    <3>2. CASE i = n + 1
      <4>1. CASE n = 0
        BY <1>1, <1>4, <3>2, <4>1 DEF AckEnd
      <4>2. CASE n # 0
        <5>1. n \in 1 .. n /\ i # 1 /\ i - 1 = n
          BY <1>1, <3>2, <4>2
        <5>2. f.upto = W[n].upto + f.ack
          BY <1>1, <1>4, <4>2 DEF AckEnd, n
        <5> QED BY <1>1, <3>2, <5>1, <5>2
      <4> QED BY <4>1, <4>2
    <3> QED BY <1>2, <3>1, <3>2
  <2>2. AckChain(V, p)
    BY <1>1, <2>1 DEF AckChain
  <2> QED BY <1>1, <2>2 DEF AckEnd
<1>5. DataBelow(W, p) /\ f.first + f.size <= p => DataBelow(V, p)
  BY <1>1, <1>2 DEF DataBelow, n
<1>6. AckBelow(W, p) /\ f.upto <= p => AckBelow(V, p)
  BY <1>1, <1>2 DEF AckBelow, n
<1>7. EndsAt(W, p) /\ (f.close => f.first = p) => EndsAt(V, p)
  BY <1>1, <1>2 DEF EndsAt, n
<1>8. NoClose(W) /\ ~f.close => NoClose(V)
  BY <1>1, <1>2 DEF NoClose, n
<1> QED BY <1>3, <1>4, <1>5, <1>6, <1>7, <1>8 DEF V

\* The last frame is lost.
LEMMA LostWire ==
    ASSUME NEW W \in Seq(FrameType), W # <<>>, NEW p \in Int
    PROVE  LET V == SubSeq(W, 1, Len(W) - 1) IN
           /\ DataChain(W, p) => DataChain(V, p)
           /\ AckChain(W, p) => AckChain(V, p)
           /\ DataBelow(W, p) => DataBelow(V, p)
           /\ AckBelow(W, p) => AckBelow(V, p)
           /\ EndsAt(W, p) => EndsAt(V, p)
           /\ NoClose(W) => NoClose(V)
<1> DEFINE V == SubSeq(W, 1, Len(W) - 1)
<1>1. /\ V \in Seq(FrameType) /\ Len(V) = Len(W) - 1 /\ Len(W) \in Nat
      /\ \A i \in 1 .. Len(V) : V[i] = W[i]
  <2>1. Len(W) \in Nat /\ Len(W) >= 1 /\ \A i \in 1 .. (Len(W) - 1) : W[i] \in FrameType
    OBVIOUS
  <2>2. /\ V \in Seq(FrameType)
        /\ Len(V) = IF 1 <= Len(W) - 1 THEN (Len(W) - 1) - 1 + 1 ELSE 0
        /\ \A i \in 1 .. ((Len(W) - 1) - 1 + 1) : V[i] = W[1 + i - 1]
    BY <2>1, SubSeqProperties
  <2>3. Len(V) = Len(W) - 1
    <3>1. ASSUME NEW k \in Nat, NEW l, k >= 1, l = IF 1 <= k - 1 THEN (k - 1) - 1 + 1 ELSE 0
          PROVE  l = k - 1
      BY <3>1
    <3> HIDE DEF V
    <3> QED BY <2>1, <2>2, <3>1, Zenon
  <2> HIDE DEF V
  <2>4. \A i \in 1 .. Len(V) : i \in 1 .. ((Len(W) - 1) - 1 + 1) /\ 1 + i - 1 = i
    BY <2>1, <2>3
  <2> QED BY <2>1, <2>2, <2>3, <2>4
<1>2. /\ \A i \in 1 .. Len(V) : i \in 1 .. Len(W)
      /\ \A i \in 1 .. Len(V) : i # 1 => i - 1 \in 1 .. Len(V)
  BY <1>1
<1> HIDE DEF V
<1>3. DataChain(W, p) => DataChain(V, p)
  BY <1>1, <1>2 DEF DataChain
<1>4. AckChain(W, p) => AckChain(V, p)
  BY <1>1, <1>2 DEF AckChain
<1>5. DataBelow(W, p) => DataBelow(V, p)
  BY <1>1, <1>2 DEF DataBelow
<1>6. AckBelow(W, p) => AckBelow(V, p)
  BY <1>1, <1>2 DEF AckBelow
<1>7. EndsAt(W, p) => EndsAt(V, p)
  BY <1>1, <1>2 DEF EndsAt
<1>8. NoClose(W) => NoClose(V)
  BY <1>1, <1>2 DEF NoClose
<1> QED BY <1>3, <1>4, <1>5, <1>6, <1>7, <1>8 DEF V

-----------------------------------------------------------------------------
(***************************************************************************)
(* What a step may do without disturbing the links of a transport.         *)
(***************************************************************************)

\* What the types say of one run, before and after a step.
LEMMA RunTypes ==
    ASSUME TInv, NEW s \in Sides, NEW u \in Transports
    PROVE  /\ phase[s][u] \in PhaseNames /\ reader[s][u] \in ReaderNames
           /\ writer[s][u] \in WriterNames
           /\ label[s][u] \in Nat /\ remainingSize[s][u] \in Nat /\ tail[s][u] \in Nat
           /\ localPosition[s][u] \in Nat /\ peerPosition[s][u] \in Nat
           /\ hello[s][u] \in Nat \cup {NoPosition}
           /\ wire[s][u] \in Seq(FrameType)
           /\ sendBuffer[s].start \in Nat /\ sendBuffer[s].end \in Nat
           /\ sendBuffer[s].start <= sendBuffer[s].end
           /\ receiveBuffer[s].start \in Nat /\ receiveBuffer[s].end \in Nat
           /\ Expect(s, u) \in Nat
           /\ (phase[s][u] # "loops" \/ reader[s][u] \in {"frame", "exit"} =>
                 remainingSize[s][u] = 0)
           /\ (phase[s][u] = "loops" <=> writer[s][u] # "off")
           /\ (phase[s][u] = "loops" <=> reader[s][u] # "off")
<1>1. RunsOK /\ NetOK /\ BuffersOK /\ RunShapeAt(s, u)
  BY DEF TInv, TypeOK, RunShape
<1>2. (phase[s][u] # "loops" \/ reader[s][u] \in {"frame", "exit"}) => remainingSize[s][u] = 0
  BY <1>1 DEF RunShapeAt
<1> QED BY <1>1, <1>2, EntryFacts, BufferFacts DEF Expect, RunShapeAt

LEMMA RunTypesNext ==
    ASSUME TInv', NEW s \in Sides, NEW u \in Transports
    PROVE  /\ phase'[s][u] \in PhaseNames /\ reader'[s][u] \in ReaderNames
           /\ writer'[s][u] \in WriterNames
           /\ remainingSize'[s][u] \in Nat
           /\ sendBuffer'[s].start \in Nat /\ sendBuffer'[s].end \in Nat
           /\ receiveBuffer'[s].start \in Nat /\ receiveBuffer'[s].end \in Nat
           /\ Expect(s, u)' \in Nat
           /\ (phase'[s][u] # "loops" \/ reader'[s][u] \in {"frame", "exit"} =>
                 remainingSize'[s][u] = 0)
           /\ (phase'[s][u] = "loops" <=> writer'[s][u] # "off")
           /\ (phase'[s][u] = "loops" <=> reader'[s][u] # "off")
<1>1. RunsOK' /\ BuffersOK' /\ RunShapeAt(s, u)'
  BY DEF TInv, TypeOK, RunShape
<1>2. (phase'[s][u] # "loops" \/ reader'[s][u] \in {"frame", "exit"}) => remainingSize'[s][u] = 0
  BY <1>1 DEF RunShapeAt
<1>3. /\ phase'[s][u] \in PhaseNames /\ reader'[s][u] \in ReaderNames
      /\ writer'[s][u] \in WriterNames /\ remainingSize'[s][u] \in Nat
  BY <1>1 DEF RunsOK, PerRunOf
<1>4. /\ sendBuffer'[s].start \in Nat /\ sendBuffer'[s].end \in Nat
      /\ receiveBuffer'[s].start \in Nat /\ receiveBuffer'[s].end \in Nat
  BY <1>1 DEF BuffersOK, SendType, IsReceive
<1> QED BY <1>1, <1>2, <1>3, <1>4 DEF Expect, RunShapeAt

\* The buffers only move on, and nothing is written after Close.
Onward ==
    \A z \in Sides :
      /\ sendBuffer[z].start <= sendBuffer'[z].start
      /\ sendBuffer[z].end <= sendBuffer'[z].end
      /\ receiveBuffer[z].end <= receiveBuffer'[z].end
      /\ localClosed[z] => localClosed'[z] /\ sendBuffer'[z].end = sendBuffer[z].end

\* On u nothing is sent, taken off the wire, started or ended.  Transports may fail and
\* loops may stop; a run may go on with the frame it is reading.
Quiet(u) ==
    /\ cut[u] => cut'[u]
    /\ \A z \in Sides :
         /\ phase'[z][u] = phase[z][u] /\ hello'[z][u] = hello[z][u]
         /\ wire'[z][u] = wire[z][u]
         /\ localPosition'[z][u] = localPosition[z][u]
         /\ peerPosition'[z][u] = peerPosition[z][u]
         /\ open'[z][u] => open[z][u]
         /\ writer'[z][u] = "run" => writer[z][u] = "run"
         /\ remainingSize'[z][u] > 0 => label'[z][u] = receiveBuffer'[z].end
         /\ Engaged(z, u) =>
              /\ sendBuffer'[z].start = sendBuffer[z].start
              /\ remainingSize[z][u] = 0 =>
                   receiveBuffer'[z].end = receiveBuffer[z].end /\ remainingSize'[z][u] = 0
              /\ Expect(z, u)' <= Expect(z, u)
              /\ Awaiting(z, u)' => Awaiting(z, u) /\ Expect(z, u)' = Expect(z, u)

\* A run that is not engaged has nothing on the wire that it could take.
LEMMA Disengaged ==
    ASSUME IInv, NEW s \in Sides, NEW u \in Transports, ~Engaged(s, u), phase[s][u] # "done"
    PROVE  /\ u # First /\ Unsaid(s, u)
           /\ hello[Peer(s)][u] = NoPosition
           /\ wire[s][u] = <<>> /\ wire[Peer(s)][u] = <<>>
           /\ phase[Peer(s)][u] # "loops" /\ remainingSize[s][u] = 0
<1>1. phase[s][u] \in PhaseNames /\ LinkAt(s, u)
  BY RunTypes DEF IInv, Links
<1>2. u # First /\ Unsaid(s, u)
  BY <1>1 DEF LinkAt, PhasesAt, PhaseNames, Engaged, Active, Unsaid
<1>3. phase[s][u] # "loops"
  BY <1>2 DEF Unsaid
<1> QED BY <1>1, <1>2, <1>3, RunTypes DEF IInv, LinkAt, OrderAt

\* Such a step keeps the links of u.
LEMMA QuietLinks ==
    ASSUME IInv, TInv', ReplayCovers', Onward,
           NEW u \in Transports, Quiet(u), NEW s \in Sides
    PROVE  LinkAt(s, u)'
<1> DEFINE q == Peer(s)
<1>0. q \in Sides /\ Peer(q) = s
  BY PeerFacts
<1>1. LinkAt(s, u) /\ LinkAt(q, u) /\ TInv
  BY <1>0 DEF IInv, Links
<1>2. /\ sendBuffer'[s].start <= receiveBuffer'[q].end
      /\ receiveBuffer'[s].end <= sendBuffer'[q].end
  BY <1>0 DEF ReplayCovers
<1> HIDE DEF q
<1>3. PlacesAt(s, u)'
  BY <1>1, RunTypes DEF Quiet, LinkAt, PlacesAt, Engaged, Active
<1>4. PhasesAt(s, u)'
  BY <1>1 DEF Quiet, LinkAt, PhasesAt
<1>5. OrderAt(s, u)'
  BY <1>0, <1>1 DEF Quiet, LinkAt, OrderAt, Unsaid, q
<1>6. HelloAt(s, u)'
  BY <1>0, <1>1, RunTypes, RunTypesNext DEF Quiet, Onward, LinkAt, HelloAt, Engaged, Active, q
<1>d. DataAt(s, u) /\ AckAt(s, u)
  BY <1>1 DEF LinkAt
<1>s. /\ phase'[s][u] = phase[s][u] /\ phase'[q][u] = phase[q][u]
      /\ wire'[s][u] = wire[s][u] /\ wire'[q][u] = wire[q][u]
      /\ hello'[q][u] = hello[q][u]
      /\ peerPosition'[q][u] = peerPosition[q][u]
      /\ localPosition'[s][u] = localPosition[s][u]
  BY <1>0 DEF Quiet
<1>w. /\ ~cut'[u] => ~cut[u]
      /\ \A z \in Sides : /\ open'[z][u] => open[z][u]
                          /\ writer'[z][u] = "run" => writer[z][u] = "run"
  BY DEF Quiet
<1>7. DataAt(s, u)'
  <2> DEFINE W == wire[s][u]
  <2>1. W \in Seq(FrameType)
    BY <1>1, RunTypes
  <2>2. Engaged(s, u) => /\ Expect(s, u)' <= Expect(s, u)
                         /\ Awaiting(s, u)' => Awaiting(s, u) /\ Expect(s, u)' = Expect(s, u)
    BY DEF Quiet
  <2>3. Engaged(s, u)' <=> Engaged(s, u)
    BY <1>s DEF Engaged, Active
  <2>4. ~Engaged(s, u) /\ Awaiting(s, u)' => W = <<>> /\ phase[q][u] # "loops"
    BY <1>s, Disengaged DEF Awaiting, q
  <2>5. Awaiting(s, u)' => DataChain(W, Expect(s, u)')
    BY <1>d, <2>2, <2>4, EmptyWire DEF DataAt
  <2>6. /\ sendBuffer[q].end \in Nat /\ sendBuffer'[q].end \in Nat
        /\ sendBuffer[q].end <= sendBuffer'[q].end
        /\ ~localClosed'[q] => ~localClosed[q]
        /\ sendBuffer'[q].end # sendBuffer[q].end => ~localClosed[q]
    BY <1>0, <1>1, RunTypes, RunTypesNext DEF Onward
  <2>7. DataBelow(W, sendBuffer'[q].end)
    BY <1>d, <2>1, <2>6, Raised DEF DataAt, q
  <2>8. Expect(s, u)' <= sendBuffer'[q].end
    <3>1. CASE Engaged(s, u)
      <4>1. Expect(s, u) \in Nat /\ Expect(s, u)' \in Nat
        BY <1>1, RunTypes, RunTypesNext
      <4>2. Expect(s, u) <= sendBuffer[q].end
        BY <1>d DEF DataAt, q
      <4> QED BY <2>2, <2>6, <3>1, <4>1, <4>2
    <3>2. CASE ~Engaged(s, u)
      <4>1. remainingSize'[s][u] = 0 /\ receiveBuffer'[s].end \in Nat
        BY <1>s, <3>2, RunTypesNext DEF Engaged, Active
      <4> QED BY <1>2, <4>1 DEF Expect
    <3> QED BY <3>1, <3>2
  <2>9. ASSUME phase[q][u] = "loops", Awaiting(s, u)', writer'[q][u] = "run", ~cut'[u],
               open'[s][u]
        PROVE  peerPosition[q][u] = DataEnd(W, Expect(s, u)')
    BY <1>0, <1>d, <1>w, <2>2, <2>4, <2>9 DEF DataAt, q
  <2>10. ASSUME phase[q][u] = "loops", Engaged(s, u)
         PROVE  Expect(s, u)' <= peerPosition[q][u]
    <3>1. /\ Expect(s, u) \in Nat /\ Expect(s, u)' \in Nat /\ peerPosition[q][u] \in Nat
      BY <1>0, <1>1, RunTypes, RunTypesNext
    <3>2. Expect(s, u) <= peerPosition[q][u]
      BY <1>d, <2>10 DEF DataAt, q
    <3> QED BY <2>2, <2>10, <3>1, <3>2
  <2>11. phase[q][u] = "loops" => DataBelow(W, peerPosition[q][u])
    BY <1>d DEF DataAt, q
  <2>12. (~localClosed'[q] => NoClose(W)) /\ EndsAt(W, sendBuffer'[q].end)
    BY <1>d, <2>1, <2>6, EndsAnywhere DEF DataAt, q
  <2> HIDE DEF W
  <2>13. wire'[s][u] = W
    BY <1>s DEF W
  <2> QED BY <1>s, <2>3, <2>5, <2>7, <2>8, <2>9, <2>10, <2>11, <2>12, <2>13 DEF DataAt, q
<1>8. AckAt(s, u)'
  <2> DEFINE W == wire[q][u]
  <2>1. W \in Seq(FrameType)
    BY <1>0, <1>1, RunTypes
  <2>2. ASSUME Awaiting(q, u)'
        PROVE  /\ AckChain(W, AckBase(q, u)')
               /\ /\ phase[s][u] = "greeted" \/ writer'[s][u] = "run"
                  /\ ~cut'[u] /\ open'[q][u]
                  => localPosition[s][u] = AckEnd(W, AckBase(q, u)')
    <3>1. CASE Engaged(q, u)
      <4>1. AckBase(q, u)' = AckBase(q, u) /\ Awaiting(q, u)
        BY <1>0, <1>s, <2>2, <3>1 DEF Quiet, AckBase
      <4> QED BY <1>0, <1>d, <1>w, <4>1 DEF AckAt, q
    <3>2. CASE ~Engaged(q, u)
      <4>1. phase[q][u] # "done"
        BY <1>s, <2>2 DEF Awaiting
      <4>2. /\ u # First /\ Unsaid(q, u) /\ W = <<>> /\ phase[s][u] # "loops"
        BY <1>0, <3>2, <4>1, Disengaged
      <4>3. writer'[s][u] # "run"
        BY <1>1, <1>w, <4>2, RunTypes
      <4>4. phase[s][u] = "greeted" /\ ~cut[u] /\ open[q][u] => hello[q][u] # NoPosition
        BY <1>0, <1>1, <4>1, <4>2 DEF LinkAt, HelloAt, Unsaid, q
      <4>5. phase[s][u] = "greeted" /\ ~cut[u] /\ open[q][u] =>
              localPosition[s][u] = hello[q][u]
        BY <1>0, <1>1, <4>4 DEF LinkAt, HelloAt, PlacesAt, Active, q
      <4>6. hello[q][u] # NoPosition => AckBase(q, u)' = hello[q][u]
        BY <1>s DEF AckBase
      <4> QED BY <1>0, <1>w, <4>2, <4>3, <4>4, <4>5, <4>6, EmptyWire
    <3> QED BY <3>1, <3>2
  <2>4. receiveBuffer[s].end \in Nat /\ receiveBuffer'[s].end \in Nat
        /\ receiveBuffer[s].end <= receiveBuffer'[s].end
    BY <1>1, RunTypes, RunTypesNext DEF Onward
  <2>5. AckBelow(W, receiveBuffer'[s].end)
    BY <1>d, <2>1, <2>4, Raised DEF AckAt, q
  <2>6. /\ phase[q][u] = "loops" => AckBelow(W, peerPosition[q][u])
        /\ hello[q][u] # NoPosition => AckBelow(W, hello[q][u])
    BY <1>d DEF AckAt, q
  <2> HIDE DEF W
  <2>7. wire'[q][u] = W
    BY <1>s DEF W
  <2> QED BY <1>s, <2>2, <2>5, <2>6, <2>7 DEF AckAt, q
<1>9. HeldAt(s, u)'
  BY <1>1, RunTypes, RunTypesNext DEF Quiet, Onward, LinkAt, HeldAt, Compatible, Engaged, Active
<1> QED BY <1>3, <1>4, <1>5, <1>6, <1>7, <1>8, <1>9 DEF LinkAt

\* A step keeps the invariant if it keeps the streams, and every transport is quiet.
LEMMA QuietStep ==
    ASSUME IInv, TInv', StreamIntact', ReplayCovers', Fresh', Onward,
           \A u \in Transports : Quiet(u)
    PROVE  IInv'
<1>1. Links'
  BY QuietLinks DEF Links
<1> QED BY <1>1 DEF IInv

\* u is left as it is.
Untouched(u) ==
    /\ cut'[u] = cut[u]
    /\ \A z \in Sides :
         /\ phase'[z][u] = phase[z][u] /\ hello'[z][u] = hello[z][u]
         /\ wire'[z][u] = wire[z][u] /\ open'[z][u] = open[z][u]
         /\ reader'[z][u] = reader[z][u] /\ writer'[z][u] = writer[z][u]
         /\ label'[z][u] = label[z][u] /\ remainingSize'[z][u] = remainingSize[z][u]
         /\ localPosition'[z][u] = localPosition[z][u]
         /\ peerPosition'[z][u] = peerPosition[z][u]

\* Whoever is engaged on u has not moved the start of its replay buffer or the end of its
\* receive buffer.
Still(u) ==
    \A z \in Sides : Engaged(z, u) => /\ sendBuffer'[z].start = sendBuffer[z].start
                                      /\ receiveBuffer'[z].end = receiveBuffer[z].end

LEMMA UntouchedQuiet ==
    ASSUME IInv, NEW u \in Transports, Untouched(u), Still(u)
    PROVE  Quiet(u)
<1> SUFFICES ASSUME NEW z \in Sides
             PROVE  /\ remainingSize'[z][u] > 0 => label'[z][u] = receiveBuffer'[z].end
                    /\ Engaged(z, u) =>
                         /\ sendBuffer'[z].start = sendBuffer[z].start
                         /\ remainingSize[z][u] = 0 =>
                              /\ receiveBuffer'[z].end = receiveBuffer[z].end
                              /\ remainingSize'[z][u] = 0
                         /\ Expect(z, u)' <= Expect(z, u)
                         /\ Awaiting(z, u)' =>
                              Awaiting(z, u) /\ Expect(z, u)' = Expect(z, u)
  BY DEF Untouched, Quiet
<1>1. PlacesAt(z, u) /\ TInv
  BY DEF IInv, Links, LinkAt
<1>2. remainingSize[z][u] > 0 => Engaged(z, u)
  BY <1>1, RunTypes DEF Engaged, Active
<1>3. remainingSize[z][u] \in Nat /\ receiveBuffer[z].end \in Nat
  BY <1>1, RunTypes
<1> QED BY <1>1, <1>2, <1>3 DEF Untouched, Still, PlacesAt, Expect, Awaiting

\* While s runs on t, it is engaged on no other transport.
LEMMA RunsAlone ==
    ASSUME TInv, NEW s \in Sides, NEW t \in Transports, Active(s, t),
           NEW u \in Transports, u # t
    PROVE  ~Engaged(s, u)
<1>1. attached[s] = t /\ phase[s][First] # "idle"
  BY ConstAssumption DEF TInv, SingleRun, RunShape, RunShapeAt, Active
<1>2. ~Active(s, u)
  BY <1>1 DEF TInv, SingleRun
<1> QED BY <1>1, <1>2 DEF Engaged

\* What changes no buffer keeps what is said of the streams.
LEMMA SameStreams ==
    ASSUME IInv, UNCHANGED <<buffers, history>>,
           \A z \in Sides : localClosed[z] => localClosed'[z],
           \A z \in Sides : phase'[z][First] = "idle" => phase[z][First] = "idle"
    PROVE  StreamIntact' /\ ReplayCovers' /\ Fresh' /\ Onward
<1>1. StreamIntact'
  BY DEF IInv, StreamIntact, buffers, history
<1>2. ReplayCovers'
  BY DEF IInv, ReplayCovers, buffers
<1>3. Fresh'
  BY DEF IInv, Fresh, Unused, buffers, history
<1>4. Onward
  BY ConstAssumption, RunTypes DEF IInv, Onward, buffers
<1> QED BY <1>1, <1>2, <1>3, <1>4

\* A step on t keeps the invariant if it keeps the streams and the links of t, leaves the
\* other transports as they are, and moves only the buffers of who is not engaged there.
LEMMA LinkStep ==
    ASSUME IInv, TInv', StreamIntact', ReplayCovers', Fresh', Onward,
           NEW t \in Transports,
           \A u \in Transports : u # t => Untouched(u) /\ Still(u),
           \A z \in Sides : LinkAt(z, t)'
    PROVE  IInv'
<1>1. \A u \in Transports : u # t => Quiet(u)
  BY UntouchedQuiet
<1>2. Links'
  BY <1>1, QuietLinks DEF Links
<1> QED BY <1>2 DEF IInv

-----------------------------------------------------------------------------
(***************************************************************************)
(* The application, and steps that are quiet on every transport.           *)
(***************************************************************************)

\* Write: the peer has received at most what was written before.
LEMMA WriteSafe ==
    ASSUME IInv, TInv', NEW s \in Sides, Write(s)
    PROVE  IInv'
<1>1. PICK n \in 1 .. (sendBufferSize - len(sendBuffer[s])) :
        /\ sendBuffer' = [sendBuffer EXCEPT ![s] = extend(@, n)]
        /\ written' = [written EXCEPT ![s] = @ + n]
  BY DEF Write
<1>2. TypeOK /\ TInv /\ n \in Nat
  BY <1>1, BufferFacts DEF IInv, TInv, TypeOK, len
<1>3. /\ sendBuffer'[s].start = sendBuffer[s].start
      /\ sendBuffer'[s].end = sendBuffer[s].end + n
      /\ written'[s] = written[s] + n
      /\ \A z \in Sides : z # s => sendBuffer'[z] = sendBuffer[z] /\ written'[z] = written[z]
  BY <1>1, <1>2 DEF TypeOK, BuffersOK, HistoryOK, extend
<1>4. /\ UNCHANGED <<receiveBuffer, localClosed, delivered>>
      /\ UNCHANGED <<phase, reader, label, remainingSize, writer, localPosition, peerPosition>>
      /\ UNCHANGED <<hello, wire, open, cut>>
  BY DEF Write, closes, runs, reading, positions, net
<1>5. ~localClosed[s] /\ phase[s][First] # "idle"
  BY DEF Write, Created
<1>6. \A z \in Sides : /\ sendBuffer[z].start \in Nat /\ sendBuffer[z].end \in Nat
                       /\ receiveBuffer[z].end \in Nat /\ written[z] \in Nat
  BY <1>2, BufferFacts DEF TypeOK, HistoryOK
<1>7. StreamIntact'
  <2>1. \A z \in Sides : written[z] <= written'[z] /\ written'[z] \in Nat
    BY <1>2, <1>3, <1>6
  <2>2. StreamIntact /\ \A z \in Sides : Peer(z) \in Sides
    BY PeerFacts DEF IInv
  <2>3. \A z \in Sides : receiveBuffer[z].end <= written'[Peer(z)]
    BY <1>6, <2>1, <2>2 DEF StreamIntact
  <2> QED BY <1>4, <2>2, <2>3 DEF StreamIntact
<1>8. ReplayCovers'
  BY <1>2, <1>3, <1>4, <1>6, PeerFacts DEF IInv, ReplayCovers
<1>9. Fresh'
  BY <1>3, <1>4, <1>5 DEF IInv, Fresh, Unused
<1>10. Onward
  BY <1>2, <1>3, <1>4, <1>5, <1>6 DEF Onward
<1>11. \A u \in Transports : Untouched(u) /\ Still(u)
  BY <1>3, <1>4 DEF Untouched, Still
<1> QED BY <1>7, <1>8, <1>9, <1>10, <1>11, UntouchedQuiet, QuietStep

\* Close: nothing moves.
LEMMA CloseSafe ==
    ASSUME IInv, TInv', NEW s \in Sides, Close(s)
    PROVE  IInv'
<1>1. /\ UNCHANGED <<buffers, history>>
      /\ UNCHANGED <<phase, reader, label, remainingSize, writer, localPosition, peerPosition>>
      /\ UNCHANGED <<hello, wire, open, cut, sendBuffer, receiveBuffer>>
  BY DEF Close, runs, reading, positions, net, buffers
<1>2. \A z \in Sides : localClosed[z] => localClosed'[z]
  BY DEF Close, IInv, TInv, TypeOK, ConnsOK
<1>3. \A u \in Transports : Untouched(u) /\ Still(u)
  BY <1>1 DEF Untouched, Still
<1> QED BY <1>1, <1>2, <1>3, SameStreams, UntouchedQuiet, QuietStep

\* n more bytes with the labels from a on are handed to who has had a bytes.
LEMMA HandedOver ==
    ASSUME NEW d \in Seq(Nat), NEW f, NEW n \in Nat, NEW a \in Nat, a = Len(d),
           \A i \in 1 .. Len(d) : d[i] = i - 1,
           \A p \in a .. (a + n - 1) : f[p] = p
    PROVE  LET e == [i \in 1 .. n |-> f[a + i - 1]]
           IN  /\ Len(d \o e) = Len(d) + n
               /\ \A i \in 1 .. Len(d \o e) : (d \o e)[i] = i - 1
<1> DEFINE e == [i \in 1 .. n |-> f[a + i - 1]]
<1>1. \A i \in 1 .. n : a + i - 1 \in a .. (a + n - 1) /\ a + i - 1 \in Nat
  OBVIOUS
<1>2. \A i \in 1 .. n : f[a + i - 1] = a + i - 1
  BY <1>1
<1>3. e = [i \in 1 .. n |-> a + i - 1]
  BY <1>2, Zenon
<1> HIDE DEF e
<1>4. e \in Seq(Nat) /\ Len(e) = n
  <2>1. e \in [1 .. n -> Nat]
    BY <1>1, <1>3
  <2> QED BY <1>3, <2>1
<1>5. /\ Len(d \o e) = a + n
      /\ \A i \in 1 .. a : (d \o e)[i] = d[i]
      /\ \A i \in 1 .. n : (d \o e)[a + i] = e[i]
  <2>1. /\ Len(d \o e) = Len(d) + Len(e)
        /\ \A i \in 1 .. (Len(d) + Len(e)) :
             (d \o e)[i] = IF i <= Len(d) THEN d[i] ELSE e[i - Len(d)]
    BY <1>4, ConcatProperties
  <2>2. \A i \in 1 .. n : ~(a + i <= a) /\ (a + i) - a = i /\ a + i \in 1 .. (a + n)
    OBVIOUS
  <2>3. \A i \in 1 .. a : i <= a /\ i \in 1 .. (a + n)
    OBVIOUS
  <2> QED BY <1>4, <2>1, <2>2, <2>3
<1>6. ASSUME NEW i \in 1 .. (a + n) PROVE (d \o e)[i] = i - 1
  <2>1. CASE i <= a
    BY <1>5, <2>1
  <2>2. CASE i > a
    <3>1. i - a \in 1 .. n /\ a + (i - a) = i
      BY <2>2
    <3>2. (d \o e)[i] = e[i - a]
      BY <1>5, <3>1, Zenon
    <3>3. e[i - a] = a + (i - a) - 1
      BY <1>3, <3>1, Zenon
    <3>4. a + (i - a) - 1 = i - 1
      OBVIOUS
    <3> QED BY <3>2, <3>3, <3>4, Zenon
  <2>3. i <= a \/ i > a
    OBVIOUS
  <2> QED BY <2>1, <2>2, <2>3, Zenon
<1> QED BY <1>5, <1>6, Zenon DEF e

\* Read: what is handed to the application carries the next labels.
LEMMA ReadSafe ==
    ASSUME IInv, TInv', NEW s \in Sides, Read(s)
    PROVE  IInv'
<1> DEFINE b == receiveBuffer[s]
<1>1. PICK n \in 1 .. len(b) :
        /\ delivered' = [delivered EXCEPT ![s] = @ \o [i \in 1..n |-> b.data[b.start + i - 1]]]
        /\ receiveBuffer' = [receiveBuffer EXCEPT ![s] = take(b, n)]
  BY DEF Read
<1>2. /\ TypeOK /\ TInv /\ StreamIntact /\ IsReceive(b)
      /\ b.start \in Nat /\ b.end \in Nat
  BY BufferFacts DEF IInv, TInv, TypeOK, BuffersOK
<1>3. n \in Nat /\ n <= len(b) /\ b.start + n <= b.end
  BY <1>1, <1>2 DEF len
<1>4. /\ UNCHANGED <<sendBuffer, localClosed, written>>
      /\ UNCHANGED <<phase, reader, label, remainingSize, writer, localPosition, peerPosition>>
      /\ UNCHANGED <<hello, wire, open, cut>>
  BY DEF Read, closes, runs, reading, positions, net
<1>5. /\ receiveBuffer'[s].start = b.start + n /\ receiveBuffer'[s].end = b.end
      /\ receiveBuffer'[s].data = [p \in (b.start + n) .. (b.end - 1) |-> b.data[p]]
      /\ \A z \in Sides : z # s => receiveBuffer'[z] = receiveBuffer[z]
  BY <1>1, <1>2 DEF TypeOK, BuffersOK, take
<1>6. /\ delivered'[s] = delivered[s] \o [i \in 1..n |-> b.data[b.start + i - 1]]
      /\ \A z \in Sides : z # s => delivered'[z] = delivered[z]
      /\ delivered[s] \in Seq(Nat)
  BY <1>1, <1>2 DEF TypeOK, HistoryOK
<1>7. ~localClosed[s]
  BY DEF Read
<1>8. /\ b.start = Len(delivered[s])
      /\ \A i \in 1 .. Len(delivered[s]) : delivered[s][i] = i - 1
      /\ \A p \in b.start .. (b.end - 1) : b.data[p] = p
  BY <1>2, <1>7 DEF StreamIntact, IsReceive
<1>9. /\ Len(delivered'[s]) = Len(delivered[s]) + n
      /\ \A i \in 1 .. Len(delivered'[s]) : delivered'[s][i] = i - 1
  <2>1. \A p \in b.start .. (b.start + n - 1) : b.data[p] = p
    BY <1>2, <1>3, <1>8
  <2> DEFINE d == delivered[s]
             a == b.start
             f == b.data
  <2>2. /\ d \in Seq(Nat) /\ n \in Nat /\ a \in Nat /\ a = Len(d)
        /\ \A i \in 1 .. Len(d) : d[i] = i - 1
        /\ \A p \in a .. (a + n - 1) : f[p] = p
    BY <1>2, <1>3, <1>6, <1>8, <2>1
  <2>3. delivered'[s] = d \o [i \in 1 .. n |-> f[a + i - 1]]
    BY <1>6
  <2> HIDE DEF d, a, f
  <2>4. LET e == [i \in 1 .. n |-> f[a + i - 1]]
        IN  /\ Len(d \o e) = Len(d) + n
            /\ \A i \in 1 .. Len(d \o e) : (d \o e)[i] = i - 1
    BY <2>2, HandedOver
  <2> QED BY <2>3, <2>4, Zenon DEF d
<1>10. StreamIntact'
  <2> SUFFICES ASSUME NEW z \in Sides
               PROVE  /\ \A i \in 1 .. Len(delivered'[z]) : delivered'[z][i] = i - 1
                      /\ \A p \in DOMAIN receiveBuffer'[z].data : receiveBuffer'[z].data[p] = p
                      /\ ~localClosed'[z] => receiveBuffer'[z].start = Len(delivered'[z])
                      /\ receiveBuffer'[z].end <= written'[Peer(z)]
    BY DEF StreamIntact
  <2>1. CASE z = s
    <3>1. \A p \in DOMAIN receiveBuffer'[s].data : receiveBuffer'[s].data[p] = p
      <4> DEFINE S == (b.start + n) .. (b.end - 1)
      <4>1. \A p \in S : b.data[p] = p
        BY <1>2, <1>3, <1>8
      <4>2. receiveBuffer'[s].data = [p \in S |-> b.data[p]]
        BY <1>5
      <4> HIDE DEF S, b
      <4> QED BY <4>1, <4>2, Zenon
    <3>2. receiveBuffer'[s].start = Len(delivered'[s])
      BY <1>5, <1>8, <1>9
    <3>3. receiveBuffer'[s].end <= written'[Peer(s)]
      BY <1>2, <1>4, <1>5 DEF StreamIntact
    <3> QED BY <1>9, <2>1, <3>1, <3>2, <3>3
  <2>2. CASE z # s
    <3>1. receiveBuffer'[z] = receiveBuffer[z] /\ delivered'[z] = delivered[z]
      BY <1>5, <1>6, <2>2
    <3> QED BY <1>2, <1>4, <3>1, Zenon DEF StreamIntact
  <2> QED BY <2>1, <2>2
<1>11. \A z \in Sides : receiveBuffer'[z].end = receiveBuffer[z].end
  BY <1>5
<1>12. ReplayCovers' /\ Fresh'
  BY <1>4, <1>11, PeerFacts DEF IInv, ReplayCovers, Fresh, Unused
<1>13. Onward
  BY <1>2, <1>4, <1>11, BufferFacts DEF Onward, TypeOK
<1>14. \A u \in Transports : Untouched(u) /\ Still(u)
  BY <1>4, <1>11 DEF Untouched, Still
<1> QED BY <1>10, <1>12, <1>13, <1>14, UntouchedQuiet, QuietStep

\* Loops stop, transports fail, and no buffer moves.
LEMMA StopStep ==
    ASSUME IInv, TInv', UNCHANGED <<buffers, history, localClosed, phase, hello, wire>>,
           UNCHANGED <<localPosition, peerPosition>>,
           \A u \in Transports : cut[u] => cut'[u],
           \A z \in Sides, u \in Transports :
             /\ open'[z][u] => open[z][u]
             /\ writer'[z][u] = "run" => writer[z][u] = "run"
             /\ \/ /\ remainingSize'[z][u] = remainingSize[z][u]
                   /\ label'[z][u] = label[z][u]
                   /\ reader'[z][u] # "exit" => reader[z][u] # "exit"
                \/ reader'[z][u] = "exit" /\ remainingSize'[z][u] = 0
    PROVE  IInv'
<1>1. UNCHANGED <<sendBuffer, receiveBuffer>>
  BY DEF buffers
<1>2. ASSUME NEW u \in Transports PROVE Quiet(u)
  <2> SUFFICES ASSUME NEW z \in Sides
               PROVE  /\ remainingSize'[z][u] > 0 => label'[z][u] = receiveBuffer'[z].end
                      /\ remainingSize[z][u] = 0 => remainingSize'[z][u] = 0
                      /\ Expect(z, u)' <= Expect(z, u)
                      /\ Awaiting(z, u)' =>
                           Awaiting(z, u) /\ Expect(z, u)' = Expect(z, u)
    BY <1>1 DEF Quiet
  <2>1. PlacesAt(z, u) /\ TInv
    BY DEF IInv, Links, LinkAt
  <2>2. remainingSize[z][u] \in Nat /\ receiveBuffer[z].end \in Nat
    BY <2>1, RunTypes
  <2>3. \/ /\ remainingSize'[z][u] = remainingSize[z][u]
           /\ label'[z][u] = label[z][u]
           /\ reader'[z][u] # "exit" => reader[z][u] # "exit"
        \/ reader'[z][u] = "exit" /\ remainingSize'[z][u] = 0
    OBVIOUS
  <2> QED BY <1>1, <2>1, <2>2, <2>3 DEF PlacesAt, Expect, Awaiting
<1> QED BY <1>2, SameStreams, QuietStep

\* Cut: the network fails.
LEMMA CutSafe ==
    ASSUME IInv, TInv', NEW t \in Transports, Cut(t)
    PROVE  IInv'
<1>1. /\ UNCHANGED <<buffers, history, localClosed, phase, hello, wire>>
      /\ UNCHANGED <<localPosition, peerPosition, open, writer, reader, remainingSize, label>>
  BY DEF Cut, closes, runs, reading, positions
<1>2. \A u \in Transports : cut[u] => cut'[u]
  BY DEF Cut, IInv, TInv, TypeOK, NetOK
<1> QED BY <1>1, <1>2, StopStep

\* HandshakeTimeout: nc is closed.
LEMMA HandshakeTimeoutSafe ==
    ASSUME IInv, TInv', NEW s \in Sides, NEW t \in Transports, HandshakeTimeout(s, t)
    PROVE  IInv'
<1>1. /\ UNCHANGED <<buffers, history, localClosed, phase, hello, wire>>
      /\ UNCHANGED <<localPosition, peerPosition, cut, writer, reader, remainingSize, label>>
  BY DEF HandshakeTimeout, closes, runs, reading, positions
<1>2. \A z \in Sides, u \in Transports : open'[z][u] => open[z][u]
  BY DEF HandshakeTimeout, IInv, TInv, TypeOK, NetOK, PerRunOf
<1> QED BY <1>1, <1>2, StopStep

\* RequestDetach: nc of the attached run is closed and its loops are asked to stop.
LEMMA RequestDetachSafe ==
    ASSUME IInv, TInv', NEW s \in Sides, NEW t \in Transports, RequestDetach(s, t)
    PROVE  IInv'
<1>1. /\ UNCHANGED <<buffers, history, localClosed, phase, hello, wire>>
      /\ UNCHANGED <<localPosition, peerPosition, cut, writer, reader, remainingSize, label>>
  BY DEF RequestDetach, closes, reading, positions
<1>2. \A z \in Sides, u \in Transports : open'[z][u] => open[z][u]
  BY DEF RequestDetach, IInv, TInv, TypeOK, NetOK, PerRunOf
<1> QED BY <1>1, <1>2, StopStep

\* ReadTo that keeps the rest of the frame.
LEMMA SameFrame ==
    ASSUME TInv, NEW s \in Sides, NEW t \in Transports, NEW where \in ReaderNames,
           NEW n \in Nat, where # "exit", reader[s][t] # "exit",
           ReadTo(s, t, where, label[s][t], remainingSize[s][t], n)
    PROVE  \A z \in Sides, u \in Transports :
             /\ remainingSize'[z][u] = remainingSize[z][u] /\ label'[z][u] = label[z][u]
             /\ reader'[z][u] # "exit" => reader[z][u] # "exit"
<1>1. RunsOK /\ label[s][t] \in Nat /\ remainingSize[s][t] \in Nat
  BY RunTypes DEF TInv, TypeOK
<1> QED BY <1>1, ReadToFacts

\* StartDiscard and ReserveChunk: the read loop is still in the same frame.
LEMMA StartDiscardSafe ==
    ASSUME IInv, TInv', NEW s \in Sides, NEW t \in Transports, StartDiscard(s, t)
    PROVE  IInv'
<1>1. /\ UNCHANGED <<buffers, history, localClosed, phase, hello, wire>>
      /\ UNCHANGED <<localPosition, peerPosition, cut, writer, open>>
  BY DEF StartDiscard, closes, positions, net
<1>2. /\ ReadTo(s, t, "discard", label[s][t], remainingSize[s][t], 0)
      /\ reader[s][t] # "exit" /\ "discard" \in ReaderNames /\ TInv
  BY DEF StartDiscard, Reading, ReaderNames, IInv
<1> QED BY <1>1, <1>2, SameFrame, StopStep

LEMMA ReserveChunkSafe ==
    ASSUME IInv, TInv', NEW s \in Sides, NEW t \in Transports, ReserveChunk(s, t)
    PROVE  IInv'
<1>1. /\ UNCHANGED <<buffers, history, localClosed, phase, hello, wire>>
      /\ UNCHANGED <<localPosition, peerPosition, cut, writer, open>>
  BY DEF ReserveChunk, closes, positions, net
<1>2. /\ reader[s][t] # "exit" /\ "fill" \in ReaderNames /\ TInv
  BY DEF ReserveChunk, Reading, ReaderNames, IInv
<1>3. PICK n \in 1 .. remainingSize[s][t] :
        ReadTo(s, t, "fill", label[s][t], remainingSize[s][t], n)
  BY DEF ReserveChunk
<1>4. n \in Nat
  BY <1>2, <1>3, RunTypes
<1> QED BY <1>1, <1>2, <1>3, <1>4, SameFrame, StopStep

\* WriteError and WriterStopped: the write loop is over.
LEMMA WriterExitSafe ==
    ASSUME IInv, TInv', NEW s \in Sides, NEW t \in Transports,
           WriteError(s, t) \/ WriterStopped(s, t)
    PROVE  IInv'
<1>1. /\ UNCHANGED <<buffers, history, localClosed, hello, wire, cut, open>>
      /\ WriterExits(s, t)
  BY DEF WriteError, WriterStopped, closes, net
<1>2. RunsOK
  BY DEF IInv, TInv, TypeOK
<1>3. /\ UNCHANGED <<phase, reader, label, remainingSize, localPosition, peerPosition>>
      /\ \A z \in Sides, u \in Transports : writer'[z][u] = "run" => writer[z][u] = "run"
  BY <1>1, <1>2, WriterExitsFacts
<1> QED BY <1>1, <1>3, StopStep

\* ReaderStopped and HeaderError: the read loop is over.
LEMMA ReaderExitSafe ==
    ASSUME IInv, TInv', NEW s \in Sides, NEW t \in Transports,
           ReaderStopped(s, t) \/ HeaderError(s, t)
    PROVE  IInv'
<1>1. /\ UNCHANGED <<buffers, history, localClosed, hello, wire, cut>>
      /\ ReaderExits(s, t)
  BY DEF ReaderStopped, HeaderError, closes
<1>2. RunsOK /\ NetOK
  BY DEF IInv, TInv, TypeOK
<1>3. /\ UNCHANGED <<phase, writer, localPosition, peerPosition>>
      /\ \A z \in Sides, u \in Transports : open'[z][u] => open[z][u]
      /\ \A z \in Sides, u \in Transports :
           \/ /\ remainingSize'[z][u] = remainingSize[z][u]
              /\ label'[z][u] = label[z][u] /\ reader'[z][u] = reader[z][u]
           \/ reader'[z][u] = "exit" /\ remainingSize'[z][u] = 0
  BY <1>1, <1>2, ReaderExitsFacts
<1> QED BY <1>1, <1>3, StopStep

-----------------------------------------------------------------------------
(***************************************************************************)
(* The data of a frame reaches the receive buffer.                         *)
(***************************************************************************)

\* n bytes of the frame that s is reading on t are received: what s expects next is the
\* same, unless its read loop is over.
LEMMA AdvanceStep ==
    ASSUME IInv, TInv', NEW s \in Sides, NEW t \in Transports, phase[s][t] = "loops",
           reader[s][t] # "exit", NEW n \in Nat, n <= remainingSize[s][t],
           UNCHANGED <<sendBuffer, localClosed, history, phase, hello, wire>>,
           UNCHANGED <<localPosition, peerPosition, cut, writer>>,
           \A z \in Sides : z # s => receiveBuffer'[z] = receiveBuffer[z],
           receiveBuffer'[s].end = receiveBuffer[s].end + n,
           ~localClosed[s] => receiveBuffer'[s].start = receiveBuffer[s].start,
           \A p \in DOMAIN receiveBuffer'[s].data : receiveBuffer'[s].data[p] = p,
           open'[s][t] => open[s][t],
           \A z \in Sides, u \in Transports : z # s \/ u # t =>
             /\ reader'[z][u] = reader[z][u] /\ label'[z][u] = label[z][u]
             /\ remainingSize'[z][u] = remainingSize[z][u] /\ open'[z][u] = open[z][u],
           \/ /\ remainingSize'[s][t] = remainingSize[s][t] - n
              /\ remainingSize'[s][t] > 0 => label'[s][t] = label[s][t] + n
           \/ reader'[s][t] = "exit" /\ remainingSize'[s][t] = 0
    PROVE  IInv'
<1> DEFINE q == Peer(s)
<1>0. q \in Sides /\ Peer(q) = s /\ q # s /\ \A z \in Sides : z # s => z = q
  BY PeerFacts
<1>1. TInv /\ LinkAt(s, t) /\ Active(s, t)
  BY DEF IInv, Links, Active
<1>2. /\ receiveBuffer[s].end \in Nat /\ remainingSize[s][t] \in Nat
      /\ sendBuffer[q].start \in Nat /\ sendBuffer[q].end \in Nat
  BY <1>0, <1>1, RunTypes
<1>3. receiveBuffer'[s].end <= sendBuffer[q].end /\ written[q] = sendBuffer[q].end
  <2>1. Expect(s, t) <= sendBuffer[q].end
    BY <1>1 DEF LinkAt, DataAt
  <2> QED BY <1>0, <1>2, <2>1 DEF Expect, IInv, Fresh
<1>4. StreamIntact'
  <2> SUFFICES ASSUME NEW z \in Sides
               PROVE  /\ \A i \in 1 .. Len(delivered'[z]) : delivered'[z][i] = i - 1
                      /\ \A p \in DOMAIN receiveBuffer'[z].data : receiveBuffer'[z].data[p] = p
                      /\ ~localClosed'[z] => receiveBuffer'[z].start = Len(delivered'[z])
                      /\ receiveBuffer'[z].end <= written'[Peer(z)]
    BY DEF StreamIntact
  <2>1. delivered' = delivered /\ written' = written /\ StreamIntact
    BY DEF history, IInv
  <2>2. CASE z = s
    BY <1>3, <2>1, <2>2 DEF StreamIntact
  <2>3. CASE z # s
    BY <2>1, <2>3, Zenon DEF StreamIntact
  <2> QED BY <2>2, <2>3
<1>5. ReplayCovers'
  <2>1. sendBuffer[q].start <= receiveBuffer[s].end
    BY <1>0 DEF IInv, ReplayCovers
  <2>2. sendBuffer[q].start <= receiveBuffer'[s].end
    BY <1>2, <2>1
  <2> QED BY <1>0, <1>3, <2>2 DEF IInv, ReplayCovers
<1>6. phase[s][First] # "idle"
  BY <1>1, ConstAssumption DEF TInv, RunShape, RunShapeAt
<1>7. Fresh'
  BY <1>6 DEF IInv, Fresh, Unused, history
<1>8. Onward
  BY <1>1, <1>2, RunTypes, SMTT(30) DEF Onward
<1>9. ASSUME NEW u \in Transports, u # t PROVE Quiet(u)
  <2>1. Untouched(u)
    BY <1>9 DEF Untouched
  <2>2. Still(u)
    BY <1>1, <1>9, RunsAlone DEF Still
  <2> QED BY <2>1, <2>2, UntouchedQuiet
<1>10. Quiet(t)
  <2> SUFFICES ASSUME NEW z \in Sides
               PROVE  /\ open'[z][t] => open[z][t]
                      /\ remainingSize'[z][t] > 0 => label'[z][t] = receiveBuffer'[z].end
                      /\ remainingSize[z][t] = 0 =>
                           /\ receiveBuffer'[z].end = receiveBuffer[z].end
                           /\ remainingSize'[z][t] = 0
                      /\ Expect(z, t)' <= Expect(z, t)
                      /\ Awaiting(z, t)' =>
                           Awaiting(z, t) /\ Expect(z, t)' = Expect(z, t)
    BY DEF Quiet
  <2>1. PlacesAt(z, t) /\ remainingSize[z][t] \in Nat /\ receiveBuffer[z].end \in Nat
    BY <1>1, RunTypes DEF IInv, Links, LinkAt
  <2>2. CASE z = s
    BY <1>2, <2>1, <2>2 DEF PlacesAt, Expect, Awaiting
  <2>3. CASE z # s
    BY <2>1, <2>3 DEF PlacesAt, Expect, Awaiting
  <2> QED BY <2>2, <2>3
<1> QED BY <1>4, <1>5, <1>7, <1>8, <1>9, <1>10, QuietStep

\* append of the bytes that follow keeps the labels at their positions.
LEMMA AppendLabels ==
    ASSUME NEW b, IsReceive(b), NEW n \in Nat,
           \A p \in DOMAIN b.data : b.data[p] = p
    PROVE  LET c == append(b, b.end, n) IN
           c.end = b.end + n /\ c.start = b.start /\ \A p \in DOMAIN c.data : c.data[p] = p
<1> DEFINE c == append(b, b.end, n)
           S == b.start .. (b.end + n - 1)
<1>1. b.start \in Nat /\ b.end \in Nat /\ DOMAIN b.data = b.start .. (b.end - 1)
  BY DEF IsReceive
<1>2. ASSUME NEW p \in S PROVE (IF p < b.end THEN b.data[p] ELSE b.end + (p - b.end)) = p
  BY <1>1
<1>3. c.data = [p \in S |-> IF p < b.end THEN b.data[p] ELSE b.end + (p - b.end)]
  BY DEF append
<1>4. c.end = b.end + n /\ c.start = b.start
  BY DEF append
<1> HIDE DEF c, S
<1>5. \A p \in DOMAIN c.data : c.data[p] = p
  BY <1>2, <1>3, Zenon
<1> QED BY <1>4, <1>5, Zenon DEF c

\* FillChunk and FillError: what was read is what comes next in the stream.
LEMMA FillSafe ==
    ASSUME IInv, TInv', NEW s \in Sides, NEW t \in Transports,
           FillChunk(s, t) \/ FillError(s, t)
    PROVE  IInv'
<1>1. /\ TInv /\ TypeOK /\ RunsOK /\ NetOK /\ BuffersOK /\ IsReceive(receiveBuffer[s])
      /\ PlacesAt(s, t) /\ RunShapeAt(s, t)
  BY DEF IInv, TInv, TypeOK, Links, LinkAt, RunShape, BuffersOK
<1>2. /\ phase[s][t] = "loops" /\ reader[s][t] = "fill"
      /\ UNCHANGED <<sendBuffer, localClosed, history, phase, hello, wire>>
      /\ UNCHANGED <<localPosition, peerPosition, cut, writer>>
  BY DEF FillChunk, FillError, Reading, ReaderExits, closes, positions, net
<1>3. /\ tail[s][t] \in Nat /\ label[s][t] \in Nat /\ remainingSize[s][t] \in Nat
      /\ tail[s][t] > 0 /\ tail[s][t] <= remainingSize[s][t]
      /\ label[s][t] = receiveBuffer[s].end
  BY <1>1, <1>2, RunTypes DEF RunShapeAt, PlacesAt
<1>4. \A p \in DOMAIN receiveBuffer[s].data : receiveBuffer[s].data[p] = p
  BY DEF IInv, StreamIntact
<1>5. ASSUME NEW n \in Nat,
             receiveBuffer' = [receiveBuffer EXCEPT ![s] = append(@, label[s][t], n)]
      PROVE  /\ receiveBuffer'[s].end = receiveBuffer[s].end + n
             /\ receiveBuffer'[s].start = receiveBuffer[s].start
             /\ \A p \in DOMAIN receiveBuffer'[s].data : receiveBuffer'[s].data[p] = p
             /\ \A z \in Sides : z # s => receiveBuffer'[z] = receiveBuffer[z]
  <2>1. /\ receiveBuffer'[s] = append(receiveBuffer[s], receiveBuffer[s].end, n)
        /\ \A z \in Sides : z # s => receiveBuffer'[z] = receiveBuffer[z]
    BY <1>1, <1>3, <1>5 DEF BuffersOK
  <2> QED BY <1>1, <1>4, <2>1, AppendLabels
<1>6. CASE FillChunk(s, t)
  <2> DEFINE n == tail[s][t]
  <2>1. /\ receiveBuffer' = [receiveBuffer EXCEPT ![s] = append(@, label[s][t], n)]
        /\ UNCHANGED open
    BY <1>6 DEF FillChunk, net
  <2>2. PICK where \in ReaderNames, next \in Nat, left \in Nat :
          /\ ReadTo(s, t, where, next, left, 0)
          /\ left = remainingSize[s][t] - n
          /\ left > 0 => next = label[s][t] + n
    <3>1. CASE n = remainingSize[s][t]
      BY <1>3, <1>6, <3>1 DEF FillChunk, ReaderNames
    <3>2. CASE n # remainingSize[s][t]
      <4>1. label[s][t] + n \in Nat /\ remainingSize[s][t] - n \in Nat
        BY <1>3, <3>2
      <4> QED BY <1>3, <1>6, <3>2, <4>1 DEF FillChunk, ReaderNames
    <3> QED BY <3>1, <3>2
  <2>3. /\ label'[s][t] = next /\ remainingSize'[s][t] = left
        /\ \A z \in Sides, u \in Transports : z # s \/ u # t =>
             /\ reader'[z][u] = reader[z][u] /\ label'[z][u] = label[z][u]
             /\ remainingSize'[z][u] = remainingSize[z][u]
    BY <1>1, <2>2, ReadToFacts
  <2>4. /\ receiveBuffer'[s].end = receiveBuffer[s].end + n
        /\ receiveBuffer'[s].start = receiveBuffer[s].start
        /\ \A p \in DOMAIN receiveBuffer'[s].data : receiveBuffer'[s].data[p] = p
        /\ \A z \in Sides : z # s => receiveBuffer'[z] = receiveBuffer[z]
    BY <1>3, <1>5, <2>1
  <2>5. /\ n \in Nat /\ n <= remainingSize[s][t] /\ reader[s][t] # "exit"
        /\ remainingSize'[s][t] = remainingSize[s][t] - n
        /\ remainingSize'[s][t] > 0 => label'[s][t] = label[s][t] + n
        /\ \A z \in Sides, u \in Transports : open'[z][u] = open[z][u]
    BY <1>2, <1>3, <2>1, <2>2, <2>3
  <2> HIDE DEF n
  <2> QED BY <1>2, <2>3, <2>4, <2>5, AdvanceStep
<1>7. CASE FillError(s, t)
  <2>1. PICK k \in 0 .. (tail[s][t] - 1) :
          receiveBuffer' = [receiveBuffer EXCEPT ![s] = append(@, label[s][t], k)]
    BY <1>7 DEF FillError
  <2>2. k \in Nat /\ k <= remainingSize[s][t]
    BY <1>3, <2>1
  <2>3. /\ reader'[s][t] = "exit" /\ remainingSize'[s][t] = 0 /\ ~open'[s][t]
        /\ \A z \in Sides, u \in Transports : z # s \/ u # t =>
             /\ reader'[z][u] = reader[z][u] /\ label'[z][u] = label[z][u]
             /\ remainingSize'[z][u] = remainingSize[z][u] /\ open'[z][u] = open[z][u]
    BY <1>1, <1>7, ReaderExitsFacts DEF FillError
  <2> QED BY <1>2, <1>5, <2>1, <2>2, <2>3, AdvanceStep
<1> QED BY <1>6, <1>7

\* Discard and DiscardError: after Close the bytes are counted, not stored.
LEMMA DiscardSafe ==
    ASSUME IInv, TInv', NEW s \in Sides, NEW t \in Transports,
           Discard(s, t) \/ DiscardError(s, t)
    PROVE  IInv'
<1>1. /\ TInv /\ TypeOK /\ RunsOK /\ NetOK /\ BuffersOK /\ IsReceive(receiveBuffer[s])
      /\ RunShapeAt(s, t)
  BY DEF IInv, TInv, TypeOK, RunShape, BuffersOK
<1>2. /\ phase[s][t] = "loops" /\ reader[s][t] = "discard"
      /\ UNCHANGED <<sendBuffer, localClosed, history, phase, hello, wire>>
      /\ UNCHANGED <<localPosition, peerPosition, cut, writer>>
  BY DEF Discard, DiscardError, Reading, ReaderExits, closes, positions, net
<1>3. remainingSize[s][t] \in Nat /\ localClosed[s] /\ receiveBuffer[s].end \in Nat
  BY <1>1, <1>2, RunTypes DEF RunShapeAt
<1>4. ASSUME NEW n \in Nat,
             receiveBuffer' = [receiveBuffer EXCEPT ![s] = discard(@, n)]
      PROVE  /\ receiveBuffer'[s].end = receiveBuffer[s].end + n
             /\ \A p \in DOMAIN receiveBuffer'[s].data : receiveBuffer'[s].data[p] = p
             /\ \A z \in Sides : z # s => receiveBuffer'[z] = receiveBuffer[z]
  <2>1. /\ receiveBuffer'[s] = discard(receiveBuffer[s], n)
        /\ \A z \in Sides : z # s => receiveBuffer'[z] = receiveBuffer[z]
    BY <1>1, <1>4 DEF BuffersOK
  <2>2. DOMAIN receiveBuffer'[s].data = {}
    BY <1>3, <2>1 DEF discard
  <2> QED BY <1>1, <2>1, <2>2, DiscardFacts
<1>5. CASE Discard(s, t)
  <2>1. /\ receiveBuffer' = [receiveBuffer EXCEPT ![s] = discard(@, remainingSize[s][t])]
        /\ UNCHANGED open /\ ReadTo(s, t, "frame", 0, 0, 0) /\ "frame" \in ReaderNames
    BY <1>5 DEF Discard, net, ReaderNames
  <2>2. /\ remainingSize'[s][t] = 0
        /\ \A z \in Sides, u \in Transports : z # s \/ u # t =>
             /\ reader'[z][u] = reader[z][u] /\ label'[z][u] = label[z][u]
             /\ remainingSize'[z][u] = remainingSize[z][u]
    BY <1>1, <2>1, ReadToFacts
  <2> DEFINE n == remainingSize[s][t]
  <2>3. /\ receiveBuffer'[s].end = receiveBuffer[s].end + n
        /\ \A p \in DOMAIN receiveBuffer'[s].data : receiveBuffer'[s].data[p] = p
        /\ \A z \in Sides : z # s => receiveBuffer'[z] = receiveBuffer[z]
    BY <1>3, <1>4, <2>1
  <2>4. /\ n \in Nat /\ n <= remainingSize[s][t] /\ reader[s][t] # "exit"
        /\ remainingSize'[s][t] = remainingSize[s][t] - n /\ ~(remainingSize'[s][t] > 0)
        /\ \A z \in Sides, u \in Transports : open'[z][u] = open[z][u]
    BY <1>2, <1>3, <2>1, <2>2
  <2> HIDE DEF n
  <2> QED BY <1>2, <1>3, <2>2, <2>3, <2>4, AdvanceStep
<1>6. CASE DiscardError(s, t)
  <2>1. PICK k \in 0 .. (remainingSize[s][t] - 1) :
          receiveBuffer' = [receiveBuffer EXCEPT ![s] = discard(@, k)]
    BY <1>6 DEF DiscardError
  <2>2. k \in Nat /\ k <= remainingSize[s][t]
    BY <1>3, <2>1
  <2>3. /\ reader'[s][t] = "exit" /\ remainingSize'[s][t] = 0 /\ ~open'[s][t]
        /\ \A z \in Sides, u \in Transports : z # s \/ u # t =>
             /\ reader'[z][u] = reader[z][u] /\ label'[z][u] = label[z][u]
             /\ remainingSize'[z][u] = remainingSize[z][u] /\ open'[z][u] = open[z][u]
    BY <1>1, <1>6, ReaderExitsFacts DEF DiscardError
  <2> QED BY <1>2, <1>3, <1>4, <2>1, <2>2, <2>3, AdvanceStep
<1> QED BY <1>5, <1>6

-----------------------------------------------------------------------------
(***************************************************************************)
(* Steps of one run that move no buffer.                                   *)
(***************************************************************************)

\* A step of the run of s on t: other transports are left as they are, and so is the run of
\* the peer on t.  What travels on t is not said.
RunOf(s, t) ==
    /\ cut' = cut
    /\ \A u \in Transports : u # t => Untouched(u)
    /\ LET q == Peer(s) IN
         /\ phase'[q][t] = phase[q][t] /\ open'[q][t] = open[q][t]
         /\ reader'[q][t] = reader[q][t] /\ writer'[q][t] = writer[q][t]
         /\ label'[q][t] = label[q][t] /\ remainingSize'[q][t] = remainingSize[q][t]
         /\ localPosition'[q][t] = localPosition[q][t]
         /\ peerPosition'[q][t] = peerPosition[q][t]

LEMMA RunStep ==
    ASSUME IInv, TInv', UNCHANGED <<buffers, history, localClosed>>,
           NEW s \in Sides, NEW t \in Transports, RunOf(s, t),
           phase'[s][t] = "idle" => phase[s][t] = "idle",
           LinkAt(s, t)', LinkAt(Peer(s), t)'
    PROVE  IInv'
<1>1. \A z \in Sides : phase'[z][First] = "idle" => phase[z][First] = "idle"
  BY PeerFacts, ConstAssumption DEF RunOf, Untouched
<1>2. \A u \in Transports : u # t => Untouched(u) /\ Still(u)
  BY DEF RunOf, Still, buffers
<1>3. \A z \in Sides : LinkAt(z, t)'
  BY PeerFacts
<1> QED BY <1>1, <1>2, <1>3, SameStreams, LinkStep

\* Dial, Accept, Dialed and Attach: a run comes nearer to sending its position.
LEMMA UnsaidStep ==
    ASSUME IInv, TInv', UNCHANGED <<buffers, history, localClosed, hello, wire>>,
           NEW s \in Sides, NEW t \in Transports, RunOf(s, t), t # First,
           Unsaid(s, t), Unsaid(s, t)', phase'[s][t] # "idle",
           phase'[s][t] = "handshake" => localPosition'[s][t] = receiveBuffer[s].end,
           UNCHANGED <<reader, writer, label, remainingSize, peerPosition, open>>
    PROVE  IInv'
<1> DEFINE q == Peer(s)
<1>0. q \in Sides /\ Peer(q) = s
  BY PeerFacts
<1>1. LinkAt(s, t) /\ LinkAt(q, t) /\ TInv /\ UNCHANGED <<sendBuffer, receiveBuffer>>
  BY <1>0 DEF IInv, Links, buffers
<1>2. /\ phase[s][t] \notin {"loops", "done", "greeted"}
      /\ phase'[s][t] \notin {"loops", "done", "greeted"}
      /\ remainingSize[s][t] = 0 /\ reader[s][t] = "off" /\ writer[s][t] = "off"
  BY <1>1, RunTypes DEF Unsaid
<1>3. /\ hello[q][t] = NoPosition /\ wire[q][t] = <<>> /\ wire[s][t] = <<>>
      /\ phase[q][t] # "loops"
  BY <1>1 DEF LinkAt, OrderAt
<1>4. cut' = cut /\ phase'[q][t] = phase[q][t] /\ localPosition'[q][t] = localPosition[q][t]
  BY DEF RunOf
<1> HIDE DEF q
<1>5. LinkAt(s, t)'
  <2>1. PlacesAt(s, t)' /\ PhasesAt(s, t)'
    BY <1>1, <1>2 DEF LinkAt, PlacesAt, PhasesAt
  <2>2. OrderAt(s, t)' /\ HelloAt(s, t)'
    BY <1>1, <1>2, <1>3, <1>4 DEF LinkAt, OrderAt, HelloAt, q
  <2>3. DataAt(s, t)'
    BY <1>1, <1>2, <1>3, <1>4, EmptyWire DEF LinkAt, DataAt, Awaiting, Expect, q
  <2>4. AckAt(s, t)'
    BY <1>1, <1>2, <1>3, <1>4, EmptyWire DEF LinkAt, AckAt, Awaiting, AckBase, q
  <2>5. HeldAt(s, t)'
    BY <1>2 DEF HeldAt
  <2> QED BY <2>1, <2>2, <2>3, <2>4, <2>5 DEF LinkAt
<1>6. LinkAt(q, t)'
  <2>1. PlacesAt(q, t)' /\ PhasesAt(q, t)'
    BY <1>1, <1>4 DEF LinkAt, PlacesAt, PhasesAt
  <2>2. OrderAt(q, t)' /\ HelloAt(q, t)'
    BY <1>0, <1>1, <1>2, <1>3, <1>4 DEF LinkAt, OrderAt, HelloAt, Unsaid, Active
  <2>3. DataAt(q, t)'
    BY <1>0, <1>1, <1>2, <1>3, <1>4, EmptyWire DEF LinkAt, DataAt, Awaiting, Expect
  <2>4. AckAt(q, t)'
    BY <1>0, <1>1, <1>2, <1>3, <1>4, EmptyWire DEF LinkAt, AckAt, Awaiting, AckBase
  <2>5. HeldAt(q, t)'
    BY <1>1, <1>4 DEF LinkAt, HeldAt, Compatible
  <2> QED BY <2>1, <2>2, <2>3, <2>4, <2>5 DEF LinkAt
<1> QED BY <1>2, <1>5, <1>6, RunStep DEF q

LEMMA DialingSafe ==
    ASSUME IInv, TInv', NEW t \in Transports, Dial(t) \/ Accept(t) \/ Dialed(t)
    PROVE  IInv'
<1>1. PICK s \in Sides : /\ Unsaid(s, t)
                         /\ SetPhase(s, t, "dialing") \/ SetPhase(s, t, "wait")
                         /\ phase[s][t] = "idle" => t # First
  BY DEF Dial, Accept, Dialed, Unsaid, Sides
<1>2. /\ UNCHANGED <<buffers, history, localClosed, hello, wire, cut>>
      /\ UNCHANGED <<reader, writer, label, remainingSize, localPosition, peerPosition, open>>
  BY DEF Dial, Accept, Dialed, closes, reading, positions, net
<1>3. LinkAt(s, t) /\ RunsOK /\ {"dialing", "wait"} \subseteq PhaseNames
  BY DEF IInv, TInv, TypeOK, Links, PhaseNames
<1>4. t # First
  BY <1>1, <1>3 DEF LinkAt, PhasesAt, Unsaid
<1>5. /\ phase'[s][t] \in {"dialing", "wait"}
      /\ \A z \in Sides, u \in Transports : z # s \/ u # t => phase'[z][u] = phase[z][u]
  BY <1>1, <1>3, SetPhaseFacts
<1>6. RunOf(s, t)
  BY <1>2, <1>5, PeerFacts DEF RunOf, Untouched
<1>7. Unsaid(s, t)' /\ phase'[s][t] # "idle" /\ phase'[s][t] # "handshake"
  BY <1>5 DEF Unsaid
<1> QED BY <1>1, <1>2, <1>4, <1>6, <1>7, UnsaidStep

LEMMA AttachSafe ==
    ASSUME IInv, TInv', NEW s \in Sides, NEW t \in Transports, Attach(s, t)
    PROVE  IInv'
<1>1. /\ UNCHANGED <<buffers, history, localClosed, hello, wire, cut>>
      /\ UNCHANGED <<reader, writer, label, remainingSize, peerPosition, open>>
  BY DEF Attach, closes, reading, net
<1>2. LinkAt(s, t) /\ RunsOK /\ "handshake" \in PhaseNames
  BY DEF IInv, TInv, TypeOK, Links, PhaseNames
<1>3. phase[s][t] = "wait" /\ t # First
  BY <1>2 DEF Attach, LinkAt, PhasesAt
<1>4. /\ phase'[s][t] = "handshake"
      /\ \A z \in Sides, u \in Transports : z # s \/ u # t => phase'[z][u] = phase[z][u]
  BY <1>2, SetPhaseFacts DEF Attach
<1>5. /\ localPosition'[s][t] = receiveBuffer[s].end
      /\ \A z \in Sides, u \in Transports :
           z # s \/ u # t => localPosition'[z][u] = localPosition[z][u]
  BY <1>2 DEF Attach, RunsOK, PerRunOf
<1>6. RunOf(s, t)
  BY <1>1, <1>4, <1>5, PeerFacts DEF RunOf, Untouched
<1>7. Unsaid(s, t) /\ Unsaid(s, t)' /\ phase'[s][t] # "idle"
  BY <1>3, <1>4 DEF Unsaid
<1> QED BY <1>1, <1>3, <1>5, <1>6, <1>7, UnsaidStep

\* The end of a run: nothing more is read from t or sent on it.
LEMMA FinishStep ==
    ASSUME IInv, TInv', UNCHANGED <<buffers, history, localClosed, cut>>,
           NEW s \in Sides, NEW t \in Transports, Finish(s, t),
           wire'[s][t] = <<>>,
           \A z \in Sides, u \in Transports : z # s \/ u # t => wire'[z][u] = wire[z][u]
    PROVE  IInv'
<1> DEFINE q == Peer(s)
<1>0. q \in Sides /\ Peer(q) = s /\ q # s
  BY PeerFacts
<1>1. /\ LinkAt(s, t) /\ LinkAt(q, t) /\ TInv /\ RunsOK /\ NetOK
      /\ UNCHANGED <<sendBuffer, receiveBuffer>>
  BY <1>0 DEF IInv, TInv, TypeOK, Links, buffers
<1>2. /\ phase'[s][t] = "done" /\ reader'[s][t] = "off" /\ writer'[s][t] = "off"
      /\ remainingSize'[s][t] = 0 /\ hello'[s][t] = NoPosition /\ ~open'[s][t]
  BY <1>1, FinishFacts
<1>3. \A z \in Sides, u \in Transports : z # s \/ u # t =>
        /\ phase'[z][u] = phase[z][u] /\ reader'[z][u] = reader[z][u]
        /\ label'[z][u] = label[z][u] /\ remainingSize'[z][u] = remainingSize[z][u]
        /\ writer'[z][u] = writer[z][u] /\ localPosition'[z][u] = localPosition[z][u]
        /\ peerPosition'[z][u] = peerPosition[z][u]
        /\ hello'[z][u] = hello[z][u] /\ open'[z][u] = open[z][u]
  BY <1>1, FinishFacts
<1>4. RunOf(s, t)
  BY <1>0, <1>3 DEF RunOf, Untouched
<1>5. /\ phase'[q][t] = phase[q][t] /\ reader'[q][t] = reader[q][t]
      /\ label'[q][t] = label[q][t] /\ remainingSize'[q][t] = remainingSize[q][t]
      /\ writer'[q][t] = writer[q][t] /\ localPosition'[q][t] = localPosition[q][t]
      /\ peerPosition'[q][t] = peerPosition[q][t] /\ hello'[q][t] = hello[q][t]
      /\ open'[q][t] = open[q][t] /\ wire'[q][t] = wire[q][t]
  BY <1>0, <1>3
<1>6. receiveBuffer[s].end <= sendBuffer[q].end /\ receiveBuffer[s].end \in Nat
  BY <1>0, <1>1, RunTypes DEF IInv, ReplayCovers
<1> HIDE DEF q
<1>7. LinkAt(s, t)'
  <2>1. PlacesAt(s, t)' /\ PhasesAt(s, t)' /\ HeldAt(s, t)'
    BY <1>1, <1>2 DEF LinkAt, PlacesAt, PhasesAt, HeldAt
  <2>2. OrderAt(s, t)' /\ HelloAt(s, t)'
    BY <1>1, <1>2, <1>5 DEF LinkAt, OrderAt, HelloAt, Unsaid, Active, q
  <2>3. DataAt(s, t)'
    BY <1>1, <1>2, <1>5, <1>6, EmptyWire DEF DataAt, Awaiting, Engaged, Active, Expect, q
  <2>4. AckAt(s, t)'
    BY <1>1, <1>2, <1>5 DEF LinkAt, AckAt, Awaiting, AckBase, q
  <2> QED BY <2>1, <2>2, <2>3, <2>4 DEF LinkAt
<1>8. LinkAt(q, t)'
  <2>1. PlacesAt(q, t)' /\ PhasesAt(q, t)' /\ HeldAt(q, t)'
    BY <1>1, <1>5 DEF LinkAt, PlacesAt, PhasesAt, HeldAt, Compatible
  <2>2. OrderAt(q, t)' /\ HelloAt(q, t)'
    BY <1>0, <1>1, <1>2, <1>5 DEF LinkAt, OrderAt, HelloAt, Unsaid
  <2>3. DataAt(q, t)'
    BY <1>0, <1>1, <1>2, <1>5 DEF LinkAt, DataAt, Awaiting, Expect
  <2>4. AckAt(q, t)'
    BY <1>0, <1>1, <1>2, <1>5, EmptyWire DEF AckAt, Awaiting
  <2> QED BY <2>1, <2>2, <2>3, <2>4 DEF LinkAt
<1> QED BY <1>2, <1>4, <1>7, <1>8, RunStep DEF q

LEMMA FinishedSafe ==
    ASSUME IInv, TInv', NEW s \in Sides, NEW t \in Transports,
           \/ s = "client" /\ DialFailed(t)
           \/ Refuse(s, t) \/ Detach(s, t) \/ HandshakeError(s, t)
    PROVE  IInv'
<1>1. UNCHANGED <<buffers, history, localClosed, cut>> /\ Finish(s, t) /\ Drained(s, t)
  BY DEF DialFailed, Refuse, Detach, HandshakeError, closes
<1>2. NetOK
  BY DEF IInv, TInv, TypeOK
<1> QED BY <1>1, <1>2, DrainedFacts, FinishStep

\* RejectHello: a position that s cannot continue from is from a run that is over, so that the
\* errorTag reaches nobody.
LEMMA RejectHelloSafe ==
    ASSUME IInv, TInv', NEW s \in Sides, NEW t \in Transports, RejectHello(s, t)
    PROVE  IInv'
<1> DEFINE q == Peer(s)
<1>0. q \in Sides /\ Peer(q) = s /\ q # s
  BY PeerFacts
<1>1. LinkAt(s, t) /\ LinkAt(q, t) /\ TInv /\ NetOK
  BY <1>0 DEF IInv, TInv, TypeOK, Links
<1>2. /\ phase[s][t] = "greeted" /\ hello[s][t] # NoPosition /\ ~Compatible(s, hello[s][t])
      /\ UNCHANGED <<buffers, history, localClosed, cut>> /\ Finish(s, t)
  BY DEF RejectHello
<1>3. t # First
  BY <1>1, <1>2 DEF LinkAt, PhasesAt
<1>4. phase[q][t] = "done"
  <2>1. phase[q][t] \in PhaseNames /\ ~Unsaid(q, t)
    BY <1>0, <1>1, <1>2, <1>3, RunTypes DEF LinkAt, OrderAt
  <2>2. /\ hello[s][t] \in Nat /\ receiveBuffer[q].end \in Nat
        /\ sendBuffer[s].start \in Nat /\ sendBuffer[s].end \in Nat
    BY <1>0, <1>1, <1>2, RunTypes
  <2>3. /\ hello[s][t] <= receiveBuffer[q].end
        /\ Active(q, t) => hello[s][t] = receiveBuffer[q].end
    BY <1>0, <1>1, <1>2 DEF LinkAt, HelloAt
  <2>4. /\ sendBuffer[s].start <= receiveBuffer[q].end
        /\ receiveBuffer[q].end <= sendBuffer[s].end
    BY DEF IInv, ReplayCovers
  <2> HIDE DEF q
  <2>5. ~Active(q, t)
    BY <1>2, <2>2, <2>3, <2>4 DEF Compatible
  <2> QED BY <2>1, <2>5 DEF Unsaid, Active, PhaseNames
<1>5. ~Arrives(s, t)
  BY <1>1, <1>4 DEF LinkAt, PhasesAt, Arrives
<1>6. wire' = [x \in Sides |-> [wire[x] EXCEPT ![t] = IF x = s THEN <<>> ELSE @]]
  BY <1>5 DEF RejectHello
<1>7. /\ wire'[s][t] = <<>>
      /\ \A z \in Sides, u \in Transports : z # s \/ u # t => wire'[z][u] = wire[z][u]
  BY <1>1, <1>6 DEF NetOK, PerRunOf
<1> QED BY <1>2, <1>7, FinishStep

\* SendHello: the position is the one that is received up to.
LEMMA SendHelloSafe ==
    ASSUME IInv, TInv', NEW s \in Sides, NEW t \in Transports, SendHello(s, t)
    PROVE  IInv'
<1> DEFINE q == Peer(s)
<1>0. q \in Sides /\ Peer(q) = s /\ q # s
  BY PeerFacts
<1>1. LinkAt(s, t) /\ LinkAt(q, t) /\ TInv /\ RunsOK /\ NetOK
  BY <1>0 DEF IInv, TInv, TypeOK, Links
<1>2. /\ phase[s][t] = "handshake" /\ open[s][t]
      /\ UNCHANGED <<buffers, history, localClosed, wire, open, cut>>
      /\ UNCHANGED <<reader, writer, label, remainingSize, localPosition, peerPosition>>
      /\ UNCHANGED <<sendBuffer, receiveBuffer>>
  BY DEF SendHello, closes, reading, positions, buffers
<1>3. /\ phase'[s][t] = "greeted"
      /\ \A z \in Sides, u \in Transports : z # s \/ u # t => phase'[z][u] = phase[z][u]
  <2>1. SetPhase(s, t, "greeted") /\ "greeted" \in PhaseNames
    BY DEF SendHello, PhaseNames
  <2> QED BY <1>1, <2>1, SetPhaseFacts
<1>4. /\ Arrives(s, t) => hello'[q][t] = localPosition[s][t]
      /\ ~Arrives(s, t) => hello'[q][t] = hello[q][t]
      /\ \A z \in Sides, u \in Transports : z # q \/ u # t => hello'[z][u] = hello[z][u]
  BY <1>0, <1>1 DEF SendHello, NetOK, PerRunOf
<1>5. /\ t # First /\ Unsaid(s, t) /\ phase'[q][t] = phase[q][t] /\ hello'[s][t] = hello[s][t]
      /\ phase[s][t] \notin {"loops", "done"}
      /\ localPosition[s][t] = receiveBuffer[s].end
      /\ localPosition[s][t] \in Nat /\ NoPosition \notin Nat
      /\ remainingSize[s][t] = 0 /\ writer[s][t] = "off"
  BY <1>0, <1>1, <1>2, <1>3, <1>4, RunTypes DEF LinkAt, PhasesAt, PlacesAt, Unsaid, NoPosition
<1>6. /\ hello[q][t] = NoPosition /\ wire[q][t] = <<>> /\ wire[s][t] = <<>>
      /\ phase[q][t] # "loops"
  BY <1>1, <1>5 DEF LinkAt, OrderAt
<1>7. /\ ~cut[t] /\ open[q][t] <=> Arrives(s, t)
      /\ phase[q][t] = "done" => ~Arrives(s, t)
  BY <1>0, <1>1, <1>2 DEF Arrives, LinkAt, PhasesAt
<1>8. RunOf(s, t)
  BY <1>0, <1>2, <1>3, <1>4 DEF RunOf, Untouched
<1> HIDE DEF q
<1>9. LinkAt(s, t)'
  <2>1. PlacesAt(s, t)' /\ PhasesAt(s, t)' /\ HeldAt(s, t)'
    BY <1>1, <1>2, <1>3, <1>5 DEF LinkAt, PlacesAt, PhasesAt, HeldAt
  <2>2. OrderAt(s, t)' /\ HelloAt(s, t)'
    BY <1>2, <1>3, <1>4, <1>5, <1>6, <1>7 DEF OrderAt, HelloAt, Unsaid, Active, q
  <2>3. DataAt(s, t)'
    BY <1>1, <1>2, <1>3, <1>5, <1>6, EmptyWire DEF LinkAt, DataAt, Awaiting, Expect, q
  <2>4. AckAt(s, t)'
    BY <1>2, <1>3, <1>4, <1>5, <1>6, <1>7, EmptyWire DEF AckAt, Awaiting, AckBase, q
  <2> QED BY <2>1, <2>2, <2>3, <2>4 DEF LinkAt
<1>10. LinkAt(q, t)'
  <2>1. PlacesAt(q, t)' /\ PhasesAt(q, t)' /\ HeldAt(q, t)'
    BY <1>1, <1>2, <1>4, <1>5, <1>7 DEF LinkAt, PlacesAt, PhasesAt, HeldAt, Compatible
  <2>2. OrderAt(q, t)' /\ HelloAt(q, t)'
    BY <1>0, <1>1, <1>2, <1>3, <1>4, <1>5, <1>6 DEF LinkAt, OrderAt, HelloAt, Unsaid, Active
  <2>3. DataAt(q, t)'
    BY <1>0, <1>1, <1>2, <1>3, <1>5, <1>6, EmptyWire DEF LinkAt, DataAt, Awaiting, Expect
  <2>4. AckAt(q, t)'
    BY <1>0, <1>1, <1>2, <1>3, <1>5, <1>6, EmptyWire DEF LinkAt, AckAt, Awaiting, AckBase
  <2> QED BY <2>1, <2>2, <2>3, <2>4 DEF LinkAt
<1> QED BY <1>2, <1>3, <1>8, <1>9, <1>10, RunStep DEF q

\* LoseFrame: the last frame on a broken transport is lost, and nothing follows it.
LEMMA LoseFrameSafe ==
    ASSUME IInv, TInv', NEW s \in Sides, NEW t \in Transports, LoseFrame(s, t)
    PROVE  IInv'
<1> DEFINE q == Peer(s)
           W == wire[s][t]
           V == wire'[s][t]
<1>0. q \in Sides /\ Peer(q) = s /\ q # s
  BY PeerFacts
<1>1. LinkAt(s, t) /\ LinkAt(q, t) /\ TInv /\ NetOK
  BY <1>0 DEF IInv, TInv, TypeOK, Links
<1>2. /\ cut[t] /\ W # <<>>
      /\ UNCHANGED <<buffers, history, localClosed, hello, open, cut, phase>>
      /\ UNCHANGED <<reader, writer, label, remainingSize, localPosition, peerPosition>>
      /\ UNCHANGED <<sendBuffer, receiveBuffer>>
  BY DEF LoseFrame, closes, runs, reading, positions, buffers
<1>3. /\ V = SubSeq(W, 1, Len(W) - 1)
      /\ \A z \in Sides, u \in Transports : z # s \/ u # t => wire'[z][u] = wire[z][u]
  BY <1>1 DEF LoseFrame, NetOK, PerRunOf
<1>4. W \in Seq(FrameType) /\ wire'[q][t] = wire[q][t]
  BY <1>0, <1>1, <1>3, RunTypes
<1>5. RunOf(s, t)
  BY <1>0, <1>2, <1>3 DEF RunOf, Untouched
<1>6. /\ phase[s][t] # "done" /\ (t # First => ~Unsaid(s, t) /\ ~Unsaid(q, t))
      /\ phase[q][t] \in {"loops", "done"}
      /\ t # First /\ hello[s][t] = NoPosition => phase[s][t] = "loops"
  BY <1>0, <1>1, <1>2 DEF LinkAt, PhasesAt, OrderAt, HelloAt
<1>7. ASSUME NEW p \in Int
      PROVE  /\ DataChain(W, p) => DataChain(V, p)
             /\ AckChain(W, p) => AckChain(V, p)
             /\ DataBelow(W, p) => DataBelow(V, p)
             /\ AckBelow(W, p) => AckBelow(V, p)
             /\ EndsAt(W, p) => EndsAt(V, p)
             /\ NoClose(W) => NoClose(V)
  <2> HIDE DEF W, V
  <2> QED BY <1>2, <1>3, <1>4, LostWire
<1>8. /\ Expect(s, t) \in Int /\ AckBase(s, t) \in Int /\ sendBuffer[q].end \in Int
      /\ peerPosition[q][t] \in Int /\ peerPosition[s][t] \in Int
      /\ receiveBuffer[q].end \in Int
      /\ hello[s][t] \in Int
  BY <1>0, <1>1, RunTypes DEF AckBase, NoPosition
<1> HIDE DEF q, V
<1>9. LinkAt(s, t)'
  <2>1. PlacesAt(s, t)' /\ PhasesAt(s, t)' /\ HeldAt(s, t)'
    BY <1>1, <1>2, <1>6 DEF LinkAt, PlacesAt, PhasesAt, HeldAt, Compatible
  <2>2. OrderAt(s, t)' /\ HelloAt(s, t)'
    BY <1>1, <1>2, <1>4, <1>6 DEF LinkAt, OrderAt, HelloAt, Unsaid, Active, q
  <2>3. DataAt(s, t)'
    <3>1. DataAt(s, t)
      BY <1>1 DEF LinkAt
    <3> QED BY <1>2, <1>7, <1>8, <3>1 DEF DataAt, Awaiting, Engaged, Active, Expect, q, V
  <2>4. AckAt(s, t)'
    BY <1>1, <1>2, <1>4 DEF LinkAt, AckAt, Awaiting, AckBase, q
  <2> QED BY <2>1, <2>2, <2>3, <2>4 DEF LinkAt
<1>10. LinkAt(q, t)'
  <2>1. PlacesAt(q, t)' /\ PhasesAt(q, t)' /\ HeldAt(q, t)'
    BY <1>1, <1>2, <1>4 DEF LinkAt, PlacesAt, PhasesAt, HeldAt, Compatible
  <2>2. OrderAt(q, t)' /\ HelloAt(q, t)'
    BY <1>0, <1>1, <1>2, <1>4, <1>6 DEF LinkAt, OrderAt, HelloAt, Unsaid, Active
  <2>3. DataAt(q, t)'
    BY <1>0, <1>1, <1>2, <1>4 DEF LinkAt, DataAt, Awaiting, Engaged, Active, Expect
  <2>4. AckAt(q, t)'
    <3>1. AckAt(q, t)
      BY <1>1 DEF LinkAt
    <3> QED BY <1>0, <1>2, <1>7, <1>8, <3>1 DEF AckAt, Awaiting, AckBase, V
  <2> QED BY <2>1, <2>2, <2>3, <2>4 DEF LinkAt
<1> QED BY <1>2, <1>5, <1>9, <1>10, RunStep DEF q

\* LoseHello: the position on a broken transport is lost, and nothing followed it.
LEMMA LoseHelloSafe ==
    ASSUME IInv, TInv', NEW s \in Sides, NEW t \in Transports, LoseHello(s, t)
    PROVE  IInv'
<1> DEFINE q == Peer(s)
<1>0. q \in Sides /\ Peer(q) = s /\ q # s
  BY PeerFacts
<1>1. LinkAt(s, t) /\ LinkAt(q, t) /\ TInv /\ NetOK
  BY <1>0 DEF IInv, TInv, TypeOK, Links
<1>2. /\ cut[t] /\ wire[s][t] = <<>>
      /\ UNCHANGED <<buffers, history, localClosed, wire, open, cut, phase>>
      /\ UNCHANGED <<reader, writer, label, remainingSize, localPosition, peerPosition>>
      /\ UNCHANGED <<sendBuffer, receiveBuffer>>
  BY DEF LoseHello, closes, runs, reading, positions, buffers
<1>3. /\ hello'[s][t] = NoPosition /\ hello'[q][t] = hello[q][t]
      /\ \A z \in Sides, u \in Transports : z # s \/ u # t => hello'[z][u] = hello[z][u]
  BY <1>0, <1>1 DEF LoseHello, NetOK, PerRunOf
<1>4. RunOf(s, t)
  BY <1>0, <1>2, <1>3 DEF RunOf, Untouched
<1> HIDE DEF q
<1>5. LinkAt(s, t)'
  <2>1. PlacesAt(s, t)' /\ PhasesAt(s, t)' /\ HeldAt(s, t)'
    BY <1>1, <1>2, <1>3 DEF LinkAt, PlacesAt, PhasesAt, HeldAt, Compatible
  <2>2. OrderAt(s, t)' /\ HelloAt(s, t)'
    BY <1>1, <1>2, <1>3 DEF LinkAt, OrderAt, HelloAt, Unsaid, Active, q
  <2>3. DataAt(s, t)'
    BY <1>1, <1>2, <1>3 DEF LinkAt, DataAt, Awaiting, Engaged, Active, Expect, q
  <2>4. AckAt(s, t)'
    BY <1>1, <1>2, <1>3 DEF LinkAt, AckAt, Awaiting, AckBase, q
  <2> QED BY <2>1, <2>2, <2>3, <2>4 DEF LinkAt
<1>6. LinkAt(q, t)'
  <2>1. PlacesAt(q, t)' /\ PhasesAt(q, t)' /\ HeldAt(q, t)'
    BY <1>1, <1>2, <1>3 DEF LinkAt, PlacesAt, PhasesAt, HeldAt, Compatible
  <2>2. OrderAt(q, t)' /\ HelloAt(q, t)'
    BY <1>0, <1>1, <1>2, <1>3 DEF LinkAt, OrderAt, HelloAt, Unsaid, Active
  <2>3. DataAt(q, t)'
    BY <1>0, <1>1, <1>2, <1>3 DEF LinkAt, DataAt, Awaiting, Engaged, Active, Expect
  <2>4. AckAt(q, t)'
    BY <1>0, <1>2, <1>3, EmptyWire DEF AckAt, Awaiting
  <2> QED BY <2>1, <2>2, <2>3, <2>4 DEF LinkAt
<1> QED BY <1>2, <1>4, <1>5, <1>6, RunStep DEF q

\* AttachFirst: the Conn is unused, so that both positions are the start of the stream.
LEMMA AttachFirstSafe ==
    ASSUME IInv, TInv', NEW s \in Sides, AttachFirst(s)
    PROVE  IInv'
<1> DEFINE q == Peer(s)
           t == First
<1>0. q \in Sides /\ Peer(q) = s /\ q # s /\ t \in Transports
  BY PeerFacts, ConstAssumption
<1> HIDE DEF t
<1>1. LinkAt(s, t) /\ LinkAt(q, t) /\ TInv /\ RunsOK /\ Unused(s)
  BY <1>0 DEF IInv, TInv, TypeOK, Links, Fresh
<1>2. /\ phase[s][t] = "idle"
      /\ UNCHANGED <<buffers, history, localClosed, hello, wire, open, cut>>
      /\ UNCHANGED <<peerPosition, sendBuffer, receiveBuffer>>
  BY DEF AttachFirst, closes, net, buffers, t
<1>3. /\ phase'[s][t] = "loops" /\ writer'[s][t] = "run" /\ reader'[s][t] = "frame"
      /\ remainingSize'[s][t] = 0
      /\ \A z \in Sides, u \in Transports : z # s \/ u # t =>
           /\ phase'[z][u] = phase[z][u] /\ writer'[z][u] = writer[z][u]
           /\ reader'[z][u] = reader[z][u] /\ label'[z][u] = label[z][u]
           /\ remainingSize'[z][u] = remainingSize[z][u]
  BY <1>0, <1>1, StartLoopsFacts DEF AttachFirst, t
<1>4. /\ localPosition'[s][t] = receiveBuffer[s].end
      /\ \A z \in Sides, u \in Transports :
           z # s \/ u # t => localPosition'[z][u] = localPosition[z][u]
  BY <1>0, <1>1 DEF AttachFirst, RunsOK, PerRunOf, t
<1>5. RunOf(s, t)
  BY <1>0, <1>2, <1>3, <1>4 DEF RunOf, Untouched
<1>6. /\ phase'[q][t] = phase[q][t] /\ reader'[q][t] = reader[q][t]
      /\ label'[q][t] = label[q][t] /\ remainingSize'[q][t] = remainingSize[q][t]
      /\ writer'[q][t] = writer[q][t] /\ localPosition'[q][t] = localPosition[q][t]
  BY <1>0, <1>3, <1>4
<1>7. /\ sendBuffer[s].end = 0 /\ receiveBuffer[s].end = 0 /\ sendBuffer[s].start = 0
      /\ receiveBuffer[q].end = 0 /\ sendBuffer[q].start = 0
  <2>1. /\ sendBuffer[s].end = 0 /\ receiveBuffer[s].end = 0
    BY <1>1, <1>2 DEF Unused, t
  <2>2. /\ sendBuffer[s].start \in Nat /\ sendBuffer[s].start <= sendBuffer[s].end
        /\ sendBuffer[q].start \in Nat /\ receiveBuffer[q].end \in Nat
    BY <1>0, <1>1, RunTypes
  <2>3. sendBuffer[q].start <= receiveBuffer[s].end /\ receiveBuffer[q].end <= sendBuffer[s].end
    BY <1>0 DEF IInv, ReplayCovers
  <2> QED BY <2>1, <2>2, <2>3
<1>8. /\ hello[s][t] = NoPosition /\ hello[q][t] = NoPosition /\ peerPosition[s][t] = 0
      /\ wire[q][t] = <<>>
  BY <1>0, <1>1, <1>2 DEF LinkAt, PhasesAt, OrderAt, t
<1>9. /\ Expect(q, t) = 0 /\ Expect(s, t)' = Expect(s, t) /\ remainingSize[q][t] \in Nat
      /\ reader[s][t] = "off"
  <2>1. /\ Expect(q, t) \in Nat /\ remainingSize[q][t] \in Nat /\ remainingSize[s][t] = 0
        /\ reader[s][t] = "off"
    BY <1>0, <1>1, <1>2, RunTypes
  <2>2. Expect(q, t) <= sendBuffer[s].end
    BY <1>0, <1>1 DEF LinkAt, DataAt
  <2>3. Expect(s, t)' = Expect(s, t)
    BY <1>2, <1>3, <2>1 DEF Expect
  <2> QED BY <1>7, <2>1, <2>2, <2>3
<1> HIDE DEF q
<1>10. LinkAt(s, t)'
  <2>1. PlacesAt(s, t)' /\ PhasesAt(s, t)' /\ HeldAt(s, t)'
    BY <1>1, <1>2, <1>3, <1>7, <1>8 DEF LinkAt, PlacesAt, PhasesAt, HeldAt, Compatible
  <2>2. OrderAt(s, t)' /\ HelloAt(s, t)'
    BY <1>1, <1>2, <1>3, <1>6, <1>8 DEF LinkAt, OrderAt, HelloAt, Unsaid, Active, q, t
  <2>3. DataAt(s, t)'
    <3>1. DataAt(s, t) /\ Awaiting(s, t) /\ Engaged(s, t)
      BY <1>1, <1>2, <1>9 DEF LinkAt, Awaiting, Engaged, t
    <3> QED BY <1>2, <1>6, <1>9, <3>1 DEF DataAt, q
  <2>4. AckAt(s, t)'
    BY <1>2, <1>3, <1>4, <1>6, <1>7, <1>8, EmptyWire DEF AckAt, Awaiting, AckBase, q
  <2> QED BY <2>1, <2>2, <2>3, <2>4 DEF LinkAt
<1>11. LinkAt(q, t)'
  <2>1. PlacesAt(q, t)' /\ PhasesAt(q, t)' /\ HeldAt(q, t)'
    BY <1>1, <1>2, <1>6, <1>8 DEF LinkAt, PlacesAt, PhasesAt, HeldAt, Compatible
  <2>2. OrderAt(q, t)' /\ HelloAt(q, t)'
    BY <1>0, <1>1, <1>2, <1>3, <1>6, <1>8 DEF LinkAt, OrderAt, HelloAt, Unsaid, Active, t
  <2>3. DataAt(q, t)'
    <3>1. Expect(q, t)' = 0
      BY <1>2, <1>6, <1>9 DEF Expect
    <3> QED BY <1>0, <1>2, <1>3, <1>7, <1>8, <3>1, EmptyWire DEF DataAt
  <2>4. AckAt(q, t)'
    <3>1. AckAt(q, t) /\ Awaiting(s, t) /\ AckBase(s, t)' = AckBase(s, t)
      BY <1>1, <1>2, <1>9 DEF LinkAt, Awaiting, AckBase
    <3> QED BY <1>0, <1>2, <1>6, <1>7, <1>8, <3>1 DEF AckAt
  <2> QED BY <2>1, <2>2, <2>3, <2>4 DEF LinkAt
<1> QED BY <1>0, <1>2, <1>3, <1>5, <1>10, <1>11, RunStep DEF q

-----------------------------------------------------------------------------
(***************************************************************************)
(* Positions and frames are taken.                                         *)
(***************************************************************************)

\* A step of the run of s on t that moves the start of its replay buffer, up to what the peer
\* has received.
LEMMA AckedStep ==
    ASSUME IInv, TInv', UNCHANGED <<receiveBuffer, history, localClosed>>,
           NEW s \in Sides, NEW t \in Transports, RunOf(s, t), Active(s, t), Active(s, t)',
           \A z \in Sides : z # s => sendBuffer'[z] = sendBuffer[z],
           sendBuffer'[s].end = sendBuffer[s].end,
           sendBuffer[s].start <= sendBuffer'[s].start,
           sendBuffer'[s].start <= receiveBuffer[Peer(s)].end,
           LinkAt(s, t)', LinkAt(Peer(s), t)'
    PROVE  IInv'
<1>1. /\ TInv /\ \A z \in Sides : z = s \/ z = Peer(s)
      /\ \A z \in Sides : sendBuffer'[z].end = sendBuffer[z].end
  BY PeerFacts DEF IInv
<1>2. StreamIntact' /\ written' = written /\ delivered' = delivered
  BY DEF IInv, StreamIntact, history
<1>3. ReplayCovers'
  BY <1>1 DEF IInv, ReplayCovers
<1>4. \A z \in Sides : phase'[z][First] = "idle" => phase[z][First] = "idle"
  BY <1>1, ConstAssumption DEF RunOf, Untouched, Active
<1>5. Fresh'
  BY <1>1, <1>2, <1>4 DEF IInv, Fresh, Unused
<1>6. Onward
  <2> SUFFICES ASSUME NEW z \in Sides
               PROVE  /\ sendBuffer[z].start <= sendBuffer'[z].start
                      /\ sendBuffer[z].end <= sendBuffer'[z].end
                      /\ receiveBuffer[z].end <= receiveBuffer'[z].end
    BY <1>1 DEF Onward
  <2>1. sendBuffer[z].start \in Nat /\ sendBuffer[z].end \in Nat /\ receiveBuffer[z].end \in Nat
    BY <1>1, RunTypes
  <2> QED BY <1>1, <2>1
<1>7. ASSUME NEW u \in Transports, u # t PROVE Untouched(u) /\ Still(u)
  BY <1>1, <1>7, RunsAlone DEF RunOf, Still
<1>8. \A z \in Sides : LinkAt(z, t)'
  BY <1>1
<1> QED BY <1>2, <1>3, <1>5, <1>6, <1>7, <1>8, LinkStep

\* ReceiveHello: both ends now agree on where the stream of s continues.
LEMMA ReceiveHelloSafe ==
    ASSUME IInv, TInv', NEW s \in Sides, NEW t \in Transports, ReceiveHello(s, t)
    PROVE  IInv'
<1> DEFINE q == Peer(s)
           p == hello[s][t]
<1>0. q \in Sides /\ Peer(q) = s /\ q # s /\ \A z \in Sides : z # s => z = q
  BY PeerFacts
<1>1. LinkAt(s, t) /\ LinkAt(q, t) /\ TInv /\ RunsOK /\ NetOK /\ BuffersOK
  BY <1>0 DEF IInv, TInv, TypeOK, Links
<1>2. /\ phase[s][t] = "greeted" /\ p # NoPosition /\ Compatible(s, p)
      /\ UNCHANGED <<receiveBuffer, history, localClosed, localPosition, wire, open, cut>>
  BY DEF ReceiveHello, closes
<1>3. /\ phase'[s][t] = "loops" /\ writer'[s][t] = "run" /\ reader'[s][t] = "frame"
      /\ remainingSize'[s][t] = 0
      /\ \A z \in Sides, u \in Transports : z # s \/ u # t =>
           /\ phase'[z][u] = phase[z][u] /\ writer'[z][u] = writer[z][u]
           /\ reader'[z][u] = reader[z][u] /\ label'[z][u] = label[z][u]
           /\ remainingSize'[z][u] = remainingSize[z][u]
  BY <1>1, StartLoopsFacts DEF ReceiveHello
<1>4. /\ hello'[s][t] = NoPosition /\ peerPosition'[s][t] = p
      /\ \A z \in Sides, u \in Transports : z # s \/ u # t =>
           hello'[z][u] = hello[z][u] /\ peerPosition'[z][u] = peerPosition[z][u]
  BY <1>1 DEF ReceiveHello, RunsOK, NetOK, PerRunOf
<1>5. /\ p \in Nat /\ sendBuffer[s].start \in Nat /\ sendBuffer[s].end \in Nat
      /\ sendBuffer[s] \in SendType
  BY <1>1, <1>2, RunTypes, BufferFacts
<1>6. /\ sendBuffer'[s].start = p /\ sendBuffer'[s].end = sendBuffer[s].end
      /\ \A z \in Sides : z # s => sendBuffer'[z] = sendBuffer[z]
  <2>1. p - sendBuffer[s].start \in Nat /\ p - sendBuffer[s].start <= len(sendBuffer[s])
        /\ sendBuffer[s].start + (p - sendBuffer[s].start) = p
    BY <1>2, <1>5 DEF Compatible, len
  <2>2. /\ sendBuffer'[s] = advance(sendBuffer[s], p - sendBuffer[s].start)
        /\ \A z \in Sides : z # s => sendBuffer'[z] = sendBuffer[z]
    BY <1>1 DEF ReceiveHello, BuffersOK
  <2> HIDE DEF p
  <2> QED BY <1>5, <2>1, <2>2, SendFacts
<1>7. RunOf(s, t) /\ Active(s, t) /\ Active(s, t)'
  BY <1>0, <1>2, <1>3, <1>4 DEF RunOf, Untouched, Active
<1>8. /\ phase'[q][t] = phase[q][t] /\ reader'[q][t] = reader[q][t]
      /\ label'[q][t] = label[q][t] /\ remainingSize'[q][t] = remainingSize[q][t]
      /\ writer'[q][t] = writer[q][t] /\ hello'[q][t] = hello[q][t]
      /\ peerPosition'[q][t] = peerPosition[q][t] /\ sendBuffer'[q] = sendBuffer[q]
  BY <1>0, <1>3, <1>4, <1>6
<1>9. /\ t # First /\ ~Unsaid(q, t) /\ wire[q][t] = <<>> /\ p <= receiveBuffer[q].end
      /\ Active(q, t) => p = receiveBuffer[q].end /\ remainingSize[q][t] = 0
      /\ reader[s][t] = "off" /\ remainingSize[s][t] = 0 /\ phase[q][t] \in PhaseNames
      /\ receiveBuffer[q].end \in Nat
  BY <1>0, <1>1, <1>2, RunTypes DEF LinkAt, PhasesAt, OrderAt, HelloAt
<1>10. Awaiting(q, t) \/ Engaged(q, t) => Expect(q, t) = p
  <2>1. phase[q][t] # "done" => Active(q, t)
    BY <1>9 DEF Unsaid, Active, PhaseNames
  <2>2. Awaiting(q, t) \/ Engaged(q, t) => Active(q, t)
    BY <1>9, <2>1 DEF Awaiting, Engaged
  <2> HIDE DEF q, p
  <2> QED BY <1>5, <1>9, <2>2 DEF Expect
<1> HIDE DEF q, p
<1>11. LinkAt(s, t)'
  <2>1. PlacesAt(s, t)' /\ PhasesAt(s, t)' /\ HeldAt(s, t)'
    BY <1>2, <1>3, <1>4, <1>5, <1>6, <1>9 DEF PlacesAt, PhasesAt, HeldAt, Compatible
  <2>2. OrderAt(s, t)' /\ HelloAt(s, t)'
    BY <1>1, <1>2, <1>3, <1>4, <1>8, <1>9 DEF LinkAt, OrderAt, HelloAt, Unsaid, Active, q
  <2>3. DataAt(s, t)'
    <3>1. DataAt(s, t) /\ Awaiting(s, t) /\ Engaged(s, t) /\ Expect(s, t)' = Expect(s, t)
      BY <1>1, <1>2, <1>3, <1>9 DEF LinkAt, Awaiting, Engaged, Active, Expect
    <3> QED BY <1>2, <1>8, <3>1 DEF DataAt, q
  <2>4. AckAt(s, t)'
    BY <1>1, <1>2, <1>8 DEF LinkAt, AckAt, Awaiting, AckBase, q
  <2> QED BY <2>1, <2>2, <2>3, <2>4 DEF LinkAt
<1>12. LinkAt(q, t)'
  <2>1. PlacesAt(q, t)' /\ PhasesAt(q, t)' /\ HeldAt(q, t)'
    <3>1. localPosition'[q][t] = localPosition[q][t]
      BY <1>2
    <3> QED BY <1>1, <1>2, <1>8, <1>9, <3>1 DEF LinkAt, PlacesAt, PhasesAt, HeldAt, Compatible
  <2>2. OrderAt(q, t)' /\ HelloAt(q, t)'
    BY <1>0, <1>1, <1>2, <1>3, <1>4, <1>8, <1>9 DEF LinkAt, OrderAt, HelloAt, Unsaid
  <2>3. DataAt(q, t)'
    <3>1. /\ DataAt(q, t) /\ Expect(q, t)' = Expect(q, t)
          /\ Awaiting(q, t)' <=> Awaiting(q, t)
          /\ Engaged(q, t)' <=> Engaged(q, t)
      BY <1>1, <1>2, <1>8 DEF LinkAt, Expect, Awaiting, Engaged, Active
    <3> QED BY <1>0, <1>2, <1>4, <1>5, <1>6, <1>9, <1>10, <3>1, EmptyWire DEF DataAt
  <2>4. AckAt(q, t)'
    <3>1. AckAt(q, t) /\ Awaiting(s, t) /\ AckBase(s, t) = p /\ AckBase(s, t)' = p
      BY <1>1, <1>2, <1>4, <1>6, <1>9 DEF LinkAt, Awaiting, AckBase, p
    <3> QED BY <1>0, <1>2, <1>4, <1>8, <3>1 DEF AckAt, p
  <2> QED BY <2>1, <2>2, <2>3, <2>4 DEF LinkAt
<1>13. sendBuffer[s].start <= p
  BY <1>2 DEF Compatible
<1> QED BY <1>2, <1>6, <1>7, <1>9, <1>11, <1>12, <1>13, AckedStep DEF q

\* ReadErrorTag: the read loop is over.
LEMMA ReadErrorTagSafe ==
    ASSUME IInv, TInv', NEW s \in Sides, NEW t \in Transports, ReadErrorTag(s, t)
    PROVE  IInv'
<1> DEFINE q == Peer(s)
           W == wire[s][t]
<1>0. q \in Sides /\ Peer(q) = s /\ q # s
  BY PeerFacts
<1>1. LinkAt(s, t) /\ LinkAt(q, t) /\ TInv /\ RunsOK /\ NetOK
  BY <1>0 DEF IInv, TInv, TypeOK, Links
<1>2. /\ phase[s][t] = "loops" /\ reader[s][t] = "frame" /\ W # <<>>
      /\ UNCHANGED <<buffers, history, localClosed, hello, cut, sendBuffer, receiveBuffer>>
  BY DEF ReadErrorTag, Reading, buffers
<1>3. /\ UNCHANGED <<phase, writer, localPosition, peerPosition>>
      /\ reader'[s][t] = "exit" /\ remainingSize'[s][t] = 0 /\ ~open'[s][t]
      /\ \A z \in Sides, u \in Transports : z # s \/ u # t =>
           /\ reader'[z][u] = reader[z][u] /\ label'[z][u] = label[z][u]
           /\ remainingSize'[z][u] = remainingSize[z][u] /\ open'[z][u] = open[z][u]
  BY <1>1, ReaderExitsFacts DEF ReadErrorTag
<1>4. /\ wire'[s][t] = Tail(W)
      /\ \A z \in Sides, u \in Transports : z # s \/ u # t => wire'[z][u] = wire[z][u]
  BY <1>1, <1>2, TakeFrameFacts DEF ReadErrorTag
<1>5. RunOf(s, t)
  BY <1>0, <1>2, <1>3, <1>4 DEF RunOf, Untouched
<1>6. /\ reader'[q][t] = reader[q][t] /\ label'[q][t] = label[q][t]
      /\ remainingSize'[q][t] = remainingSize[q][t] /\ open'[q][t] = open[q][t]
      /\ wire'[q][t] = wire[q][t]
  BY <1>0, <1>3, <1>4
<1>7. /\ Expect(s, t)' = Expect(s, t) /\ remainingSize[s][t] = 0
      /\ (t # First => ~Unsaid(q, t)) /\ phase[q][t] \in {"loops", "done"}
      /\ hello[s][t] = NoPosition
  BY <1>0, <1>1, <1>2, <1>3, RunTypes DEF LinkAt, OrderAt, Expect
<1>8. ASSUME NEW p \in Int
      PROVE  /\ DataBelow(W, p) => DataBelow(Tail(W), p)
             /\ AckBelow(W, p) => AckBelow(Tail(W), p)
             /\ EndsAt(W, p) => EndsAt(Tail(W), p)
             /\ NoClose(W) => NoClose(Tail(W))
  <2>1. W \in Seq(FrameType)
    BY <1>1, RunTypes
  <2> HIDE DEF W
  <2> QED BY <1>2, <2>1, TakenWire
<1>9. /\ sendBuffer[q].end \in Int /\ receiveBuffer[q].end \in Int
      /\ peerPosition[q][t] \in Int /\ peerPosition[s][t] \in Int
  BY <1>0, <1>1, RunTypes
<1> HIDE DEF q
<1>10. LinkAt(s, t)'
  <2>1. PlacesAt(s, t)' /\ PhasesAt(s, t)' /\ HeldAt(s, t)'
    BY <1>1, <1>2, <1>3 DEF LinkAt, PlacesAt, PhasesAt, HeldAt, Compatible
  <2>2. OrderAt(s, t)' /\ HelloAt(s, t)'
    BY <1>1, <1>2, <1>3, <1>6, <1>7 DEF LinkAt, OrderAt, HelloAt, Unsaid, Active, q
  <2>3. DataAt(s, t)'
    <3>1. DataAt(s, t) /\ ~Awaiting(s, t)' /\ (Engaged(s, t)' <=> Engaged(s, t))
      BY <1>1, <1>3 DEF LinkAt, Awaiting, Engaged, Active
    <3> QED BY <1>2, <1>3, <1>4, <1>7, <1>8, <1>9, <3>1 DEF DataAt, q
  <2>4. AckAt(s, t)'
    BY <1>1, <1>2, <1>3, <1>6 DEF LinkAt, AckAt, Awaiting, AckBase, q
  <2> QED BY <2>1, <2>2, <2>3, <2>4 DEF LinkAt
<1>11. LinkAt(q, t)'
  <2>1. PlacesAt(q, t)' /\ PhasesAt(q, t)' /\ HeldAt(q, t)'
    BY <1>1, <1>2, <1>3, <1>6 DEF LinkAt, PlacesAt, PhasesAt, HeldAt, Compatible
  <2>2. OrderAt(q, t)' /\ HelloAt(q, t)'
    BY <1>0, <1>1, <1>2, <1>3, <1>6, <1>7 DEF LinkAt, OrderAt, HelloAt, Unsaid, Active
  <2>3. DataAt(q, t)'
    BY <1>0, <1>1, <1>2, <1>3, <1>6 DEF LinkAt, DataAt, Awaiting, Engaged, Active, Expect
  <2>4. AckAt(q, t)'
    <3>1. AckAt(q, t) /\ ~Awaiting(s, t)'
      BY <1>1, <1>3 DEF LinkAt, Awaiting
    <3> QED BY <1>0, <1>2, <1>3, <1>4, <1>7, <1>8, <1>9, <3>1 DEF AckAt
  <2> QED BY <2>1, <2>2, <2>3, <2>4 DEF LinkAt
<1> QED BY <1>2, <1>3, <1>5, <1>10, <1>11, RunStep DEF q

\* The first frame on its way to s, whose read loop waits for it: it acknowledges no more
\* than the peer has received and s has sent, and its data is what comes next.
LEMMA NextFrame ==
    ASSUME IInv, NEW s \in Sides, NEW t \in Transports, Reading(s, t, "frame"),
           wire[s][t] # <<>>
    PROVE  LET q == Peer(s)
               f == Head(wire[s][t])
           IN  /\ f.ack \in Nat /\ f.size \in Nat /\ f.first = receiveBuffer[s].end
               /\ f.first + f.size <= sendBuffer[q].end
               /\ f.close => f.first = sendBuffer[q].end
               /\ f.upto = sendBuffer[s].start + f.ack
               /\ f.upto <= receiveBuffer[q].end /\ f.upto <= peerPosition[s][t]
               /\ f.ack <= len(sendBuffer[s])
               /\ hello[s][t] = NoPosition /\ hello[q][t] = NoPosition
               /\ phase[q][t] \in {"loops", "done"} /\ remainingSize[s][t] = 0
<1> DEFINE q == Peer(s)
           W == wire[s][t]
           f == Head(W)
<1>0. q \in Sides /\ Peer(q) = s
  BY PeerFacts
<1>1. LinkAt(s, t) /\ LinkAt(q, t) /\ TInv
  BY <1>0 DEF IInv, Links
<1>2. phase[s][t] = "loops" /\ reader[s][t] = "frame" /\ W # <<>>
  BY DEF Reading
<1>3. /\ W \in Seq(FrameType) /\ remainingSize[s][t] = 0
      /\ sendBuffer[s].start \in Nat /\ sendBuffer[s].end \in Nat /\ sendBuffer[q].end \in Nat
      /\ receiveBuffer[s].end \in Nat /\ receiveBuffer[q].end \in Nat
      /\ peerPosition[s][t] \in Nat
  BY <1>0, <1>1, <1>2, RunTypes
<1>4. /\ phase[q][t] \in {"loops", "done"} /\ hello[s][t] = NoPosition
      /\ hello[q][t] = NoPosition
  BY <1>0, <1>1, <1>2 DEF LinkAt, OrderAt, PhasesAt
<1>5. f.ack \in Nat /\ f.size \in Nat /\ f.first \in Nat /\ f.upto \in Nat
  <2> HIDE DEF W
  <2>1. f \in FrameType
    BY <1>2, <1>3
  <2> HIDE DEF f
  <2> QED BY <2>1 DEF FrameType
<1>6. /\ DataChain(W, receiveBuffer[s].end) /\ DataBelow(W, sendBuffer[q].end)
      /\ EndsAt(W, sendBuffer[q].end)
  <2>1. DataAt(s, t) /\ Awaiting(s, t) /\ Expect(s, t) = receiveBuffer[s].end
    BY <1>1, <1>2, <1>3 DEF LinkAt, Awaiting, Expect
  <2> QED BY <2>1 DEF DataAt
<1>7. /\ AckChain(W, sendBuffer[s].start) /\ AckBelow(W, receiveBuffer[q].end)
      /\ AckBelow(W, peerPosition[s][t])
  <2>1. AckAt(q, t) /\ Awaiting(s, t) /\ AckBase(s, t) = sendBuffer[s].start
    BY <1>1, <1>2, <1>4 DEF LinkAt, Awaiting, AckBase
  <2> QED BY <1>0, <1>2, <2>1 DEF AckAt
<1>8. receiveBuffer[q].end <= sendBuffer[s].end
  BY <1>0 DEF IInv, ReplayCovers
<1> HIDE DEF q, W
<1>9. /\ f.first = receiveBuffer[s].end /\ f.first + f.size <= sendBuffer[q].end
      /\ f.close => f.first = sendBuffer[q].end
      /\ f.upto = sendBuffer[s].start + f.ack
      /\ f.upto <= receiveBuffer[q].end /\ f.upto <= peerPosition[s][t]
  BY <1>2, <1>3, <1>6, <1>7, TakenWire
<1> HIDE DEF f
<1>10. f.ack <= len(sendBuffer[s])
  <2>1. \A x, y, z, u, v \in Nat : u = x + v /\ u <= z /\ z <= y => v <= y - x
    OBVIOUS
  <2> QED BY <1>3, <1>5, <1>8, <1>9, <2>1, Zenon DEF len
<1> QED BY <1>3, <1>4, <1>5, <1>9, <1>10 DEF q, f, W

\* ReadHeader: the acknowledged bytes leave the replay buffer, and the data is going to be
\* read, or the read loop is over.
LEMMA ReadHeaderSafe ==
    ASSUME IInv, TInv', NEW s \in Sides, NEW t \in Transports, ReadHeader(s, t)
    PROVE  IInv'
<1> DEFINE q == Peer(s)
           W == wire[s][t]
           f == Head(W)
<1>0. q \in Sides /\ Peer(q) = s /\ q # s
  BY PeerFacts
<1>1. LinkAt(s, t) /\ LinkAt(q, t) /\ TInv /\ RunsOK /\ NetOK /\ BuffersOK
  BY <1>0 DEF IInv, TInv, TypeOK, Links
<1>2. /\ phase[s][t] = "loops" /\ reader[s][t] = "frame" /\ W # <<>>
      /\ UNCHANGED <<receiveBuffer, history, localClosed, hello, cut>>
  BY DEF ReadHeader, Reading, closes
<1>3. /\ f.ack \in Nat /\ f.size \in Nat /\ f.first = receiveBuffer[s].end
      /\ f.first + f.size <= sendBuffer[q].end
      /\ f.upto = sendBuffer[s].start + f.ack
      /\ f.upto <= receiveBuffer[q].end /\ f.upto <= peerPosition[s][t]
      /\ f.ack <= len(sendBuffer[s])
      /\ hello[s][t] = NoPosition /\ hello[q][t] = NoPosition
      /\ phase[q][t] \in {"loops", "done"} /\ remainingSize[s][t] = 0
  BY NextFrame DEF ReadHeader
<1>4. /\ wire'[s][t] = Tail(W) /\ f.first \in Nat
      /\ \A z \in Sides, u \in Transports : z # s \/ u # t => wire'[z][u] = wire[z][u]
  BY <1>1, <1>2, TakeFrameFacts DEF ReadHeader
<1>5. /\ sendBuffer[s] \in SendType
      /\ W \in Seq(FrameType) /\ sendBuffer[s].start \in Nat /\ sendBuffer[s].end \in Nat
      /\ sendBuffer[q].end \in Nat /\ receiveBuffer[s].end \in Nat
      /\ receiveBuffer[q].end \in Nat /\ peerPosition[s][t] \in Nat
      /\ peerPosition[q][t] \in Nat
  BY <1>0, <1>1, RunTypes, BufferFacts
<1> HIDE DEF f
<1>6. /\ sendBuffer'[s].start = sendBuffer[s].start + f.ack
      /\ sendBuffer'[s].end = sendBuffer[s].end
      /\ \A z \in Sides : z # s => sendBuffer'[z] = sendBuffer[z]
  <2>1. ~(f.ack > len(sendBuffer[s]))
    BY <1>3, <1>5 DEF len
  <2>2. sendBuffer' = [sendBuffer EXCEPT ![s] = advance(@, f.ack)]
    BY <2>1 DEF ReadHeader, f
  <2>3. /\ sendBuffer'[s] = advance(sendBuffer[s], f.ack)
        /\ \A z \in Sides : z # s => sendBuffer'[z] = sendBuffer[z]
    BY <1>1, <2>2 DEF BuffersOK
  <2> QED BY <1>3, <1>5, <2>3, SendFacts
<1>7. /\ UNCHANGED <<phase, writer, localPosition, peerPosition>>
      /\ \A z \in Sides, u \in Transports : z # s \/ u # t =>
           /\ reader'[z][u] = reader[z][u] /\ label'[z][u] = label[z][u]
           /\ remainingSize'[z][u] = remainingSize[z][u] /\ open'[z][u] = open[z][u]
      /\ \/ /\ remainingSize'[s][t] = f.size /\ (f.size > 0 => label'[s][t] = f.first)
            /\ open'[s][t] = open[s][t]
         \/ reader'[s][t] = "exit" /\ remainingSize'[s][t] = 0
  <2>1. CASE ReaderExits(s, t)
    BY <1>1, <2>1, ReaderExitsFacts
  <2>2. CASE ~ReaderExits(s, t)
    <3>1. /\ \/ f.size = 0 /\ ReadTo(s, t, "frame", 0, 0, 0)
             \/ ReadTo(s, t, "data", f.first, f.size, 0)
          /\ UNCHANGED <<phase, stopRequested, writer, positions, open>>
      BY <2>2 DEF ReadHeader, f
    <3>2. {"frame", "data"} \subseteq ReaderNames
      BY DEF ReaderNames
    <3>3. UNCHANGED <<phase, writer, localPosition, peerPosition, open>>
      BY <3>1 DEF positions
    <3>4. CASE f.size = 0 /\ ReadTo(s, t, "frame", 0, 0, 0)
      <4>1. /\ remainingSize'[s][t] = 0
            /\ \A z \in Sides, u \in Transports : z # s \/ u # t =>
                 /\ reader'[z][u] = reader[z][u] /\ label'[z][u] = label[z][u]
                 /\ remainingSize'[z][u] = remainingSize[z][u]
        BY <1>1, <3>2, <3>4, ReadToFacts
      <4> QED BY <3>3, <3>4, <4>1
    <3>5. CASE ReadTo(s, t, "data", f.first, f.size, 0)
      BY <1>1, <1>3, <1>4, <3>2, <3>3, <3>5, ReadToFacts
    <3> QED BY <3>1, <3>4, <3>5
  <2> QED BY <2>1, <2>2
<1>8. RunOf(s, t) /\ Active(s, t) /\ Active(s, t)'
  BY <1>0, <1>2, <1>4, <1>7 DEF RunOf, Untouched, Active
<1>9. /\ reader'[q][t] = reader[q][t] /\ label'[q][t] = label[q][t]
      /\ remainingSize'[q][t] = remainingSize[q][t] /\ open'[q][t] = open[q][t]
      /\ wire'[q][t] = wire[q][t] /\ sendBuffer'[q] = sendBuffer[q]
  BY <1>0, <1>4, <1>6, <1>7
<1>10. /\ Awaiting(s, t) /\ Engaged(s, t) /\ Expect(s, t) = receiveBuffer[s].end
       /\ Awaiting(s, t)' => /\ Expect(s, t)' = Expect(s, t) + f.size
                             /\ open'[s][t] = open[s][t]
       /\ Expect(s, t)' <= Expect(s, t) + f.size
       /\ Expect(s, t)' \in Nat
  BY <1>2, <1>3, <1>5, <1>7, SMTT(30) DEF Awaiting, Engaged, Active, Expect
<1> HIDE DEF q
<1>11. LinkAt(s, t)'
  <2>1. PlacesAt(s, t)' /\ PhasesAt(s, t)'
    BY <1>1, <1>2, <1>3, <1>5, <1>7 DEF LinkAt, PlacesAt, PhasesAt
  <2>2. HeldAt(s, t)'
    BY <1>1, <1>2, <1>3, <1>5, <1>6, <1>7 DEF LinkAt, HeldAt, Compatible
  <2>3. OrderAt(s, t)' /\ HelloAt(s, t)'
    BY <1>1, <1>2, <1>3, <1>7, <1>9 DEF LinkAt, OrderAt, HelloAt, Unsaid, Active, q
  <2>4. DataAt(s, t)'
    <3>1. DataAt(s, t)
      BY <1>1 DEF LinkAt
    <3>2. Awaiting(s, t)' => DataChain(Tail(W), Expect(s, t)')
      <4>1. DataChain(W, Expect(s, t))
        BY <1>10, <3>1 DEF DataAt
      <4> HIDE DEF W
      <4> QED BY <1>2, <1>5, <1>10, <4>1, TakenWire DEF f
    <3>3. DataBelow(Tail(W), sendBuffer[q].end) /\ EndsAt(Tail(W), sendBuffer[q].end)
      <4>1. DataBelow(W, sendBuffer[q].end) /\ EndsAt(W, sendBuffer[q].end)
        BY <3>1 DEF DataAt, q
      <4> HIDE DEF W
      <4> QED BY <1>2, <1>5, <4>1, TakenWire
    <3>4. Expect(s, t)' <= sendBuffer[q].end
      BY <1>3, <1>5, <1>10
    <3>5. ASSUME phase[q][t] = "loops"
          PROVE  /\ Awaiting(s, t)' /\ writer[q][t] = "run" /\ ~cut[t] /\ open'[s][t]
                      => peerPosition[q][t] = DataEnd(Tail(W), Expect(s, t)')
                 /\ Expect(s, t)' <= peerPosition[q][t]
                 /\ DataBelow(Tail(W), peerPosition[q][t])
      <4>1. /\ writer[q][t] = "run" /\ ~cut[t] /\ open[s][t]
                 => peerPosition[q][t] = DataEnd(W, Expect(s, t))
            /\ DataBelow(W, peerPosition[q][t]) /\ DataChain(W, Expect(s, t))
        BY <1>10, <3>1, <3>5 DEF DataAt, q
      <4> HIDE DEF W
      <4>2. /\ f.first + f.size <= peerPosition[q][t] /\ DataBelow(Tail(W), peerPosition[q][t])
            /\ DataEnd(Tail(W), Expect(s, t) + f.size) = DataEnd(W, Expect(s, t))
        BY <1>2, <1>5, <1>10, <4>1, TakenWire DEF f
      <4> QED BY <1>3, <1>5, <1>10, <4>1, <4>2, SMTT(30)
    <3>6. ~localClosed[q] => NoClose(Tail(W))
      <4>1. ~localClosed[q] => NoClose(W)
        BY <3>1 DEF DataAt, q
      <4> HIDE DEF W
      <4> QED BY <1>2, <1>5, <4>1, TakenWire
    <3> HIDE DEF W
    <3> QED BY <1>2, <1>4, <1>7, <1>9, <3>2, <3>3, <3>4, <3>5, <3>6 DEF DataAt, q
  <2>5. AckAt(s, t)'
    BY <1>1, <1>2, <1>7, <1>9 DEF LinkAt, AckAt, Awaiting, AckBase, q
  <2> QED BY <2>1, <2>2, <2>3, <2>4, <2>5 DEF LinkAt
<1>12. LinkAt(q, t)'
  <2>1. PlacesAt(q, t)' /\ PhasesAt(q, t)' /\ HeldAt(q, t)'
    BY <1>1, <1>2, <1>7, <1>9 DEF LinkAt, PlacesAt, PhasesAt, HeldAt, Compatible
  <2>2. OrderAt(q, t)' /\ HelloAt(q, t)'
    BY <1>0, <1>1, <1>2, <1>3, <1>7, <1>9 DEF LinkAt, OrderAt, HelloAt, Unsaid, Active
  <2>3. DataAt(q, t)'
    BY <1>0, <1>1, <1>2, <1>6, <1>7, <1>9
       DEF LinkAt, DataAt, Awaiting, Engaged, Active, Expect
  <2>4. AckAt(q, t)'
    <3>1. AckAt(q, t)
      BY <1>1 DEF LinkAt
    <3>2. AckBase(s, t) = sendBuffer[s].start /\ AckBase(s, t)' = AckBase(s, t) + f.ack
      BY <1>2, <1>3, <1>6 DEF AckBase
    <3>3. /\ AckChain(W, sendBuffer[s].start) /\ AckBelow(W, receiveBuffer[q].end)
          /\ AckBelow(W, peerPosition[s][t])
      BY <1>0, <1>2, <1>10, <3>1, <3>2 DEF AckAt
    <3>4. /\ AckChain(Tail(W), sendBuffer[s].start + f.ack)
          /\ AckEnd(Tail(W), sendBuffer[s].start + f.ack) = AckEnd(W, sendBuffer[s].start)
          /\ AckBelow(Tail(W), receiveBuffer[q].end)
          /\ AckBelow(Tail(W), peerPosition[s][t])
      <4> HIDE DEF W
      <4> QED BY <1>2, <1>5, <3>3, TakenWire DEF f
    <3>5. /\ phase[q][t] = "greeted" \/ writer[q][t] = "run"
          /\ ~cut[t] /\ open[s][t]
          => localPosition[q][t] = AckEnd(W, sendBuffer[s].start)
      BY <1>0, <1>10, <3>1, <3>2 DEF AckAt
    <3> HIDE DEF W
    <3> QED BY <1>0, <1>2, <1>3, <1>4, <1>7, <1>10, <3>2, <3>4, <3>5 DEF AckAt
  <2> QED BY <2>1, <2>2, <2>3, <2>4 DEF LinkAt
<1>13. /\ sendBuffer[s].start <= sendBuffer'[s].start
       /\ sendBuffer'[s].start <= receiveBuffer[q].end
  BY <1>3, <1>5, <1>6
<1> QED BY <1>2, <1>6, <1>8, <1>11, <1>12, <1>13, AckedStep DEF q

-----------------------------------------------------------------------------
(***************************************************************************)
(* Frames are sent.                                                        *)
(***************************************************************************)

\* The write loop sends a frame with all there is to acknowledge and with the data that
\* follows what it has sent; an errorTag only when there is no more.
LEMMA SendStep ==
    ASSUME IInv, TInv', NEW s \in Sides, NEW t \in Transports, NEW f \in FrameType,
           UNCHANGED <<buffers, history, localClosed, hello, open, cut, phase>>,
           UNCHANGED <<reader, label, remainingSize>>,
           phase[s][t] = "loops", writer[s][t] = "run", SendFrame(s, t, f),
           f.upto = receiveBuffer[s].end, f.first = peerPosition[s][t],
           f.ack = receiveBuffer[s].end - localPosition[s][t],
           f.first + f.size <= sendBuffer[s].end,
           f.close => localClosed[s] /\ f.first = sendBuffer[s].end,
           localPosition'[s][t] = f.upto, peerPosition'[s][t] = f.first + f.size,
           writer'[s][t] = "run" => open[s][t],
           \A z \in Sides, u \in Transports : z # s \/ u # t =>
             /\ localPosition'[z][u] = localPosition[z][u]
             /\ peerPosition'[z][u] = peerPosition[z][u] /\ writer'[z][u] = writer[z][u]
    PROVE  IInv'
<1> DEFINE q == Peer(s)
           W == wire[q][t]
           V == wire'[q][t]
<1>0. q \in Sides /\ Peer(q) = s /\ q # s
  BY PeerFacts
<1>1. /\ LinkAt(s, t) /\ LinkAt(q, t) /\ TInv /\ NetOK /\ UNCHANGED <<sendBuffer, receiveBuffer>>
  BY <1>0 DEF IInv, TInv, TypeOK, Links, buffers
<1>2. /\ V = IF Arrives(s, t) THEN Append(W, f) ELSE W
      /\ \A z \in Sides, u \in Transports : z # q \/ u # t => wire'[z][u] = wire[z][u]
  BY <1>1, WireFacts DEF NetOK
<1>3. RunOf(s, t)
  BY <1>0, <1>2 DEF RunOf, Untouched
<1>4. /\ wire'[s][t] = wire[s][t] /\ localPosition'[q][t] = localPosition[q][t]
      /\ peerPosition'[q][t] = peerPosition[q][t] /\ writer'[q][t] = writer[q][t]
  BY <1>0, <1>2
<1>5. /\ W \in Seq(FrameType) /\ f.size \in Nat /\ f.upto \in Nat /\ f.first \in Nat
      /\ sendBuffer[s].start \in Nat /\ sendBuffer[s].end \in Nat
      /\ receiveBuffer[s].end \in Nat
      /\ peerPosition[s][t] \in Nat /\ peerPosition[q][t] \in Nat
      /\ localPosition[s][t] \in Nat
      /\ Expect(q, t) \in Nat /\ Expect(s, t) \in Nat /\ remainingSize[s][t] \in Nat
      /\ AckBase(q, t) \in Int /\ hello[q][t] \in Int
      /\ wire[s][t] \in Seq(FrameType)
  BY <1>0, <1>1, RunTypes, SMTT(30) DEF FrameType, AckBase, NoPosition
<1>6. Active(s, t) /\ ~Unsaid(s, t) /\ (t # First => ~Unsaid(q, t))
  BY <1>0, <1>1 DEF Active, Unsaid, LinkAt, OrderAt
<1>7. /\ phase[q][t] = "done" => ~Arrives(s, t)
      /\ t # First /\ hello[q][t] = NoPosition /\ phase[q][t] \notin {"loops", "done"} =>
           ~Arrives(s, t) /\ W = <<>>
      /\ Arrives(s, t) => ~cut[t] /\ open[q][t]
      /\ ~cut[t] /\ open[q][t] /\ open[s][t] => Arrives(s, t)
  BY <1>0, <1>1 DEF LinkAt, PhasesAt, HelloAt, Arrives
<1>8. /\ Awaiting(q, t)' <=> Awaiting(q, t)
      /\ Engaged(q, t)' <=> Engaged(q, t)
      /\ Expect(q, t)' = Expect(q, t) /\ AckBase(q, t)' = AckBase(q, t)
      /\ Expect(s, t)' = Expect(s, t)
  BY <1>1 DEF Awaiting, Engaged, Active, Expect, AckBase
<1> HIDE DEF V
<1>9. LinkAt(s, t)'
  <2>1. PlacesAt(s, t)' /\ PhasesAt(s, t)'
    BY <1>1, <1>4 DEF LinkAt, PlacesAt, PhasesAt
  <2>2. HeldAt(s, t)'
    <3>1. sendBuffer[s].start <= f.first
      BY <1>1 DEF LinkAt, HeldAt, Compatible
    <3>2. sendBuffer[s].start <= f.first + f.size
      <4>1. \A x, y, z \in Nat : x <= y => x <= y + z
        OBVIOUS
      <4> QED BY <1>5, <3>1, <4>1, Zenon
    <3> QED BY <1>1, <3>2 DEF HeldAt, Compatible
  <2>3. OrderAt(s, t)' /\ HelloAt(s, t)'
    <3>1. V # <<>> /\ t # First /\ phase[q][t] \notin {"loops", "done"} =>
            hello[q][t] # NoPosition
      BY <1>2, <1>7
    <3> HIDE DEF q
    <3> QED BY <1>1, <1>4, <1>6, <3>1 DEF LinkAt, OrderAt, HelloAt, Unsaid, Active, q, V
  <2>4. DataAt(s, t)'
    BY <1>1, <1>4, <1>8 DEF LinkAt, DataAt, Awaiting, Engaged, Active
  <2>5. AckAt(s, t)'
    <3>1. AckAt(s, t)
      BY <1>1 DEF LinkAt
    <3>2. ASSUME Awaiting(q, t)
          PROVE  /\ AckChain(V, AckBase(q, t))
                 /\ /\ writer'[s][t] = "run" /\ ~cut[t] /\ open[q][t]
                    => localPosition'[s][t] = AckEnd(V, AckBase(q, t))
      <4>1. /\ AckChain(W, AckBase(q, t))
            /\ ~cut[t] /\ open[q][t] => localPosition[s][t] = AckEnd(W, AckBase(q, t))
        BY <3>1, <3>2 DEF AckAt
      <4> HIDE DEF W, q
      <4>2. CASE Arrives(s, t)
        <5>1. f.upto = localPosition[s][t] + f.ack
          BY <1>5, SMTT(30)
        <5> QED BY <1>2, <1>5, <1>7, <4>1, <4>2, <5>1, SentWire, SMTT(30)
      <4>3. CASE ~Arrives(s, t)
        BY <1>2, <1>7, <4>1, <4>3
      <4> QED BY <4>2, <4>3
    <3>3. AckBelow(V, receiveBuffer[s].end)
      <4>1. AckBelow(W, receiveBuffer[s].end)
        BY <3>1 DEF AckAt
      <4> HIDE DEF W, q
      <4> QED BY <1>2, <1>5, <4>1, SentWire, SMTT(30)
    <3>4. ASSUME phase[q][t] = "loops" PROVE AckBelow(V, peerPosition[q][t])
      <4>1. Engaged(s, t) /\ DataAt(s, t)
        BY <1>1, <1>6 DEF Engaged, LinkAt
      <4>2. AckBelow(W, peerPosition[q][t]) /\ Expect(s, t) <= peerPosition[q][t]
        BY <3>1, <3>4, <4>1 DEF AckAt, DataAt
      <4> HIDE DEF W, q
      <4>3. f.upto <= peerPosition[q][t]
        <5>1. Expect(s, t) = f.upto + remainingSize[s][t]
          BY DEF Expect
        <5>2. f.upto + remainingSize[s][t] <= peerPosition[q][t]
          BY <4>2, <5>1
        <5>3. \A a, b, c \in Nat : a + b <= c => a <= c
          OBVIOUS
        <5> QED BY <1>5, <5>2, <5>3
      <4>4. peerPosition[q][t] \in Int
        BY <1>5
      <4> QED BY <1>2, <1>5, <4>2, <4>3, <4>4, SentWire
    <3>5. ASSUME hello[q][t] # NoPosition PROVE AckBelow(V, hello[q][t])
      <4>1. AckBelow(W, hello[q][t]) /\ hello[q][t] = receiveBuffer[s].end
        BY <1>1, <1>6, <3>1, <3>5 DEF AckAt, LinkAt, HelloAt
      <4> HIDE DEF W, q
      <4> QED BY <1>2, <1>5, <4>1, SentWire
    <3>6. phase'[s][t] # "greeted" /\ phase'[q][t] = phase[q][t] /\ hello'[q][t] = hello[q][t]
          /\ open'[q][t] = open[q][t] /\ cut'[t] = cut[t]
      BY <1>0
    <3> HIDE DEF q
    <3> QED BY <1>1, <1>4, <1>8, <3>2, <3>3, <3>4, <3>5, <3>6 DEF AckAt, V, q
  <2> QED BY <2>1, <2>2, <2>3, <2>4, <2>5 DEF LinkAt
<1>10. LinkAt(q, t)'
  <2>1. PlacesAt(q, t)' /\ PhasesAt(q, t)' /\ HeldAt(q, t)'
    <3>1. phase[q][t] = "done" => V = W
      BY <1>2, <1>7
    <3> QED BY <1>1, <1>4, <3>1 DEF LinkAt, PlacesAt, PhasesAt, HeldAt, Compatible, V
  <2>2. OrderAt(q, t)' /\ HelloAt(q, t)'
    BY <1>0, <1>1, <1>4, <1>6 DEF LinkAt, OrderAt, HelloAt, Unsaid, Active
  <2>3. DataAt(q, t)'
    <3>1. DataAt(q, t)
      BY <1>1 DEF LinkAt
    <3>2. /\ DataBelow(W, sendBuffer[s].end) /\ EndsAt(W, sendBuffer[s].end)
          /\ DataBelow(W, peerPosition[s][t]) /\ (~localClosed[s] => NoClose(W))
          /\ Expect(q, t) <= sendBuffer[s].end
          /\ Engaged(q, t) => Expect(q, t) <= peerPosition[s][t]
          /\ Awaiting(q, t) => DataChain(W, Expect(q, t))
          /\ Awaiting(q, t) /\ ~cut[t] /\ open[q][t] =>
               peerPosition[s][t] = DataEnd(W, Expect(q, t))
      BY <1>0, <3>1 DEF DataAt
    <3> HIDE DEF W, q
    <3>3. peerPosition[s][t] <= f.first + f.size /\ f.first + f.size \in Nat
      <4>1. \A x, y \in Nat : x <= x + y /\ x + y \in Nat
        OBVIOUS
      <4> QED BY <1>5, <4>1, Zenon
    <3>4. DataBelow(W, f.first + f.size)
      BY <1>5, <3>2, <3>3, Raised, SMTT(30)
    <3>5. /\ DataBelow(V, sendBuffer[s].end) /\ EndsAt(V, sendBuffer[s].end)
          /\ DataBelow(V, f.first + f.size)
          /\ Awaiting(q, t) => DataChain(V, Expect(q, t))
          /\ Awaiting(q, t) /\ ~cut[t] /\ open[q][t] /\ open[s][t] =>
               f.first + f.size = DataEnd(V, Expect(q, t))
      <4>1. CASE Arrives(s, t)
        <5>1. V = Append(W, f) /\ ~cut[t] /\ open[q][t]
          BY <1>2, <1>7, <4>1
        <5>2. /\ DataBelow(V, sendBuffer[s].end) /\ EndsAt(V, sendBuffer[s].end)
              /\ DataBelow(V, f.first + f.size)
          BY <1>5, <3>2, <3>3, <3>4, <5>1, SentWire, SMTT(30)
        <5>3. Awaiting(q, t) =>
                DataChain(V, Expect(q, t)) /\ f.first + f.size = DataEnd(V, Expect(q, t))
          BY <1>5, <3>2, <5>1, SentWire
        <5> QED BY <5>2, <5>3
      <4>2. CASE ~Arrives(s, t)
        BY <1>2, <1>7, <3>2, <3>4, <4>2
      <4> QED BY <4>1, <4>2
    <3>6. ~localClosed[s] => NoClose(V)
      BY <1>2, <1>5, <3>2, SentWire
    <3>7. Engaged(q, t) => Expect(q, t) <= f.first + f.size
      BY <1>5, <3>2, <3>3
    <3>8. /\ cut'[t] = cut[t] /\ open'[q][t] = open[q][t] /\ sendBuffer'[s] = sendBuffer[s]
          /\ localClosed'[s] = localClosed[s] /\ wire'[q][t] = V
      BY <1>1 DEF V
    <3> QED BY <1>0, <1>8, <3>2, <3>5, <3>6, <3>7, <3>8 DEF DataAt
  <2>4. AckAt(q, t)'
    <3>1. AckAt(q, t) /\ peerPosition[s][t] <= peerPosition'[s][t]
          /\ peerPosition'[s][t] \in Int
      BY <1>1, <1>5, SMTT(30) DEF LinkAt
    <3>2. AckBelow(wire[s][t], peerPosition'[s][t])
      BY <1>0, <1>5, <3>1, Raised DEF AckAt
    <3>3. (Awaiting(s, t)' <=> Awaiting(s, t)) /\ AckBase(s, t)' = AckBase(s, t)
      BY <1>1 DEF Awaiting, AckBase
    <3> QED BY <1>0, <1>1, <1>4, <3>1, <3>2, <3>3 DEF AckAt
  <2> QED BY <2>1, <2>2, <2>3, <2>4 DEF LinkAt
<1> QED BY <1>3, <1>9, <1>10, RunStep DEF q

LEMMA WriteFrameSafe ==
    ASSUME IInv, TInv', NEW s \in Sides, NEW t \in Transports, WriteFrame(s, t)
    PROVE  IInv'
<1>1. TInv /\ RunsOK /\ RunShapeAt(s, t) /\ LinkAt(s, t)
  BY DEF IInv, TInv, TypeOK, RunShape, Links
<1>2. /\ phase[s][t] = "loops" /\ writer[s][t] = "run" /\ open[s][t]
      /\ UNCHANGED <<buffers, history, localClosed, hello, open, cut, phase>>
      /\ UNCHANGED <<reader, label, remainingSize, writer>>
  BY DEF WriteFrame, Writing, closes, reading
<1>3. /\ receiveBuffer[s].end \in Nat /\ localPosition[s][t] \in Nat
      /\ peerPosition[s][t] \in Nat /\ sendBuffer[s].end \in Nat
      /\ localPosition[s][t] <= receiveBuffer[s].end
  BY <1>1, <1>2, RunTypes DEF RunShapeAt, Active
<1>4. PICK n \in 0 .. maxFrameSize :
        /\ n <= Unsent(s, t)
        /\ SendFrame(s, t, Frame(FrameAck(s, t), receiveBuffer[s].end, peerPosition[s][t], n))
        /\ peerPosition' = [peerPosition EXCEPT ![s][t] = @ + n]
  BY DEF WriteFrame
<1> DEFINE f == Frame(FrameAck(s, t), receiveBuffer[s].end, peerPosition[s][t], n)
<1>5. n \in Nat
  BY <1>4, ConstAssumption
<1>6. /\ f \in FrameType /\ f.upto = receiveBuffer[s].end /\ f.first = peerPosition[s][t]
      /\ f.ack = receiveBuffer[s].end - localPosition[s][t] /\ f.size = n /\ ~f.close
  BY <1>3, <1>5 DEF Frame, FrameType, FrameAck
<1>7. f.first + f.size <= sendBuffer[s].end
  BY <1>3, <1>4, <1>5, <1>6 DEF Unsent
<1>8. /\ localPosition'[s][t] = f.upto /\ peerPosition'[s][t] = f.first + f.size
      /\ \A z \in Sides, u \in Transports : z # s \/ u # t =>
           /\ localPosition'[z][u] = localPosition[z][u]
           /\ peerPosition'[z][u] = peerPosition[z][u]
  BY <1>1, <1>4, <1>6 DEF WriteFrame, RunsOK, PerRunOf
<1>9. SendFrame(s, t, f)
  BY <1>4
<1> HIDE DEF f
<1> QED BY <1>2, <1>6, <1>7, <1>8, <1>9, SendStep

\* WriteErrorTag: everything written has been sent, and no more will be written.
LEMMA WriteErrorTagSafe ==
    ASSUME IInv, TInv', NEW s \in Sides, NEW t \in Transports, WriteErrorTag(s, t)
    PROVE  IInv'
<1>1. TInv /\ RunsOK /\ RunShapeAt(s, t) /\ LinkAt(s, t)
  BY DEF IInv, TInv, TypeOK, RunShape, Links
<1>2. /\ phase[s][t] = "loops" /\ writer[s][t] = "run" /\ localClosed[s] /\ ~HasFrame(s, t)
      /\ UNCHANGED <<buffers, history, localClosed, hello, open, cut>> /\ WriterExits(s, t)
  BY DEF WriteErrorTag, Writing, closes
<1>3. /\ writer'[s][t] = "exit" /\ UNCHANGED <<phase, reader, label, remainingSize>>
      /\ UNCHANGED <<localPosition, peerPosition>>
      /\ \A z \in Sides, u \in Transports : z # s \/ u # t => writer'[z][u] = writer[z][u]
  BY <1>1, <1>2, WriterExitsFacts
<1>4. /\ receiveBuffer[s].end \in Nat /\ localPosition[s][t] \in Nat
      /\ peerPosition[s][t] \in Nat /\ sendBuffer[s].end \in Nat
      /\ localPosition[s][t] <= receiveBuffer[s].end
      /\ peerPosition[s][t] <= sendBuffer[s].end
  BY <1>1, <1>2, RunTypes DEF RunShapeAt, Active, LinkAt, HeldAt, Compatible
<1>5. localPosition[s][t] = receiveBuffer[s].end /\ peerPosition[s][t] = sendBuffer[s].end
  BY <1>2, <1>4 DEF HasFrame, FrameAck, Unsent
<1> DEFINE f == ErrorTag(receiveBuffer[s].end, peerPosition[s][t])
<1>6. /\ f \in FrameType /\ f.upto = receiveBuffer[s].end /\ f.first = peerPosition[s][t]
      /\ f.ack = receiveBuffer[s].end - localPosition[s][t] /\ f.size = 0
  BY <1>4, <1>5 DEF ErrorTag, FrameType
<1>7. f.first + f.size = f.first /\ f.first <= sendBuffer[s].end
  BY <1>4, <1>6
<1>8. SendFrame(s, t, f)
  BY DEF WriteErrorTag
<1> HIDE DEF f
<1> QED BY <1>2, <1>3, <1>5, <1>6, <1>7, <1>8, SendStep

-----------------------------------------------------------------------------
(***************************************************************************)
(* The theorems.                                                           *)
(***************************************************************************)

\* A new connection satisfies the invariant.
LEMMA InitSafe == Init => IInv
<1> SUFFICES ASSUME Init PROVE IInv
  OBVIOUS
<1>1. TInv
  BY InitTypes
<1>2. \A s \in Sides :
        /\ sendBuffer[s].start = 0 /\ sendBuffer[s].end = 0 /\ written[s] = 0
        /\ receiveBuffer[s].start = 0 /\ receiveBuffer[s].end = 0
        /\ DOMAIN receiveBuffer[s].data = {}
        /\ delivered[s] = <<>>
  BY DEF Init, EmptySend, EmptyReceive
<1>3. \A s \in Sides, t \in Transports :
        /\ phase[s][t] = "idle" /\ reader[s][t] = "off" /\ writer[s][t] = "off"
        /\ remainingSize[s][t] = 0 /\ localPosition[s][t] = 0 /\ peerPosition[s][t] = 0
        /\ hello[s][t] = NoPosition /\ wire[s][t] = <<>>
  BY DEF Init, PerRun
<1>4. StreamIntact /\ ReplayCovers
  BY <1>2, PeerFacts DEF StreamIntact, ReplayCovers
<1>5. Fresh
  BY <1>2 DEF Fresh, Unused
<1>6. ASSUME NEW s \in Sides, NEW t \in Transports PROVE LinkAt(s, t)
  <2> DEFINE q == Peer(s)
  <2>1. q \in Sides
    BY PeerFacts
  <2>2. Expect(s, t) = 0 /\ AckBase(q, t) = 0
    BY <1>2, <1>3, <2>1 DEF Expect, AckBase
  <2>3. /\ PlacesAt(s, t) /\ PhasesAt(s, t) /\ OrderAt(s, t) /\ HelloAt(s, t) /\ HeldAt(s, t)
    BY <1>3, <2>1 DEF PlacesAt, PhasesAt, OrderAt, HelloAt, HeldAt
  <2>4. DataAt(s, t)
    BY <1>2, <1>3, <2>1, <2>2, EmptyWire DEF DataAt
  <2>5. AckAt(s, t)
    BY <1>2, <1>3, <2>1, <2>2, EmptyWire DEF AckAt
  <2> QED BY <2>3, <2>4, <2>5 DEF LinkAt
<1> QED BY <1>1, <1>4, <1>5, <1>6 DEF IInv, Links

\* Every step preserves it: one lemma per action, or for those that do the same.
LEMMA StepSafe == IInv /\ [Next]_vars => IInv'
<1> SUFFICES ASSUME IInv, [Next]_vars PROVE IInv'
  OBVIOUS
<1>0. TInv'
  BY StepTypes DEF IInv
<1>1. ASSUME NEW s \in Sides, App(s) PROVE IInv'
  BY <1>0, <1>1, WriteSafe, ReadSafe, CloseSafe DEF App
<1>2. ASSUME NEW s \in Sides, NEW t \in Transports, Network(s, t) PROVE IInv'
  BY <1>0, <1>2, CutSafe, LoseFrameSafe, LoseHelloSafe DEF Network
<1>3. ASSUME NEW t \in Transports, Dialing(t) PROVE IInv'
  <2>1. "client" \in Sides
    BY DEF Sides
  <2> QED BY <1>0, <1>3, <2>1, DialingSafe, FinishedSafe DEF Dialing
<1>4. ASSUME NEW s \in Sides, NEW t \in Transports, Attachment(s, t) PROVE IInv'
  BY <1>0, <1>4, RequestDetachSafe, AttachSafe, FinishedSafe DEF Attachment
<1>5. ASSUME NEW s \in Sides, NEW t \in Transports, Handshake(s, t) PROVE IInv'
  BY <1>0, <1>5, SendHelloSafe, ReceiveHelloSafe, RejectHelloSafe,
     HandshakeTimeoutSafe, FinishedSafe DEF Handshake
<1>6. ASSUME NEW s \in Sides, NEW t \in Transports, ReadLoop(s, t) PROVE IInv'
  BY <1>0, <1>6, ReadErrorTagSafe, ReadHeaderSafe, ReaderExitSafe, StartDiscardSafe,
     ReserveChunkSafe, FillSafe, DiscardSafe DEF ReadLoop
<1>7. ASSUME NEW s \in Sides, NEW t \in Transports, WriteLoop(s, t) PROVE IInv'
  BY <1>0, <1>7, WriteFrameSafe, WriterExitSafe, WriteErrorTagSafe DEF WriteLoop
<1>8. ASSUME NEW s \in Sides, AttachFirst(s) PROVE IInv'
  BY <1>0, <1>8, AttachFirstSafe
<1>9. CASE UNCHANGED vars
  <2>1. /\ UNCHANGED <<buffers, history, localClosed, phase, hello, wire>>
        /\ UNCHANGED <<localPosition, peerPosition, cut, open, writer>>
        /\ UNCHANGED <<reader, label, remainingSize>>
    BY <1>9 DEF vars, closes, runs, reading, positions, net
  <2> QED BY <1>0, <2>1, StopStep
<1> QED BY <1>1, <1>2, <1>3, <1>4, <1>5, <1>6, <1>7, <1>8, <1>9 DEF Next

\* The whole invariant, always, for any transports, buffer and frame sizes.
THEOREM SafeAlways == Spec => []IInv
BY InitSafe, StepSafe, PTL DEF Spec

\* StreamIntact: whatever transports break, are replaced or lose, Read hands out the bytes
\* that the peer's Write accepted, in order, without a gap or a repetition.
THEOREM StreamAlwaysIntact == Spec => []StreamIntact
<1>1. IInv => StreamIntact
  BY DEF IInv
<1> QED BY <1>1, SafeAlways, PTL

\* ReplayCovers: a byte leaves the replay buffer only when the peer has received it, so that
\* an attached transport can always replay what an earlier one lost.
THEOREM ReplayAlwaysCovers == Spec => []ReplayCovers
<1>1. IInv => ReplayCovers
  BY DEF IInv
<1> QED BY <1>1, SafeAlways, PTL

\* NoProtocolError: "got ack bigger than current send buffer" is never met between two
\* correct ends, and the write loop never skips backwards or past what is buffered.
LEMMA InvNoProtocolError == IInv => NoProtocolError
<1> SUFFICES ASSUME IInv, NEW s \in Sides, NEW t \in Transports, phase[s][t] = "loops"
             PROVE  /\ reader[s][t] = "frame" /\ wire[s][t] # <<>>
                         => Head(wire[s][t]).ack <= len(sendBuffer[s])
                    /\ writer[s][t] = "run" => Compatible(s, peerPosition[s][t])
  BY DEF NoProtocolError
<1>1. reader[s][t] = "frame" /\ wire[s][t] # <<>> =>
        Head(wire[s][t]).ack <= len(sendBuffer[s])
  BY NextFrame DEF Reading
<1>2. Compatible(s, peerPosition[s][t])
  BY DEF IInv, Links, LinkAt, HeldAt
<1> QED BY <1>1, <1>2

\* NoProtocolError, always.
THEOREM NeverProtocolError == Spec => []NoProtocolError
BY InvNoProtocolError, SafeAlways, PTL

\* DataSafe, the three together: what the run with three transports checks holds for any
\* number of them.
THEOREM DataAlwaysSafe == Spec => []DataSafe
<1>1. IInv => DataSafe
  BY InvNoProtocolError DEF IInv, DataSafe
<1> QED BY <1>1, SafeAlways, PTL

\* CleanCloseComplete: the errorTag that Close makes the write loop send is read only after
\* every byte written before it.
THEOREM CloseAlwaysComplete == Spec => []CleanCloseComplete
<1>1. IInv => CleanCloseComplete
  <2> SUFFICES ASSUME IInv, NEW s \in Sides, NEW t \in Transports,
                      Reading(s, t, "frame"), wire[s][t] # <<>>, Head(wire[s][t]).close
               PROVE  receiveBuffer[s].end = written[Peer(s)]
    BY DEF CleanCloseComplete
  <2>1. written[Peer(s)] = sendBuffer[Peer(s)].end
    BY PeerFacts DEF IInv, Fresh
  <2> QED BY <2>1, NextFrame
<1> QED BY <1>1, SafeAlways, PTL

-----------------------------------------------------------------------------
(***************************************************************************)
(* Refinement: ResumableConn implements DuplexStream, as long as nobody    *)
(* takes the branch of "got incompatible resume position".  A position of  *)
(* a run that is already over may lead there (RejectHello), and the        *)
(* connection is then given up with bytes outstanding; every other step of *)
(* the protocol is one of the abstract stream, or changes nothing in it.   *)
(***************************************************************************)
NoReject == \A s \in Sides, t \in Transports : ~RejectHello(s, t)

\* Who knows that its peer is gone has everything the peer wrote.
GoneComplete ==
    \A s \in Sides : remoteClosed[s] =>
      localClosed[Peer(s)] /\ receiveBuffer[s].end = written[Peer(s)]

\* What s has received, as the abstract stream sees it.
Got(s) == receiveBuffer[s].end

\* Steps of ResumableConn that the abstract stream does not see.
LEMMA UnseenStep ==
    ASSUME UNCHANGED <<written, delivered, localClosed, remoteClosed>>,
           \A z \in Sides : Got(z)' = Got(z)
    PROVE  UNCHANGED Stream!vars
BY DEF Got, Stream!vars, Stream!Sides, Sides

\* n bytes reach s.
LEMMA ReceiveImplements ==
    ASSUME IInv, IInv', GoneComplete, NEW s \in Sides, NEW n \in Nat,
           UNCHANGED <<history, localClosed, remoteClosed>>,
           Got(s)' = Got(s) + n, \A z \in Sides : z # s => Got(z)' = Got(z)
    PROVE  [Stream!Next]_(Stream!vars)
<1> DEFINE q == Peer(s)
<1>1. q \in Sides /\ UNCHANGED <<written, delivered>>
  BY PeerFacts DEF history
<1>2. /\ Got(s) \in Nat /\ written[q] \in Nat /\ Got(s)' <= written[q]
  <2>1. TInv /\ TypeOK /\ StreamIntact'
    BY DEF IInv, TInv
  <2>2. Got(s) \in Nat /\ written[q] \in Nat
    BY <1>1, <2>1, BufferFacts DEF TypeOK, HistoryOK, Got
  <2> QED BY <1>1, <2>1, <2>2 DEF StreamIntact, Got
<1>3. CASE n = 0
  BY <1>1, <1>2, <1>3, UnseenStep
<1>4. CASE n # 0
  <2>1. n \in 1 .. (written[q] - Got(s)) /\ Got(s) # written[q]
    BY <1>2, <1>4
  <2>2. ~remoteClosed[s]
    BY <2>1 DEF GoneComplete, Got
  <2> DEFINE R == [z \in Sides |-> receiveBuffer[z].end]
  <2>3. [z \in Sides |-> receiveBuffer'[z].end] = [R EXCEPT ![s] = @ + n]
    BY DEF Got
  <2>4. R[s] = Got(s)
    BY DEF Got
  <2>5. Stream!Sides = Sides /\ Stream!Peer(s) = q
    BY DEF Stream!Sides, Stream!Peer, Sides, Peer
  <2>6. Stream!Receive(s)
    <3> HIDE DEF q
    <3> QED BY <1>1, <2>1, <2>2, <2>3, <2>4, <2>5 DEF Stream!Receive
  <2> QED BY <2>5, <2>6 DEF Stream!Next
<1> QED BY <1>3, <1>4

\* Write, Read and Close are those of the abstract stream.
LEMMA AppImplements ==
    ASSUME IInv, NEW s \in Sides, App(s)
    PROVE  Stream!Next
<1>0. Stream!Sides = Sides
  BY DEF Stream!Sides, Sides
<1>1. TypeOK /\ StreamIntact /\ BuffersOK /\ HistoryOK
  BY DEF IInv, TInv, TypeOK
<1> DEFINE R == [z \in Sides |-> receiveBuffer[z].end]
<1>2. CASE Write(s)
  <2>1. PICK n \in 1 .. (sendBufferSize - len(sendBuffer[s])) :
          written' = [written EXCEPT ![s] = @ + n]
    BY <1>2 DEF Write
  <2>2. n \in Nat /\ n > 0
    BY <1>1, <2>1, BufferFacts, ConstAssumption DEF len
  <2>3. /\ written'[s] \in Nat /\ written'[s] > written[s]
        /\ written' = [written EXCEPT ![s] = written'[s]]
    BY <1>1, <2>1, <2>2 DEF HistoryOK
  <2>4. /\ ~localClosed[s] /\ ~remoteClosed[s]
        /\ UNCHANGED <<receiveBuffer, delivered, localClosed, remoteClosed>>
    BY <1>2 DEF Write, closes
  <2>5. Stream!Write(s)
    BY <1>0, <2>3, <2>4 DEF Stream!Write
  <2> QED BY <1>0, <2>5 DEF Stream!Next
<1>3. CASE Read(s)
  <2> DEFINE b == receiveBuffer[s]
             d == delivered[s]
  <2>1. PICK n \in 1 .. len(b) :
          /\ delivered' = [delivered EXCEPT ![s] = @ \o [i \in 1..n |-> b.data[b.start + i - 1]]]
          /\ receiveBuffer' = [receiveBuffer EXCEPT ![s] = take(b, n)]
    BY <1>3 DEF Read
  <2>2. /\ ~localClosed[s] /\ UNCHANGED <<written, localClosed, remoteClosed>>
    BY <1>3 DEF Read, closes
  <2>3. /\ IsReceive(b) /\ b.start \in Nat /\ b.end \in Nat /\ b.start = Len(d)
        /\ \A p \in b.start .. (b.end - 1) : b.data[p] = p
    BY <1>1, <2>2, BufferFacts DEF BuffersOK, StreamIntact, IsReceive
  <2>4. n \in Nat /\ n \in 1 .. (b.end - Len(d)) /\ n <= b.end - b.start
    BY <2>1, <2>3 DEF len
  <2>5. [i \in 1 .. n |-> b.data[b.start + i - 1]] = [i \in 1 .. n |-> Len(d) + i - 1]
    <3>1. \A i \in 1 .. n : b.start + i - 1 \in b.start .. (b.end - 1)
      BY <2>3, <2>4
    <3> HIDE DEF b, d
    <3> QED BY <2>3, <3>1
  <2>6. \A z \in Sides : receiveBuffer'[z].end = receiveBuffer[z].end
    BY <1>1, <2>1 DEF BuffersOK, take
  <2>7. UNCHANGED R
    BY <2>6
  <2>8. delivered' = [delivered EXCEPT ![s] = d \o [i \in 1 .. n |-> Len(d) + i - 1]]
    BY <2>1, <2>5
  <2>9. Stream!Read(s)
    <3>1. R[s] = b.end
      OBVIOUS
    <3> QED BY <1>0, <2>2, <2>4, <2>7, <2>8, <3>1 DEF Stream!Read
  <2> QED BY <1>0, <2>9 DEF Stream!Next
<1>4. CASE Close(s)
  <2>1. /\ ~localClosed[s] /\ localClosed' = [localClosed EXCEPT ![s] = TRUE]
        /\ UNCHANGED <<written, delivered, receiveBuffer, remoteClosed>>
    BY <1>4 DEF Close, history, buffers
  <2>2. Stream!Close(s)
    BY <1>0, <2>1 DEF Stream!Close
  <2> QED BY <1>0, <2>2 DEF Stream!Next
<1> QED BY <1>2, <1>3, <1>4 DEF App

\* ReadErrorTag: the peer has closed the connection, and s has all that it wrote.
LEMMA ErrorTagImplements ==
    ASSUME IInv, NEW s \in Sides, NEW t \in Transports, ReadErrorTag(s, t)
    PROVE  [Stream!Next]_(Stream!vars)
<1> DEFINE q == Peer(s)
           W == wire[s][t]
<1>0. q \in Sides /\ Stream!Sides = Sides /\ Stream!Peer(s) = q
  BY PeerFacts DEF Stream!Sides, Stream!Peer, Sides, Peer
<1>1. /\ Reading(s, t, "frame") /\ W # <<>> /\ Head(W).close
      /\ remoteClosed' = [remoteClosed EXCEPT ![s] = TRUE]
      /\ UNCHANGED <<written, delivered, receiveBuffer, localClosed>>
  BY DEF ReadErrorTag, history, buffers
<1>2. receiveBuffer[s].end = written[q]
  <2>1. written[q] = sendBuffer[q].end
    BY <1>0 DEF IInv, Fresh
  <2> QED BY <1>1, <2>1, NextFrame
<1>3. localClosed[q]
  <2>1. W \in Seq(FrameType) /\ DataAt(s, t)
    BY RunTypes DEF IInv, Links, LinkAt
  <2>2. ~localClosed[q] => NoClose(W)
    BY <2>1 DEF DataAt
  <2> HIDE DEF W
  <2>3. NoClose(W) => ~Head(W).close
    BY <1>1, <2>1, TakenWire
  <2> QED BY <1>1, <2>2, <2>3
<1>4. CASE remoteClosed[s]
  <2>1. UNCHANGED remoteClosed
    BY <1>1, <1>4 DEF IInv, TInv, TypeOK, ConnsOK
  <2> QED BY <1>1, <2>1, UnseenStep DEF Got
<1>5. CASE ~remoteClosed[s]
  <2> HIDE DEF q
  <2>1. Stream!PeerGone(s)
    BY <1>0, <1>1, <1>2, <1>3, <1>5 DEF Stream!PeerGone
  <2> QED BY <1>0, <2>1 DEF Stream!Next
<1> QED BY <1>4, <1>5

\* The data of a frame is received.
LEMMA DataImplements ==
    ASSUME IInv, IInv', GoneComplete, NEW s \in Sides, NEW t \in Transports,
           \/ FillChunk(s, t) \/ FillError(s, t)
           \/ Discard(s, t) \/ DiscardError(s, t)
    PROVE  [Stream!Next]_(Stream!vars)
<1>1. UNCHANGED <<history, localClosed, remoteClosed>>
  BY DEF FillChunk, FillError, Discard, DiscardError, closes
<1>2. TInv /\ BuffersOK
  BY DEF IInv, TInv, TypeOK
<1>3. tail[s][t] \in Nat /\ remainingSize[s][t] \in Nat
  BY <1>2, RunTypes
<1>4. \E n \in Nat : \/ receiveBuffer' = [receiveBuffer EXCEPT ![s] = append(@, label[s][t], n)]
                     \/ receiveBuffer' = [receiveBuffer EXCEPT ![s] = discard(@, n)]
  BY <1>3 DEF FillChunk, FillError, Discard, DiscardError
<1>5. PICK n \in Nat : /\ Got(s)' = Got(s) + n
                       /\ \A z \in Sides : z # s => Got(z)' = Got(z)
  BY <1>2, <1>4 DEF Got, append, discard, BuffersOK
<1> QED BY <1>1, <1>5, ReceiveImplements

\* Every step but RejectHello is one of the abstract stream, or is not seen there.
LEMMA StepImplements ==
    ASSUME IInv, IInv', GoneComplete, [Next]_vars, NoReject
    PROVE  [Stream!Next]_(Stream!vars)
<1> DEFINE Goal == [Stream!Next]_(Stream!vars)
           Unseen == UNCHANGED <<written, delivered, localClosed, remoteClosed, receiveBuffer>>
<1>0. Unseen => Goal
  BY UnseenStep DEF Got
<1>1. ASSUME NEW s \in Sides, App(s) PROVE Goal
  BY <1>1, AppImplements
<1> HIDE DEF Goal
<1>2. ASSUME NEW s \in Sides, NEW t \in Transports, Network(s, t) PROVE Goal
  BY <1>0, <1>2 DEF Network, Cut, LoseFrame, LoseHello, history, closes, buffers
<1>3. ASSUME NEW t \in Transports, Dialing(t) PROVE Goal
  BY <1>0, <1>3 DEF Dialing, Dial, DialFailed, Accept, Dialed, history, closes, buffers
<1>4. ASSUME NEW s \in Sides, NEW t \in Transports, Attachment(s, t) PROVE Goal
  BY <1>0, <1>4 DEF Attachment, RequestDetach, Attach, Refuse, Detach, history, closes, buffers
<1>5. ASSUME NEW s \in Sides, NEW t \in Transports, Handshake(s, t) PROVE Goal
  BY <1>0, <1>5 DEF Handshake, SendHello, ReceiveHello, HandshakeTimeout, HandshakeError,
     NoReject, history, closes, buffers
<1>6. ASSUME NEW s \in Sides, NEW t \in Transports, ReadLoop(s, t) PROVE Goal
  <2>1. CASE ReadErrorTag(s, t)
    BY <2>1, ErrorTagImplements DEF Goal
  <2>2. CASE \/ FillChunk(s, t) \/ FillError(s, t) \/ Discard(s, t) \/ DiscardError(s, t)
    BY <2>2, DataImplements DEF Goal
  <2>3. CASE \/ ReadHeader(s, t) \/ ReaderStopped(s, t) \/ StartDiscard(s, t)
             \/ ReserveChunk(s, t) \/ HeaderError(s, t)
    BY <1>0, <2>3 DEF ReadHeader, ReaderStopped, StartDiscard, ReserveChunk, HeaderError,
       history, closes, buffers
  <2> QED BY <1>6, <2>1, <2>2, <2>3 DEF ReadLoop
<1>7. ASSUME NEW s \in Sides, NEW t \in Transports, WriteLoop(s, t) PROVE Goal
  BY <1>0, <1>7 DEF WriteLoop, WriteFrame, WriteError, WriterStopped, WriteErrorTag,
     history, closes, buffers
<1>8. ASSUME NEW s \in Sides, AttachFirst(s) PROVE Goal
  BY <1>0, <1>8 DEF AttachFirst, history, closes, buffers
<1>9. ASSUME UNCHANGED vars PROVE Goal
  BY <1>0, <1>9 DEF vars, history, closes, buffers
<1>10. Goal
  BY <1>1, <1>2, <1>3, <1>4, <1>5, <1>6, <1>7, <1>8, <1>9 DEF Next
<1> QED BY <1>10 DEF Goal

\* A step of the abstract stream keeps what is said of a peer that is gone.
LEMMA StepGone ==
    ASSUME IInv, IInv', GoneComplete, [Stream!Next]_(Stream!vars)
    PROVE  GoneComplete'
<1> DEFINE R == [z \in Sides |-> receiveBuffer[z].end]
<1>0. /\ Stream!Sides = Sides /\ \A s \in Sides : Stream!Peer(s) = Peer(s)
      /\ \A s \in Sides : R[s] = Got(s) /\ R'[s] = Got(s)'
  BY DEF Stream!Sides, Stream!Peer, Sides, Peer, Got
<1>1. /\ written \in [Sides -> Nat] /\ \A s \in Sides : Got(s) \in Nat
      /\ localClosed \in [Sides -> BOOLEAN] /\ remoteClosed \in [Sides -> BOOLEAN]
  BY BufferFacts DEF IInv, TInv, TypeOK, HistoryOK, ConnsOK, Got
<1>2. SUFFICES ASSUME NEW z \in Sides, remoteClosed'[z]
               PROVE  localClosed'[Peer(z)] /\ Got(z)' = written'[Peer(z)]
  BY DEF GoneComplete, Got
<1>3. Peer(z) \in Sides
  BY PeerFacts
<1>4. remoteClosed[z] => localClosed[Peer(z)] /\ Got(z) = written[Peer(z)]
  BY DEF GoneComplete, Got
<1>5. CASE UNCHANGED Stream!vars
  BY <1>0, <1>2, <1>4, <1>5 DEF Stream!vars
<1>6. ASSUME NEW s \in Sides, Stream!Write(s) PROVE localClosed'[Peer(z)] /\ Got(z)' = written'[Peer(z)]
  BY <1>0, <1>1, <1>2, <1>3, <1>4, <1>6 DEF Stream!Write
<1>7. ASSUME NEW s \in Sides, Stream!Receive(s)
      PROVE  localClosed'[Peer(z)] /\ Got(z)' = written'[Peer(z)]
  BY <1>0, <1>1, <1>2, <1>3, <1>4, <1>7 DEF Stream!Receive
<1>8. ASSUME NEW s \in Sides, Stream!Read(s) \/ Stream!Close(s)
      PROVE  localClosed'[Peer(z)] /\ Got(z)' = written'[Peer(z)]
  BY <1>0, <1>1, <1>2, <1>3, <1>4, <1>8 DEF Stream!Read, Stream!Close
<1>9. ASSUME NEW s \in Sides, Stream!PeerGone(s)
      PROVE  localClosed'[Peer(z)] /\ Got(z)' = written'[Peer(z)]
  BY <1>0, <1>1, <1>2, <1>3, <1>4, <1>9 DEF Stream!PeerGone
<1> QED BY <1>0, <1>5, <1>6, <1>7, <1>8, <1>9 DEF Stream!Next

\* The states of a connection in which nobody has rejected a position.
LEMMA SoundAlways == Spec /\ [][NoReject]_vars => [](IInv /\ GoneComplete)
<1>1. Init => GoneComplete
  BY DEF Init, GoneComplete
<1>2. IInv /\ IInv' /\ GoneComplete /\ [Next]_vars /\ [NoReject]_vars => GoneComplete'
  <2> SUFFICES ASSUME IInv, IInv', GoneComplete, [Next]_vars, [NoReject]_vars
               PROVE  GoneComplete'
    OBVIOUS
  <2>1. CASE NoReject
    BY <2>1, StepImplements, StepGone
  <2>2. CASE UNCHANGED vars
    BY <2>2 DEF vars, closes, buffers, history, GoneComplete
  <2> QED BY <2>1, <2>2
<1> QED BY <1>1, <1>2, SafeAlways, PTL DEF Spec

\* ImplementsStream, for any number of transports that are cut, replaced and lose data at any
\* moment: until an end rejects a position, the two applications see one stream in each
\* direction, and who learns that its peer is gone has everything the peer wrote.
THEOREM StreamImplemented == Spec /\ [][NoReject]_vars => ImplementsStream
<1>1. Init => Stream!Init
  BY DEF Init, EmptyReceive, Stream!Init, Stream!Sides, Sides
<1>2. IInv /\ GoneComplete /\ (IInv /\ GoneComplete)' /\ [Next]_vars /\ [NoReject]_vars
        => [Stream!Next]_(Stream!vars)
  <2> SUFFICES ASSUME IInv, IInv', GoneComplete, [Next]_vars, [NoReject]_vars
               PROVE  [Stream!Next]_(Stream!vars)
    OBVIOUS
  <2>1. CASE NoReject
    BY <2>1, StepImplements
  <2>2. CASE UNCHANGED vars
    <3>1. UNCHANGED <<written, delivered, localClosed, remoteClosed, receiveBuffer>>
      BY <2>2 DEF vars, closes, buffers, history
    <3> QED BY <3>1, UnseenStep DEF Got
  <2> QED BY <2>1, <2>2
<1> QED BY <1>1, <1>2, SoundAlways, PTL DEF Spec, ImplementsStream, Stream!Spec

\* UnbrokenStream, which the doc comment of Conn promises, fails in no other way: unless an
\* end rejects a position, remoteClosed is set only after the peer's application closed.
THEOREM BrokenOnlyByReject == Spec /\ [][NoReject]_vars => []UnbrokenStream
<1>1. GoneComplete => UnbrokenStream
  BY DEF GoneComplete, UnbrokenStream
<1> QED BY <1>1, SoundAlways, PTL

\* io.EOF from Read then means that every byte the peer's Write accepted has been read, in
\* order, and that there will be no more.
THEOREM EOFIsTheEnd == Spec /\ [][NoReject]_vars => []Stream!EOFMeansAll
<1>1. IInv /\ GoneComplete => Stream!EOFMeansAll
  <2> SUFFICES ASSUME IInv, GoneComplete, NEW s \in Sides, Stream!AtEOF(s)
               PROVE  /\ localClosed[Peer(s)]
                      /\ delivered[s] = [i \in 1 .. written[Peer(s)] |-> i - 1]
    <3>1. Stream!Sides = Sides /\ \A s \in Sides : Stream!Peer(s) = Peer(s)
      BY DEF Stream!Sides, Stream!Peer, Sides, Peer
    <3> QED BY <3>1 DEF Stream!EOFMeansAll
  <2>1. remoteClosed[s] /\ Len(delivered[s]) = receiveBuffer[s].end
    BY DEF Stream!AtEOF
  <2>2. localClosed[Peer(s)] /\ receiveBuffer[s].end = written[Peer(s)]
    BY <2>1 DEF GoneComplete
  <2>3. delivered[s] \in Seq(Nat)
    BY DEF IInv, TInv, TypeOK, HistoryOK
  <2>4. \A i \in 1 .. Len(delivered[s]) : delivered[s][i] = i - 1
    BY DEF IInv, StreamIntact
  <2>5. delivered[s] = [i \in 1 .. Len(delivered[s]) |-> i - 1]
    <3>1. delivered[s] \in [1 .. Len(delivered[s]) -> Nat]
      BY <2>3
    <3> QED BY <2>4, <3>1, Zenon
  <2> QED BY <2>1, <2>2, <2>5
<1> QED BY <1>1, SoundAlways, PTL

=============================================================================
