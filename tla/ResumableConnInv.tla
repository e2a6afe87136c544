-------------------------- MODULE ResumableConnInv --------------------------
(***************************************************************************)
(* The inductive invariant behind the safety properties of ResumableConn.  *)
(* Throughout, s receives data on a transport t and sends acknowledgements *)
(* for it; q = Peer(s) sends the data.                                     *)
(***************************************************************************)
EXTENDS ResumableConn

\* s may still take frames off t
Awaiting(s, t) == phase[s][t] # "done" /\ reader[s][t] # "exit"

Engaged(s, t) == Active(s, t) \/ (t = First /\ phase[s][t] = "idle")

\* s has not sent its position on t
Unsaid(s, t) == phase[s][t] \in {"idle", "dialing", "wait", "handshake"}

\* the loops of a run, and what its read loop holds
RunShapeAt(s, t) ==
    /\ phase[s][First] = "idle" => phase[s][t] = "idle"
    /\ phase[s][t] = "loops" <=> reader[s][t] # "off"
    /\ phase[s][t] = "loops" <=> writer[s][t] # "off"
    /\ reader[s][t] \in {"off", "frame", "exit"} => remainingSize[s][t] = 0
    /\ reader[s][t] = "fill" =>
         /\ 0 < tail[s][t] /\ tail[s][t] <= remainingSize[s][t]
         /\ tail[s][t] <= receiveCapacity - len(receiveBuffer[s])
    /\ reader[s][t] = "discard" => localClosed[s]
    /\ Active(s, t) => localPosition[s][t] <= receiveBuffer[s].end

\* positions of a run that are still those of its buffers
PlacesAt(s, t) ==
    /\ remainingSize[s][t] > 0 => label[s][t] = receiveBuffer[s].end
    /\ phase[s][t] \in {"handshake", "greeted"}
         => localPosition[s][t] = receiveBuffer[s].end

\* where a run may be, and what a run that is over leaves behind
PhasesAt(s, t) ==
    /\ phase[s][t] = "done" => /\ ~open[s][t] /\ wire[s][t] = <<>>
                               /\ hello[s][t] = NoPosition
    /\ t = First => /\ phase[s][t] \in {"idle", "loops", "done"}
                    /\ hello[s][t] = NoPosition
                    /\ phase[s][t] = "idle" => peerPosition[s][t] = 0

\* a Conn nobody has attached to is unused
Unused(s) ==
    phase[s][First] = "idle" =>
      sendBuffer[s].end = 0 /\ receiveBuffer[s].end = 0

\* how far the two ends can be apart in the exchange of positions on t
OrderAt(s, t) ==
    LET q == Peer(s) IN
    /\ wire[s][t] # <<>> => phase[q][t] \in {"loops", "done"}
    /\ t # First /\ Unsaid(s, t) => /\ hello[q][t] = NoPosition
                                    /\ wire[q][t] = <<>> /\ wire[s][t] = <<>>
                                    /\ phase[q][t] # "loops"
    /\ hello[s][t] # NoPosition => phase[s][t] # "loops"

\* the position s sent on t, while q has not taken it
HelloAt(s, t) ==
    LET q == Peer(s)
        p == hello[q][t]
    IN
    /\ p # NoPosition => p <= receiveBuffer[s].end
    /\ p # NoPosition /\ Active(s, t) =>
         p = receiveBuffer[s].end /\ remainingSize[s][t] = 0
    /\ t # First /\ p = NoPosition
         /\ phase[q][t] \notin {"loops", "done"} => wire[q][t] = <<>>
    /\ /\ t # First /\ phase[s][t] \in {"greeted", "loops"}
       /\ phase[q][t] \notin {"loops", "done"}
       /\ ~cut[t] /\ open[q][t]
       => p # NoPosition

(***************************************************************************)
(* A sequence of frames: their labels follow each other from a label on,   *)
(* their acknowledgements add up from a position on.                       *)
(***************************************************************************)
DataChain(W, base) ==
    \A i \in 1 .. Len(W) :
      W[i].first = IF i = 1 THEN base ELSE W[i-1].first + W[i-1].size

DataEnd(W, base) == IF W = <<>> THEN base ELSE W[Len(W)].first + W[Len(W)].size

AckChain(W, base) ==
    \A i \in 1 .. Len(W) : W[i].upto = (IF i = 1 THEN base ELSE W[i-1].upto) + W[i].ack

AckEnd(W, base) == IF W = <<>> THEN base ELSE W[Len(W)].upto

\* no frame reaches beyond p
DataBelow(W, p) == \A i \in 1 .. Len(W) : W[i].first + W[i].size <= p
AckBelow(W, p)  == \A i \in 1 .. Len(W) : W[i].upto <= p

\* an errorTag says that the stream ends at p
EndsAt(W, p)    == \A i \in 1 .. Len(W) : W[i].close => W[i].first = p
NoClose(W)      == \A i \in 1 .. Len(W) : ~W[i].close

\* the label of the next byte s will read off t
Expect(s, t) == receiveBuffer[s].end + remainingSize[s][t]

\* the frames on their way to s continue its stream without gap or overlap, and
\* an errorTag comes after everything its peer has written
DataAt(s, t) ==
    LET W == wire[s][t]
        q == Peer(s)
    IN
    /\ Awaiting(s, t) => DataChain(W, Expect(s, t))
    /\ DataBelow(W, sendBuffer[q].end)
    /\ Expect(s, t) <= sendBuffer[q].end
    /\ phase[q][t] = "loops" =>
         /\ Awaiting(s, t) /\ writer[q][t] = "run" /\ ~cut[t] /\ open[s][t]
              => peerPosition[q][t] = DataEnd(W, Expect(s, t))
         /\ Engaged(s, t) => Expect(s, t) <= peerPosition[q][t]
         /\ DataBelow(W, peerPosition[q][t])
    /\ ~localClosed[q] => NoClose(W)
    /\ EndsAt(W, sendBuffer[q].end)

\* the position up to which q has taken its peer's acknowledgements on t
AckBase(q, t) == IF hello[q][t] # NoPosition THEN hello[q][t] ELSE sendBuffer[q].start

\* the acknowledgements that s has sent to q add up to what s has received
AckAt(s, t) ==
    LET q == Peer(s)
        W == wire[q][t]
    IN
    /\ Awaiting(q, t) => AckChain(W, AckBase(q, t))
    /\ /\ Awaiting(q, t)
       /\ phase[s][t] = "greeted" \/ writer[s][t] = "run"
       /\ ~cut[t] /\ open[q][t]
       => localPosition[s][t] = AckEnd(W, AckBase(q, t))
    /\ AckBelow(W, receiveBuffer[s].end)
    /\ phase[q][t] = "loops" => AckBelow(W, peerPosition[q][t])
    /\ hello[q][t] # NoPosition => AckBelow(W, hello[q][t])

\* the write loop sends what the replay buffer still holds
HeldAt(s, t) ==
    phase[s][t] = "loops" => Compatible(s, peerPosition[s][t])

\* what holds of each run, and of what travels between it and its peer's
LinkAt(s, t) ==
    /\ PlacesAt(s, t) /\ PhasesAt(s, t) /\ OrderAt(s, t) /\ HelloAt(s, t)
    /\ DataAt(s, t) /\ AckAt(s, t) /\ HeldAt(s, t)

RunShape == \A s \in Sides, t \in Transports : RunShapeAt(s, t)
Links    == \A s \in Sides, t \in Transports : LinkAt(s, t)
Fresh    == \A s \in Sides : Unused(s) /\ written[s] = sendBuffer[s].end

\* types, capacities and attachment: inductive on its own
TInv == TypeOK /\ SingleRun /\ RunShape

IInv == TInv /\ StreamIntact /\ ReplayCovers /\ Fresh /\ Links

=============================================================================
