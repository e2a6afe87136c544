----------------------------- MODULE DuplexStream -----------------------------
(***************************************************************************)
(* What a net.Conn made of two managedConns promises its two applications, *)
(* with no transports in sight: each direction is one stream of bytes,     *)
(* read in the order it was written, and a side learns that its peer is    *)
(* gone only after everything the peer wrote has reached it.  Bytes are    *)
(* labelled with their position in the stream.                             *)
(***************************************************************************)
EXTENDS Integers, Sequences

VARIABLES written,    \* per side: bytes Write accepted
          received,   \* per side: bytes of the peer's that reached it
          delivered,  \* per side: what Read returned
          closed,     \* per side: Close was called (localClosed)
          gone        \* per side: the peer is known to be gone (remoteClosed)

vars == <<written, received, delivered, closed, gone>>

Sides == {"client", "server"}
Peer(s) == IF s = "client" THEN "server" ELSE "client"

Init ==
    /\ written = [s \in Sides |-> 0]
    /\ received = [s \in Sides |-> 0]
    /\ delivered = [s \in Sides |-> <<>>]
    /\ closed = [s \in Sides |-> FALSE]
    /\ gone = [s \in Sides |-> FALSE]

Write(s) ==
    /\ ~closed[s] /\ ~gone[s]
    /\ written'[s] \in Nat /\ written'[s] > written[s]
    /\ written' = [written EXCEPT ![s] = written'[s]]
    /\ UNCHANGED <<received, delivered, closed, gone>>

\* Bytes reach s, whether or not its application still wants them.
Receive(s) ==
    /\ ~gone[s]
    /\ \E n \in 1 .. (written[Peer(s)] - received[s]) :
         received' = [received EXCEPT ![s] = @ + n]
    /\ UNCHANGED <<written, delivered, closed, gone>>

Read(s) ==
    /\ ~closed[s]
    /\ \E n \in 1 .. (received[s] - Len(delivered[s])) :
         delivered' = [delivered EXCEPT
                         ![s] = @ \o [i \in 1..n |-> Len(@) + i - 1]]
    /\ UNCHANGED <<written, received, closed, gone>>

Close(s) ==
    /\ ~closed[s]
    /\ closed' = [closed EXCEPT ![s] = TRUE]
    /\ UNCHANGED <<written, received, delivered, gone>>

PeerGone(s) ==
    /\ ~gone[s]
    /\ closed[Peer(s)]
    /\ received[s] = written[Peer(s)]
    /\ gone' = [gone EXCEPT ![s] = TRUE]
    /\ UNCHANGED <<written, received, delivered, closed>>

Next == \E s \in Sides : Write(s) \/ Receive(s) \/ Read(s) \/ Close(s) \/ PeerGone(s)

Spec == Init /\ [][Next]_vars

-----------------------------------------------------------------------------
TypeOK ==
    /\ written \in [Sides -> Nat]
    /\ received \in [Sides -> Nat]
    /\ delivered \in [Sides -> Seq(Nat)]
    /\ closed \in [Sides -> BOOLEAN]
    /\ gone \in [Sides -> BOOLEAN]

\* Read returns io.EOF: the peer is gone and nothing is left to read.
AtEOF(s) == gone[s] /\ ~closed[s] /\ Len(delivered[s]) = received[s]

\* io.EOF from Read tells the application that it has read exactly the bytes
\* its peer's Write accepted, in order, and that there will never be more.
EOFMeansAll ==
    \A s \in Sides : AtEOF(s) =>
      /\ closed[Peer(s)]
      /\ delivered[s] = [i \in 1 .. written[Peer(s)] |-> i - 1]

=============================================================================
