--------------------------- MODULE MCResumableConn ---------------------------
(***************************************************************************)
(* Instances of ResumableConn for TLC: how much each application writes.   *)
(* A transport is a model value; the buffers hold a few bytes, so that both*)
(* fill up and a frame never carries everything there is to send.          *)
(***************************************************************************)
EXTENDS ResumableConnInv, TLC

CONSTANTS ClientBytes, ServerBytes

MCWriteBound == [s \in Sides |-> IF s = "client" THEN ClientBytes ELSE ServerBytes]

\* Transports other than the first are interchangeable.
Replacements == Permutations(Transports \ {First})

=============================================================================
