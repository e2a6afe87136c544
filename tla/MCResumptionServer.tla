-------------------------- MODULE MCResumptionServer --------------------------
(***************************************************************************)
(* Instances of ResumptionServer for TLC.                                  *)
(***************************************************************************)
EXTENDS ResumptionServer

\* A host that is seen through an IPv6 socket, another one that is not, and a transport
\* that has no address.
MCAddresses == {[host |-> "h1", form |-> "4in6"], [host |-> "h2", form |-> "4"], Invalid}

=============================================================================
