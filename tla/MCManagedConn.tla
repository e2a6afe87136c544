---------------------------- MODULE MCManagedConn ----------------------------
(* Instances of ManagedConn for TLC: the calls that set deadlines. *)
EXTENDS ManagedConn

CONSTANTS s1, s2

\* Both deadlines at once, to a time ahead; the read deadline alone, to a time ahead and to
\* none.  A time ahead may have passed when the call comes to it.
MCCalls == {<<s1, {"read", "write"}, "future">>,
            <<s2, {"read"}, "future">>, <<s2, {"read"}, "zero">>}

=============================================================================
