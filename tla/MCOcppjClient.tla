--------------------------- MODULE MCOcppjClient ---------------------------
(***************************************************************************)
(* Instances of OcppjClient. In Orderly two goroutines send requests over  *)
(* a connection that holds, or over one that breaks, with timeouts; or one *)
(* request meets a timeout, a connection that breaks and two calls of the  *)
(* CSMS.                                                                   *)
(***************************************************************************)
EXTENDS OcppjClient

CONSTANTS r1, r2

Both == {"result", "error"}
Quiet(kinds) == [requests |-> <<r1, r2>>, kinds |-> kinds, timeouts |-> FALSE, drops |-> 0, calls |-> 1]

Orderly == {Quiet({"result"}), Quiet(Both),
            [requests |-> <<r1, r2>>, kinds |-> {"result"}, timeouts |-> TRUE, drops |-> 1, calls |-> 0],
            [requests |-> <<r1>>, kinds |-> {"result"}, timeouts |-> TRUE, drops |-> 1, calls |-> 2]}

=============================================================================
