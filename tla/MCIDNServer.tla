----------------------------- MODULE MCIDNServer -----------------------------
(* Instances of IDNServer for TLC.                                         *)
EXTENDS IDNServer, TLC

CONSTANTS v1, v2

(* Two channels of a session compete for the inlets of a service.          *)
ChannelRequests ==
    {[service |-> v1, mode |-> "continuous"],
     [service |-> DefaultID, mode |-> "discrete"]}

(* Two services; a channel moves between them and to the null device, or   *)
(* asks for what no service has.                                           *)
TwoServiceRequests ==
    {[service |-> v1, mode |-> "continuous"],
     [service |-> v2, mode |-> "discrete"],
     [service |-> v1, mode |-> "effect"],
     [service |-> v2, mode |-> "other"],
     [service |-> DefaultID, mode |-> "discrete"],
     [service |-> UnknownID, mode |-> "continuous"],
     [service |-> UnknownID, mode |-> "void"]}

Symmetry == Permutations(Clients) \cup Permutations(Sessions)

(* No action looks at the pipeline events and the acknowledgement but to   *)
(* set these two, and the properties of the routing are not about them.    *)
RoutingView ==
    <<phase, alive, conn, sess, channel, openCount, currentInlet, opMode, backlog>>
=============================================================================
