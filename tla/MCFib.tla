-------------------------------- MODULE MCFib --------------------------------
(* One router with a channel of a local ROS handler and one of a network    *)
(* connection, which no binding table lists, each of several kinds.         *)
EXTENDS Fib, TLC

CONSTANTS n1, n2, g1, r1, ros, net, eth

Upd(c, t) == [type |-> t, name |-> n1, tx |-> c]

MCHome    == (ros :> r1) @@ (net :> r1)
MCIfaceOf == (ros :> Ros) @@ (net :> eth)
MCBound   == {}
MCClock   == {FALSE}
MCOffers  == {Upd(ros, "RECEIVER"), Upd(ros, "RESPONSERECEIVER"),
              Upd(net, "RECEIVER"), Upd(net, "REQUESTRECEIVER"),
              Upd(net, "SENDER")}
MCInputs  == [action : {"Forward", "Request", "Response"}, name : {n1}, guid : {g1}]
               \cup [action : {"Forward"}, name : {n1}, guid : Guids]
               \cup [action : {"Other"}, name : {n2}, guid : {g1}]
==============================================================================
