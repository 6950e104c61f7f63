------------------------------ MODULE MCService ------------------------------
(* A client router cr and two server routers, each with a connection for the *)
(* requests and one for the responses.  The one for the requests to s2 may   *)
(* come up later, all else is registered.                                    *)
EXTENDS RosManager, TLC

CONSTANTS n1, cr, s1, s2, cl, v1, v2, q1, q2, p1, p2, eth

Upd(c, t) == [type |-> t, name |-> n1, tx |-> c]

MCHome    == (cl :> cr) @@ (q1 :> cr) @@ (q2 :> cr) @@ (v1 :> s1)
               @@ (p1 :> s1) @@ (v2 :> s2) @@ (p2 :> s2)
MCIfaceOf == [c \in {cl, v1, v2} |-> Ros] @@ [c \in {q1, q2, p1, p2} |-> eth]
MCPeer    == (q1 :> s1) @@ (q2 :> s2) @@ (p1 :> cr) @@ (p2 :> cr)
MCAll     == {Upd(cl, "RESPONSERECEIVER"), Upd(v1, "REQUESTRECEIVER"),
              Upd(v2, "REQUESTRECEIVER"), Upd(q1, "REQUESTRECEIVER"),
              Upd(q2, "REQUESTRECEIVER"), Upd(p1, "RESPONSERECEIVER"),
              Upd(p2, "RESPONSERECEIVER")}
MCReady   == {u \in MCAll : u.tx # q2}
MCOffers  == {u \in MCAll : u.tx = q2}

MCNone    == {}
MCClock   == {FALSE}
==============================================================================
