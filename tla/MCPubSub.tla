------------------------------ MODULE MCPubSub -------------------------------
(* A publishing router pr and a subscribing one, with one connection at the  *)
(* start and another one that comes up later; the subscriber's router adds   *)
(* the topic, perhaps again, or once more after a restart.                   *)
EXTENDS RosManager, TLC

CONSTANTS n1, pr, sr, pb, sb, sb2, l1, l2, eth

Upd(c, t) == [type |-> t, name |-> n1, tx |-> c]

MCHome    == [c \in {pb, l1, l2} |-> pr] @@ [c \in {sb, sb2} |-> sr]
MCIfaceOf == [c \in {pb, sb, sb2} |-> Ros] @@ [c \in {l1, l2} |-> eth]
MCPeer    == [c \in {l1, l2} |-> sr]
MCReady   == {Upd(l1, "RECEIVER")}
MCOffers  == {Upd(pb, "SENDER"), Upd(l2, "RECEIVER"), Upd(sb, "RECEIVER"),
              Upd(sb2, "RECEIVER")}
MCNone    == {}
MCClock   == {FALSE}
==============================================================================
