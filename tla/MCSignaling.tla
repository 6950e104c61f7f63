----------------------------- MODULE MCSignaling -----------------------------
(* Two publishers and two subscribers of one topic.                          *)
EXTENDS Signaling

CONSTANT t1

MCTopicOf == [c \in Pubs \cup Subs |-> t1]
==============================================================================
