----------------------------- MODULE MCScheduler -----------------------------
(* A robot and two servers, with one profile within the bounds and one out   *)
(* of them.                                                                  *)
EXTENDS PolicyScheduler

CONSTANTS r, a, b

MCOrder    == <<r, a, b>>
MCProfiles == {[ok |-> TRUE, max |-> 1], [ok |-> FALSE, max |-> 2]}
==============================================================================
