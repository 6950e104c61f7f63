------------------------------ MODULE Multicast ------------------------------
(***************************************************************************)
(* What the forwarding plane promises, with its queues, its panics and the *)
(* handling of updates left out: every domain (a router) keeps groups of   *)
(* members, one group per topic name and kind.  A message reaches all the  *)
(* members that its group has at that moment, in one step, and no two      *)
(* messages with one id are published in a domain.  A request is weaker: a *)
(* part of the group gets it, and it may be published again until an       *)
(* answer with its id has gone by.  A member joins once and never rejoins. *)
(***************************************************************************)
EXTENDS Sequences

CONSTANTS
  Domains,    \* where ids are remembered
  Names,      \* topic names
  Kinds,      \* kinds of groups that get every message
  AskKind,    \* the kind of group that gets requests
  Members,
  Ids,
  Actions,
  KindOf,     \* the kind of group that messages of an action go to
  NoGroup

VARIABLES
  member,     \* [Members -> the group it is in, or NoGroup]
  got,        \* [Members -> the messages it got]
  spent       \* [Domains -> ids that are not published any more]

mvars == <<member, got, spent>>

Groups == Domains \X Names \X (Kinds \cup {AskKind})

In(g) == {c \in Members : member[c] = g}

MInit ==
  /\ member = [c \in Members |-> NoGroup]
  /\ got = [c \in Members |-> <<>>]
  /\ spent = [d \in Domains |-> {}]

Join(c) ==
  /\ member[c] = NoGroup
  /\ got[c] = <<>>
  /\ UNCHANGED <<got, spent>>
  /\ \E g \in Groups : member' = [member EXCEPT ![c] = g]

Leave(c) ==
  /\ member[c] # NoGroup
  /\ UNCHANGED <<got, spent>>
  /\ member' = [member EXCEPT ![c] = NoGroup]

Deliver(m, S) ==
  got' = [c \in Members |-> IF c \in S THEN Append(got[c], m) ELSE got[c]]

Message(a, n, i) == [action |-> a, name |-> n, guid |-> i]

\* The message of a topic, or the first answer to a request.
Publish(d, a, n, i) ==
  /\ KindOf[a] \in Kinds
  /\ i \notin spent[d]
  /\ spent' = [spent EXCEPT ![d] = @ \cup {i}]
  /\ Deliver(Message(a, n, i), In(<<d, n, KindOf[a]>>))
  /\ UNCHANGED member

\* A part of the group gets a request, which may be asked again.
Ask(d, a, n, i) ==
  /\ KindOf[a] = AskKind
  /\ i \notin spent[d]
  /\ UNCHANGED <<member, spent>>
  /\ \E S \in SUBSET In(<<d, n, AskKind>>) : Deliver(Message(a, n, i), S)

\* The domain starts afresh: its members are gone and its ids forgotten.
Forget(d) ==
  /\ spent' = [spent EXCEPT ![d] = {}]
  /\ UNCHANGED got
  /\ member' = [c \in Members |->
                  IF member[c] # NoGroup /\ member[c][1] = d THEN NoGroup
                  ELSE member[c]]

MNext ==
  \/ \E c \in Members : Join(c) \/ Leave(c)
  \/ \E d \in Domains, a \in Actions, n \in Names, i \in Ids :
       Publish(d, a, n, i) \/ Ask(d, a, n, i)
  \/ \E d \in Domains : Forget(d)

MSpec == MInit /\ [][MNext]_mvars
=============================================================================
