----------------------------- MODULE GateOrder -----------------------------
(***************************************************************************)
(* What the gates of one pipeline have to be, each for itself, so that     *)
(* together they keep an order: conditions on a pipeline, which no chain   *)
(* of grants occurs in.  gates gives the gate of every FQN asked for and   *)
(* due the runs that come before it.                                       *)
(***************************************************************************)
EXTENDS OrderingGate

\* The records a set S of grants leaves: the runs and the nodes they fold to.
RecordsOf(gates, S) == S \cup {gates[q].fqn : q \in S \cap DOMAIN gates}

\* The grants that leave the record h.
GrantsOf(gates, h) == {q \in DOMAIN gates : h \in {q, gates[q].fqn}}

\* What a step may have found recorded when it is allowed, whichever other
\* reads failed.
Suffices(gates, f, failOpen) ==
  {ran \in SUBSET gates[f].needs :
     /\ gates[f].outcome = "evaluated"
     /\ \E unknown \in SUBSET (gates[f].needs \ ran) : Allowed(gates[f], ran, unknown, failOpen)}

\* Of every run due before f some record vouches that f cannot be allowed
\* without: whichever grant left it is that run or comes after it.
KeepsOrder(gates, due, failOpen) ==
  \A f \in DOMAIN gates : \A ran \in Suffices(gates, f, failOpen) : \A i \in due[f] :
    \E h \in ran : \A q \in GrantsOf(gates, h) : i = q \/ i \in due[q]

\* Some record that f cannot be allowed without is only left by grants that
\* fold to one of the nodes.
FollowsSome(gates, f, nodes, failOpen) ==
  \A ran \in Suffices(gates, f, failOpen) :
    \E h \in ran : \A q \in GrantsOf(gates, h) : gates[q].fqn \in nodes

\* f is not denied once the grants S are recorded.
Admits(gates, f, S, failOpen) ==
  /\ gates[f].outcome # "invalid"
  /\ gates[f].outcome = "evaluated" =>
       Allowed(gates[f], gates[f].needs \cap RecordsOf(gates, S), {}, failOpen)
=============================================================================
