---------------------------- MODULE PipelineOrder ----------------------------
(***************************************************************************)
(* The order a document gives its steps, stated on the tree and not on     *)
(* climb: of two units, the one whose branch comes first in the deepest    *)
(* ordered container they share comes first.  It is the reference the      *)
(* gates of StepEvaluation are checked against.                            *)
(***************************************************************************)
EXTENDS PipelineGraph

\* What BuildGraph makes of a document: a tree in which the FQN of a unit is
\* its own and begins with those of its containers.
OrderingGraph(g) ==
  /\ IsFiniteSet(DOMAIN g) /\ DOMAIN g \subseteq Seq(Nat)
  /\ <<>> \in DOMAIN g /\ g[<<>>].kind = "pipeline"
  /\ \A n \in DOMAIN g \ {<<>>} :
       /\ Parent(n) \in DOMAIN g /\ g[Parent(n)].kind # "step"
       /\ g[n].kind \in {"stage", "stepGroup", "step", "parallel", "rollback"}
       /\ g[n].kind = "rollback" <=> Last(n) = 0
       /\ g[n].kind = "rollback" => g[Parent(n)].kind = "stage"
       /\ g[n].kind = "stage" => \A c \in Chain(n) \ {n} : g[c].kind \in {"pipeline", "parallel"}
  /\ \A n \in DOMAIN g :
       /\ g[n].fqn \in Seq(Seq(NameTokens)) /\ g[n].strat.suffixes \subseteq Seq(NameTokens)
       /\ g[n].kids \in Nat /\ {Last(x) : x \in Kids(g, n)} = 1..g[n].kids
       /\ g[n].kind = "parallel" => g[n].kids # 0
       /\ g[n].strat.present => n \in Nodes(g)
       /\ g[n].strat.known => g[n].strat.suffixes # {}
  /\ \A n, m \in Nodes(g) : g[n].fqn = g[m].fqn => n = m
  /\ \A n \in {m \in DOMAIN g : g[m].kind \notin {"pipeline", "parallel"}} :
       \A c \in Chain(n) \ {n} :
         /\ Len(g[c].fqn) < Len(g[n].fqn)
         /\ SubSeq(g[n].fqn, 1, Len(g[c].fqn)) = g[c].fqn

\* A name that a fan-out gives to a run is no node's own and no other node's.
DistinctNames(g) ==
  \A x, y \in Nodes(g) : \A i \in InstanceFQNs(g, x).fqns :
    i # g[y].fqn /\ (i \in InstanceFQNs(g, y).fqns => x = y)

\* t decides every guard, or says that it cannot be decided.
Decides(t, g) == \A n \in DOMAIN g : g[n].when # NoWhen => t[n] \in {"holds", "fails", "unknown"}

\* No guard is left undecided.
Decided(t, g) == \A n \in DOMAIN g : g[n].when # NoWhen => t[n] \in {"holds", "fails"}

\* What runs: steps, and stages and step groups with nothing inside.
Units(g) == {n \in Nodes(g) : Leaf(g, n)}

Shared(x, y) == LowestCommonAncestor(x, y)

\* The positions of x below the shared container all lead forward, not into
\* a rollback.
ForwardFrom(c, x) == \A k \in Len(c) + 1 .. Len(x) : x[k] > 0

Before(g, x, y) ==
  LET c == Shared(x, y)
  IN  /\ c # x /\ c # y
      /\ g[c].kind # "parallel"
      /\ ForwardFrom(c, x) /\ ForwardFrom(c, y)
      /\ x[Len(c) + 1] < y[Len(c) + 1]

Runs(g, t, x) ==
  /\ ~ StrategyExcluded(g, x)
  /\ \A c \in Chain(x) : g[c].when # NoWhen => t[c] = "holds"

\* A unit that may start once any unit before it has run.
OnAnyOutcome(g, z) == g[z].when # NoWhen /\ g[z].when.status \in {"Failure", "All"}

Immediately(g, n) ==
  LET before == {x \in Units(g) : Before(g, x, n)}
  IN  {x \in before : ~ \E z \in before : Before(g, x, z)}

\* The units that run and that y comes after on some way back through units
\* that wait for all their predecessors or do not run at all.
DueBefore(g, t, y) ==
  LET waits == [n \in Nodes(g) |->
                  IF OnAnyOutcome(g, n) /\ (n = y \/ Runs(g, t, n)) THEN {} ELSE Immediately(g, n)]
  IN  {x \in Reached(waits, waits[y], Units(g)) : Runs(g, t, x)}

\* f is what a run of y is asked for under: its name in the graph or, when
\* its runs are known, the name of one of them.
RunOf(g, y, f) == f = g[y].fqn \/ f \in InstanceFQNs(g, y).fqns

\* The runs of x that a run f of y comes after: those in the same branch of
\* every fan-out around both, all of them when f names no branch.
StaticRuns(g, x) == HasStrategyInChain(g, x) => InstanceFQNs(g, x).ok

RunsBefore(g, x, y, f) ==
  LET c   == Shared(x, y)
      all == IF HasStrategyInChain(g, x) THEN InstanceFQNs(g, x).fqns ELSE {g[x].fqn}
      branch(h) == SubSeq(h, 1, Len(g[c].fqn))
  IN  IF branch(f) = g[c].fqn THEN all ELSE {i \in all : branch(i) = branch(f)}

\* The forward steps of the stage that a rollback step rolls back.
RolledBack(g, y) ==
  {x \in Units(g) : /\ g[x].kind = "step"
                    /\ \E r \in RollbackContainers(g, y) :
                         Under(Parent(r), x) /\ ForwardFrom(Parent(r), x)}

\* What a step follows: the units before it and, inside a rollback, the steps
\* that it rolls back.
Forerunners(g, y) == {x \in Units(g) : Before(g, x, y)} \cup RolledBack(g, y)

\* What a step may be allowed after when anything it follows will do: inside a
\* rollback also what comes before the steps it rolls back, on which the walk
\* goes on when those are skipped.
Precursors(g, y) ==
  RolledBack(g, y) \cup {x \in Units(g) : \E z \in RolledBack(g, y) \cup {y} : Before(g, x, z)}

\* The runs that are due before the run f.
RunsDue(g, t, f) ==
  UNION {RunsBefore(g, p[1], p[2], f) :
           p \in UNION {DueBefore(g, t, y) \X {y} : y \in Lookup(g, f)}}

\* The runs of which f follows at least one, when any will do for it.
RunsFollowed(g, f) ==
  UNION {RunsBefore(g, p[1], p[2], f) :
           p \in UNION {Forerunners(g, y) \X {y} : y \in {z \in Lookup(g, f) : OrJoined(g, z)}}}
=============================================================================
