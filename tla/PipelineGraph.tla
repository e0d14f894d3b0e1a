---------------------------- MODULE PipelineGraph ----------------------------
(***************************************************************************)
(* The immutable ordering DAG of one resolved pipeline                     *)
(* (verifier/pipeline/graph.go): how BuildGraph derives it from the YAML   *)
(* and how climb, lookup and the instance enumeration read it.             *)
(*                                                                         *)
(* A document is a function from tree paths to entries.  The path of a     *)
(* node is the sequence of 1-based positions that leads to it from the     *)
(* root <<>>; the rollbackSteps container of a stage is its child 0, so it *)
(* is never one of the forward children 1, 2, ...  An entry is             *)
(*   [kind, id, when, strat, pipelineRollback]                             *)
(* with id the "_"-separated tokens of the identifier, when NoWhen or a    *)
(* guard and strat a fan-out of Strategy.                                  *)
(*                                                                         *)
(* An FQN is the sequence of its identifiers: the keywords between them    *)
(* (pipeline, stages, spec, execution, steps) are fixed by the kinds and   *)
(* left out, except rollbackSteps, which keeps a segment.  The "" of the   *)
(* root and of a parallel wrapper is <<>>.  An instance FQN carries the    *)
(* fan-out suffix inside the segment: build_0 is <<"build", "0">>.         *)
(*                                                                         *)
(* climb and its companions are loops over parent links; here each is the  *)
(* set of nodes the loop ends on, described by their paths.                *)
(***************************************************************************)
EXTENDS Strategy

NoWhen == [level |-> "none"]
RollbackSegment == <<"rollbackSteps">>

\* The tokens of names; a keyword is a string like any other.
NameTokens == STRING \cup {"rollbackSteps"}

-----------------------------------------------------------------------------
(* Shape.                                                                  *)

Parent(n) == Front(n)

\* The node and everything above it, as the code's "for c := n; c != nil".
Chain(n) == Prefixes(n)

Under(n, x) == n # x /\ IsPrefix(n, x)

LowestCommonAncestor(x, y) ==
  LET both == Chain(x) \cap Chain(y) IN CHOOSE c \in both : Len(c) = Cardinality(both) - 1

Kids(doc, n) == {x \in DOMAIN doc : Len(x) = Len(n) + 1 /\ Under(n, x) /\ Last(x) > 0}

\* What is reached from S along next, within a set of nodes: the memo of a
\* walk that marks what it has seen.
Reached(next, S, nodes) ==
  LET walk[k \in 0..Cardinality(nodes)] ==
        IF k = 0 THEN [seen |-> {}, new |-> S]
        ELSE LET w == walk[k - 1]
                 seen == w.seen \cup w.new
             IN  [seen |-> seen, new |-> (UNION {next[n] : n \in w.new}) \ seen]
      end == walk[Cardinality(nodes)]
  IN  end.seen \cup end.new

Segment(doc, n) ==
  CASE doc[n].kind = "parallel" -> <<>>
    [] doc[n].kind = "rollback" -> <<RollbackSegment>>
    [] OTHER -> <<doc[n].id>>

FQN(doc, n) ==
  IF n = <<>> \/ doc[n].kind = "parallel" THEN <<>>
  ELSE FlattenSeq([k \in DOMAIN n |-> Segment(doc, SubSeq(n, 1, k))])

Registered(doc) == {n \in DOMAIN doc : doc[n].kind \in {"stage", "stepGroup", "step"}}

\* BuildGraph's outcome: a strategy error or a duplicate FQN fails it.
BuildErrors(doc) ==
  LET duplicate == \E n, m \in Registered(doc) : n # m /\ FQN(doc, n) = FQN(doc, m)
  IN  ({doc[n].strat.error : n \in DOMAIN doc} \ {"none"})
        \cup {kind \in {"invalid"} : duplicate}

\* The graph: per node its entry, its FQN and its number of forward children.
BuildGraph(doc) ==
  [n \in DOMAIN doc |->
     [kind |-> doc[n].kind, fqn |-> FQN(doc, n), when |-> doc[n].when,
      strat |-> doc[n].strat, pipelineRollback |-> doc[n].pipelineRollback,
      kids |-> Cardinality(Kids(doc, n))]]

\* What the decoder leaves of a pipeline: one tree, whose only child 0 is the
\* rollback container of a stage and whose other children are numbered from 1.
\* Stages hold no stages and steps nothing, a parallel block has a branch, only
\* units declare a fan-out, and a known one starts something.
Document(doc) ==
  /\ IsFiniteSet(DOMAIN doc) /\ DOMAIN doc \subseteq Seq(Nat)
  /\ <<>> \in DOMAIN doc /\ doc[<<>>].kind = "pipeline"
  /\ \A n \in DOMAIN doc \ {<<>>} :
       /\ Parent(n) \in DOMAIN doc /\ doc[Parent(n)].kind # "step"
       /\ Last(n) > 1 => Append(Parent(n), Last(n) - 1) \in DOMAIN doc
       /\ doc[n].kind \in {"stage", "stepGroup", "step", "parallel", "rollback"}
       /\ doc[n].kind = "rollback" <=> Last(n) = 0
       /\ doc[n].kind = "rollback" => doc[Parent(n)].kind = "stage"
       /\ doc[n].kind = "stage" =>
            \A c \in Chain(n) \ {n} : doc[c].kind \in {"pipeline", "parallel"}
  /\ \A n \in DOMAIN doc :
       /\ doc[n].id \in Seq(NameTokens) /\ doc[n].strat.suffixes \subseteq Seq(NameTokens)
       /\ doc[n].kind = "parallel" => Kids(doc, n) # {}
       /\ doc[n].strat.present => doc[n].kind \in {"stage", "stepGroup", "step"}
       /\ doc[n].strat.known => doc[n].strat.suffixes # {}

-----------------------------------------------------------------------------
(* Strategy facts of a node and its containers.                            *)

Nodes(g) == {n \in DOMAIN g : g[n].kind \in {"stage", "stepGroup", "step"}}
Fans(g, n) == {c \in Chain(n) : g[c].strat.present}

HasStrategyInChain(g, n) == Fans(g, n) # {}
StrategyExcluded(g, n) == \E c \in Fans(g, n) : g[c].strat.excluded

\* Every way of appending one suffix of each fan c in fans to the segment of
\* fqn that c names.
FanOver(g, fqn, fans) ==
  LET picks == {p \in [fans -> UNION {g[c].strat.suffixes : c \in fans}] :
                  \A c \in fans : p[c] \in g[c].strat.suffixes}
      tail(p, k) == UNION {{p[c]} : c \in {d \in fans : Len(g[d].fqn) = k}}
  IN  {[k \in DOMAIN fqn |-> IF tail(p, k) = {} THEN fqn[k]
                             ELSE fqn[k] \o (CHOOSE s \in tail(p, k) : TRUE)] : p \in picks}

\* The result of an enumeration: NotStatic when the code returns ok = false.
NotStatic == [ok |-> FALSE, fqns |-> {}]
Static(S) == [ok |-> TRUE, fqns |-> S]

InstanceFQNs(g, n) ==
  IF Fans(g, n) # {} /\ \A c \in Fans(g, n) : g[c].strat.known
  THEN Static(FanOver(g, g[n].fqn, Fans(g, n)))
  ELSE NotStatic

\* Fault: every branch of a shared fan-out is waited on.
AncestorInstancesUnpinned(g, p, target, raw) == InstanceFQNs(g, p)

\* The instances of predecessor p that target, asked for under the runtime
\* name raw, waits on: fans above the lowest common ancestor are shared and
\* pinned to the branch raw names, fans below it are p's own.
AncestorInstances(g, p, target, raw) ==
  LET lca     == LowestCommonAncestor(p, target)
      private == {c \in Fans(g, p) : Under(lca, c)}
      shared  == Fans(g, lca) # {}
      fanned  == FanOver(g, g[p].fqn, private)
      width   == Len(g[lca].fqn)
      pinned  == SubSeq(raw, 1, width)
      aligned == Len(raw) = Len(g[target].fqn) /\ SubSeq(g[target].fqn, 1, width) = g[lca].fqn
  IN  CASE \/ \E c \in private : ~ g[c].strat.known
           \/ private = {} /\ ~ shared -> NotStatic
        [] private # {} /\ ~ shared /\ \A c \in private : g[c].strat.known -> Static(fanned)
        [] OTHER ->
             IF ~ aligned \/ pinned = g[lca].fqn
             THEN InstanceFQNs(g, p)
             ELSE Static({pinned \o SubSeq(f, width + 1, Len(f)) : f \in fanned})

-----------------------------------------------------------------------------
(* Predecessors.                                                           *)

\* Where climb stops ascending: the rollback boundary, the root, or a unit
\* with a preceding sibling in an ordered container.
Stops(g, c) ==
  \/ c = <<>>
  \/ c # <<>> /\ g[c].kind = "rollback"
  \/ c # <<>> /\ g[Parent(c)].kind # "parallel" /\ Last(c) > 1

Entrance(g, n) ==
  CHOOSE c \in Chain(n) : Stops(g, c) /\ \A d \in Chain(n) : Stops(g, d) => Len(d) <= Len(c)

\* The leaves that complete last in n's subtree: the last unit of every
\* ordered container on the way down, every branch of a parallel block.
Leaf(g, n) == g[n].kind = "step" \/ g[n].kids = 0

TerminalLeaves(g, n) ==
  {x \in DOMAIN g : /\ x = n \/ Under(n, x)
                    /\ Leaf(g, x)
                    /\ \A c \in Chain(x) : (c = n \/ Under(n, c)) /\ c # x =>
                         /\ ~ Leaf(g, c)
                         /\ g[c].kind # "parallel" => x[Len(c) + 1] = g[c].kids}

\* Every forward step of a stage; nothing under a rollback container.
ForwardLeaves(g, stage) ==
  {x \in DOMAIN g : /\ Under(stage, x) /\ g[x].kind = "step"
                    /\ \A k \in Len(stage) + 1 .. Len(x) : x[k] > 0}

\* Fault: a rollback entry follows nothing.
ClimbWithinRollback(g, n) ==
  LET e == Entrance(g, n)
  IN  IF e = <<>> \/ g[e].kind = "rollback" THEN {}
      ELSE TerminalLeaves(g, Append(Parent(e), Last(e) - 1))

Climb(g, n) ==
  LET e == Entrance(g, n)
  IN  CASE e = <<>> -> {}
        [] e # <<>> /\ g[e].kind = "rollback" -> ForwardLeaves(g, Parent(e))
        [] OTHER -> TerminalLeaves(g, Append(Parent(e), Last(e) - 1))

\* The guards Resolve reports for a step: its own and those of the containers
\* climb enters on the way up.
EntryGuards(g, n) ==
  {c \in Chain(n) : Len(c) >= Len(Entrance(g, n)) /\ g[c].when # NoWhen}

AtRollbackEntry(g, n) == g[Entrance(g, n)].kind = "rollback"

RollbackContainers(g, n) == {c \in Chain(n) : g[c].kind = "rollback"}

\* Join classification: Resolve's Join and evaluate.go's orJoined agree.
OrJoined(g, n) ==
  \/ g[n].when # NoWhen /\ g[n].when.status \in {"Failure", "All"}
  \/ AtRollbackEntry(g, n)

SeparatePlanRollback(g, n) ==
  AtRollbackEntry(g, n) /\ \E c \in RollbackContainers(g, n) : g[Parent(c)].pipelineRollback

-----------------------------------------------------------------------------
(* Lookup of a logical or runtime FQN.                                     *)

Named(g, fqn) == {n \in Nodes(g) : g[n].fqn = fqn}

\* indexInstances: an instance FQN belongs to the one node that enumerates
\* it, unless a real node has that name or a second node claims it.
Claimants(g, inst) == {n \in Nodes(g) : g[n].fqn # inst /\ inst \in InstanceFQNs(g, n).fqns}
Indexed(g, inst) ==
  IF Named(g, inst) = {} /\ Cardinality(Claimants(g, inst)) = 1 THEN Claimants(g, inst) ELSE {}

\* The segment walk: seg is appended to cand; when that names no node, the
\* trailing tokens of seg are stripped, fewest first, until what is left
\* names a node that declares a strategy.
Stripped(g, cand, seg) ==
  {k \in 1..Len(seg) - 1 :
     seg[1] # "" /\ \E n \in Named(g, Append(cand, SubSeq(seg, 1, k))) : g[n].strat.present}

WalkSegment(g, cand, seg) ==
  IF Named(g, Append(cand, seg)) # {} \/ Stripped(g, cand, seg) = {}
  THEN Append(cand, seg)
  ELSE Append(cand, SubSeq(seg, 1, CHOOSE k \in Stripped(g, cand, seg) :
                                     \A j \in Stripped(g, cand, seg) : j <= k))

Walk(g, fqn) == Named(g, FoldLeft(LAMBDA cand, seg : WalkSegment(g, cand, seg), <<>>, fqn))

\* The set holding the node fqn resolves to; empty when there is none.
Lookup(g, fqn) ==
  IF Named(g, fqn) # {} THEN Named(g, fqn)
  ELSE IF Indexed(g, fqn) # {} THEN Indexed(g, fqn)
  ELSE Walk(g, fqn)
=============================================================================
