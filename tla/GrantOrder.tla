----------------------------- MODULE GrantOrder -----------------------------
(***************************************************************************)
(* OrderedGrants over real pipelines: the gates are those VerifyStepOrder  *)
(* computes from a document and a condition checker, and the grants they   *)
(* admit are compared with the order the document itself gives its steps.  *)
(***************************************************************************)
EXTENDS OrderedGrants, ResolvedPlan, PipelineOrder, GateOrder

-----------------------------------------------------------------------------
\* The only status map of the runs below; guards do not change under them.
S0 == CHOOSE s \in StatusMaps : TRUE
ASSUME SettledAssumption == StatusMaps = {S0} /\ \A p \in Plans : Versions(p) = {p}

\* The pipelines that reach evaluation are those of documents, and what is
\* asked for in them are runs of their steps.
ASSUME PlansAssumption ==
  \A p \in Plans :
    LET g == p.graph
        t == p.guards[S0]
        evaluated == {f \in Asked(p) : GateOf(p, f, S0, S0).outcome = "evaluated"}
    IN  /\ evaluated # {} => /\ OrderingGraph(g) /\ Decides(t, g)
                             /\ \A f \in Asked(p) : GateOf(p, f, S0, S0) = EvaluateStep(g, t, t, f)
        /\ \A f \in evaluated : \A y \in Lookup(g, f) : StaticRuns(g, y) => RunOf(g, y, f)

\* A step that any of several units will do for, some of which run.
MayOnlyFollow(g, t, y) ==
  /\ OrJoined(g, y) /\ ~ SeparatePlanRollback(g, y)
  /\ \E x \in Precursors(g, y) : Runs(g, t, x)

\* A unit whose runs are not known stands for itself among them.
Unknown(g, t, f) ==
  {g[x].fqn : x \in {z \in UNION {DueBefore(g, t, y) : y \in Lookup(g, f)} : ~ StaticRuns(g, z)}}

\* No policy accepts a violation, but for the rollback of the whole pipeline.
DefaultPolicies == FailOpen \subseteq {"pipelineRollback"}

\* In no pipeline do two runs share a name.
NamesDistinct == \A p \in Plans : DistinctNames(p.graph)

GatesIn(p) == [f \in Asked(p) |-> GateOf(p, f, S0, S0)]
DueIn(p) ==
  [f \in Asked(p) |-> RunsDue(p.graph, p.guards[S0], f) \cup Unknown(p.graph, p.guards[S0], f)]

PipelineKeepsOrder(p) ==
  LET g == p.graph
      t == p.guards[S0]
  IN  /\ KeepsOrder(GatesIn(p), DueIn(p), FailOpen)
      /\ \A f \in Asked(p) : \A h \in Unknown(g, t, f) \cap Asked(p) :
           Suffices(GatesIn(p), h, FailOpen) = {}
      /\ \A f \in Asked(p) : \A y \in Lookup(g, f) :
           MayOnlyFollow(g, t, y) =>
             FollowsSome(GatesIn(p), f, {g[x].fqn : x \in Precursors(g, y)}, FailOpen)

(* Each gate does its part for the order of the pipeline, before anything  *)
(* is granted: what a step cannot be allowed without vouches for every run *)
(* due before it and, where any of several units will do, for one of them; *)
(* and a step whose runs are not known is never allowed.  AncestorsOf,     *)
(* liveAncestorsOf and the pinning of shared fan-outs choose the needs.    *)
GatesKeepOrder == \A e \in Executions : granted[e] = {} => PipelineKeepsOrder(plan[e])

\* P holds of every grant: its graph, guard truths, node and name.
EveryGrant(P(_, _, _, _, _)) ==
  \A e \in Executions : \A f \in granted[e] :
    \A y \in Lookup(plan[e].graph, f) :
      P(e, plan[e].graph, plan[e].guards[S0], y, f)

(* A step that was granted comes after every run due before it: each has   *)
(* been granted, in the same branch of any fan-out around both and in all  *)
(* branches of its own.  The gate only names the nearest predecessors, so  *)
(* this rests on liveAncestorsOf stepping over skipped nodes, pruning only *)
(* implied ones and pinning shared fan-outs, over every chain of grants.   *)
OrderPreserved ==
  EveryGrant(LAMBDA e, g, t, y, f :
    \A x \in DueBefore(g, t, y) :
      StaticRuns(g, x) /\ RunsBefore(g, x, y, f) \subseteq granted[e])

(* A step that starts on failure, or the entry of a stage's rollback, is   *)
(* granted only after a unit it can follow was granted, when there is one  *)
(* that runs: nothing is rolled back before something ran (JoinOR).  That  *)
(* need not be in the stage: RollbackNeedsItsStage.                        *)
SomethingToFollow ==
  EveryGrant(LAMBDA e, g, t, y, f :
    MayOnlyFollow(g, t, y) => \E x \in Precursors(g, y) : g[x].fqn \in folded[e])

(* The gate denies nothing without a reason: a step all of whose guards    *)
(* hold, whose own runs are known, and before which every unit that runs   *)
(* has been granted in full, is allowed; the minimal ancestor set never    *)
(* contains a name that will not be granted.                               *)
NoFalseDenial ==
  \A e \in Executions :
    LET g == plan[e].graph
        t == plan[e].guards[S0]
    IN  \A f \in Asked(plan[e]) : \A y \in Lookup(g, f) :
            LET gate == GateOf(plan[e], f, S0, S0)
                before == {x \in Units(g) : Before(g, x, y)}
            IN  ( /\ gate.outcome = "evaluated"
                  /\ Runs(g, t, y) /\ StaticRuns(g, y) /\ RollbackContainers(g, y) = {}
                  /\ \A x \in before :
                       \/ Runs(g, t, x) /\ StaticRuns(g, x) /\ RunsBefore(g, x, y, f) \subseteq granted[e]
                       \/ StrategyExcluded(g, x)
                       \/ \E c \in Chain(x) : g[c].when # NoWhen /\ t[c] = "fails" )
                => Justified(gate, gate.needs \cap (granted[e] \cup folded[e]), {})

(* Doc: "a preceding sibling would otherwise already imply those guards    *)
(* held" (climb): no step is granted when a guard of a container around it *)
(* is known not to hold.                                                   *)
SkippedUnitNeverGranted ==
  EveryGrant(LAMBDA e, g, t, y, f :
    \A c \in Chain(y) : g[c].when # NoWhen => t[c] # "fails")

(* Doc: the entry of a rollback "OR-gates on the stage's forward leaves so *)
(* rollback runs once any forward step has run" and rollback steps are     *)
(* otherwise "never entangled with forward steps": the gate of the entry   *)
(* needs forward steps of its stage, that of a later step needs none.      *)
RollbackNeedsItsStage ==
  \A e \in Executions : \A f \in Asked(plan[e]) :
    LET g == plan[e].graph
    IN  \A y \in Lookup(g, f) : RollbackContainers(g, y) # {} =>
          \A h \in GateOf(plan[e], f, S0, S0).needs : \A x \in Lookup(g, h) :
            IF AtRollbackEntry(g, y) THEN x \in RolledBack(g, y)
            ELSE RollbackContainers(g, x) # {}

(* Doc: "an instance FQN two nodes both enumerate is dropped rather than   *)
(* guessed" (indexInstances): a name that is no node's own and is a run of *)
(* two nodes stands for none, so it is never granted.                      *)
AmbiguousNamesDropped ==
  \A e \in Executions : \A f \in granted[e] :
    Named(plan[e].graph, f) # {} \/ Cardinality(Claimants(plan[e].graph, f)) <= 1
=============================================================================
