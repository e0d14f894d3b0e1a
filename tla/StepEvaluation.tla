--------------------------- MODULE StepEvaluation ---------------------------
(***************************************************************************)
(* EvaluateStep (verifier/pipeline/evaluate.go): whether the step asked    *)
(* for under the FQN raw may run now.  Everything that does not depend on  *)
(* the run-state is computed here, as a gate of OrderingGate.              *)
(*                                                                         *)
(* t gives the truth of each `when` guard, by the node that declares it:   *)
(* "holds", "fails" or "unknown" (the ConditionFunc returned an error).    *)
(* The guards are read as they are needed, the step's own before those of  *)
(* its ancestors, so a status recorded in between is seen by the latter    *)
(* only; within each of the two groups they are read together here.        *)
(***************************************************************************)
EXTENDS PipelineGraph, OrderingGate

-----------------------------------------------------------------------------
(* The ancestor walk-up.                                                   *)

\* A provably false guard anywhere in the chain skips the node, whatever
\* else is unknown.
GuardSkip(g, t, n) ==
  LET truths == {t[c] : c \in {d \in Chain(n) : g[d].when # NoWhen}}
  IN  IF "fails" \in truths THEN "skipped"
      ELSE IF "unknown" \in truths THEN "unknown" ELSE "live"

SteppedOver(g, t, n) == StrategyExcluded(g, n) \/ GuardSkip(g, t, n) = "skipped"

\* The nodes the walk visits: the predecessors of target and, through every
\* one that never runs, its predecessors in turn.
Visited(g, t, target) ==
  Reached([p \in DOMAIN g |-> IF SteppedOver(g, t, p) THEN Climb(g, p) ELSE {}],
          Climb(g, target), DOMAIN g)

LiveNodes(g, t, target) ==
  {p \in Visited(g, t, target) : ~ StrategyExcluded(g, p) /\ GuardSkip(g, t, p) = "live"}

UnknownNodes(g, t, target) ==
  {p \in Visited(g, t, target) : ~ StrategyExcluded(g, p) /\ GuardSkip(g, t, p) = "unknown"}

\* Fault: an OR-joined node is taken to imply its predecessors.
PrecedesViaAny(g, a, b) == a \in Reached([n \in DOMAIN g |-> Climb(g, n)], Climb(g, b), DOMAIN g)

\* a is reached by climbing from b through AND-joined nodes only, so that b
\* having run implies a ran.
PrecedesVia(g, a, b) ==
  LET back == [n \in DOMAIN g |-> IF OrJoined(g, n) THEN {} ELSE Climb(g, n)]
  IN  a \in Reached(back, back[b], DOMAIN g)

CoveredByAnother(g, live, p) == \E b \in live \ {p} : PrecedesVia(g, p, b)

\* The nodes the step gates on: redundant ones are dropped under AND only.
LiveAncestors(g, t, target) ==
  LET live == LiveNodes(g, t, target)
  IN  IF OrJoined(g, target) THEN live
      ELSE {p \in live : ~ CoveredByAnother(g, live, p)}

-----------------------------------------------------------------------------
(* The gate.                                                               *)

\* One ancestor: the FQNs it stands for, and whether its fan-out is runtime.
AncestorFQNs(g, p, target, raw) ==
  LET inst == AncestorInstances(g, p, target, raw)
  IN  IF inst.fqns # {} THEN inst.fqns ELSE {g[p].fqn}

RuntimeFanout(g, p, target, raw) ==
  HasStrategyInChain(g, p) /\ AncestorInstances(g, p, target, raw).fqns = {}

\* The step's own facts: its exclusion, its own fan-out, its own guards.
OwnViolations(g, t, n) ==
  LET truths == {t[c] : c \in EntryGuards(g, n)}
  IN  {v \in {"condition", "runtimeFanout", "conditionUnknown"} :
        CASE v = "condition" -> StrategyExcluded(g, n) \/ "fails" \in truths
          [] v = "conditionUnknown" -> "unknown" \in truths
          [] v = "runtimeFanout" ->
               HasStrategyInChain(g, n) /\ ~ StrategyExcluded(g, n) /\ ~ InstanceFQNs(g, n).ok}

\* A pipeline-rollback entry is not gated on the forward run at all; the
\* policy decides.
RollbackGate(g, own, n) ==
  Gate("evaluated", g[n].fqn, "OR", OwnViolations(g, own, n) \cup {"pipelineRollback"}, {}, FALSE, TRUE)

\* own are the guard truths read for the step itself, t those read later, on
\* the walk over its ancestors.
AncestorGate(g, own, t, n, raw) ==
  LET live    == LiveAncestors(g, t, n)
      runtime == {p \in live : RuntimeFanout(g, p, n, raw)}
  IN  Gate("evaluated", g[n].fqn, IF OrJoined(g, n) THEN "OR" ELSE "AND",
           OwnViolations(g, own, n)
             \cup {"conditionUnknown" : p \in UnknownNodes(g, t, n)},
           UNION {AncestorFQNs(g, p, n, raw) : p \in live \ runtime},
           runtime # {}, live = {})

EvaluateStep(g, own, t, raw) ==
  LET found == Lookup(g, raw)
      n == CHOOSE m \in found : TRUE
  IN  IF found = {} THEN NoGate("notFound", raw)
      ELSE IF SeparatePlanRollback(g, n) THEN RollbackGate(g, own, n)
      ELSE AncestorGate(g, own, t, n, raw)

\* errors: what BuildGraph returned; a document it refuses has no gate.
VerifyStepOrder(errors, g, own, t, raw) ==
  IF errors # {} THEN NoGate("invalid", raw) ELSE EvaluateStep(g, own, t, raw)
=============================================================================
