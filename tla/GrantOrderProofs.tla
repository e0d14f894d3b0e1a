-------------------------- MODULE GrantOrderProofs --------------------------
(***************************************************************************)
(* From the gates of a pipeline, each taken for itself (GatesKeepOrder),   *)
(* to the order of every chain of grants.  First, that the gates of every  *)
(* document do their part; then, that this keeps the order of any grants.  *)
(***************************************************************************)
EXTENDS GrantOrder, OrderingGateProofs, PipelineGraphProofs

LEMMA PlansTyped == GrantsSpec => [](plan \in [Executions -> Plans])
<1>1. GrantsInit => plan \in [Executions -> Plans]
  BY DEF GrantsInit
<1>2. plan \in [Executions -> Plans] /\ [GrantsNext]_grantVars => (plan \in [Executions -> Plans])'
  BY DEF GrantsNext, Grant, Forget, grantVars
<1>. QED
  BY <1>1, <1>2, PTL DEF GrantsSpec

(* What the premise PlansAssumption asks of a pipeline that is evaluated   *)
(* holds of every document: whatever statuses were marked, its graph is an *)
(* ordering graph, the ConditionFunc decides its guards or says that it    *)
(* cannot, and every gate is the one EvaluateStep finds.                   *)
THEOREM PlanOfDocument ==
  ASSUME NEW doc, Document(doc), NEW s, NEW f
  PROVE  LET g == BuildGraph(doc)
             t == GuardTruth(doc, s)
             gate(q) == VerifyStepOrder(BuildErrors(doc), g, t, t, q)
         IN  gate(f).outcome = "evaluated" =>
               OrderingGraph(g) /\ Decides(t, g) /\ \A q : gate(q) = EvaluateStep(g, t, t, q)
<1>. DEFINE g == BuildGraph(doc)
            t == GuardTruth(doc, s)
            gate(q) == VerifyStepOrder(BuildErrors(doc), g, t, t, q)
<1>. SUFFICES ASSUME gate(f).outcome = "evaluated"
              PROVE  OrderingGraph(g) /\ Decides(t, g) /\ \A q : gate(q) = EvaluateStep(g, t, t, q)
  OBVIOUS
<1>1. BuildErrors(doc) = {}
  BY DEF VerifyStepOrder, NoGate, Gate
<1>2. OrderingGraph(g)
  BY <1>1, GraphOfDocument
<1>3. Decides(t, g)
  <2>1. \A w, observed : Eval(w, observed, Overrides, Evaluator) \in {"holds", "fails", "unknown"}
    BY DEF Eval
  <2>. SUFFICES ASSUME NEW n \in DOMAIN g, g[n].when # NoWhen PROVE t[n] \in {"holds", "fails", "unknown"}
    BY DEF Decides
  <2>2. n \in DOMAIN doc /\ doc[n].when # NoWhen
    BY DEF BuildGraph
  <2>3. t[n] = IF HasChecker
               THEN Eval(doc[n].when, IF FQN(doc, n) \in DOMAIN s THEN s[FQN(doc, n)] ELSE Unmarked,
                         Overrides, Evaluator)
               ELSE "holds"
    BY <2>2 DEF GuardTruth
  <2>. QED
    BY <2>1, <2>3
<1>4. \A q : gate(q) = EvaluateStep(g, t, t, q)
  BY <1>1 DEF VerifyStepOrder
<1>. QED
  BY <1>2, <1>3, <1>4

-----------------------------------------------------------------------------
(* The gates of a document keep its order.                                 *)

LEMMA PipelineOrdered ==
  ASSUME DefaultPolicies, NEW p \in Plans, DistinctNames(p.graph)
  PROVE  PipelineKeepsOrder(p)
<1>. DEFINE g == p.graph
            t == p.guards[S0]
            gates == GatesIn(p)
            due == DueIn(p)
<1>1. /\ DOMAIN gates = Asked(p)
      /\ \A f \in Asked(p) : /\ gates[f] = GateOf(p, f, S0, S0)
                             /\ due[f] = RunsDue(g, t, f) \cup Unknown(g, t, f)
  BY DEF GatesIn, DueIn
\* A step that some grants let pass is one of a document.
<1>2. ASSUME NEW f \in Asked(p), Suffices(gates, f, FailOpen) # {}
      PROVE  /\ OrderingGraph(g) /\ Decides(t, g)
             /\ \A q \in Asked(p) : gates[q] = EvaluateStep(g, t, t, q)
             /\ \A q \in Asked(p) : \A y \in Lookup(g, q) :
                  gates[q].outcome = "evaluated" /\ StaticRuns(g, y) => RunOf(g, y, q)
  <2>1. gates[f].outcome = "evaluated"
    BY <1>2 DEF Suffices
  <2>. HIDE DEF gates
  <2>. QED
    BY <1>1, <2>1, PlansAssumption
<1>. HIDE DEF g, t, gates, due
<1>3. DistinctNames(g)
  BY DEF g
\* What lets a step pass, its own violations and those of the run-state.
<1>4. ASSUME NEW f \in Asked(p), NEW ran \in Suffices(gates, f, FailOpen)
      PROVE  \E y \in Nodes(g) :
               /\ Lookup(g, f) = {y} /\ StaticRuns(g, y) /\ RunOf(g, y, f)
               /\ gates[f].violations \subseteq {"pipelineRollback"}
               /\ \E unknown : RunViolations(gates[f], ran, unknown) = {}
  <2>1. PICK unknown \in SUBSET (gates[f].needs \ ran) : Allowed(gates[f], ran, unknown, FailOpen)
    BY DEF Suffices
  <2>2. gates[f].violations \subseteq {"pipelineRollback"} /\ RunViolations(gates[f], ran, unknown) \subseteq {"pipelineRollback"}
    BY <2>1 DEF Allowed, DefaultPolicies
  <2>3. RunViolations(gates[f], ran, unknown) = {}
    BY <2>2 DEF RunViolations
  <2>4. OrderingGraph(g) /\ gates[f] = EvaluateStep(g, t, t, f) /\ gates[f].outcome = "evaluated"
    BY <1>2 DEF Suffices
  <2>5. PICK y \in Lookup(g, f) : TRUE
    BY <2>4, GateIs
  <2>6. y \in Nodes(g) /\ Lookup(g, f) = {y}
    BY <2>4, LookupOne
  <2>7. StaticRuns(g, y)
    BY <2>2, <2>4, GateRefuses
  <2>8. RunOf(g, y, f)
    BY <1>2, <2>4, <2>7
  <2>. QED
    BY <2>2, <2>3, <2>6, <2>7, <2>8
\* Only a run of b itself, or a step that folds to b, leaves its name.
<1>5. ASSUME NEW f \in Asked(p), Suffices(gates, f, FailOpen) # {},
             NEW b \in Nodes(g), NEW h \in RunsOf(g, b), NEW q \in GrantsOf(gates, h)
      PROVE  q = h /\ gates[q].fqn = g[b].fqn
  <2>1. q \in Asked(p) /\ h \in {q, gates[q].fqn} /\ OrderingGraph(g) /\ gates[q] = EvaluateStep(g, t, t, q)
    BY <1>1, <1>2, <1>5 DEF GrantsOf
  <2>2. Lookup(g, h) = {b}
    BY <1>3, <2>1, LookupRun
  <2>3. CASE q = h
    BY <2>1, <2>2, <2>3, GateIs
  <2>4. CASE q # h
    <3>1. gates[q].fqn = h
      BY <2>1, <2>4
    <3>2. PICK n \in Lookup(g, q) : TRUE
      BY <2>1, <2>4, <3>1, GateIs
    <3>3. n \in Nodes(g) /\ g[n].fqn = h /\ gates[q].outcome = "evaluated"
      BY <2>1, <3>1, <3>2, GateIs, LookupOne
    <3>4. n = b /\ ~ HasStrategyInChain(g, b)
      BY <1>3, <2>1, <3>3, NodeOfRun
    <3>5. RunOf(g, b, q)
      BY <1>2, <1>5, <2>1, <3>2, <3>3, <3>4 DEF StaticRuns
    <3>6. InstanceFQNs(g, b).fqns = {}
      BY <3>4 DEF HasStrategyInChain, InstanceFQNs, NotStatic
    <3>. QED
      BY <2>4, <3>3, <3>4, <3>5, <3>6 DEF RunOf
  <2>. QED
    BY <2>3, <2>4
<1>6. KeepsOrder(gates, due, FailOpen)
  <2>. SUFFICES ASSUME NEW f \in Asked(p), NEW ran \in Suffices(gates, f, FailOpen), NEW i \in due[f]
                PROVE  \E h \in ran : \A q \in GrantsOf(gates, h) : i = q \/ i \in due[q]
    BY <1>1 DEF KeepsOrder
  <2>1. PICK y \in Nodes(g) :
          /\ Lookup(g, f) = {y} /\ StaticRuns(g, y) /\ RunOf(g, y, f)
          /\ gates[f].violations \subseteq {"pipelineRollback"}
          /\ \E unknown : RunViolations(gates[f], ran, unknown) = {}
    BY <1>4
  <2>2. OrderingGraph(g) /\ Decides(t, g) /\ gates[f] = EvaluateStep(g, t, t, f)
    BY <1>2
  <2>3. PICK x \in DueBefore(g, t, y) :
          \/ i \in RunsBefore(g, x, y, f)
          \/ ~ StaticRuns(g, x) /\ i = g[x].fqn
    <3>1. CASE i \in RunsDue(g, t, f)
      BY <2>1, <3>1, DueRuns
    <3>2. CASE i \in Unknown(g, t, f)
      BY <2>1, <3>2 DEF Unknown
    <3>. QED
      BY <1>1, <3>1, <3>2
  <2>4. ~ OrJoined(g, y)
    BY <2>2, <2>3, DueNone
  <2>5. gates[f].violations = {} /\ gates[f].join = "AND"
    <3>1. ~ SeparatePlanRollback(g, y)
      BY <2>4 DEF OrJoined, SeparatePlanRollback
    <3>2. y \in Lookup(g, f)
      BY <2>1
    <3>3. /\ gates[f].violations \subseteq {"condition", "conditionUnknown", "runtimeFanout"}
          /\ gates[f].join = IF OrJoined(g, y) THEN "OR" ELSE "AND"
      BY <2>2, <3>1, <3>2, GateIs
    <3>. QED
      BY <2>1, <2>4, <3>3
  <2>6. ~ gates[f].fanout /\ gates[f].needs \subseteq ran
    <3>1. PICK unknown : RunViolations(gates[f], ran, unknown) = {}
      BY <2>1
    <3>. QED
      BY <2>5, <3>1 DEF RunViolations
  <2>7. PICK b \in Nodes(g) :
          /\ StaticRuns(g, b) /\ RunsBefore(g, b, y, f) \subseteq gates[f].needs
          /\ RunsBefore(g, b, y, f) # {} /\ Before(g, b, y)
          /\ x = b \/ x \in DueBefore(g, t, b)
    BY <2>1, <2>2, <2>4, <2>5, <2>6, GateCovers
  <2>8. ASSUME NEW h \in RunsBefore(g, b, y, f)
        PROVE  h \in ran /\ h \in RunsOf(g, b) /\ Lookup(g, h) = {b} /\ \A q \in GrantsOf(gates, h) : q = h /\ q \in Asked(p)
    <3>1. h \in ran /\ h \in RunsOf(g, b)
      BY <2>6, <2>7, RunsBeforeIs
    <3>2. Lookup(g, h) = {b}
      BY <1>3, <2>2, <3>1, LookupRun
    <3>. QED
      BY <1>1, <1>5, <3>1, <3>2 DEF GrantsOf
  <2>9. ~ StaticRuns(g, x) => \A k \in {y, b} : RunsBefore(g, x, k, f) = {}
    BY DEF RunsBefore, StaticRuns, HasStrategyInChain, InstanceFQNs, Static, NotStatic
  <2>10. CASE x = b
    <3>1. i \in RunsBefore(g, b, y, f)
      BY <2>3, <2>7, <2>10
    <3>. QED
      BY <2>8, <3>1
  <2>11. CASE x \in DueBefore(g, t, b) /\ StaticRuns(g, x)
    <3>1. x \in Nodes(g) /\ Before(g, x, b) /\ i \in RunsBefore(g, x, y, f)
      BY <2>2, <2>3, <2>11, DueWithin
    <3>2. PICK h \in RunsBefore(g, b, y, f) : i \in RunsBefore(g, x, b, h)
      BY <2>1, <2>2, <2>7, <2>11, <3>1, RunCovered
    <3>3. i \in RunsDue(g, t, h)
      BY <2>8, <2>11, <3>2, DueRuns
    <3>. QED
      BY <1>1, <2>8, <3>3
  <2>12. CASE x \in DueBefore(g, t, b) /\ ~ StaticRuns(g, x)
    <3>1. PICK h \in RunsBefore(g, b, y, f) : TRUE
      BY <2>7
    <3>2. i \in Unknown(g, t, h)
      BY <2>3, <2>8, <2>9, <2>12, <3>1 DEF Unknown
    <3>. QED
      BY <1>1, <2>8, <3>1, <3>2
  <2>. QED
    BY <2>7, <2>10, <2>11, <2>12
<1>7. ASSUME NEW f \in Asked(p), NEW h \in Unknown(g, t, f) \cap Asked(p)
      PROVE  Suffices(gates, h, FailOpen) = {}
  <2>. SUFFICES ASSUME NEW ran \in Suffices(gates, h, FailOpen) PROVE FALSE
    OBVIOUS
  <2>1. OrderingGraph(g)
    BY <1>2
  <2>2. PICK y \in Lookup(g, f) : \E x \in DueBefore(g, t, y) : ~ StaticRuns(g, x) /\ h = g[x].fqn
    BY DEF Unknown
  <2>3. PICK x \in DueBefore(g, t, y) : ~ StaticRuns(g, x) /\ h = g[x].fqn
    BY <2>2
  <2>4. x \in Nodes(g)
    BY <2>1, LookupOne, DueWithin
  <2>5. x \in Lookup(g, h)
    BY <2>3, <2>4 DEF Lookup, Named
  <2>. QED
    BY <1>4, <2>3, <2>5
<1>8. ASSUME NEW f \in Asked(p), NEW y \in Lookup(g, f), MayOnlyFollow(g, t, y)
      PROVE  FollowsSome(gates, f, {g[x].fqn : x \in Precursors(g, y)}, FailOpen)
  <2>. SUFFICES ASSUME NEW ran \in Suffices(gates, f, FailOpen)
                PROVE  \E h \in ran : \A q \in GrantsOf(gates, h) : gates[q].fqn \in {g[x].fqn : x \in Precursors(g, y)}
    BY DEF FollowsSome
  <2>1. /\ StaticRuns(g, y) /\ RunOf(g, y, f)
        /\ gates[f].violations \subseteq {"pipelineRollback"}
        /\ \E unknown : RunViolations(gates[f], ran, unknown) = {}
    BY <1>4, <1>8
  <2>2. OrderingGraph(g) /\ Decides(t, g) /\ gates[f] = EvaluateStep(g, t, t, f)
    BY <1>2
  <2>3. OrJoined(g, y) /\ ~ SeparatePlanRollback(g, y) /\ \E x \in Precursors(g, y) : Runs(g, t, x)
    BY <1>8 DEF MayOnlyFollow
  <2>4. /\ \A h \in gates[f].needs : \E b \in Precursors(g, y) : b \in Nodes(g) /\ h \in RunsOf(g, b)
        /\ ~ gates[f].vacuous /\ (gates[f].fanout \/ gates[f].needs # {})
    <3>1. "conditionUnknown" \notin gates[f].violations
      BY <2>1
    <3>. QED
      BY <2>1, <2>2, <2>3, <3>1, GateFollows
  <2>5. ran \subseteq gates[f].needs
    BY DEF Suffices
  <2>6. ran # {}
    <3>1. PICK unknown : RunViolations(gates[f], ran, unknown) = {}
      BY <2>1
    <3>2. CASE Satisfied(gates[f], ran)
      BY <2>4, <3>2 DEF Satisfied
    <3>3. CASE ~ Satisfied(gates[f], ran)
      <4>1. ~ gates[f].fanout /\ gates[f].needs \cap unknown = {} /\ gates[f].needs \ (ran \cup unknown) = {}
        BY <3>1, <3>3 DEF RunViolations
      <4>. QED
        BY <2>4, <4>1
    <3>. QED
      BY <3>2, <3>3
  <2>7. PICK h \in ran : TRUE
    BY <2>6
  <2>8. PICK b \in Precursors(g, y) : b \in Nodes(g) /\ h \in RunsOf(g, b)
    BY <2>4, <2>5, <2>7
  <2>9. \A q \in GrantsOf(gates, h) : gates[q].fqn = g[b].fqn
    BY <1>5, <2>8
  <2>. QED
    BY <2>7, <2>8, <2>9
<1>. QED
  BY <1>6, <1>7, <1>8 DEF PipelineKeepsOrder, g, t, gates, due

(* With no policy but the one for the rollback of the whole pipeline, the  *)
(* gates of every document in which no two runs share a name do their part *)
(* for its order.                                                          *)
THEOREM GatesKeep ==
  ASSUME DefaultPolicies, NamesDistinct
  PROVE  GrantsSpec => []GatesKeepOrder
<1>1. plan \in [Executions -> Plans] => GatesKeepOrder
  BY PipelineOrdered DEF NamesDistinct, GatesKeepOrder
<1>. QED
  BY <1>1, PlansTyped, PTL

-----------------------------------------------------------------------------
(* Gates that keep the order keep it over every chain of grants.           *)

\* What the grants of an execution have in common: each was allowed after
\* all that is due before it, and folded to its node.
InOrder(e) ==
  LET p == plan[e]
      gates == GatesIn(p)
  IN  /\ granted[e] \subseteq Asked(p)
      /\ \A q \in granted[e] : /\ gates[q].fqn \in folded[e]
                               /\ Suffices(gates, q, FailOpen) # {}
                               /\ DueIn(p)[q] \subseteq granted[e]
      /\ \A h \in folded[e] : \E q \in granted[e] : h = gates[q].fqn

FollowsOne(e, f) ==
  LET g == plan[e].graph
  IN  \A y \in Lookup(g, f) :
        MayOnlyFollow(g, plan[e].guards[S0], y) => \E x \in Precursors(g, y) : g[x].fqn \in folded[e]

OrderInv ==
  /\ plan \in [Executions -> Plans]
  /\ granted \in [Executions -> SUBSET Names] /\ folded \in [Executions -> SUBSET Names]
  /\ \A e \in Executions : /\ PipelineKeepsOrder(plan[e])
                           /\ InOrder(e)
                           /\ \A f \in granted[e] : FollowsOne(e, f)

LEMMA OrderInit == GrantsInit /\ GatesKeepOrder => OrderInv
  BY DEF GrantsInit, GatesKeepOrder, OrderInv, InOrder

LEMMA OrderStep == OrderInv /\ [GrantsNext]_grantVars => OrderInv'
<1>. SUFFICES ASSUME OrderInv, [GrantsNext]_grantVars PROVE OrderInv'
  OBVIOUS
<1>1. ASSUME NEW e \in Executions, NEW v \in Versions(plan[e]), NEW f \in Asked(plan[e]),
             NEW own \in StatusMaps, NEW walk \in StatusMaps, Grant(e, v, f, own, walk)
      PROVE  OrderInv'
  <2>. DEFINE p == plan[e]
              gates == GatesIn(p)
              due == DueIn(p)
              recorded == granted[e] \cup folded[e]
  <2>1. p \in Plans /\ f \in DOMAIN gates /\ DOMAIN gates = Asked(p) /\ f \in Names
    BY AskedAssumption DEF OrderInv, GatesIn
  <2>2. GateOf(v, f, own, walk) = gates[f]
    <3>1. v = p /\ own = S0 /\ walk = S0
      BY <2>1, SettledAssumption
    <3>. QED
      BY <3>1 DEF GatesIn
  <2>3. gates[f] \in Gates(Names)
    BY <2>1, <2>2, <1>1, GateAssumption
  <2>4. /\ plan' = plan
        /\ granted'[e] = granted[e] \cup {f} /\ folded'[e] = folded[e] \cup {gates[f].fqn}
        /\ \A d \in Executions \ {e} : granted'[d] = granted[d] /\ folded'[d] = folded[d]
        /\ granted' \in [Executions -> SUBSET Names] /\ folded' \in [Executions -> SUBSET Names]
    <3>1. gates[f].fqn \in Names
      BY <2>3 DEF Gates
    <3>. QED
      BY <1>1, <2>1, <2>2, <3>1 DEF Grant, OrderInv
  \* What the run-state confirmed.
  <2>5. PICK ran \in Suffices(gates, f, FailOpen) : ran \subseteq recorded
    <3>1. PICK unknown \in SUBSET gates[f].needs : Justified(gates[f], gates[f].needs \cap recorded, unknown)
      BY <1>1, <2>2 DEF Grant
    <3>. DEFINE ran == (gates[f].needs \cap recorded) \ unknown
    <3>2. unknown \in SUBSET (gates[f].needs \ ran) /\ ran \in SUBSET gates[f].needs /\ ran \subseteq recorded
      OBVIOUS
    <3>3. gates[f].outcome = "evaluated" /\ Allowed(gates[f], ran, unknown, FailOpen)
      BY <3>1 DEF Justified
    <3>. QED
      BY <3>2, <3>3 DEF Suffices
  <2>6. /\ KeepsOrder(gates, due, FailOpen) /\ InOrder(e)
    BY DEF OrderInv, PipelineKeepsOrder
  \* Every record that was found was left by a grant.
  <2>7. ASSUME NEW h \in ran PROVE \E q \in granted[e] : q \in GrantsOf(gates, h) /\ gates[q].fqn \in folded[e]
    <3>1. PICK q \in granted[e] : h \in {q, gates[q].fqn}
      BY <2>5, <2>6 DEF InOrder
    <3>. QED
      BY <2>1, <2>6, <3>1 DEF InOrder, GrantsOf
  <2>8. due[f] \subseteq granted[e]
    <3>. SUFFICES ASSUME NEW i \in due[f] PROVE i \in granted[e]
      OBVIOUS
    <3>1. PICK h \in ran : \A q \in GrantsOf(gates, h) : i = q \/ i \in due[q]
      BY <2>1, <2>5, <2>6 DEF KeepsOrder
    <3>2. PICK q \in granted[e] : q \in GrantsOf(gates, h)
      BY <2>7
    <3>. QED
      BY <2>6, <3>1, <3>2 DEF InOrder
  <2>9. InOrder(e)'
    BY <2>1, <2>4, <2>5, <2>6, <2>8 DEF InOrder
  <2>10. FollowsOne(e, f)
    <3>. SUFFICES ASSUME NEW y \in Lookup(p.graph, f), MayOnlyFollow(p.graph, p.guards[S0], y)
                  PROVE  \E x \in Precursors(p.graph, y) : p.graph[x].fqn \in folded[e]
      BY DEF FollowsOne
    <3>1. FollowsSome(gates, f, {p.graph[x].fqn : x \in Precursors(p.graph, y)}, FailOpen)
      BY DEF OrderInv, PipelineKeepsOrder
    <3>2. PICK h \in ran : \A q \in GrantsOf(gates, h) :
            gates[q].fqn \in {p.graph[x].fqn : x \in Precursors(p.graph, y)}
      BY <2>5, <3>1 DEF FollowsSome
    <3>. QED
      BY <2>7, <3>2
  <2>11. ASSUME NEW d \in Executions PROVE InOrder(d)' /\ \A k \in granted'[d] : FollowsOne(d, k)'
    <3>1. \A k \in granted[d] : FollowsOne(d, k)
      BY DEF OrderInv
    <3>2. folded[d] \subseteq folded'[d]
      BY <2>4
    <3>3. \A k : FollowsOne(d, k) => FollowsOne(d, k)'
      BY <2>4, <3>2 DEF FollowsOne
    <3>4. CASE d = e
      BY <2>4, <2>9, <2>10, <3>1, <3>3, <3>4
    <3>5. CASE d # e
      BY <2>4, <3>1, <3>3, <3>5 DEF OrderInv, InOrder
    <3>. QED
      BY <3>4, <3>5
  <2>. QED
    BY <2>4, <2>11 DEF OrderInv
<1>2. ASSUME Forget PROVE OrderInv'
  BY <1>2 DEF Forget, OrderInv, InOrder
<1>3. ASSUME UNCHANGED grantVars PROVE OrderInv'
  BY <1>3 DEF grantVars, OrderInv, InOrder, FollowsOne
<1>. QED
  BY <1>1, <1>2, <1>3 DEF GrantsNext

LEMMA OrderAlways == GrantsSpec /\ GatesKeepOrder => []OrderInv
  BY OrderInit, OrderStep, PTL DEF GrantsSpec

\* Whatever the policies, and whatever names the runs share.
LEMMA OrderFromGates == GrantsSpec /\ GatesKeepOrder => []OrderPreserved
<1>1. OrderInv => OrderPreserved
  <2>. SUFFICES ASSUME OrderInv, NEW e \in Executions, NEW f \in granted[e],
                       NEW y \in Lookup(plan[e].graph, f),
                       NEW x \in DueBefore(plan[e].graph, plan[e].guards[S0], y)
                PROVE  StaticRuns(plan[e].graph, x) /\ RunsBefore(plan[e].graph, x, y, f) \subseteq granted[e]
    BY DEF OrderPreserved, EveryGrant
  <2>. DEFINE g == plan[e].graph
              t == plan[e].guards[S0]
  <2>1. f \in Asked(plan[e]) /\ DueIn(plan[e])[f] \subseteq granted[e] /\ granted[e] \subseteq Asked(plan[e])
    BY DEF OrderInv, InOrder
  <2>2. RunsDue(g, t, f) \cup Unknown(g, t, f) \subseteq granted[e]
    BY <2>1 DEF DueIn
  <2>3. RunsBefore(g, x, y, f) \subseteq RunsDue(g, t, f)
    <3>. DEFINE pairs == UNION {DueBefore(g, t, z) \X {z} : z \in Lookup(g, f)}
                w == <<x, y>>
    <3>1. w \in DueBefore(g, t, y) \X {y} /\ w[1] = x /\ w[2] = y
      OBVIOUS
    <3>2. w \in pairs
      BY <3>1
    <3>3. RunsBefore(g, w[1], w[2], f) \in {RunsBefore(g, p[1], p[2], f) : p \in pairs}
      <4>. HIDE DEF w, pairs
      <4>. QED
        BY <3>2
    <3>4. RunsBefore(g, x, y, f) \in {RunsBefore(g, p[1], p[2], f) : p \in pairs}
      BY <3>1, <3>3
    <3>. HIDE DEF pairs
    <3>. QED
      BY <3>4 DEF RunsDue, pairs
  <2>4. ~ StaticRuns(g, x) => g[x].fqn \in Unknown(g, t, f)
    BY DEF Unknown
  <2>5. \A h \in Unknown(g, t, f) : h \notin granted[e]
    BY <2>1 DEF OrderInv, InOrder, PipelineKeepsOrder
  <2>. QED
    BY <2>2, <2>3, <2>4, <2>5
<1>. QED
  BY <1>1, OrderAlways, PTL

LEMMA FollowsFromGates == GrantsSpec /\ GatesKeepOrder => []SomethingToFollow
<1>1. OrderInv => SomethingToFollow
  BY DEF OrderInv, FollowsOne, SomethingToFollow, EveryGrant
<1>. QED
  BY <1>1, OrderAlways, PTL

(* The steps of every pipeline are granted in its order, over every chain  *)
(* of grants, of any number of executions, with reads that fail and a      *)
(* run-state that is forgotten.                                            *)
THEOREM OrderKept ==
  ASSUME DefaultPolicies, NamesDistinct
  PROVE  GrantsSpec => []OrderPreserved
  BY GatesKeep, OrderFromGates, PTL

(* A step that starts on failure or on any outcome, and the entry of a     *)
(* rollback, start only after something they can follow ran, when there is *)
(* something that runs.                                                    *)
THEOREM FollowsSomething ==
  ASSUME DefaultPolicies, NamesDistinct
  PROVE  GrantsSpec => []SomethingToFollow
  BY GatesKeep, FollowsFromGates, PTL

-----------------------------------------------------------------------------
(* No step of any document is denied without a reason: with its guards     *)
(* holding, its own runs known and every unit before it run in full or     *)
(* never to run, its gate is satisfied.                                    *)
THEOREM DeniedForAReason == GrantsSpec => []NoFalseDenial
<1>1. plan \in [Executions -> Plans] => NoFalseDenial
  <2>. SUFFICES ASSUME plan \in [Executions -> Plans],
                       NEW e \in Executions, NEW f \in Asked(plan[e]), NEW y \in Lookup(plan[e].graph, f),
                       GateOf(plan[e], f, S0, S0).outcome = "evaluated",
                       Runs(plan[e].graph, plan[e].guards[S0], y), StaticRuns(plan[e].graph, y),
                       RollbackContainers(plan[e].graph, y) = {},
                       \A x \in {u \in Units(plan[e].graph) : Before(plan[e].graph, u, y)} :
                         \/ /\ Runs(plan[e].graph, plan[e].guards[S0], x) /\ StaticRuns(plan[e].graph, x)
                            /\ RunsBefore(plan[e].graph, x, y, f) \subseteq granted[e]
                         \/ StrategyExcluded(plan[e].graph, x)
                         \/ \E c \in Chain(x) : /\ plan[e].graph[c].when # NoWhen
                                                /\ plan[e].guards[S0][c] = "fails"
                PROVE  LET gate == GateOf(plan[e], f, S0, S0)
                       IN  Justified(gate, gate.needs \cap (granted[e] \cup folded[e]), {})
    BY DEF NoFalseDenial
  <2>. DEFINE p == plan[e]
              g == p.graph
              t == p.guards[S0]
              gate == GateOf(p, f, S0, S0)
  <2>1. p \in Plans
    OBVIOUS
  <2>2. /\ OrderingGraph(g) /\ gate = EvaluateStep(g, t, t, f)
        /\ StaticRuns(g, y) => RunOf(g, y, f)
    BY <2>1, PlansAssumption
  <2>3. gate.violations = {} /\ gate.needs \subseteq granted[e] /\ ~ gate.fanout
    <3>. DEFINE ran == granted[e]
    <3>1. \A x \in {u \in Units(g) : Before(g, u, y)} :
            \/ Runs(g, t, x) /\ StaticRuns(g, x) /\ RunsBefore(g, x, y, f) \subseteq ran
            \/ StrategyExcluded(g, x)
            \/ \E c \in Chain(x) : g[c].when # NoWhen /\ t[c] = "fails"
      OBVIOUS
    <3>2. /\ y \in Lookup(g, f) /\ Runs(g, t, y) /\ StaticRuns(g, y) /\ RollbackContainers(g, y) = {}
          /\ OrderingGraph(g) /\ RunOf(g, y, f)
      BY <2>2
    <3>. HIDE DEF g, t, ran
    <3>3. /\ EvaluateStep(g, t, t, f).violations = {} /\ EvaluateStep(g, t, t, f).needs \subseteq ran
          /\ ~ EvaluateStep(g, t, t, f).fanout
      BY <3>1, <3>2, GateOpens
    <3>. QED
      BY <2>2, <3>3 DEF ran
  <2>4. gate.outcome = "evaluated"
    OBVIOUS
  <2>. HIDE DEF gate
  <2>5. RunViolations(gate, (gate.needs \cap (granted[e] \cup folded[e])) \ {}, {}) = {}
    BY <2>3 DEF RunViolations
  <2>6. Justified(gate, gate.needs \cap (granted[e] \cup folded[e]), {})
    BY <2>3, <2>4, <2>5 DEF Justified, Allowed
  <2>. QED
    BY <2>6 DEF gate
<1>. QED
  BY <1>1, PlansTyped, PTL

=============================================================================
