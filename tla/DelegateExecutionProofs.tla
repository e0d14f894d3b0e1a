---------------------- MODULE DelegateExecutionProofs ----------------------
(***************************************************************************)
(* What is proved of DelegateExecution for any number of requests and      *)
(* executions and whatever is lost or passes unrecorded: the order of what *)
(* is started from what the gates keep (OrderAssumption), and that nothing *)
(* stands in the way of an honest engine from the documents of the         *)
(* pipelines (DocumentsAssumption, PolicyAssumption).                      *)
(***************************************************************************)
EXTENDS DelegateExecution, OrderingVerifierProofs, PipelineGraphProofs

-----------------------------------------------------------------------------
(* The verifier in this composition is OrderingVerifier.                   *)

LEMMA DStepIsStep == [DNext]_all => [Next]_vars
<1>. SUFFICES ASSUME [DNext]_all PROVE [Next]_vars
  OBVIOUS
<1>1. ASSUME NEW r \in Requests, NEW e \in Executions, NEW f \in Asked(plan[e]), Dispatch(r, e, f)
      PROVE  Next
  BY <1>1 DEF Dispatch, Next, Serve
<1>2. ASSUME NEW r \in Requests, Skip(r) \/ Verify(r) \/ Deliver(r) \/ LoseAnswer(r)
      PROVE  Next
  BY <1>2 DEF Skip, Verify, Deliver, LoseAnswer, Next, Serve
<1>3. ASSUME NEW e, NEW f, Complete(e, f) PROVE UNCHANGED vars
  BY <1>3 DEF Complete
<1>4. ASSUME UNCHANGED all PROVE UNCHANGED vars
  BY <1>4 DEF all
<1>. QED
  BY <1>1, <1>2, <1>3, <1>4 DEF DNext

(* Between the engine and the delegate the verifier does what it does for  *)
(* any clients, so what is proved of OrderingVerifier holds here.          *)
THEOREM Delegated == DSpec => Spec
<1>1. DInit => Init
  BY DEF DInit
<1>. QED
  BY <1>1, DStepIsStep, PTL DEF DSpec, Spec

-----------------------------------------------------------------------------
(* The gates in this composition: one per name, under the only statuses.   *)

LEMMA OneStatusMap == StatusMaps = {NoStatus}
<1>1. Owners = {}
  BY SettledAssumption
<1>2. StatusMaps = [{} -> Statuses]
  BY <1>1 DEF StatusMaps
<1>3. \A s \in [{} -> Statuses] : s = NoStatus
  BY DEF NoStatus
<1>. QED
  BY <1>2, <1>3, NoStatusTyped

LEMMA GateRead ==
  ASSUME Inv, NEW r \in Requests, call[r].pc = "read"
  PROVE  /\ call[r].fqn \in Asked(plan[call[r].exec])
         /\ call[r].gate = GatesIn(plan[call[r].exec])[call[r].fqn]
         /\ call[r].gate.outcome = "evaluated"
<1>. DEFINE e == call[r].exec
<1>1. call[r].own \in StatusMaps /\ plan[e] \in Plans
  BY DEF Inv, TypeOK, Calls
<1>2. call[r].fqn \in Asked(plan[e]) /\ call[r].gate.outcome = "evaluated"
  BY DEF Inv, CallsConsistent, CallConsistent
<1>3. PICK v \in Versions(plan[e]), walk \in StatusMaps : call[r].gate = GateOf(v, call[r].fqn, call[r].own, walk)
  BY DEF Inv, CallsConsistent, CallConsistent
<1>4. v = plan[e] /\ call[r].own = NoStatus /\ walk = NoStatus
  BY <1>1, <1>3, OneStatusMap, SettledAssumption
<1>. QED
  BY <1>2, <1>3, <1>4 DEF GatesIn

LEMMA StoreFolds ==
  ASSUME Inv, Folded, NEW e \in Executions
  PROVE  /\ instances[e] \subseteq DOMAIN GatesIn(plan[e])
         /\ \A q \in instances[e] : GatesIn(plan[e])[q].fqn \in logical[e]
         /\ \A h \in logical[e] : \E q \in instances[e] : h = GatesIn(plan[e])[q].fqn
<1>1. plan[e] \in Plans /\ Versions(plan[e]) = {plan[e]}
  BY SettledAssumption DEF Inv, TypeOK
<1>2. instances[e] \subseteq Asked(plan[e])
  BY DEF Folded
<1>3. \A q \in instances[e] : \A h : Folds(e, q, h) <=> h = GatesIn(plan[e])[q].fqn
  BY <1>1, <1>2 DEF Folds, GatesIn
<1>. QED
  BY <1>2, <1>3 DEF Folded, GatesIn

-----------------------------------------------------------------------------
(* The order of what is recorded.                                          *)

RecordedInOrder ==
  \A e \in Executions : \A f \in instances[e] : Due[plan[e]][f] \subseteq instances[e]

LEMMA RecordedInOrderStep == Inv /\ Folded /\ RecordedInOrder /\ [Next]_vars => RecordedInOrder'
<1>. SUFFICES ASSUME Inv, Folded, RecordedInOrder, [Next]_vars PROVE RecordedInOrder'
  OBVIOUS
<1>1. ASSUME NEW r \in Requests, Allow(r) PROVE RecordedInOrder'
  <2>0. PICK e \in Executions, f \in Names : call[r].exec = e /\ call[r].fqn = f
    BY DEF Inv, TypeOK, Calls
  <2>. DEFINE gates == GatesIn(plan[e])
              due == Due[plan[e]]
              ran == call[r].ran
  <2>1. plan[e] \in Plans /\ call[r].pc = "read" /\ Passes(r) /\ plan' = plan
    BY <1>1, <2>0 DEF Inv, TypeOK, Allow
  <2>2. f \in DOMAIN gates /\ call[r].gate = gates[f] /\ gates[f].outcome = "evaluated"
    BY <2>0, <2>1, GateRead DEF GatesIn
  <2>3. ran \subseteq gates[f].needs /\ ran \subseteq instances[e] \cup logical[e]
    BY <2>0, <2>1, <2>2 DEF Inv, CallsConsistent, CallConsistent, Ran
  <2>4. Allowed(gates[f], ran, {}, FailOpen)
    BY <2>1, <2>2 DEF Passes
  <2>5. KeepsOrder(gates, due, FailOpen)
    BY <2>1, OrderAssumption
  <2>6. \A q \in instances[e] : due[q] \subseteq instances[e]
    BY DEF RecordedInOrder
  <2>7. /\ instances[e] \subseteq DOMAIN gates
        /\ \A h \in logical[e] : \E q \in instances[e] : h = gates[q].fqn
    BY StoreFolds
  <2>8. due[f] \subseteq instances[e]
    <3>. SUFFICES ASSUME NEW i \in due[f] PROVE i \in instances[e]
      OBVIOUS
    <3>. HIDE DEF gates, due, ran
    <3>1. ran \in Suffices(gates, f, FailOpen)
      BY <2>2, <2>3, <2>4 DEF Suffices
    <3>2. PICK h \in ran : \A q \in GrantsOf(gates, h) : i = q \/ i \in due[q]
      BY <2>2, <2>5, <3>1 DEF KeepsOrder
    <3>3. PICK q \in instances[e] : h \in {q, gates[q].fqn}
      BY <2>3, <2>7
    <3>4. q \in GrantsOf(gates, h)
      BY <2>7, <3>3 DEF GrantsOf
    <3>. QED
      BY <2>6, <3>2, <3>4
  <2>9. /\ instances'[e] = instances[e] \cup {f}
        /\ \A d \in Executions \ {e} : instances'[d] = instances[d]
    BY <1>1, <2>0 DEF Allow, Inv, TypeOK
  <2>. QED
    BY <2>1, <2>6, <2>8, <2>9 DEF RecordedInOrder
<1>2. ASSUME Restart PROVE RecordedInOrder'
  BY <1>2 DEF Restart, RecordedInOrder
<1>3. ASSUME UNCHANGED <<plan, instances>> PROVE RecordedInOrder'
  BY <1>3 DEF RecordedInOrder
<1>4. (\E r \in Requests : Allow(r)) \/ Restart \/ UNCHANGED <<plan, instances>>
  BY DEF Next, Serve, Arrive, PassUnordered, ReadOwnGuards, WalkAncestors, ReadRan, Deny, Finish, MarkStatus, vars
<1>. QED
  BY <1>1, <1>2, <1>3, <1>4

-----------------------------------------------------------------------------
(* What an honest engine waits for lets a run through its gate.            *)

\* Any run before one that anything will do for is one that it follows.
LEMMA FollowedRuns ==
  ASSUME NEW g, NEW f, NEW y, Lookup(g, f) = {y}, OrJoined(g, y),
         NEW x \in Forerunners(g, y), NEW i \in RunsBefore(g, x, y, f)
  PROVE  i \in RunsFollowed(g, f)
<1>. DEFINE pairs == UNION {Forerunners(g, z) \X {z} : z \in {v \in Lookup(g, f) : OrJoined(g, v)}}
            w == <<x, y>>
<1>1. w \in pairs /\ w[1] = x /\ w[2] = y
  OBVIOUS
<1>. HIDE DEF w
<1>. QED
  BY <1>1 DEF RunsFollowed

LEMMA StartAdmitted ==
  ASSUME NEW p \in Plans, NEW f \in Asked(p), f \notin AfterSkippedEntry[p], NEW S \in StartsAfter[p][f]
  PROVE  Admits(GatesIn(p), f, S \cap Followed[p][f], FailOpen)
<1>. DEFINE g == p.graph
            t == GuardsOf(p)
            gate == EvaluateStep(g, t, t, f)
            before(y) == {x \in Units(g) : Before(g, x, y) /\ Runs(g, t, x)}
            runs(y, X) == UNION {RunsBefore(g, x, y, f) : x \in X}
<1>1. PICK y \in Lookup(g, f) : Startable(g, t, y) /\ S \in Enough(g, t, y, f)
  BY DEF StartsAfter
<1>2. /\ OrderingGraph(g) /\ Decided(t, g) /\ GatesIn(p)[f] = gate
      /\ StaticRuns(g, y) => RunOf(g, y, f)
      /\ \A z \in Nodes(g) : SeparatePlanRollback(g, z) => "pipelineRollback" \in FailOpen
  BY <1>1, DocumentsAssumption, PolicyAssumption
<1>3. /\ Runs(g, t, y) /\ StaticRuns(g, y) /\ RunOf(g, y, f)
      /\ \A x \in Units(g) : Before(g, x, y) /\ Runs(g, t, x) => StaticRuns(g, x)
  BY <1>1, <1>2 DEF Startable
<1>4. \A x \in Units(g) : Before(g, x, y) /\ AtRollbackEntry(g, x) => Runs(g, t, x)
  BY <1>1 DEF AfterSkippedEntry
<1>5. Followed[p][f] = RunsDue(g, t, f) \cup RunsFollowed(g, f)
  BY DEF Followed, Due
<1>. HIDE DEF g, t
<1>6. /\ y \in Nodes(g) /\ Lookup(g, f) = {y} /\ gate.outcome = "evaluated"
  BY <1>1, <1>2, LookupOne, GateIs
<1>7. runs(y, before(y)) \subseteq S
  BY <1>1 DEF Enough
<1>. DEFINE found == S \cap Followed[p][f]
<1>8. ASSUME gate.violations \subseteq FailOpen,
             \/ gate.needs \subseteq found /\ ~ gate.fanout
             \/ gate.join = "OR" /\ gate.needs \cap found # {}
      PROVE  Admits(GatesIn(p), f, found, FailOpen)
  <2>1. found \subseteq RecordsOf(GatesIn(p), found)
    BY DEF RecordsOf
  <2>. DEFINE ran == gate.needs \cap RecordsOf(GatesIn(p), found)
  <2>. HIDE DEF gate, found
  <2>2. RunViolations(gate, ran, {}) = {}
    BY <1>8, <2>1 DEF RunViolations, Satisfied
  <2>3. Allowed(gate, ran, {}, FailOpen)
    BY <1>8, <2>2 DEF Allowed
  <2>. QED
    BY <1>2, <1>6, <2>3 DEF Admits
<1>9. CASE SeparatePlanRollback(g, y)
  <2>1. gate = RollbackGate(g, t, y)
    <3>1. (CHOOSE m \in Lookup(g, f) : TRUE) = y /\ Lookup(g, f) # {}
      BY <1>6
    <3>. QED
      BY <1>9, <3>1 DEF EvaluateStep
  <2>2. OwnViolations(g, t, y) = {}
    BY <1>3, OwnNone
  <2>3. gate.violations = {"pipelineRollback"} /\ gate.needs = {} /\ ~ gate.fanout
    BY <2>1, <2>2 DEF RollbackGate, Gate
  <2>. QED
    BY <1>2, <1>6, <1>8, <1>9, <2>3
<1>10. CASE ~ OrJoined(g, y)
  <2>1. /\ gate.violations = {} /\ ~ gate.fanout
        /\ \A h \in gate.needs : h \in RunsDue(g, t, f) /\
             \E x \in Units(g) : Before(g, x, y) /\ Runs(g, t, x) /\ h \in RunsBefore(g, x, y, f)
    BY <1>1, <1>2, <1>3, <1>4, <1>10, GateAwaits
  <2>2. gate.needs \subseteq found
    BY <1>5, <1>7, <2>1
  <2>. QED
    BY <1>8, <2>1, <2>2
<1>11. CASE OrJoined(g, y) /\ RollbackContainers(g, y) = {}
  <2>1. S = runs(y, before(y))
    BY <1>1, <1>11 DEF Enough
  <2>2. ASSUME NEW x \in {u \in Units(g) : Before(g, u, y)}
        PROVE  \/ Runs(g, t, x) /\ StaticRuns(g, x) /\ RunsBefore(g, x, y, f) \subseteq S
               \/ StrategyExcluded(g, x)
               \/ \E c \in Chain(x) : g[c].when # NoWhen /\ t[c] = "fails"
    <3>1. CASE Runs(g, t, x)
      BY <1>3, <1>7, <3>1
    <3>2. CASE ~ Runs(g, t, x)
      <4>1. Chain(x) \subseteq DOMAIN g
        BY <1>2, UnitsFinite, InTree
      <4>. QED
        BY <1>2, <3>2, <4>1 DEF Runs, Decided
    <3>. QED
      BY <3>1, <3>2
  <2>3. gate.violations = {} /\ gate.needs \subseteq S /\ ~ gate.fanout
    BY <1>1, <1>2, <1>3, <1>11, <2>2, GateOpens
  <2>4. S \subseteq RunsFollowed(g, f)
    <3>1. before(y) \subseteq Forerunners(g, y)
      BY DEF Forerunners
    <3>. QED
      BY <1>6, <1>11, <2>1, <3>1, FollowedRuns
  <2>. QED
    BY <1>5, <1>8, <2>3, <2>4
<1>12. CASE OrJoined(g, y) /\ RollbackContainers(g, y) # {} /\ ~ SeparatePlanRollback(g, y)
  <2>1. PICK z \in RolledBack(g, y) : Runs(g, t, z) /\ \E i \in RunsBefore(g, z, y, f) : S = runs(y, before(y)) \cup {i}
    BY <1>1, <1>12 DEF Enough
  <2>2. PICK i \in RunsBefore(g, z, y, f) : S = runs(y, before(y)) \cup {i}
    BY <2>1
  <2>3. /\ gate.violations = {} /\ gate.join = "OR"
        /\ \E h \in gate.needs :
             \/ h = i
             \/ \E x \in Units(g) : Before(g, x, y) /\ Runs(g, t, x) /\ h \in RunsBefore(g, x, y, f)
    BY <1>1, <1>2, <1>3, <1>12, <2>1, <2>2, GateAwaitsAny
  <2>4. PICK h \in gate.needs :
             \/ h = i
             \/ \E x \in Units(g) : Before(g, x, y) /\ Runs(g, t, x) /\ h \in RunsBefore(g, x, y, f)
    BY <2>3
  <2>5. h \in S /\ h \in RunsFollowed(g, f)
    <3>1. PICK x \in Forerunners(g, y) : h \in RunsBefore(g, x, y, f)
      BY <2>2, <2>4 DEF Forerunners
    <3>. QED
      BY <1>6, <1>7, <1>12, <2>2, <2>4, <3>1, FollowedRuns
  <2>. QED
    BY <1>5, <1>8, <2>3, <2>5
<1>. QED
  BY <1>9, <1>10, <1>11, <1>12

-----------------------------------------------------------------------------
(* What the delegate began and what its calls will find.                   *)

\* What ended was started, and what was started is recorded or escaped.
Begun ==
  /\ started \in [Executions -> SUBSET Names]
  /\ ended \in [Executions -> SUBSET Names]
  /\ escaped \in [Executions -> SUBSET Names]
  /\ \A e \in Executions : /\ ended[e] \subseteq started[e]
                           /\ started[e] \subseteq instances[e] \cup escaped[e]

Answered(r) ==
  /\ call[r].verdict = "allow" => call[r].fqn \in instances[call[r].exec]
  /\ IF call[r].pc = "done" THEN call[r].verdict \in {"allow", "deny", "pass"}
                            ELSE call[r].verdict = "none"

\* Runs that have ended and that admit f once they are recorded.
Awaited(e, f) ==
  {S \in SUBSET (ended[e] \cap Followed[plan[e]][f]) : Admits(GatesIn(plan[e]), f, S, FailOpen)}

\* An honest engine may expect that f is let through.
Owed(e, f) == honest /\ f \notin AfterSkippedEntry[plan[e]]

\* A call of an honest engine: its predecessors have ended, and those that
\* are recorded were found by every read that is done.
Finds(r) ==
  LET c == call[r]
      e == c.exec
  IN  Owed(e, c.fqn) =>
        /\ c.pc \in {"guards", "walk"} => Awaited(e, c.fqn) # {}
        /\ c.pc = "read" =>
             \E S \in Awaited(e, c.fqn) : \A h \in c.gate.needs \ (c.ran \cup c.todo) :
               h \notin RecordsOf(GatesIn(plan[e]), S \ escaped[e])
        /\ c.verdict = "deny" => Followed[plan[e]][c.fqn] \cap escaped[e] # {}

CallsFind == \A r \in Requests : Answered(r) /\ Finds(r)

\* A call that does not move stays as it is while nothing is forgotten.
LEMMA OtherFinds ==
  ASSUME NEW r \in Requests, Answered(r), Finds(r), call'[r] = call[r],
         call[r].exec \in Executions, plan' = plan, honest' = honest,
         \A e \in Executions : /\ instances[e] \subseteq instances'[e] /\ ended[e] \subseteq ended'[e]
                               /\ escaped[e] \subseteq escaped'[e]
  PROVE  Answered(r)' /\ Finds(r)'
<1>. DEFINE e == call[r].exec
            f == call[r].fqn
<1>1. Answered(r)'
  BY DEF Answered
<1>2. Awaited(e, f) \subseteq Awaited(e, f)'
  BY DEF Awaited, GatesIn
<1>3. ASSUME NEW S PROVE RecordsOf(GatesIn(plan[e]), S \ escaped'[e]) \subseteq RecordsOf(GatesIn(plan[e]), S \ escaped[e])
  BY DEF RecordsOf
<1>4. Followed[plan[e]][f] \cap escaped[e] \subseteq Followed[plan[e]][f] \cap escaped'[e]
  OBVIOUS
<1>5. ASSUME Owed(e, f)
      PROVE  /\ call'[r].pc \in {"guards", "walk"} => Awaited(e, f)' # {}
             /\ call'[r].pc = "read" =>
                  \E S \in Awaited(e, f)' : \A h \in call'[r].gate.needs \ (call'[r].ran \cup call'[r].todo) :
                    h \notin RecordsOf(GatesIn(plan[e]), S \ escaped'[e])
             /\ call'[r].verdict = "deny" => Followed[plan[e]][f] \cap escaped'[e] # {}
  BY <1>2, <1>3, <1>4, <1>5 DEF Finds
<1>. QED
  BY <1>1, <1>5 DEF Finds, Awaited, Owed

\* A run that is due is admitted by runs that have ended.
LEMMA DueIsAdmitted ==
  ASSUME Inv, NEW e \in Executions, NEW f \in Asked(plan[e]), f \notin AfterSkippedEntry[plan[e]], DueNow(e, f)
  PROVE  Awaited(e, f) # {}
<1>1. PICK S \in StartsAfter[plan[e]][f] : S \subseteq ended[e]
  BY DEF DueNow
<1>2. plan[e] \in Plans
  BY DEF Inv, TypeOK
<1>3. Admits(GatesIn(plan[e]), f, S \cap Followed[plan[e]][f], FailOpen)
  BY <1>1, <1>2, StartAdmitted
<1>. QED
  BY <1>1, <1>3 DEF Awaited

\* What a call read of the store and found denies it only when a run that it
\* follows escaped.
LEMMA DeniedAfterEscape ==
  ASSUME Inv, NEW r \in Requests, Finds(r), Owed(call[r].exec, call[r].fqn), Deny(r)
  PROVE  Followed[plan[call[r].exec]][call[r].fqn] \cap escaped[call[r].exec] # {}
<1>. DEFINE e == call[r].exec
            f == call[r].fqn
            gates == GatesIn(plan[e])
            ran == call[r].ran
<1>. SUFFICES ASSUME Followed[plan[e]][f] \cap escaped[e] = {} PROVE FALSE
  OBVIOUS
<1>1. call[r].pc = "read" /\ call[r].todo = {} /\ ~ Passes(r)
  BY DEF Deny
<1>2. call[r].gate = gates[f] /\ gates[f].outcome = "evaluated"
  BY <1>1, GateRead
<1>3. PICK S \in Awaited(e, f) : \A h \in gates[f].needs \ ran : h \notin RecordsOf(gates, S \ escaped[e])
  BY <1>1, <1>2 DEF Finds
<1>4. S \ escaped[e] = S /\ Admits(gates, f, S, FailOpen)
  BY DEF Awaited
<1>5. gates[f].needs \cap RecordsOf(gates, S) \subseteq ran
  BY <1>3, <1>4
<1>6. Allowed(gates[f], ran, {}, FailOpen)
  <2>. HIDE DEF gates, f, ran
  <2>. QED
    BY <1>2, <1>4, <1>5, AdmittedByRecords
<1>. QED
  BY <1>1, <1>2, <1>6 DEF Passes

LEMMA CallsFindStep ==
  Inv /\ Folded /\ Begun /\ CallsFind /\ [DNext]_all => Begun' /\ CallsFind'
<1>. SUFFICES ASSUME Inv, Folded, Begun, CallsFind, [DNext]_all PROVE Begun' /\ CallsFind'
  OBVIOUS
<1>t. /\ TypeOK
      /\ \A r \in Requests : /\ call[r] \in Calls /\ CallConsistent(r) /\ Answered(r) /\ Finds(r)
                             /\ call[r].exec \in Executions /\ call[r].fqn \in Names
  BY DEF Inv, CallsConsistent, TypeOK, Calls, CallsFind
\* One step of one request, with what the delegate began as it was.
<1>s. ASSUME NEW r \in Requests, Answered(r)', Finds(r)', \A q \in Requests \ {r} : call'[q] = call[q],
             UNCHANGED <<plan, exchange>>, \A e \in Executions : instances[e] \subseteq instances'[e]
      PROVE  Begun' /\ CallsFind'
  <2>1. Begun'
    BY <1>s DEF Begun, exchange
  <2>2. \A q \in Requests \ {r} : Answered(q)' /\ Finds(q)'
    BY <1>t, <1>s, OtherFinds DEF exchange
  <2>. QED
    BY <1>s, <2>1, <2>2 DEF CallsFind
\* An answer.
<1>p. ASSUME NEW r \in Requests, NEW v \in {"allow", "deny", "pass"}, Answer(r, v), UNCHANGED <<plan, exchange>>,
             v = "allow" => call[r].fqn \in instances'[call[r].exec],
             Owed(call[r].exec, call[r].fqn) /\ v = "deny" => Followed[plan[call[r].exec]][call[r].fqn] \cap escaped[call[r].exec] # {}
      PROVE  Answered(r)' /\ Finds(r)' /\ \A q \in Requests \ {r} : call'[q] = call[q]
  <2>1. call'[r] = [call[r] EXCEPT !.pc = "done", !.verdict = v] /\ \A q \in Requests \ {r} : call'[q] = call[q]
    BY <1>t, <1>p DEF Answer, TypeOK
  <2>2. /\ call'[r].pc = "done" /\ call'[r].verdict = v
        /\ call'[r].exec = call[r].exec /\ call'[r].fqn = call[r].fqn
    BY <1>t, <2>1 DEF Calls
  <2>3. Answered(r)'
    BY <1>p, <2>2 DEF Answered
  <2>4. Finds(r)'
    BY <1>p, <2>2 DEF Finds, Owed, exchange
  <2>. QED
    BY <2>1, <2>3, <2>4
<1>a. ASSUME NEW r \in Requests, NEW e \in Executions, NEW f \in Asked(plan[e]), Dispatch(r, e, f)
      PROVE  Begun' /\ CallsFind'
  <2>1. /\ call'[r] = Fresh("guards", e, f, f \in instances[e]) /\ \A q \in Requests \ {r} : call'[q] = call[q]
        /\ UNCHANGED <<plan, instances, logical, statuses, exchange>>
    BY <1>t, <1>a DEF Dispatch, Arrive, TypeOK
  <2>2. call'[r].pc = "guards" /\ call'[r].exec = e /\ call'[r].fqn = f /\ call'[r].verdict = "none"
    BY <2>1 DEF Fresh
  <2>3. Owed(e, f) => Awaited(e, f) # {}
    BY <1>a, DueIsAdmitted DEF Dispatch, Owed
  <2>4. Awaited(e, f)' = Awaited(e, f)
    BY <2>1 DEF Awaited, GatesIn, exchange
  <2>5. Answered(r)' /\ Finds(r)'
    BY <2>1, <2>2, <2>3, <2>4 DEF Answered, Finds, Owed, exchange
  <2>. QED
    BY <1>s, <2>1, <2>5
<1>b. ASSUME NEW r \in Requests, Skip(r) PROVE Begun' /\ CallsFind'
  BY <1>b, <1>p, <1>s DEF Skip, PassUnordered
<1>c. ASSUME NEW r \in Requests, ReadOwnGuards(r), UNCHANGED exchange PROVE Begun' /\ CallsFind'
  <2>1. /\ call[r].pc = "guards" /\ UNCHANGED <<plan, instances, logical, statuses>>
        /\ call'[r] = [call[r] EXCEPT !.pc = "walk", !.own = statuses[call[r].exec]]
        /\ \A q \in Requests \ {r} : call'[q] = call[q]
    BY <1>t, <1>c DEF ReadOwnGuards, TypeOK
  <2>2. /\ call'[r].pc = "walk" /\ call'[r].fqn = call[r].fqn /\ call'[r].exec = call[r].exec
        /\ call'[r].verdict = call[r].verdict
    BY <1>t, <2>1 DEF Calls
  <2>3. Answered(r)'
    BY <1>t, <2>1, <2>2 DEF Answered
  <2>4. Finds(r)'
    BY <1>t, <1>c, <2>1, <2>2 DEF Finds, Owed, exchange, Awaited
  <2>. QED
    BY <1>c, <1>s, <2>1, <2>3, <2>4
<1>d. ASSUME NEW r \in Requests, NEW v \in Versions(plan[call[r].exec]), WalkAncestors(r, v), UNCHANGED exchange
      PROVE  Begun' /\ CallsFind'
  <2>0. PICK e \in Executions, f \in Names : call[r].exec = e /\ call[r].fqn = f
    BY <1>t
  <2>. DEFINE gates == GatesIn(plan[e])
  <2>1. call[r].pc = "walk" /\ UNCHANGED <<plan, instances, logical, statuses>>
    BY <1>d DEF WalkAncestors
  <2>2. GateOf(v, f, call[r].own, statuses[e]) = gates[f]
    <3>1. plan[e] \in Plans /\ f \in Asked(plan[e]) /\ call[r].own = NoStatus /\ statuses[e] = NoStatus
      BY <1>t, <2>0, <2>1, OneStatusMap DEF TypeOK, CallConsistent, Calls
    <3>2. v = plan[e]
      BY <1>d, <2>0, <3>1, SettledAssumption
    <3>. QED
      BY <3>1, <3>2 DEF GatesIn
  <2>3. CASE call' = [call EXCEPT ![r] = [@ EXCEPT !.pc = "read", !.gate = gates[f], !.todo = gates[f].needs]]
    <3>1. /\ call'[r] = [call[r] EXCEPT !.pc = "read", !.gate = gates[f], !.todo = gates[f].needs]
          /\ \A q \in Requests \ {r} : call'[q] = call[q]
      BY <1>t, <2>3 DEF TypeOK
    <3>2. /\ call'[r].pc = "read" /\ call'[r].gate = gates[f] /\ call'[r].todo = gates[f].needs
          /\ call'[r].exec = e /\ call'[r].fqn = f /\ call'[r].verdict = call[r].verdict
      BY <1>t, <2>0, <3>1 DEF Calls
    <3>3. call'[r].gate.needs \ (call'[r].ran \cup call'[r].todo) = {}
      BY <3>2
    <3>4. Awaited(e, f)' = Awaited(e, f)
      BY <1>d, <2>1 DEF Awaited, GatesIn, exchange
    <3>5. Finds(r)'
      BY <1>t, <1>d, <2>0, <2>1, <3>2, <3>3, <3>4 DEF Finds, Owed, exchange
    <3>6. Answered(r)'
      BY <1>t, <2>0, <2>1, <3>2 DEF Answered
    <3>. QED
      BY <1>d, <1>s, <2>1, <3>1, <3>5, <3>6
  <2>4. CASE Answer(r, "pass")
    BY <1>d, <1>p, <1>s, <2>1, <2>4
  <2>5. CASE gates[f].outcome = "invalid" /\ Refuse(r)
    <3>1. PICK a \in Refusals : Answer(r, a)
      BY <2>5 DEF Refuse
    <3>2. ~ Owed(e, f)
      BY <1>t, <2>0, <2>1, <2>5 DEF Finds, Awaited, Admits
    <3>. QED
      BY <1>d, <1>p, <1>s, <2>0, <2>1, <3>1, <3>2, RefusalAssumption
  <2>. QED
    BY <1>d, <2>0, <2>2, <2>3, <2>4, <2>5 DEF WalkAncestors
<1>f. ASSUME NEW r \in Requests, NEW k \in call[r].todo, ReadRan(r, k), UNCHANGED exchange PROVE Begun' /\ CallsFind'
  <2>0. PICK e \in Executions, f \in Names : call[r].exec = e /\ call[r].fqn = f
    BY <1>t
  <2>. DEFINE gates == GatesIn(plan[e])
              c == call[r]
              ran == c.ran \cup {h \in {k} : Ran(e, h)}
  <2>1. /\ c.pc = "read" /\ k \in c.todo /\ UNCHANGED <<plan, instances, logical, statuses>>
        /\ call'[r] = [c EXCEPT !.todo = c.todo \ {k}, !.ran = ran]
        /\ \A q \in Requests \ {r} : call'[q] = call[q]
    BY <1>t, <1>f, <2>0 DEF ReadRan, TypeOK
  <2>2. /\ call'[r].pc = "read" /\ call'[r].gate = c.gate /\ call'[r].exec = e /\ call'[r].fqn = f
        /\ call'[r].verdict = c.verdict /\ call'[r].todo = c.todo \ {k} /\ call'[r].ran = ran
    BY <1>t, <2>0, <2>1 DEF Calls
  <2>3. Answered(r)'
    BY <1>t, <2>0, <2>1, <2>2 DEF Answered
  <2>4. ASSUME NEW S \in Awaited(e, f), ~ Ran(e, k) PROVE k \notin RecordsOf(gates, S \ escaped[e])
    <3>1. S \ escaped[e] \subseteq instances[e]
      BY DEF Awaited, Begun
    <3>2. \A q \in instances[e] : gates[q].fqn \in logical[e]
      BY StoreFolds
    <3>. QED
      BY <2>4, <3>1, <3>2 DEF RecordsOf, Ran
  <2>5. ASSUME Owed(e, f) PROVE \E S \in Awaited(e, f) : \A h \in c.gate.needs \ (ran \cup (c.todo \ {k})) :
               h \notin RecordsOf(gates, S \ escaped[e])
    <3>1. PICK S \in Awaited(e, f) : \A h \in c.gate.needs \ (c.ran \cup c.todo) :
            h \notin RecordsOf(gates, S \ escaped[e])
      BY <1>t, <2>0, <2>1, <2>5 DEF Finds
    <3>2. ASSUME NEW h \in c.gate.needs \ (ran \cup (c.todo \ {k}))
          PROVE  h \notin RecordsOf(gates, S \ escaped[e])
      <4>1. h \in c.gate.needs \ (c.ran \cup c.todo) \/ (h = k /\ ~ Ran(e, k))
        OBVIOUS
      <4>. QED
        BY <2>4, <3>1, <4>1
    <3>. QED
      BY <3>2
  <2>6. Awaited(e, f)' = Awaited(e, f)
    BY <1>f, <2>1 DEF Awaited, GatesIn, exchange
  <2>7. Finds(r)'
    <3>. SUFFICES ASSUME Owed(e, f)' PROVE Finds(r)'
      BY <2>2 DEF Finds
    <3>1. Owed(e, f) /\ escaped' = escaped /\ plan' = plan
      BY <1>f, <2>1 DEF exchange, Owed
    <3>2. PICK S \in Awaited(e, f)' : \A h \in call'[r].gate.needs \ (call'[r].ran \cup call'[r].todo) :
            h \notin RecordsOf(GatesIn(plan'[e]), S \ escaped'[e])
      BY <2>2, <2>5, <2>6, <3>1
    <3>3. c.verdict = "deny" => Followed[plan[e]][f] \cap escaped[e] # {}
      BY <1>t, <2>0, <3>1 DEF Finds
    <3>. QED
      BY <2>2, <3>1, <3>2, <3>3 DEF Finds
  <2>. QED
    BY <1>f, <1>s, <2>1, <2>3, <2>7
<1>g. ASSUME NEW r \in Requests, Allow(r), UNCHANGED exchange PROVE Begun' /\ CallsFind'
  <2>1. /\ Answer(r, "allow") /\ plan' = plan
        /\ call[r].fqn \in instances'[call[r].exec]
        /\ \A e \in Executions : instances[e] \subseteq instances'[e]
    BY <1>t, <1>g DEF Allow, TypeOK
  <2>. QED
    BY <1>g, <1>p, <1>s, <2>1
<1>h. ASSUME NEW r \in Requests, Deny(r), UNCHANGED exchange PROVE Begun' /\ CallsFind'
  <2>1. PICK a \in Refusals : Answer(r, a)
    BY <1>h DEF Deny, Refuse
  <2>2. UNCHANGED <<plan, instances>>
    BY <1>h DEF Deny
  <2>3. Owed(call[r].exec, call[r].fqn) => Followed[plan[call[r].exec]][call[r].fqn] \cap escaped[call[r].exec] # {}
    BY <1>t, <1>h, DeniedAfterEscape
  <2>. QED
    BY <1>h, <1>p, <1>s, <2>1, <2>2, <2>3, RefusalAssumption
\* The answer is read, or lost.
<1>u. ASSUME NEW r \in Requests, Finish(r)
      PROVE  /\ Answered(r)' /\ Finds(r)' /\ \A q \in Requests \ {r} : call'[q] = call[q]
             /\ UNCHANGED <<plan, instances, logical, statuses>>
  <2>1. /\ call'[r] = Idle /\ (\A q \in Requests \ {r} : call'[q] = call[q])
        /\ UNCHANGED <<plan, instances, logical, statuses>>
    BY <1>t, <1>u DEF Finish, TypeOK
  <2>2. call'[r].pc = "idle" /\ call'[r].verdict = "none"
    BY <2>1 DEF Idle, Fresh
  <2>. QED
    BY <2>1, <2>2 DEF Answered, Finds
<1>i. ASSUME NEW r \in Requests, Deliver(r) PROVE Begun' /\ CallsFind'
  <2>0. PICK e \in Executions, f \in Names : call[r].exec = e /\ call[r].fqn = f
    BY <1>t
  <2>1. Finish(r) /\ call[r].pc = "done" /\ UNCHANGED <<honest, ended>>
    BY <1>i DEF Deliver, Finish
  <2>2. /\ call[r].verdict \in {"allow", "deny", "pass"}
        /\ call[r].verdict = "allow" => f \in instances[e]
    BY <1>t, <2>0, <2>1 DEF Answered
  <2>3. /\ \A d \in Executions \ {e} : started'[d] = started[d] /\ escaped'[d] = escaped[d]
        /\ started'[e] = IF call[r].verdict = "deny" THEN started[e] ELSE started[e] \cup {f}
        /\ escaped'[e] = IF call[r].verdict # "pass" THEN escaped[e]
                         ELSE escaped[e] \cup ({f} \ instances[e])
        /\ started' \in [Executions -> SUBSET Names] /\ escaped' \in [Executions -> SUBSET Names]
    BY <1>i, <2>0 DEF Deliver, Begun
  <2>4. Begun'
    BY <1>u, <2>1, <2>2, <2>3 DEF Begun
  <2>5. \A q \in Requests \ {r} : Answered(q)' /\ Finds(q)'
    BY <1>t, <1>u, <2>1, <2>3, OtherFinds
  <2>. QED
    BY <1>u, <2>1, <2>4, <2>5 DEF CallsFind
<1>j. ASSUME NEW r \in Requests, LoseAnswer(r) PROVE Begun' /\ CallsFind'
  BY <1>j, <1>s, <1>u DEF LoseAnswer
<1>k. ASSUME NEW e \in Executions, NEW f \in started[e], Complete(e, f) PROVE Begun' /\ CallsFind'
  <2>1. UNCHANGED <<plan, instances, logical, statuses, call, honest, started, escaped>>
    BY <1>k DEF Complete, vars
  <2>2. /\ ended' \in [Executions -> SUBSET Names] /\ ended'[e] = ended[e] \cup {f} /\ f \in started[e]
        /\ \A d \in Executions \ {e} : ended'[d] = ended[d]
    BY <1>k DEF Complete, Begun
  <2>3. Begun'
    BY <2>1, <2>2 DEF Begun
  <2>4. \A q \in Requests : Answered(q)' /\ Finds(q)'
    BY <1>t, <2>1, <2>2, OtherFinds
  <2>. QED
    BY <2>3, <2>4 DEF CallsFind
<1>l. ASSUME UNCHANGED all PROVE Begun' /\ CallsFind'
  BY <1>l DEF all, vars, exchange, Begun, CallsFind, Answered, Finds, Owed, Awaited
<1>v. ASSUME NEW r \in Requests, Verify(r) PROVE Begun' /\ CallsFind'
  BY <1>v, <1>c, <1>d, <1>f, <1>g, <1>h DEF Verify
<1>. QED
  BY <1>a, <1>b, <1>v, <1>i, <1>j, <1>k, <1>l DEF DNext

-----------------------------------------------------------------------------
(* The theorems.                                                           *)

LEMMA BegunInit == DInit => Begun /\ CallsFind
<1>. SUFFICES ASSUME DInit PROVE Begun /\ CallsFind
  OBVIOUS
<1>1. \A r \in Requests : call[r].pc = "idle" /\ call[r].verdict = "none"
  BY DEF DInit, Init, Idle, Fresh
<1>. QED
  BY <1>1 DEF DInit, Begun, CallsFind, Answered, Finds

LEMMA BegunAlways == DSpec => [](Begun /\ CallsFind)
  BY BegunInit, CallsFindStep, Delegated, InvAlways, FoldedAlways, PTL DEF DSpec

(* Every run the delegate begins is preceded by the record of every run    *)
(* due before it, unless it passed unrecorded itself, for any number of    *)
(* concurrent calls, lost answers and unrecorded passes, and an engine     *)
(* that hands out anything at any time.                                    *)
THEOREM StartsInOrder == DSpec => []StartedInOrder
<1>1. Inv /\ Folded /\ Begun /\ RecordedInOrder => StartedInOrder
  <2>. SUFFICES ASSUME Inv, Folded, Begun, RecordedInOrder,
                       NEW e \in Executions, NEW f \in started[e] \ escaped[e]
                PROVE  Due[plan[e]][f] \subseteq instances[e]
    BY DEF StartedInOrder
  <2>1. f \in instances[e]
    BY DEF Begun
  <2>. QED
    BY <2>1 DEF RecordedInOrder
<1>2. Init => RecordedInOrder
  BY DEF Init, RecordedInOrder
<1>3. Spec => []RecordedInOrder
  BY <1>2, RecordedInOrderStep, InvAlways, FoldedAlways, PTL DEF Spec
<1>. QED
  BY <1>1, <1>3, BegunAlways, Delegated, InvAlways, FoldedAlways, PTL

(* An honest engine is denied a run only after a run that this one follows *)
(* escaped the record, whatever runs at the same time and whichever        *)
(* answers are lost; with every document that BuildGraph accepts and every *)
(* checker that decides its guards, but for what comes after a skipped     *)
(* entry of a rollback.                                                    *)
THEOREM HonestEngine == DSpec => []HonestNeverDenied
<1>1. Inv /\ CallsFind => HonestNeverDenied
  <2>. SUFFICES ASSUME Inv, CallsFind, NEW r \in Requests, honest, call[r].verdict = "deny",
                       call[r].fqn \notin AfterSkippedEntry[plan[call[r].exec]]
                PROVE  Followed[plan[call[r].exec]][call[r].fqn] \cap escaped[call[r].exec] # {}
    BY DEF HonestNeverDenied
  <2>. QED
    BY DEF CallsFind, Finds, Owed
<1>. QED
  BY <1>1, BegunAlways, Delegated, InvAlways, PTL

=============================================================================
