-------------------------- MODULE DelegateExecution --------------------------
(***************************************************************************)
(* The ordering verifier between the two systems around it: the engine,    *)
(* which hands out the runs of a pipeline's steps, and the delegate, which *)
(* starts a run only when the answer to its verify call allows it.  Both   *)
(* are outside src/; they are modelled from the requests the verifier      *)
(* reads and from what its answers mean to the caller.                     *)
(*                                                                         *)
(* An answer may be lost (a timeout on the way back); the delegate then    *)
(* asks again.  A request whose pipeline cannot be resolved passes without *)
(* being ordered or recorded.  An honest engine hands out a run only when  *)
(* the runs before it have ended; another one hands out anything.          *)
(***************************************************************************)
EXTENDS OrderingVerifier, ResolvedPlan, PipelineOrder, GateOrder, FiniteSets

CONSTANTS Engines,              \* whether the engine is honest, or may not be
          MaxUnrecorded         \* bound on the runs that pass unrecorded

\* Nothing that a gate depends on changes while an execution runs.
ASSUME SettledAssumption == Owners = {} /\ \A p \in Plans : Versions(p) = {p}

VARIABLES honest,
          started, ended,       \* per execution, the runs the delegate began and ended
          escaped               \* and those it began on a pass, unrecorded

exchange == <<honest, started, ended, escaped>>
all == <<vars, exchange>>

DInit == /\ Init
         /\ honest \in Engines
         /\ started = [e \in Executions |-> {}]
         /\ ended = [e \in Executions |-> {}]
         /\ escaped = [e \in Executions |-> {}]

\* The guards of a pipeline under the only statuses.
GuardsOf(p) == p.guards[NoStatus]

\* In an honest execution a step that runs may start once every unit before
\* it that runs has ended in the same branch, and a rollback step once, in
\* addition, some forward step of its stage that runs has.
Startable(g, t, y) ==
  /\ g[y].kind = "step" /\ Runs(g, t, y) /\ StaticRuns(g, y)
  /\ \A x \in Units(g) : Before(g, x, y) /\ Runs(g, t, x) => StaticRuns(g, x)

Enough(g, t, y, f) ==
  LET runs(S) == UNION {RunsBefore(g, x, y, f) : x \in S}
      before == runs({x \in Units(g) : Before(g, x, y) /\ Runs(g, t, x)})
      forward == runs({x \in RolledBack(g, y) : Runs(g, t, x)})
  IN  IF RollbackContainers(g, y) = {} THEN {before} ELSE {before \cup {i} : i \in forward}

\* The sets of runs whose end lets a run start, of every pipeline.
StartsAfter ==
  [p \in Plans |-> [f \in Asked(p) |->
     UNION {Enough(p.graph, GuardsOf(p), y, f) :
            y \in {z \in Lookup(p.graph, f) : Startable(p.graph, GuardsOf(p), z)}}]]

DueNow(e, f) == \E S \in StartsAfter[plan[e]][f] : S \subseteq ended[e]

Dispatch(r, e, f) ==
  /\ f \notin started[e]
  /\ Arrive(r, e, f)
  /\ \A q \in Requests : call[q].pc # "idle" => <<call[q].exec, call[q].fqn>> # <<e, f>>
  /\ honest => DueNow(e, f)
  /\ UNCHANGED exchange

\* Fault: the pass is recorded as a run.
SkipRecorded(r) ==
  LET e == call[r].exec
  IN  /\ Cardinality(escaped[e]) < MaxUnrecorded
      /\ Unordered /\ call[r].pc = "guards" /\ Answer(r, "pass")
      /\ instances' = [instances EXCEPT ![e] = @ \cup {call[r].fqn}]
      /\ logical' = [logical EXCEPT ![e] = @ \cup {call[r].fqn}]
      /\ UNCHANGED <<plan, statuses, exchange>>

\* The pipeline could not be resolved for this request.
Skip(r) ==
  LET e == call[r].exec
      passing == {call[q].fqn : q \in {p \in Requests : call[p].exec = e /\ call[p].verdict = "pass"}}
  IN  /\ PassUnordered(r)
      /\ Cardinality(escaped[e] \cup passing) < MaxUnrecorded
      /\ UNCHANGED exchange

Verify(r) ==
  /\ \/ ReadOwnGuards(r)
     \/ \E v \in Versions(plan[call[r].exec]) : WalkAncestors(r, v)
     \/ \E f \in call[r].todo : ReadRan(r, f)
     \/ Allow(r) \/ Deny(r)
  /\ UNCHANGED exchange

\* The delegate reads the answer.
Deliver(r) ==
  /\ Finish(r)
  /\ started' = IF call[r].verdict = "deny" THEN started
                ELSE [started EXCEPT ![call[r].exec] = @ \cup {call[r].fqn}]
  /\ escaped' = IF call[r].verdict # "pass" THEN escaped
                ELSE [escaped EXCEPT ![call[r].exec] = @ \cup ({call[r].fqn} \ instances[call[r].exec])]
  /\ UNCHANGED <<honest, ended>>

LoseAnswer(r) == Finish(r) /\ UNCHANGED exchange

\* The ends of runs matter to an engine that waits for them.
Complete(e, f) ==
  /\ honest /\ f \notin ended[e]
  /\ ended' = [ended EXCEPT ![e] = @ \cup {f}]
  /\ UNCHANGED <<vars, honest, started, escaped>>

DNext ==
  \/ \E r \in Requests : \E e \in Executions : \E f \in Asked(plan[e]) : Dispatch(r, e, f)
  \/ \E r \in Requests : Skip(r) \/ Verify(r) \/ Deliver(r) \/ LoseAnswer(r)
  \/ \E e \in Executions : \E f \in started[e] : Complete(e, f)

-----------------------------------------------------------------------------
\* Of every pipeline: its gates, the runs due before each run it asks for,
\* and those an honest engine may not have lost.
GatesIn(p) == [f \in Asked(p) |-> GateOf(p, f, NoStatus, NoStatus)]
Due == [p \in Plans |-> [f \in Asked(p) |-> RunsDue(p.graph, GuardsOf(p), f)]]
Followed == [p \in Plans |-> [f \in Asked(p) |-> Due[p][f] \cup RunsFollowed(p.graph, f)]]

\* What comes after the entry of a rollback that does not run: the gate steps
\* over the entry to the forward steps, and waits for all of those.
AfterSkippedEntry ==
  [p \in Plans |-> {f \in Asked(p) : \E y \in Lookup(p.graph, f) : \E x \in Units(p.graph) :
     Before(p.graph, x, y) /\ AtRollbackEntry(p.graph, x) /\ ~ Runs(p.graph, GuardsOf(p), x)}]

\* Goroutines are scheduled, runs and calls end, of the answers that let a run
\* start some get through, and the engine does not sit on due runs: it goes on
\* with others while one behind a skipped rollback entry is denied.
Fairness ==
  /\ \A r \in Requests : /\ WF_all(Verify(r)) /\ WF_all(Deliver(r))
                         /\ SF_all(call[r].verdict # "deny" /\ Deliver(r))
  /\ \A e \in Executions :
       /\ WF_all(\E r \in Requests : \E f \in Asked(plan[e]) \ AfterSkippedEntry[plan[e]] : Dispatch(r, e, f))
       /\ WF_all(\E f \in started[e] : Complete(e, f))

DSpec == DInit /\ [][DNext]_all
FairDSpec == DSpec /\ Fairness

\* The gates of each pipeline keep its order.
ASSUME OrderAssumption == \A p \in Plans : KeepsOrder(GatesIn(p), Due[p], FailOpen)

\* The pipelines are those of documents that BuildGraph accepts, asked for
\* runs of their steps; the checker decides every guard.
ASSUME DocumentsAssumption ==
  \A p \in Plans :
    LET g == p.graph
        t == GuardsOf(p)
    IN  /\ OrderingGraph(g) /\ Decided(t, g)
        /\ \A f \in Asked(p) : /\ GatesIn(p)[f] = EvaluateStep(g, t, t, f)
                               /\ \A y \in Lookup(g, f) : StaticRuns(g, y) => RunOf(g, y, f)

\* The rollback of a whole pipeline is accepted where there is one.
ASSUME PolicyAssumption ==
  \A p \in Plans : \A y \in Nodes(p.graph) :
    SeparatePlanRollback(p.graph, y) => "pipelineRollback" \in FailOpen

(* Ordering stands in the way of an honest engine for one reason only: a   *)
(* run that f follows passed unrecorded, as its own request could not be   *)
(* resolved.  Otherwise a run handed out when its predecessors have ended  *)
(* is not denied, whatever calls run at the same time and whichever        *)
(* answers were lost before.  This is not said of what comes after a       *)
(* skipped entry of a rollback, which may be denied (RollbackNeedsItsStage *)
(* of GrantOrder).                                                         *)
HonestNeverDenied ==
  \A r \in Requests :
    LET e == call[r].exec
        f == call[r].fqn
    IN  honest /\ call[r].verdict = "deny" =>
          f \in AfterSkippedEntry[plan[e]] \/ Followed[plan[e]][f] \cap escaped[e] # {}

(* Whatever the engine hands out, the delegate begins a run that does not  *)
(* pass unrecorded only after every run due before it was recorded: the    *)
(* order holds for the runs that are started, and those that escape it     *)
(* give no other run a way around it.                                      *)
StartedInOrder ==
  \A e \in Executions : \A f \in started[e] \ escaped[e] : Due[plan[e]][f] \subseteq instances[e]

\* The runs of the steps that run, of every pipeline.
StepRuns ==
  [p \in Plans |-> {f \in Asked(p) : \E y \in Lookup(p.graph, f) :
                      p.graph[y].kind = "step" /\ Runs(p.graph, GuardsOf(p), y)}]

(* With an honest engine every run of every step that runs is eventually   *)
(* started and ends, but for what comes after a skipped entry of a         *)
(* rollback, unless a run passed unrecorded.                               *)
PipelineEnds ==
  \A e \in Executions :
    <>(StepRuns[plan[e]] \ AfterSkippedEntry[plan[e]] \subseteq ended[e] \/ escaped[e] # {} \/ ~ honest)
=============================================================================
