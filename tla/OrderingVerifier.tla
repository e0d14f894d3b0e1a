-------------------------- MODULE OrderingVerifier --------------------------
(***************************************************************************)
(* The reference execution-ordering verifier                               *)
(* (examples/zts/ordering): concurrent requests that each evaluate their   *)
(* step against the shared run-state Store and record it when allowed.     *)
(* Nothing spans a whole request: every Ran and MarkRan takes the store's  *)
(* lock for itself, and a guard owner's status may be marked in between.   *)
(*                                                                         *)
(* A request serves its calls one after the other; what a goroutine holds  *)
(* in local variables is kept per request.  The store and the statuses are *)
(* only in memory: Restart loses them with the calls in flight.            *)
(***************************************************************************)
EXTENDS OrderingGate, Naturals

CONSTANTS Executions, Plans, Names, Versions(_), Asked(_), GateOf(_, _, _, _), FailOpen,
          Requests,             \* the server's goroutines
          Owners, Statuses,     \* guard owners and what MarkStatus records
          Refusals,             \* what an error or an unsatisfied gate amounts
                                \* to: "deny" (deny_on_missing) or "pass"
          Unordered,            \* requests without a step, an execution or a
                                \* resolved pipeline occur
          MayRestart            \* the process may be restarted

StatusMaps == UNION {[S -> Statuses] : S \in SUBSET Owners}

ASSUME AskedAssumption == \A p \in Plans : Asked(p) \subseteq Names
ASSUME GateAssumption ==
  \A p \in Plans : \A v \in Versions(p) : \A f \in Asked(p) : \A own, walk \in StatusMaps :
    GateOf(v, f, own, walk) \in Gates(Names)
\* Which node of a version an FQN names does not depend on the guards.
ASSUME FoldAssumption ==
  \A p \in Plans : \A v \in Versions(p) : \A f \in Asked(p) : \A o1, w1, o2, w2 \in StatusMaps :
    GateOf(v, f, o1, w1).fqn = GateOf(v, f, o2, w2).fqn
ASSUME SizeAssumption == Executions # {} /\ Names # {}
ASSUME RefusalAssumption == Refusals \subseteq {"deny", "pass"}
ASSUME FlagAssumption == {Unordered, MayRestart} \subseteq BOOLEAN

VARIABLES plan,                 \* the pipeline each execution runs
          instances, logical,   \* Store: asked and folded FQNs per execution
          statuses,             \* ConditionChecker.statuses
          call                  \* the locals of each request

vars == <<plan, instances, logical, statuses, call>>

\* Fault: the store is only asked for logical FQNs.
RanLogical(e, f) == f \in logical[e]

\* Store.Ran matches either view.
Ran(e, f) == f \in instances[e] \cup logical[e]

\* own: the statuses the step's own guards were read under; todo and ran:
\* reads left, and reads that found a record.  ready is not in the code: it
\* remembers that the step was already recorded when the call arrived.
Calls ==
  [pc : {"idle", "guards", "walk", "read", "done"}, exec : Executions, fqn : Names,
   own : StatusMaps, gate : Gates(Names), todo : SUBSET Names, ran : SUBSET Names,
   verdict : {"none", "allow", "deny", "pass"}, ready : BOOLEAN]

NoStatus == [o \in {} |-> "none"]
Fresh(pc, e, f, ready) ==
  [pc |-> pc, exec |-> e, fqn |-> f, own |-> NoStatus, gate |-> NoGate("notFound", f),
   todo |-> {}, ran |-> {}, verdict |-> "none", ready |-> ready]
Idle == Fresh("idle", CHOOSE e \in Executions : TRUE, CHOOSE f \in Names : TRUE, FALSE)

Init ==
  /\ plan \in [Executions -> Plans]
  /\ instances = [e \in Executions |-> {}] /\ logical = [e \in Executions |-> {}]
  /\ statuses = [e \in Executions |-> NoStatus]
  /\ call = [r \in Requests |-> Idle]

-----------------------------------------------------------------------------
Answer(r, v) == call' = [call EXCEPT ![r] = [@ EXCEPT !.pc = "done", !.verdict = v]]

Refuse(r) == \E v \in Refusals : Answer(r, v)

Arrive(r, e, f) ==
  /\ call[r].pc = "idle"
  /\ call' = [call EXCEPT ![r] = Fresh("guards", e, f, f \in instances[e])]
  /\ UNCHANGED <<plan, instances, logical, statuses>>

\* Nothing to order: passed, and not recorded.
PassUnordered(r) ==
  /\ Unordered
  /\ call[r].pc = "guards"
  /\ Answer(r, "pass")
  /\ UNCHANGED <<plan, instances, logical, statuses>>

\* conditionViolations: the step's own guards.
ReadOwnGuards(r) ==
  /\ call[r].pc = "guards"
  /\ call' = [call EXCEPT ![r] = [@ EXCEPT !.pc = "walk", !.own = statuses[call[r].exec]]]
  /\ UNCHANGED <<plan, instances, logical, statuses>>

\* liveAncestorsOf: the guards of the ancestors, and with them the gate in the
\* version this request was resolved to.  A name that no node has passes; a
\* pipeline that BuildGraph refuses does not.
WalkAncestors(r, v) ==
  LET e == call[r].exec
      g == GateOf(v, call[r].fqn, call[r].own, statuses[e])
  IN  /\ call[r].pc = "walk"
      /\ \/ /\ g.outcome = "evaluated"
            /\ call' = [call EXCEPT ![r] = [@ EXCEPT !.pc = "read", !.gate = g, !.todo = g.needs]]
         \/ g.outcome = "notFound" /\ Answer(r, "pass")
         \/ g.outcome = "invalid" /\ Refuse(r)
      /\ UNCHANGED <<plan, instances, logical, statuses>>

\* Fault: a read that finds nothing counts as found.
ReadRanOptimistic(r, f) ==
  /\ call[r].pc = "read" /\ f \in call[r].todo
  /\ call' = [call EXCEPT ![r] =
                [@ EXCEPT !.todo = call[r].todo \ {f}, !.ran = call[r].ran \cup {f}]]
  /\ UNCHANGED <<plan, instances, logical, statuses>>

\* ancestorViolations: one locked read of the store per needed FQN.
ReadRan(r, f) ==
  /\ call[r].pc = "read" /\ f \in call[r].todo
  /\ call' = [call EXCEPT ![r] =
                [@ EXCEPT !.todo = call[r].todo \ {f},
                          !.ran = call[r].ran \cup {h \in {f} : Ran(call[r].exec, h)}]]
  /\ UNCHANGED <<plan, instances, logical, statuses>>

\* Fault: the step's own violations are forgotten.
PassesOnAncestors(r) ==
  Allowed([call[r].gate EXCEPT !.violations = {}], call[r].ran, {}, FailOpen)

Passes(r) == Allowed(call[r].gate, call[r].ran, {}, FailOpen)

\* Fault: the run is recorded as its own logical node.
AllowUnfolded(r) ==
  /\ call[r].pc = "read" /\ call[r].todo = {} /\ Passes(r)
  /\ instances' = [instances EXCEPT ![call[r].exec] = @ \cup {call[r].fqn}]
  /\ logical' = [logical EXCEPT ![call[r].exec] = @ \cup {call[r].fqn}]
  /\ Answer(r, "allow")
  /\ UNCHANGED <<plan, statuses>>

\* Fault: MarkRan replaces what was recorded before.
AllowReplacing(r) ==
  /\ call[r].pc = "read" /\ call[r].todo = {} /\ Passes(r)
  /\ instances' = [instances EXCEPT ![call[r].exec] = {call[r].fqn}]
  /\ logical' = [logical EXCEPT ![call[r].exec] = {call[r].gate.fqn}]
  /\ Answer(r, "allow")
  /\ UNCHANGED <<plan, statuses>>

\* Fault: an allowed run is not recorded.
AllowUnrecorded(r) ==
  /\ call[r].pc = "read" /\ call[r].todo = {} /\ Passes(r)
  /\ Answer(r, "allow")
  /\ UNCHANGED <<plan, instances, logical, statuses>>

\* MarkRan records both views under one lock.
Allow(r) ==
  /\ call[r].pc = "read" /\ call[r].todo = {} /\ Passes(r)
  /\ instances' = [instances EXCEPT ![call[r].exec] = @ \cup {call[r].fqn}]
  /\ logical' = [logical EXCEPT ![call[r].exec] = @ \cup {call[r].gate.fqn}]
  /\ Answer(r, "allow")
  /\ UNCHANGED <<plan, statuses>>

Deny(r) ==
  /\ call[r].pc = "read" /\ call[r].todo = {} /\ ~ Passes(r)
  /\ Refuse(r)
  /\ UNCHANGED <<plan, instances, logical, statuses>>

\* The response is written; the goroutine is free for another call.
Finish(r) ==
  /\ call[r].pc = "done"
  /\ call' = [call EXCEPT ![r] = Idle]
  /\ UNCHANGED <<plan, instances, logical, statuses>>

\* Fault: the status is keyed by the execution, not by the owner.
MarkStatusSwapped(e, o, s) ==
  /\ statuses' = [statuses EXCEPT ![e] =
                    [x \in DOMAIN statuses[e] \cup {e} |-> IF x = e THEN s ELSE statuses[e][x]]]
  /\ UNCHANGED <<plan, instances, logical, call>>

MarkStatus(e, o, s) ==
  /\ statuses' = [statuses EXCEPT ![e] =
                    [x \in DOMAIN statuses[e] \cup {o} |-> IF x = o THEN s ELSE statuses[e][x]]]
  /\ UNCHANGED <<plan, instances, logical, call>>

Restart ==
  /\ MayRestart
  /\ instances' = [e \in Executions |-> {}] /\ logical' = [e \in Executions |-> {}]
  /\ statuses' = [e \in Executions |-> NoStatus]
  /\ call' = [r \in Requests |-> Idle]
  /\ UNCHANGED plan

Serve(r) ==
  \/ PassUnordered(r) \/ ReadOwnGuards(r)
  \/ \E v \in Versions(plan[call[r].exec]) : WalkAncestors(r, v)
  \/ \E f \in call[r].todo : ReadRan(r, f)
  \/ Allow(r) \/ Deny(r) \/ Finish(r)

Next ==
  \/ \E r \in Requests : \E e \in Executions : \E f \in Asked(plan[e]) : Arrive(r, e, f)
  \/ \E r \in Requests : Serve(r)
  \/ \E e \in Executions : \E o \in Owners : \E s \in Statuses : MarkStatus(e, o, s)
  \/ Restart

Spec == Init /\ [][Next]_vars

-----------------------------------------------------------------------------
TypeOK ==
  /\ plan \in [Executions -> Plans]
  /\ instances \in [Executions -> SUBSET Names] /\ logical \in [Executions -> SUBSET Names]
  /\ statuses \in [Executions -> StatusMaps]
  /\ call \in [Requests -> Calls]

(* What a call found out stays true while it runs: its gate is the one of  *)
(* its step, and every ancestor it read as recorded still is, so the       *)
(* decision does not rest on a read that another call has undone.          *)
CallConsistent(r) ==
  LET c == call[r]
  IN  /\ c.pc # "idle" => c.fqn \in Asked(plan[c.exec])
      /\ c.pc \in {"guards", "walk"} => c.ran = {}
      /\ c.pc = "read" =>
           /\ c.gate.outcome = "evaluated"
           /\ \E v \in Versions(plan[c.exec]) : \E walk \in StatusMaps :
                c.gate = GateOf(v, c.fqn, c.own, walk)
           /\ c.todo \subseteq c.gate.needs
           /\ c.ran \subseteq {f \in c.gate.needs : Ran(c.exec, f)}
CallsConsistent == \A r \in Requests : CallConsistent(r)

(* The verifier implements OrderedGrants: although its reads and its write *)
(* of the store are separate critical sections, with other requests, other *)
(* reads and MarkStatus between them, every record it makes is one that an *)
(* atomic check-and-record could have made.                                *)
Grants == INSTANCE OrderedGrants WITH granted <- instances, folded <- logical
ImplementsGrants == Grants!GrantsSpec

(* A grant is for good: a step that was recorded when its call arrived (a  *)
(* retry of a call whose answer was lost) is not denied, whatever other    *)
(* calls run meanwhile, in an execution whose pipeline and guards are as   *)
(* they were (a status that is marked may turn a guard, a template that is *)
(* pushed may add an ancestor).                                            *)
Settled(e) == statuses[e] = NoStatus /\ \A v, w \in Versions(plan[e]) : v = w
RetryAllowed ==
  \A r \in Requests :
    call[r].ready /\ Settled(call[r].exec) => call[r].verdict # "deny"

(* The two views of the store agree: an FQN is recorded as a run exactly   *)
(* when a node it resolves to is recorded, so an ancestor that is looked   *)
(* up by its logical FQN is found once any run of it was granted.          *)
FoldsTo(e, f, h) == \E v \in Versions(plan[e]) : h = GateOf(v, f, statuses[e], statuses[e]).fqn
ViewsAgree ==
  \A e \in Executions :
    /\ \A f \in instances[e] : \E h \in logical[e] : FoldsTo(e, f, h)
    /\ \A h \in logical[e] : \E f \in instances[e] : FoldsTo(e, f, h)
=============================================================================
