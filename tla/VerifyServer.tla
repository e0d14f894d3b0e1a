---------------------------- MODULE VerifyServer ----------------------------
(***************************************************************************)
(* The server around the verifiers: the goroutine of each request (the     *)
(* handlers, the pipeline resolver, the verifier chain, the audit          *)
(* middleware, the reply), the timeouts of the reference wiring, graceful  *)
(* shutdown and crashes.                                                   *)
(*                                                                         *)
(* The ordering verifier is one step here: it is the atomic Grant of       *)
(* OrderedGrants, which OrderingVerifier implements.  Every other verifier *)
(* decides on the content of the request, or asks a webhook.               *)
(*                                                                         *)
(* Time is counted in units of 10 s; the clock does not pass a deadline    *)
(* before what it ends has ended, and anything may take no time at all.    *)
(***************************************************************************)
EXTENDS OrderedGrants, Naturals, Sequences

CONSTANTS Requests,             \* numbered as they are accepted
          Contents,             \* what is posted: kind, exec, step, type, and
                                \* refused, the verifiers that object to it
          Configs,              \* the configurations: global, byType, custom,
                                \* enforcing (deny_on_missing), failOpen
          Ordering, Webhooks,   \* the verifiers, of which
          Policies,             \* only these are decided by the content
          Fragile,              \* verifiers that may panic
          MayRestart            \* the process may be killed, and started again

Verifiers == Policies \cup Webhooks \cup {Ordering}

ASSUME VerifiersAssumption ==
  Policies \cap Webhooks = {} /\ Ordering \notin Policies \cup Webhooks /\ Fragile \subseteq Policies
ASSUME RequestsAssumption == Requests \subseteq Nat
ASSUME ContentsAssumption ==
  /\ Contents # {}
  /\ \A c \in Contents : c.kind \in {"verify", "output"} /\ c.exec \in Executions /\ c.refused \subseteq Policies
ASSUME ConfigsAssumption ==
  \A c \in Configs :
    /\ c.global \in Seq(Verifiers) /\ c.custom \in Seq(Verifiers)
    /\ \A t \in DOMAIN c.byType : c.byType[t] \in Seq(Verifiers)

ReadTimeout     == 1
WriteTimeout    == 1
ResolveTimeout  == 3
HookTimeout     == 1            \* 5 s
ShutdownTimeout == 3

VARIABLES config,
          server,               \* serving, draining, drained, exited or killed
          drain,                \* the time since Shutdown was called, while it waits
          req,                  \* the request and the locals of its goroutine
          events,               \* the audit events that were written
          unwritten,            \* the requests whose event was not: the process
                                \* log has a line for each
          open                  \* the kinds of event the audit writer holds a
                                \* file for

serverVars == <<config, server, drain>>
auditVars == <<events, unwritten, open>>
vars == <<grantVars, serverVars, auditVars, req>>

Active(r) == req[r].pc \in {"reading", "resolving", "verifying", "auditing", "answering"}

Fresh(pc, c) ==
  [pc |-> pc, content |-> c, age |-> 0, wait |-> 0, pipeline |-> FALSE, timedOut |-> FALSE,
   run |-> <<>>, verdict |-> "none", answer |-> "none"]

Init ==
  /\ GrantsInit
  /\ config \in Configs /\ server = "serving" /\ drain = 0
  /\ req = [r \in Requests |-> Fresh("idle", CHOOSE c \in Contents : TRUE)]
  /\ events = {} /\ unwritten = {} /\ open = {}

-----------------------------------------------------------------------------
(* The verifier chain: global, then by task type, then custom.             *)

\* Fault: the verifiers of a task type replace the custom ones.
VerifierChainExclusive(c, type) ==
  c.global \o (IF type \in DOMAIN c.byType THEN c.byType[type] ELSE c.custom)

VerifierChain(c, type) ==
  c.global \o (IF type \in DOMAIN c.byType THEN c.byType[type] ELSE <<>>) \o c.custom

ChainOf(r) == VerifierChain(config, req[r].content.type)

\* The next verifier of a request is v.
Due(r, v) ==
  /\ req[r].pc = "verifying"
  /\ Len(req[r].run) < Len(ChainOf(r)) /\ v = ChainOf(r)[Len(req[r].run) + 1]

\* The tracker records the verifier; a denial ends the chain.
Passes(r, v) ==
  req' = [req EXCEPT ![r] = [@ EXCEPT !.run = Append(req[r].run, v), !.wait = 0]]

Fails(r, v) ==
  req' = [req EXCEPT ![r] = [@ EXCEPT !.run = Append(req[r].run, v), !.wait = 0,
                                      !.verdict = "denied", !.pc = "auditing"]]

-----------------------------------------------------------------------------
(* One request.                                                            *)

Accept(r, c) ==
  /\ server = "serving" /\ req[r].pc = "idle"
  /\ \A q \in Requests : q < r => req[q].pc # "idle"
  /\ req' = [req EXCEPT ![r] = Fresh("reading", c)]
  /\ UNCHANGED <<grantVars, serverVars, auditVars>>

\* The default output handler takes note of everything.
Parse(r) ==
  /\ req[r].pc = "reading"
  /\ req' = [req EXCEPT ![r] = IF req[r].content.kind = "verify" THEN [@ EXCEPT !.pc = "resolving"]
                               ELSE [@ EXCEPT !.pc = "auditing", !.verdict = "noted"]]
  /\ UNCHANGED <<grantVars, serverVars, auditVars>>

\* The body did not arrive in time or is not a request.
BadRequest(r) ==
  /\ req[r].pc = "reading"
  /\ req' = [req EXCEPT ![r] = [@ EXCEPT !.pc = "answering", !.verdict = "invalid"]]
  /\ UNCHANGED <<grantVars, serverVars, auditVars>>

ResolvePipeline(r) ==
  /\ req[r].pc = "resolving"
  /\ req' = [req EXCEPT ![r] = [@ EXCEPT !.pc = "verifying", !.wait = 0, !.pipeline = TRUE]]
  /\ UNCHANGED <<grantVars, serverVars, auditVars>>

\* Inline pipelines, errors and timeouts: the verifiers run without one.
FailToResolve(r) ==
  /\ req[r].pc = "resolving"
  /\ req' = [req EXCEPT ![r] = [@ EXCEPT !.pc = "verifying", !.wait = 0,
                                         !.timedOut = (req[r].wait >= ResolveTimeout)]]
  /\ UNCHANGED <<grantVars, serverVars, auditVars>>

\* No pipeline, or no step of it: nothing is ordered or recorded.
PassUnordered(r) ==
  LET c == req[r].content
  IN  /\ Due(r, Ordering)
      /\ ~ req[r].pipeline \/ c.step \notin Asked(plan[c.exec])
      /\ Passes(r, Ordering)
      /\ UNCHANGED <<grantVars, serverVars, auditVars>>

\* Fault: what is refused passes, as in observe mode.
OrderStepObserving(r, v, own, walk) ==
  LET c    == req[r].content
      gate == GateOf(v, c.step, own, walk)
      ran  == gate.needs \cap (granted[c.exec] \cup folded[c.exec])
  IN  /\ Due(r, Ordering) /\ req[r].pipeline
      /\ c.step \in Asked(plan[c.exec]) /\ v \in Versions(plan[c.exec])
      /\ IF Justified(gate, ran, {}) THEN Grant(c.exec, v, c.step, own, walk) ELSE UNCHANGED grantVars
      /\ Passes(r, Ordering)
      /\ UNCHANGED <<serverVars, auditVars>>

OrderStep(r, v, own, walk) ==
  LET c    == req[r].content
      gate == GateOf(v, c.step, own, walk)
      ran  == gate.needs \cap (granted[c.exec] \cup folded[c.exec])
  IN  /\ Due(r, Ordering)
      /\ req[r].pipeline /\ c.step \in Asked(plan[c.exec]) /\ v \in Versions(plan[c.exec])
      /\ \/ /\ Justified(gate, ran, {})
            /\ Grant(c.exec, v, c.step, own, walk)
            /\ Passes(r, Ordering)
         \/ /\ ~ Justified(gate, ran, {})
            /\ IF gate.outcome # "notFound" /\ config.enforcing THEN Fails(r, Ordering)
               ELSE Passes(r, Ordering)
            /\ UNCHANGED grantVars
      /\ UNCHANGED <<serverVars, auditVars>>

\* The answer of a webhook, or what became of the call.
HookOutcomes == {"allowed", "denied", "unreadable", "badStatus", "failed"}

CallWebhook(r, v, outcome) ==
  /\ Due(r, v) /\ v \in Webhooks
  /\ IF outcome \in {"allowed"} \cup (IF config.failOpen THEN {"badStatus", "failed"} ELSE {})
     THEN Passes(r, v) ELSE Fails(r, v)
  /\ UNCHANGED <<grantVars, serverVars, auditVars>>

CheckPolicy(r, v) ==
  /\ Due(r, v) /\ v \in Policies
  /\ IF v \in req[r].content.refused THEN Fails(r, v) ELSE Passes(r, v)
  /\ UNCHANGED <<grantVars, serverVars, auditVars>>

\* Recoverer answers 500; the tracker and the audit never hear of it.
Panic(r, v) ==
  /\ Due(r, v) /\ v \in Fragile
  /\ req' = [req EXCEPT ![r] = [@ EXCEPT !.pc = "answering", !.verdict = "panicked"]]
  /\ UNCHANGED <<grantVars, serverVars, auditVars>>

Authorize(r) ==
  /\ req[r].pc = "verifying" /\ Len(req[r].run) = Len(ChainOf(r))
  /\ req' = [req EXCEPT ![r] = [@ EXCEPT !.pc = "auditing", !.verdict = "allowed"]]
  /\ UNCHANGED <<grantVars, serverVars, auditVars>>

Event(r) == [request |-> r, verdict |-> req[r].verdict, run |-> req[r].run]

\* Fault: only what is allowed is audited.
AuditAllowed(r) ==
  /\ req[r].pc = "auditing"
  /\ events' = IF req[r].verdict = "denied" THEN events ELSE events \cup {Event(r)}
  /\ open' = open \cup {req[r].content.kind}
  /\ req' = [req EXCEPT ![r] = [@ EXCEPT !.pc = "answering"]]
  /\ UNCHANGED <<grantVars, serverVars, unwritten>>

\* WriteEvent only logs that neither the file of the kind nor the reopened one
\* took the line, and the request goes on to its answer.  What a failed write
\* leaves in the file, and the payload, are AuditFile's.
Audit(r) ==
  LET kind == req[r].content.kind
  IN  /\ req[r].pc = "auditing"
      /\ \/ /\ events' = events \cup {Event(r)}
            /\ open' = open \cup {kind}
            /\ UNCHANGED unwritten
         \/ /\ unwritten' = unwritten \cup {r}
            /\ open' \in {open \cup {kind}, open \ {kind}}
            /\ UNCHANGED events
      /\ req' = [req EXCEPT ![r] = [@ EXCEPT !.pc = "answering"]]
      /\ UNCHANGED <<grantVars, serverVars>>

\* Fault: an answer is sent however late.
ReplyLate(r, delivered) ==
  /\ req[r].pc = "answering"
  /\ req' = [req EXCEPT ![r] = [@ EXCEPT !.pc = "done",
                                         !.age = 0,
                                         !.answer = IF delivered THEN req[r].verdict ELSE "lost"]]
  /\ UNCHANGED <<grantVars, serverVars, auditVars>>

\* Past its write deadline a connection takes nothing more.
Reply(r, delivered) ==
  /\ req[r].pc = "answering"
  /\ delivered => req[r].age < WriteTimeout
  /\ req' = [req EXCEPT ![r] = [@ EXCEPT !.pc = "done",
                                         !.age = 0,
                                         !.answer = IF delivered THEN req[r].verdict ELSE "lost"]]
  /\ UNCHANGED <<grantVars, serverVars, auditVars>>

-----------------------------------------------------------------------------
(* Time, shutdown, crashes.                                                *)

Waits(r) == req[r].pc = "resolving" \/ \E v \in Webhooks : Due(r, v)

Expired(r) ==
  \/ req[r].pc = "reading" /\ req[r].age >= ReadTimeout
  \/ req[r].pc = "resolving" /\ req[r].wait >= ResolveTimeout
  \/ req[r].pc = "verifying" /\ req[r].wait >= HookTimeout /\ \E v \in Webhooks : Due(r, v)

\* The age of a request is counted up to its write deadline.
Older(r) == IF req[r].age < WriteTimeout THEN req[r].age + 1 ELSE WriteTimeout

\* Fault: a deadline has no effect while a request waits.
TickPastDeadlines ==
  /\ \E r \in Requests : Active(r)
  /\ req' = [r \in Requests |->
               IF ~ Active(r) THEN req[r]
               ELSE [req[r] EXCEPT !.age = Older(r),
                                   !.wait = IF Waits(r) /\ req[r].wait <= ResolveTimeout THEN req[r].wait + 1 ELSE @]]
  /\ UNCHANGED <<grantVars, serverVars, auditVars>>

\* Fault: no deadline for what a request waits for.
TickWithoutWait ==
  /\ \E r \in Requests : Active(r)
  /\ \A r \in Requests : ~ Expired(r)
  /\ req' = [r \in Requests |-> IF Active(r) THEN [req[r] EXCEPT !.age = Older(r)] ELSE req[r]]
  /\ UNCHANGED <<grantVars, serverVars, auditVars>>

Tick ==
  /\ \E r \in Requests : Active(r)
  /\ server = "draining" => drain < ShutdownTimeout
  /\ \A r \in Requests : ~ Expired(r)
  /\ req' = [r \in Requests |->
               IF ~ Active(r) THEN req[r]
               ELSE [req[r] EXCEPT !.age = Older(r),
                                   !.wait = IF Waits(r) THEN req[r].wait + 1 ELSE @]]
  /\ drain' = IF server = "draining" THEN drain + 1 ELSE drain
  /\ UNCHANGED <<grantVars, config, server, auditVars>>

\* No request is accepted from now on.
Signal ==
  /\ server = "serving"
  /\ server' = "draining" /\ drain' = 0
  /\ UNCHANGED <<grantVars, config, auditVars, req>>

\* Fault: the requests in flight are not waited for.
DrainedEarly ==
  /\ server = "draining"
  /\ server' = "drained" /\ drain' = 0
  /\ UNCHANGED <<grantVars, config, auditVars, req>>

Drained ==
  /\ server = "draining" /\ \A r \in Requests : ~ Active(r)
  /\ server' = "drained" /\ drain' = 0
  /\ UNCHANGED <<grantVars, config, auditVars, req>>

CloseAudit ==
  /\ server = "drained"
  /\ server' = "exited" /\ open' = {}
  /\ UNCHANGED <<grantVars, config, drain, events, unwritten, req>>

\* The process ends where it stands.
Stop ==
  /\ server' = "killed" /\ drain' = 0 /\ open' = {}
  /\ req' = [r \in Requests |-> IF Active(r) THEN [req[r] EXCEPT !.pc = "killed", !.age = 0, !.wait = 0] ELSE req[r]]
  /\ UNCHANGED <<grantVars, config, events, unwritten>>

\* log.Fatalf, when Shutdown gives up.
DrainTimeout == server = "draining" /\ drain = ShutdownTimeout /\ (\E r \in Requests : Active(r)) /\ Stop

Die == MayRestart /\ server \in {"serving", "draining", "drained"} /\ Stop

Restart ==
  /\ MayRestart /\ server \in {"exited", "killed"}
  /\ Forget
  /\ server' = "serving" /\ drain' = 0
  /\ UNCHANGED <<config, auditVars, req>>

-----------------------------------------------------------------------------
Verify(r) ==
  /\ req[r].pc = "verifying"
  /\ \/ PassUnordered(r)
     \/ \E v \in Versions(plan[req[r].content.exec]) : \E own, walk \in StatusMaps : OrderStep(r, v, own, walk)
     \/ \E v \in Policies : CheckPolicy(r, v)
     \/ Authorize(r)

Finish(r) == Audit(r) \/ \E delivered \in BOOLEAN : Reply(r, delivered)

Wait(r) ==
  \/ Parse(r) \/ BadRequest(r) \/ ResolvePipeline(r) \/ FailToResolve(r)
  \/ \E v \in Webhooks : \E outcome \in HookOutcomes : CallWebhook(r, v, outcome)

Serve(r) == Wait(r) \/ Verify(r) \/ Finish(r) \/ \E v \in Fragile : Panic(r, v)

Exit == Drained \/ CloseAudit \/ DrainTimeout

Next ==
  \/ \E r \in Requests : Serve(r) \/ \E c \in Contents : Accept(r, c)
  \/ Tick \/ Signal \/ Exit \/ Die \/ Restart

Spec == Init /\ [][Next]_vars

\* A goroutine that can run does, a deadline takes effect, time passes.
Fairness ==
  /\ \A r \in Requests : WF_vars(Verify(r) \/ Finish(r) \/ (Expired(r) /\ Wait(r)))
  /\ WF_vars(Tick \/ Exit)

FairSpec == Spec /\ Fairness

-----------------------------------------------------------------------------
Verdicts == {"allowed", "denied", "noted", "invalid", "panicked"}

RequestStates ==
  [pc : {"idle", "reading", "resolving", "verifying", "auditing", "answering", "done", "killed"},
   content : Contents, age : 0..WriteTimeout, wait : 0..ResolveTimeout,
   pipeline : BOOLEAN, timedOut : BOOLEAN, run : Seq(Verifiers),
   verdict : Verdicts \cup {"none"}, answer : Verdicts \cup {"none", "lost"}]

TypeOK ==
  /\ plan \in [Executions -> Plans]
  /\ granted \in [Executions -> SUBSET Names] /\ folded \in [Executions -> SUBSET Names]
  /\ config \in Configs /\ server \in {"serving", "draining", "drained", "exited", "killed"}
  /\ drain \in 0..ShutdownTimeout /\ open \subseteq {"verify", "output"} /\ unwritten \subseteq Requests
  /\ req \in [Requests -> RequestStates]

\* The ordering verifier let the step of r pass, as one of its pipeline.
Ordered(r) ==
  LET q == req[r]
  IN  /\ q.content.kind = "verify" /\ q.pipeline /\ q.content.step \in Asked(plan[q.content.exec])
      /\ \E k \in DOMAIN q.run : q.run[k] = Ordering /\ (q.verdict = "denied" => k < Len(q.run))

\* A verifier that comes after ordering in the chain of r may panic.
FragileAfterOrdering(r) ==
  LET chain == ChainOf(r)
  IN  \E i, k \in DOMAIN chain : i < k /\ chain[i] = Ordering /\ chain[k] \in Fragile

(* What is recorded as run can be accounted for: some request asked for    *)
(* the step and passed ordering, and once it is over an audit event tells  *)
(* how it went on.  Three things take that event away and no others: the   *)
(* process dies under the request; a verifier that may panic comes after   *)
(* ordering and does; the event cannot be written, and the process log     *)
(* says so.                                                                *)
GrantsAccounted ==
  \A e \in Executions : \A f \in granted[e] :
    \E r \in Requests :
      /\ Ordered(r) /\ req[r].content.exec = e /\ req[r].content.step = f
      /\ req[r].pc = "done" =>
           \/ Event(r) \in events
           \/ r \in unwritten
           \/ req[r].verdict = "panicked" /\ FragileAfterOrdering(r)

(* A delegate is never told anything about a task that neither the audit   *)
(* says, nor the process log as an event it could not write: a delivered   *)
(* verdict has its event, with the verifiers that ran, unless writing that *)
(* very event failed.  And it is told "allowed" only after every verifier  *)
(* that is configured for all tasks and for the type of this one has run,  *)
(* with no objection.                                                      *)
VerdictsAudited ==
  \A r \in Requests :
    LET q == req[r]
        c == config
        ran == {q.run[k] : k \in DOMAIN q.run}
        due == {c.global[k] : k \in DOMAIN c.global} \cup {c.custom[k] : k \in DOMAIN c.custom}
               \cup UNION {{c.byType[t][k] : k \in DOMAIN c.byType[t]} : t \in DOMAIN c.byType \cap {q.content.type}}
    IN  /\ q.answer \in {"allowed", "denied", "noted"} =>
             r \in unwritten \/ [request |-> r, verdict |-> q.answer, run |-> q.run] \in events
        /\ q.answer = "allowed" => due \subseteq ran \ q.content.refused

(* A pipeline that cannot be resolved in time opens no way around the      *)
(* ordering: its request passes unordered, but the answer comes after the  *)
(* write deadline and never reaches the delegate.                          *)
LateNeverDelivered == \A r \in Requests : req[r].timedOut => req[r].answer \in {"none", "lost"}

\* The names that count as run in e, of the requests that were not denied.
RanNames(e) ==
  LET asked == {req[r].content.step : r \in {q \in Requests : Ordered(q) /\ req[q].content.exec = e
                                                             /\ req[q].verdict \notin {"denied", "panicked"}}}
  IN  asked \cup {GateOf(v, f, own, walk).fqn : v \in Versions(plan[e]), f \in asked, own, walk \in StatusMaps}

AncestorsRanBefore(r) ==
  LET c == req[r].content
  IN  req[r].verdict = "allowed" /\ Ordered(r) =>
        \E v \in Versions(plan[c.exec]) : \E own, walk \in StatusMaps :
          LET gate == GateOf(v, c.step, own, walk)
          IN  gate.outcome = "notFound" \/ Justified(gate, gate.needs \cap RanNames(c.exec), {})

\* Whatever the type of the task, no verifier comes after ordering.
OrderingLast(c) ==
  \A d \in Contents : LET chain == VerifierChain(c, d.type)
                      IN  \A k \in DOMAIN chain : chain[k] = Ordering => k = Len(chain)

(* When ordering is the last verifier, a task that is allowed in its       *)
(* pipeline comes after tasks that were not denied themselves, whatever    *)
(* the other verifiers, the webhooks and the time they take.               *)
AncestorsRan == config.enforcing /\ OrderingLast(config) => \A r \in Requests : AncestorsRanBefore(r)

(* The same in any order of the verifiers, as the reference configuration  *)
(* says of its own, where other verifiers come after ordering.             *)
AncestorsRanAnyway == config.enforcing => \A r \in Requests : AncestorsRanBefore(r)

(* When the server has stopped as it should, every request it accepted was *)
(* served to the end, and the audit files were closed after the last of    *)
(* their events.                                                           *)
CleanExit ==
  server = "exited" => open = {} /\ \A r \in Requests : ~ Active(r)

(* Every request comes to an end, whatever the repository, the webhooks    *)
(* and the client do.                                                      *)
RequestsEnd == \A r \in Requests : []<>(~ Active(r))
=============================================================================
