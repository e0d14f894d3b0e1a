----------------------- MODULE OrderingVerifierProofs -----------------------
(***************************************************************************)
(* What is proved of OrderingVerifier for every set of executions, plans,  *)
(* requests and statuses, from the typing of the gates alone.              *)
(***************************************************************************)
EXTENDS OrderingVerifier, OrderingGateProofs

-----------------------------------------------------------------------------
(* Types.                                                                  *)

LEMMA FreshTyped ==
  ASSUME NEW p \in {"idle", "guards"}, NEW e \in Executions, NEW f \in Names, NEW b \in BOOLEAN
  PROVE  Fresh(p, e, f, b) \in Calls
<1>1. NoStatus \in StatusMaps
  <2>1. NoStatus \in [{} -> Statuses]
    BY DEF NoStatus
  <2>. QED
    BY <2>1 DEF StatusMaps
<1>2. NoGate("notFound", f) \in Gates(Names)
  BY DEF NoGate, Gate, Gates
<1>. QED
  BY <1>1, <1>2 DEF Fresh, Calls

LEMMA IdleTyped == Idle \in Calls
<1>1. (CHOOSE e \in Executions : TRUE) \in Executions /\ (CHOOSE f \in Names : TRUE) \in Names
  BY SizeAssumption
<1>. QED
  BY <1>1, FreshTyped DEF Idle

LEMMA AskedTyped == ASSUME NEW p \in Plans, NEW f \in Asked(p) PROVE f \in Names
  BY AskedAssumption

LEMMA MarkedTyped ==
  ASSUME NEW s \in StatusMaps, NEW o \in Owners, NEW v \in Statuses
  PROVE  [x \in DOMAIN s \cup {o} |-> IF x = o THEN v ELSE s[x]] \in StatusMaps
<1>1. PICK S \in SUBSET Owners : s \in [S -> Statuses]
  BY DEF StatusMaps
<1>2. [x \in DOMAIN s \cup {o} |-> IF x = o THEN v ELSE s[x]] \in [S \cup {o} -> Statuses]
  BY <1>1
<1>. QED
  BY <1>2 DEF StatusMaps

LEMMA CallUpdates ==
  ASSUME NEW c \in Calls
  PROVE  /\ \A v \in {"allow", "deny", "pass"} : [c EXCEPT !.pc = "done", !.verdict = v] \in Calls
         /\ \A s \in StatusMaps : [c EXCEPT !.pc = "walk", !.own = s] \in Calls
         /\ \A g \in Gates(Names) : [c EXCEPT !.pc = "read", !.gate = g, !.todo = g.needs] \in Calls
         /\ \A T, R \in SUBSET Names : [c EXCEPT !.todo = T, !.ran = R] \in Calls
<1>1. \A v \in {"allow", "deny", "pass"} : [c EXCEPT !.pc = "done", !.verdict = v] \in Calls
  BY DEF Calls
<1>2. \A s \in StatusMaps : [c EXCEPT !.pc = "walk", !.own = s] \in Calls
  BY DEF Calls
<1>3. \A g \in Gates(Names) : [c EXCEPT !.pc = "read", !.gate = g, !.todo = g.needs] \in Calls
  <2>. TAKE g \in Gates(Names)
  <2>1. g.needs \in SUBSET Names
    BY DEF Gates
  <2>. QED
    BY <2>1 DEF Calls
<1>4. \A T, R \in SUBSET Names : [c EXCEPT !.todo = T, !.ran = R] \in Calls
  BY DEF Calls
<1>. QED
  BY <1>1, <1>2, <1>3, <1>4

LEMMA AnswerTyped ==
  ASSUME TypeOK, NEW r \in Requests, NEW v \in {"allow", "deny", "pass"}, Answer(r, v)
  PROVE  call' \in [Requests -> Calls]
<1>1. [call[r] EXCEPT !.pc = "done", !.verdict = v] \in Calls
  BY CallUpdates DEF TypeOK
<1>. QED
  BY <1>1 DEF TypeOK, Answer

-----------------------------------------------------------------------------
(* The inductive invariant: types, and what each call knows.  TypeOK alone *)
(* is not inductive, because only the gates of asked names are typed.      *)

Inv == TypeOK /\ CallsConsistent

LEMMA InvInit == Init => Inv
<1>. SUFFICES ASSUME Init PROVE Inv
  OBVIOUS
<1>1. NoStatus \in StatusMaps
  BY IdleTyped DEF Idle, Fresh, Calls
<1>2. TypeOK
  BY <1>1, IdleTyped DEF Init, TypeOK
<1>3. \A r \in Requests : call[r].pc = "idle"
  BY DEF Init, Idle, Fresh
<1>. QED
  BY <1>2, <1>3 DEF Inv, CallsConsistent, CallConsistent

\* A call that does not move keeps its consistency while nothing is forgotten.
LEMMA OtherConsistent ==
  ASSUME NEW q \in Requests, CallConsistent(q), call'[q] = call[q], plan' = plan,
         call[q].exec \in Executions,
         \A e \in Executions : instances[e] \subseteq instances'[e] /\ logical[e] \subseteq logical'[e]
  PROVE  CallConsistent(q)'
  BY DEF CallConsistent, Ran

\* An answered call has only its name to be consistent about.
LEMMA AnswerConsistent ==
  ASSUME TypeOK, NEW r \in Requests, NEW v, CallConsistent(r), call[r].pc # "idle",
         plan' = plan, Answer(r, v)
  PROVE  CallConsistent(r)'
<1>1. call'[r] = [call[r] EXCEPT !.pc = "done", !.verdict = v]
  BY DEF Answer, TypeOK
<1>2. call'[r].pc = "done" /\ call'[r].fqn = call[r].fqn /\ call'[r].exec = call[r].exec
  BY <1>1 DEF TypeOK, Calls
<1>. QED
  BY <1>2 DEF CallConsistent

LEMMA InvStep == Inv /\ [Next]_vars => Inv'
<1>. SUFFICES ASSUME Inv, [Next]_vars PROVE Inv'
  OBVIOUS
<1>t. TypeOK /\ CallsConsistent
  BY DEF Inv
<1>e. \A r \in Requests : call[r] \in Calls /\ call[r].exec \in Executions /\ CallConsistent(r)
  BY <1>t DEF TypeOK, Calls, CallsConsistent
\* One step of one request that keeps the store.
<1>s. ASSUME NEW r \in Requests, call' \in [Requests -> Calls], CallConsistent(r)',
             \A q \in Requests \ {r} : call'[q] = call[q],
             UNCHANGED <<plan, instances, logical, statuses>>
      PROVE  Inv'
  <2>1. TypeOK'
    BY <1>t, <1>s DEF TypeOK
  <2>2. ASSUME NEW q \in Requests \ {r} PROVE CallConsistent(q)'
    BY <1>s, <1>e, <2>2, OtherConsistent
  <2>. QED
    BY <1>s, <2>1, <2>2 DEF Inv, CallsConsistent
<1>a. ASSUME NEW r \in Requests, NEW e \in Executions, NEW f \in Asked(plan[e]), Arrive(r, e, f)
      PROVE  Inv'
  <2>1. f \in Names
    BY <1>t, AskedTyped DEF TypeOK
  <2>2. Fresh("guards", e, f, f \in instances[e]) \in Calls
    <3>1. (f \in instances[e]) \in BOOLEAN /\ "guards" \in {"idle", "guards"}
      OBVIOUS
    <3>. QED
      BY <2>1, <3>1, FreshTyped, Zenon
  <2>3. call'[r] = Fresh("guards", e, f, f \in instances[e])
    BY <1>t, <1>a DEF Arrive, TypeOK
  <2>4. CallConsistent(r)'
    BY <1>a, <2>3 DEF CallConsistent, Fresh, Arrive
  <2>. QED
    BY <1>t, <1>a, <1>s, <2>2, <2>4 DEF Arrive, TypeOK
<1>b. ASSUME NEW r \in Requests, PassUnordered(r) PROVE Inv'
  <2>1. CallConsistent(r)'
    BY <1>t, <1>b, <1>e, AnswerConsistent DEF PassUnordered
  <2>2. call' \in [Requests -> Calls]
    BY <1>t, <1>b, AnswerTyped DEF PassUnordered
  <2>. QED
    BY <1>t, <1>b, <1>s, <2>1, <2>2 DEF PassUnordered, Answer, TypeOK
<1>c. ASSUME NEW r \in Requests, ReadOwnGuards(r) PROVE Inv'
  <2>1. statuses[call[r].exec] \in StatusMaps
    BY <1>t, <1>e DEF TypeOK
  <2>2. [call[r] EXCEPT !.pc = "walk", !.own = statuses[call[r].exec]] \in Calls
    BY <1>e, <2>1, CallUpdates
  <2>3. call'[r] = [call[r] EXCEPT !.pc = "walk", !.own = statuses[call[r].exec]]
    BY <1>t, <1>c DEF ReadOwnGuards, TypeOK
  <2>4. call'[r].pc = "walk" /\ call'[r].fqn = call[r].fqn /\ call'[r].exec = call[r].exec
    BY <1>e, <2>3 DEF Calls
  <2>5. CallConsistent(r)'
    BY <1>e, <1>c, <2>4 DEF CallConsistent, ReadOwnGuards
  <2>. QED
    BY <1>t, <1>c, <1>s, <2>2, <2>5 DEF ReadOwnGuards, TypeOK
<1>d. ASSUME NEW r \in Requests, NEW v \in Versions(plan[call[r].exec]), WalkAncestors(r, v) PROVE Inv'
  <2>. DEFINE e == call[r].exec
              g == GateOf(v, call[r].fqn, call[r].own, statuses[e])
  <2>1. call[r].pc = "walk" /\ UNCHANGED <<plan, instances, logical, statuses>>
    BY <1>d DEF WalkAncestors
  <2>2. call[r].own \in StatusMaps /\ statuses[e] \in StatusMaps /\ plan[e] \in Plans
    BY <1>t, <1>e DEF TypeOK, Calls
  <2>3. call[r].fqn \in Asked(plan[e])
    BY <1>e, <2>1 DEF CallConsistent
  <2>4. g \in Gates(Names)
    BY <2>2, <2>3, GateAssumption
  <2>5. ASSUME g.outcome = "evaluated",
               call' = [call EXCEPT ![r] = [@ EXCEPT !.pc = "read", !.gate = g, !.todo = g.needs]]
        PROVE  Inv'
    <3>1. [call[r] EXCEPT !.pc = "read", !.gate = g, !.todo = g.needs] \in Calls
      BY <1>e, <2>4, CallUpdates
    <3>2. call'[r] = [call[r] EXCEPT !.pc = "read", !.gate = g, !.todo = g.needs]
      BY <1>t, <2>5 DEF TypeOK
    <3>3. /\ call'[r].pc = "read" /\ call'[r].fqn = call[r].fqn /\ call'[r].exec = call[r].exec
          /\ call'[r].gate = g /\ call'[r].todo = g.needs /\ call'[r].own = call[r].own
          /\ call'[r].ran = call[r].ran
      BY <1>e, <3>2 DEF Calls
    <3>4. call[r].ran = {}
      BY <1>e, <2>1 DEF CallConsistent
    <3>5. CallConsistent(r)'
      BY <1>d, <2>1, <2>2, <2>3, <2>5, <3>3, <3>4 DEF CallConsistent
    <3>. QED
      BY <1>t, <1>s, <2>1, <2>5, <3>1, <3>5 DEF TypeOK
  <2>6. ASSUME NEW a \in {"allow", "deny", "pass"}, Answer(r, a) PROVE Inv'
    <3>1. CallConsistent(r)'
      BY <1>t, <1>e, <2>1, <2>6, AnswerConsistent
    <3>2. call' \in [Requests -> Calls]
      BY <1>t, <2>6, AnswerTyped
    <3>. QED
      BY <1>t, <1>s, <2>1, <2>6, <3>1, <3>2 DEF Answer, TypeOK
  <2>. QED
    BY <1>d, <2>5, <2>6, RefusalAssumption DEF WalkAncestors, Refuse
<1>f. ASSUME NEW r \in Requests, NEW f \in call[r].todo, ReadRan(r, f) PROVE Inv'
  <2>. DEFINE T == call[r].todo \ {f}
              R == call[r].ran \cup {h \in {f} : Ran(call[r].exec, h)}
  <2>1. T \in SUBSET Names /\ R \in SUBSET Names
    BY <1>e DEF Calls
  <2>2. [call[r] EXCEPT !.todo = T, !.ran = R] \in Calls
    BY <1>e, <2>1, CallUpdates
  <2>3. call'[r] = [call[r] EXCEPT !.todo = T, !.ran = R]
    BY <1>t, <1>f DEF ReadRan, TypeOK
  <2>4. /\ call'[r].pc = call[r].pc /\ call'[r].fqn = call[r].fqn /\ call'[r].exec = call[r].exec
        /\ call'[r].gate = call[r].gate /\ call'[r].own = call[r].own
        /\ call'[r].todo = T /\ call'[r].ran = R
    BY <1>e, <2>3 DEF Calls
  <2>5. call[r].pc = "read" /\ f \in call[r].todo /\ UNCHANGED <<plan, instances, logical, statuses>>
    BY <1>f DEF ReadRan
  <2>6. R \subseteq {h \in call[r].gate.needs : Ran(call[r].exec, h)}
    BY <1>e, <2>5 DEF CallConsistent
  <2>7. CallConsistent(r)'
    BY <1>e, <2>4, <2>5, <2>6 DEF CallConsistent, Ran
  <2>8. call' \in [Requests -> Calls] /\ \A q \in Requests \ {r} : call'[q] = call[q]
    BY <1>t, <1>f, <2>2, <2>3 DEF ReadRan, TypeOK
  <2>. QED
    BY <1>s, <2>5, <2>7, <2>8
<1>g. ASSUME NEW r \in Requests, Allow(r) PROVE Inv'
  <2>. DEFINE c == call[r]
  <2>1. c.exec \in Executions /\ c.fqn \in Names /\ c.gate.fqn \in Names
    BY <1>e DEF Calls, Gates
  <2>2. call' \in [Requests -> Calls] /\ CallConsistent(r)'
    BY <1>t, <1>e, <1>g, AnswerTyped, AnswerConsistent DEF Allow
  <2>3. TypeOK'
    BY <1>t, <1>g, <2>1, <2>2 DEF Allow, TypeOK
  <2>4. \A e \in Executions : instances[e] \subseteq instances'[e] /\ logical[e] \subseteq logical'[e]
    BY <1>t, <1>g DEF Allow, TypeOK
  <2>5. ASSUME NEW q \in Requests \ {r} PROVE CallConsistent(q)'
    <3>1. call'[q] = call[q] /\ plan' = plan
      BY <1>t, <1>g DEF Allow, Answer, TypeOK
    <3>. QED
      BY <1>e, <2>4, <3>1, OtherConsistent
  <2>. QED
    BY <2>2, <2>3, <2>5 DEF Inv, CallsConsistent
<1>h. ASSUME NEW r \in Requests, Deny(r) PROVE Inv'
  <2>1. PICK a \in {"allow", "deny", "pass"} : Answer(r, a)
    BY <1>h, RefusalAssumption DEF Deny, Refuse
  <2>2. call' \in [Requests -> Calls] /\ CallConsistent(r)'
    BY <1>t, <1>e, <1>h, <2>1, AnswerTyped, AnswerConsistent DEF Deny
  <2>. QED
    BY <1>t, <1>h, <1>s, <2>1, <2>2 DEF Deny, Answer, TypeOK
<1>i. ASSUME NEW r \in Requests, Finish(r) PROVE Inv'
  <2>1. call'[r] = Idle /\ call' \in [Requests -> Calls]
    BY <1>t, <1>i, IdleTyped DEF Finish, TypeOK
  <2>2. CallConsistent(r)'
    BY <2>1 DEF CallConsistent, Idle, Fresh
  <2>. QED
    BY <1>t, <1>i, <1>s, <2>1, <2>2 DEF Finish, TypeOK
<1>j. ASSUME NEW e \in Executions, NEW o \in Owners, NEW v \in Statuses, MarkStatus(e, o, v)
      PROVE  Inv'
  <2>1. TypeOK'
    <3>1. statuses[e] \in StatusMaps
      BY <1>t DEF TypeOK
    <3>2. [x \in DOMAIN statuses[e] \cup {o} |-> IF x = o THEN v ELSE statuses[e][x]] \in StatusMaps
      BY <3>1, MarkedTyped, Zenon
    <3>3. statuses' \in [Executions -> StatusMaps]
      BY <1>t, <1>j, <3>2 DEF MarkStatus, TypeOK
    <3>. QED
      BY <1>t, <1>j, <3>3 DEF MarkStatus, TypeOK
  <2>2. \A q \in Requests : CallConsistent(q)'
    BY <1>e, <1>j, OtherConsistent DEF MarkStatus
  <2>. QED
    BY <2>1, <2>2 DEF Inv, CallsConsistent
<1>k. ASSUME Restart PROVE Inv'
  <2>1. NoStatus \in StatusMaps
    BY IdleTyped DEF Idle, Fresh, Calls
  <2>2. TypeOK'
    BY <1>t, <1>k, <2>1, IdleTyped DEF Restart, TypeOK
  <2>3. \A q \in Requests : call'[q].pc = "idle"
    BY <1>k DEF Restart, Idle, Fresh
  <2>. QED
    BY <2>2, <2>3 DEF Inv, CallsConsistent, CallConsistent
<1>l. ASSUME UNCHANGED vars PROVE Inv'
  BY <1>t, <1>l DEF Inv, TypeOK, CallsConsistent, CallConsistent, Ran, vars
<1>. QED
  BY <1>a, <1>b, <1>c, <1>d, <1>f, <1>g, <1>h, <1>i, <1>j, <1>k, <1>l DEF Next, Serve

LEMMA InvAlways == Spec => []Inv
  BY InvInit, InvStep, PTL DEF Spec

(* Every variable and every local of a request keeps its type: the names   *)
(* recorded in the Store are FQNs of the pipelines, whatever is asked for. *)
THEOREM TypeCorrect == Spec => []TypeOK
<1>1. Inv => TypeOK
  BY DEF Inv
<1>. QED
  BY <1>1, InvAlways, PTL

(* A request decides on reads that are still true when it decides, though  *)
(* each of them took the store's lock for itself.                          *)
THEOREM ReadsStayTrue == Spec => []CallsConsistent
<1>1. Inv => CallsConsistent
  BY DEF Inv
<1>. QED
  BY <1>1, InvAlways, PTL

-----------------------------------------------------------------------------
(* Refinement.                                                             *)

LEMMA AllowIsGrant ==
  ASSUME Inv, NEW r \in Requests, Allow(r)
  PROVE  Grants!GrantsNext
<1>. DEFINE c == call[r]
            e == call[r].exec
            recorded == instances[e] \cup logical[e]
<1>1. /\ TypeOK /\ CallConsistent(r) /\ c \in Calls /\ e \in Executions
      /\ c.own \in StatusMaps /\ plan[e] \in Plans /\ c.gate \in Gates(Names)
  BY DEF Inv, CallsConsistent, TypeOK, Calls
<1>2. c.pc = "read" /\ Allowed(c.gate, c.ran, {}, FailOpen)
  BY DEF Allow, Passes
<1>3. c.fqn \in Asked(plan[e]) /\ c.gate.outcome = "evaluated"
      /\ c.ran \subseteq c.gate.needs \cap recorded
  BY <1>1, <1>2 DEF CallConsistent, Ran
<1>4. PICK v \in Versions(plan[e]), walk \in StatusMaps : c.gate = GateOf(v, c.fqn, c.own, walk)
  BY <1>1, <1>2 DEF CallConsistent
<1>5. Grants!Justified(c.gate, c.gate.needs \cap recorded, {})
  <2>1. Allowed(c.gate, c.gate.needs \cap recorded, {}, FailOpen)
    BY <1>1, <1>2, <1>3, AllowedMonotone
  <2>2. Grants!Allowed(c.gate, c.gate.needs \cap recorded, {}, FailOpen)
    BY <2>1 DEF Grants!Allowed, Allowed, Grants!RunViolations, RunViolations, Grants!Satisfied, Satisfied
  <2>3. (c.gate.needs \cap recorded) \ {} = c.gate.needs \cap recorded
    OBVIOUS
  <2>. QED
    BY <1>3, <2>2, <2>3 DEF Grants!Justified
<1>6. Grants!Grant(e, v, c.fqn, c.own, walk)
  <2>1. \E unknown \in SUBSET c.gate.needs : Grants!Justified(c.gate, c.gate.needs \cap recorded, unknown)
    <3>1. {} \in SUBSET c.gate.needs
      OBVIOUS
    <3>. QED
      BY <1>5, <3>1
  <2>2. /\ instances' = [instances EXCEPT ![e] = @ \cup {c.fqn}]
        /\ logical' = [logical EXCEPT ![e] = @ \cup {c.gate.fqn}]
        /\ UNCHANGED plan
    BY DEF Allow
  <2>. QED
    BY <1>4, <2>1, <2>2 DEF Grants!Grant
<1>. QED
  BY <1>1, <1>3, <1>4, <1>6 DEF Grants!GrantsNext

LEMMA StepRefines == Inv /\ [Next]_vars => [Grants!GrantsNext]_(Grants!grantVars)
<1>. SUFFICES ASSUME Inv, [Next]_vars PROVE Grants!GrantsNext \/ UNCHANGED Grants!grantVars
  OBVIOUS
<1>1. ASSUME NEW r \in Requests, Allow(r) PROVE Grants!GrantsNext
  BY <1>1, AllowIsGrant
<1>2. ASSUME Restart PROVE Grants!GrantsNext
  BY <1>2 DEF Restart, Grants!Forget, Grants!GrantsNext
<1>3. ASSUME NEW r \in Requests, Serve(r), ~ Allow(r) PROVE UNCHANGED Grants!grantVars
  BY <1>3 DEF Serve, PassUnordered, ReadOwnGuards, WalkAncestors, ReadRan, Deny, Finish, Grants!grantVars
<1>4. ASSUME NEW r \in Requests, NEW e \in Executions, NEW f \in Asked(plan[e]), Arrive(r, e, f)
      PROVE  UNCHANGED Grants!grantVars
  BY <1>4 DEF Arrive, Grants!grantVars
<1>5. ASSUME NEW e \in Executions, NEW o \in Owners, NEW v \in Statuses, MarkStatus(e, o, v)
      PROVE  UNCHANGED Grants!grantVars
  BY <1>5 DEF MarkStatus, Grants!grantVars
<1>6. ASSUME UNCHANGED vars PROVE UNCHANGED Grants!grantVars
  BY <1>6 DEF vars, Grants!grantVars
<1>. QED
  BY <1>1, <1>2, <1>3, <1>4, <1>5, <1>6 DEF Next

(* The concurrent verifier implements the atomic one: for any number of    *)
(* requests and any interleaving, it records a step only when an atomic    *)
(* check-and-record against the same store would have.                     *)
THEOREM Refinement == Spec => ImplementsGrants
<1>1. Init => Grants!GrantsInit
  BY DEF Init, Grants!GrantsInit
<1>. QED
  BY <1>1, StepRefines, InvAlways, PTL DEF Spec, ImplementsGrants, Grants!GrantsSpec

-----------------------------------------------------------------------------
(* The two views of the store.                                             *)

\* ViewsAgree, stated under one status map, and over asked names only.
Folds(e, f, h) == \E v \in Versions(plan[e]) : h = GateOf(v, f, NoStatus, NoStatus).fqn

Folded ==
  \A e \in Executions :
    /\ instances[e] \subseteq Asked(plan[e])
    /\ \A f \in instances[e] : \E h \in logical[e] : Folds(e, f, h)
    /\ \A h \in logical[e] : \E f \in instances[e] : Folds(e, f, h)

LEMMA NoStatusTyped == NoStatus \in StatusMaps
  BY IdleTyped DEF Idle, Fresh, Calls

LEMMA FoldedStep == Inv /\ Folded /\ [Next]_vars => Folded'
<1>. SUFFICES ASSUME Inv, Folded, [Next]_vars PROVE Folded'
  OBVIOUS
<1>1. ASSUME NEW r \in Requests, Allow(r) PROVE Folded'
  <2>. DEFINE e == call[r].exec
              f == call[r].fqn
  <2>1. /\ TypeOK /\ CallConsistent(r) /\ call[r].own \in StatusMaps /\ e \in Executions
        /\ plan[e] \in Plans
    BY DEF Inv, CallsConsistent, TypeOK, Calls
  <2>2. f \in Asked(plan[e]) /\ \E v \in Versions(plan[e]) : \E walk \in StatusMaps :
                                 call[r].gate = GateOf(v, f, call[r].own, walk)
    BY <1>1, <2>1 DEF CallConsistent, Allow
  <2>3. Folds(e, f, call[r].gate.fqn)
    BY <2>1, <2>2, FoldAssumption, NoStatusTyped DEF Folds
  <2>4. plan' = plan
    BY <1>1 DEF Allow
  <2>5. instances'[e] = instances[e] \cup {f} /\ logical'[e] = logical[e] \cup {call[r].gate.fqn}
    BY <1>1, <2>1 DEF Allow, TypeOK
  <2>6. \A d \in Executions \ {e} : instances'[d] = instances[d] /\ logical'[d] = logical[d]
    BY <1>1, <2>1 DEF Allow, TypeOK
  <2>7. ASSUME NEW d \in Executions
        PROVE  /\ instances'[d] \subseteq Asked(plan[d])
               /\ \A k \in instances'[d] : \E h \in logical'[d] : Folds(d, k, h)
               /\ \A h \in logical'[d] : \E k \in instances'[d] : Folds(d, k, h)
    BY <2>2, <2>3, <2>5, <2>6 DEF Folded
  <2>8. \A d \in Executions : \A k, h : Folds(d, k, h)' <=> Folds(d, k, h)
    BY <2>4 DEF Folds
  <2>. QED
    BY <2>4, <2>7, <2>8 DEF Folded
<1>2. ASSUME Restart PROVE Folded'
  BY <1>2 DEF Restart, Folded
<1>3. ASSUME UNCHANGED <<plan, instances, logical>> PROVE Folded'
  BY <1>3 DEF Folded, Folds
<1>4. (\E r \in Requests : Allow(r)) \/ Restart \/ UNCHANGED <<plan, instances, logical>>
  BY DEF Next, Serve, Arrive, PassUnordered, ReadOwnGuards, WalkAncestors, ReadRan, Deny, Finish, MarkStatus, vars
<1>. QED
  BY <1>1, <1>2, <1>3, <1>4

LEMMA FoldedAlways == Spec => []Folded
<1>1. Init => Folded
  BY DEF Init, Folded
<1>. QED
  BY <1>1, FoldedStep, InvAlways, PTL DEF Spec

(* An FQN is recorded as a run exactly when the node it resolves to is     *)
(* recorded as having run, so the two views MarkRan writes never disagree. *)
THEOREM StoreViews == Spec => []ViewsAgree
<1>1. Inv /\ Folded => ViewsAgree
  <2>. SUFFICES ASSUME Inv, Folded, NEW e \in Executions, NEW f \in instances[e], NEW h
       PROVE  Folds(e, f, h) => FoldsTo(e, f, h)
    BY DEF ViewsAgree, Folded
  <2>1. plan[e] \in Plans /\ statuses[e] \in StatusMaps /\ f \in Asked(plan[e])
    BY DEF Inv, TypeOK, Folded
  <2>. QED
    BY <2>1, FoldAssumption, NoStatusTyped DEF Folds, FoldsTo
<1>. QED
  BY <1>1, FoldedAlways, InvAlways, PTL

-----------------------------------------------------------------------------
(* Retries.                                                                *)

\* While an execution is settled, a name has one gate.
GateHere(v, f) == GateOf(v, f, NoStatus, NoStatus)

Recorded(e) == instances[e] \cup logical[e]

\* What was granted would be granted again.
GrantHolds(e, f) ==
  /\ f \in Asked(plan[e])
  /\ \A v \in Versions(plan[e]) :
       GateHere(v, f).outcome = "evaluated" /\ Allowed(GateHere(v, f), Recorded(e), {}, FailOpen)

\* A retry is on its way to be allowed: what it read and what it has yet to
\* find are enough.
RetryHolds(r) ==
  LET c == call[r]
  IN  Settled(c.exec) =>
        /\ c.pc = "walk" => c.own = NoStatus
        /\ c.pc = "read" => \A v \in Versions(plan[c.exec]) : c.gate = GateHere(v, c.fqn)
        /\ c.ready =>
             /\ c.pc \in {"guards", "walk"} => c.fqn \in instances[c.exec]
             /\ c.pc = "read" => Allowed(c.gate, c.ran \cup (c.todo \cap Recorded(c.exec)), {}, FailOpen)
             /\ c.verdict # "deny"

RetryInv ==
  /\ \A e \in Executions : Settled(e) => \A f \in instances[e] : GrantHolds(e, f)
  /\ \A r \in Requests : RetryHolds(r)

\* Recording more keeps every grant and every retry.
LEMMA GrowthKeeps ==
  ASSUME Inv, RetryInv, plan' = plan,
         \A e \in Executions : instances[e] \subseteq instances'[e] /\ logical[e] \subseteq logical'[e],
         \A e \in Executions : Settled(e)' => Settled(e)
  PROVE  /\ \A e \in Executions : Settled(e)' => \A f \in instances[e] : GrantHolds(e, f)'
         /\ \A r \in Requests : call'[r] = call[r] => RetryHolds(r)'
<1>1. ASSUME NEW e \in Executions, Settled(e)', NEW f \in instances[e] PROVE GrantHolds(e, f)'
  <2>1. GrantHolds(e, f)
    BY <1>1 DEF RetryInv
  <2>2. Recorded(e) \subseteq Recorded(e)'
    BY DEF Recorded
  <2>3. ASSUME NEW v \in Versions(plan[e])
        PROVE  GateHere(v, f).outcome = "evaluated" /\ Allowed(GateHere(v, f), Recorded(e)', {}, FailOpen)
    <3>1. GateHere(v, f).outcome = "evaluated" /\ Allowed(GateHere(v, f), Recorded(e), {}, FailOpen)
      BY <2>1 DEF GrantHolds
    <3>2. GateHere(v, f) \in Gates(Names)
      BY <2>1, NoStatusTyped, GateAssumption DEF Inv, TypeOK, GrantHolds, GateHere
    <3>. QED
      BY <2>2, <3>1, <3>2, AllowedMonotone
  <2>. QED
    BY <2>1, <2>3 DEF GrantHolds
<1>2. ASSUME NEW r \in Requests, call'[r] = call[r] PROVE RetryHolds(r)'
  <2>0. PICK e \in Executions : call[r].exec = e
    BY DEF Inv, TypeOK, Calls
  <2>. DEFINE c == call[r]
              had == c.ran \cup (c.todo \cap Recorded(e))
              has == c.ran \cup (c.todo \cap (instances'[e] \cup logical'[e]))
  <2>1. c \in Calls /\ c.gate \in Gates(Names) /\ RetryHolds(r)
    BY DEF Inv, TypeOK, Calls, RetryInv
  <2>2. had \subseteq has
    BY <1>2, <2>1 DEF Recorded
  <2>3. Allowed(c.gate, had, {}, FailOpen) => Allowed(c.gate, has, {}, FailOpen)
    BY <2>1, <2>2, AllowedMonotone
  <2>4. instances[e] \subseteq instances'[e] /\ plan' = plan
    BY <2>1
  <2>5. Settled(e)' => Settled(e)
    OBVIOUS
  <2>. QED
    BY <1>2, <2>0, <2>1, <2>3, <2>4, <2>5 DEF RetryHolds, Recorded
<1>. QED
  BY <1>1, <1>2

LEMMA RetryStep == Inv /\ RetryInv /\ [Next]_vars => RetryInv'
<1>. SUFFICES ASSUME Inv, RetryInv, [Next]_vars PROVE RetryInv'
  OBVIOUS
<1>t. /\ TypeOK
      /\ \A r \in Requests : /\ call[r] \in Calls /\ CallConsistent(r) /\ RetryHolds(r)
                             /\ call[r].exec \in Executions
  BY DEF Inv, CallsConsistent, TypeOK, Calls, RetryInv
\* One step of one request that keeps the store.
<1>s. ASSUME NEW r \in Requests, RetryHolds(r)', \A q \in Requests \ {r} : call'[q] = call[q],
             UNCHANGED <<plan, instances, logical, statuses>>
      PROVE  RetryInv'
  <2>1. \A e \in Executions : Settled(e)' <=> Settled(e)
    BY <1>s DEF Settled
  <2>. QED
    BY <1>s, <2>1, GrowthKeeps DEF RetryInv
\* An answer that is not a denial.
<1>p. ASSUME NEW r \in Requests, NEW v \in {"allow", "pass"}, Answer(r, v)
      PROVE  RetryHolds(r)' /\ \A q \in Requests \ {r} : call'[q] = call[q]
  <2>1. call'[r] = [call[r] EXCEPT !.pc = "done", !.verdict = v]
    BY <1>t, <1>p DEF Answer, TypeOK
  <2>2. call'[r].pc = "done" /\ call'[r].verdict = v
    BY <1>t, <2>1 DEF Calls
  <2>. QED
    BY <1>t, <1>p, <2>2 DEF RetryHolds, Answer, TypeOK
\* A refusal of a call that is no retry.
<1>q. ASSUME NEW r \in Requests, NEW v, Answer(r, v), UNCHANGED <<plan, statuses>>,
             ~ (Settled(call[r].exec) /\ call[r].ready)
      PROVE  RetryHolds(r)' /\ \A q \in Requests \ {r} : call'[q] = call[q]
  <2>1. call'[r] = [call[r] EXCEPT !.pc = "done", !.verdict = v]
    BY <1>t, <1>q DEF Answer, TypeOK
  <2>2. call'[r].pc = "done" /\ call'[r].ready = call[r].ready /\ call'[r].exec = call[r].exec
    BY <1>t, <2>1 DEF Calls
  <2>. QED
    BY <1>t, <1>q, <2>2 DEF RetryHolds, Answer, TypeOK, Settled
<1>a. ASSUME NEW r \in Requests, NEW e \in Executions, NEW f \in Asked(plan[e]), Arrive(r, e, f)
      PROVE  RetryInv'
  <2>1. call'[r] = Fresh("guards", e, f, f \in instances[e]) /\ \A q \in Requests \ {r} : call'[q] = call[q]
    BY <1>t, <1>a DEF Arrive, TypeOK
  <2>2. call'[r].pc = "guards" /\ call'[r].fqn = f /\ call'[r].exec = e /\ call'[r].verdict = "none"
    BY <2>1 DEF Fresh
  <2>3. call'[r].ready = (f \in instances[e])
    BY <2>1 DEF Fresh
  <2>4. RetryHolds(r)'
    BY <1>a, <2>2, <2>3 DEF RetryHolds, Arrive, Settled
  <2>. QED
    BY <1>a, <1>s, <2>1, <2>4 DEF Arrive
<1>b. ASSUME NEW r \in Requests, PassUnordered(r) PROVE RetryInv'
  BY <1>b, <1>p, <1>s DEF PassUnordered
<1>c. ASSUME NEW r \in Requests, ReadOwnGuards(r) PROVE RetryInv'
  <2>1. call'[r] = [call[r] EXCEPT !.pc = "walk", !.own = statuses[call[r].exec]]
        /\ \A q \in Requests \ {r} : call'[q] = call[q]
    BY <1>t, <1>c DEF ReadOwnGuards, TypeOK
  <2>2. /\ call'[r].pc = "walk" /\ call'[r].fqn = call[r].fqn /\ call'[r].exec = call[r].exec
        /\ call'[r].ready = call[r].ready /\ call'[r].verdict = call[r].verdict
        /\ call'[r].own = statuses[call[r].exec]
    BY <1>t, <2>1 DEF Calls
  <2>3. RetryHolds(r)'
    <3>1. call[r].pc = "guards" /\ UNCHANGED <<plan, instances, logical, statuses>>
      BY <1>c DEF ReadOwnGuards
    <3>2. Settled(call[r].exec)' <=> Settled(call[r].exec)
      BY <2>2, <3>1 DEF Settled
    <3>3. Settled(call[r].exec) => statuses[call[r].exec] = NoStatus
      BY DEF Settled
    <3>. QED
      BY <1>t, <2>2, <3>1, <3>2, <3>3 DEF RetryHolds
  <2>. QED
    BY <1>c, <1>s, <2>1, <2>3 DEF ReadOwnGuards
<1>d. ASSUME NEW r \in Requests, NEW v \in Versions(plan[call[r].exec]), WalkAncestors(r, v)
      PROVE  RetryInv'
  <2>. DEFINE c == call[r]
              e == c.exec
              g == GateOf(v, c.fqn, c.own, statuses[e])
              after == c.ran \cup (g.needs \cap Recorded(e))
  <2>1. c.pc = "walk" /\ UNCHANGED <<plan, instances, logical, statuses>>
    BY <1>d DEF WalkAncestors
  <2>u. ASSUME Settled(e) PROVE \A w \in Versions(plan[e]) : g = GateHere(w, c.fqn)
    BY <1>t, <1>d, <2>1, <2>u DEF RetryHolds, Settled, GateHere
  <2>2. ASSUME Settled(e), c.ready PROVE g.outcome = "evaluated" /\ Allowed(g, after, {}, FailOpen)
    <3>1. GrantHolds(e, c.fqn) /\ c.ran = {}
      BY <1>t, <2>1, <2>2 DEF RetryHolds, RetryInv, CallConsistent
    <3>3. GateHere(v, c.fqn) = g
      BY <1>d, <2>2, <2>u
    <3>4. g.outcome = "evaluated" /\ Allowed(g, Recorded(e), {}, FailOpen)
      BY <1>d, <3>1, <3>3 DEF GrantHolds
    <3>5. after = g.needs \cap Recorded(e)
      BY <3>1
    <3>. QED
      BY <3>4, <3>5, AllowedOnNeeds
  <2>3. CASE call' = [call EXCEPT ![r] = [@ EXCEPT !.pc = "read", !.gate = g, !.todo = g.needs]]
    <3>1. call'[r] = [c EXCEPT !.pc = "read", !.gate = g, !.todo = g.needs]
          /\ \A q \in Requests \ {r} : call'[q] = call[q]
      BY <1>t, <2>3 DEF TypeOK
    <3>2. /\ call'[r].pc = "read" /\ call'[r].gate = g /\ call'[r].todo = g.needs /\ call'[r].ran = c.ran
          /\ call'[r].exec = e /\ call'[r].fqn = c.fqn /\ call'[r].ready = c.ready /\ call'[r].verdict = c.verdict
      BY <1>t, <3>1 DEF Calls
    <3>3. Recorded(e) = instances'[e] \cup logical'[e]
      BY <2>1 DEF Recorded
    <3>4. RetryHolds(r)'
      <4>1. Settled(call[r].exec)' <=> Settled(e)
        BY <2>1, <3>2 DEF Settled
      <4>2. call'[r].ran \cup (call'[r].todo \cap Recorded(call[r].exec)') = after
        BY <3>2, <3>3 DEF Recorded
      <4>3. Settled(e) /\ c.ready => Allowed(g, after, {}, FailOpen)
        BY <2>2
      <4>4. c.verdict # "deny" \/ ~ (Settled(e) /\ c.ready)
        BY <1>t DEF RetryHolds
      <4>5. \A w : GateHere(w, call[r].fqn)' = GateHere(w, c.fqn)
        BY <3>2 DEF GateHere
      <4>. QED
        BY <2>1, <2>u, <3>2, <4>1, <4>2, <4>3, <4>4, <4>5 DEF RetryHolds
    <3>. QED
      BY <1>s, <2>1, <3>1, <3>4
  <2>4. CASE Answer(r, "pass")
    BY <1>p, <1>s, <2>1, <2>4
  <2>5. ASSUME g.outcome = "invalid", NEW a, Answer(r, a) PROVE RetryInv'
    BY <1>q, <1>s, <2>1, <2>2, <2>5
  <2>. QED
    BY <1>d, <2>3, <2>4, <2>5 DEF WalkAncestors, Refuse
<1>e. ASSUME NEW r \in Requests, NEW f, ReadRan(r, f) PROVE RetryInv'
  <2>. DEFINE c == call[r]
  <2>1. /\ c.pc = "read" /\ f \in c.todo /\ UNCHANGED <<plan, instances, logical, statuses>>
        /\ \A q \in Requests \ {r} : call'[q] = call[q]
    BY <1>t, <1>e DEF ReadRan, TypeOK
  <2>2. call'[r] = [c EXCEPT !.todo = c.todo \ {f}, !.ran = c.ran \cup {h \in {f} : Ran(c.exec, h)}]
    BY <1>t, <1>e DEF ReadRan, TypeOK
  <2>3. /\ call'[r].pc = "read" /\ call'[r].gate = c.gate /\ call'[r].exec = c.exec /\ call'[r].fqn = c.fqn
        /\ call'[r].ready = c.ready /\ call'[r].verdict = c.verdict
        /\ call'[r].todo = c.todo \ {f} /\ call'[r].ran = c.ran \cup {h \in {f} : Ran(c.exec, h)}
    BY <1>t, <2>1, <2>2 DEF Calls
  <2>4. call'[r].ran \cup (call'[r].todo \cap Recorded(c.exec)) = c.ran \cup (c.todo \cap Recorded(c.exec))
    BY <2>1, <2>3 DEF Recorded, Ran
  <2>5. Settled(call[r].exec)' <=> Settled(c.exec)
    BY <2>1, <2>3 DEF Settled
  <2>6. Recorded(call[r].exec)' = Recorded(c.exec)
    BY <2>1, <2>3 DEF Recorded
  <2>7. \A v : GateHere(v, call[r].fqn)' = GateHere(v, c.fqn)
    BY <2>3 DEF GateHere
  <2>8. RetryHolds(r)
    BY <1>t DEF RetryInv
  <2>9. RetryHolds(r)'
    BY <2>1, <2>3, <2>4, <2>5, <2>6, <2>7, <2>8 DEF RetryHolds
  <2>. QED
    BY <1>s, <2>1, <2>9
<1>f. ASSUME NEW r \in Requests, Allow(r) PROVE RetryInv'
  <2>. DEFINE c == call[r]
              g == c.gate
  <2>0. PICK e \in Executions, f \in Names : c.exec = e /\ c.fqn = f
    BY <1>t DEF Calls
  <2>1. /\ c.pc = "read" /\ Passes(r) /\ plan' = plan /\ Answer(r, "allow")
        /\ instances' = [instances EXCEPT ![e] = @ \cup {f}]
        /\ logical' = [logical EXCEPT ![e] = @ \cup {g.fqn}]
    BY <1>f, <2>0 DEF Allow
  <2>2. /\ instances'[e] = instances[e] \cup {f} /\ logical'[e] = logical[e] \cup {g.fqn}
        /\ \A d \in Executions \ {e} : instances'[d] = instances[d] /\ logical'[d] = logical[d]
    BY <1>t, <2>1 DEF TypeOK
  <2>3. \A d \in Executions : instances[d] \subseteq instances'[d] /\ logical[d] \subseteq logical'[d]
    BY <2>2
  <2>u. \A d \in Executions : Settled(d)' <=> Settled(d)
    BY <1>f DEF Allow, Settled
  <2>4. /\ \A d \in Executions : Settled(d)' => \A h \in instances[d] : GrantHolds(d, h)'
        /\ \A q \in Requests : call'[q] = call[q] => RetryHolds(q)'
    BY <2>1, <2>3, <2>u, GrowthKeeps
  <2>5. ASSUME Settled(e) PROVE GrantHolds(e, f)'
    <3>1. f \in Asked(plan[e]) /\ g.outcome = "evaluated" /\ c.ran \subseteq Recorded(e)
      BY <1>t, <2>0, <2>1 DEF CallConsistent, Recorded, Ran
    <3>2. \A v \in Versions(plan[e]) : GateHere(v, f) = g
      BY <1>t, <2>0, <2>1, <2>5 DEF RetryHolds
    <3>3. c.ran \subseteq instances'[e] \cup logical'[e] /\ g \in Gates(Names)
      BY <1>t, <2>2, <3>1 DEF Recorded, Calls
    <3>4. Allowed(g, instances'[e] \cup logical'[e], {}, FailOpen)
      BY <2>1, <3>3, AllowedMonotone DEF Passes
    <3>. QED
      BY <2>1, <3>1, <3>2, <3>4 DEF GrantHolds, Recorded
  <2>6. \A d \in Executions : Settled(d)' => \A h \in instances'[d] : GrantHolds(d, h)'
    BY <2>2, <2>4, <2>5, <2>u
  <2>7. RetryHolds(r)' /\ \A q \in Requests \ {r} : call'[q] = call[q]
    BY <1>p, <2>1
  <2>. QED
    BY <2>4, <2>6, <2>7 DEF RetryInv
<1>g. ASSUME NEW r \in Requests, Deny(r) PROVE RetryInv'
  <2>0. PICK a \in Refusals : Answer(r, a)
    BY <1>g DEF Deny, Refuse
  <2>1. call[r].pc = "read" /\ call[r].todo = {} /\ ~ Passes(r)
        /\ UNCHANGED <<plan, instances, logical, statuses>>
    BY <1>g DEF Deny
  <2>2. call[r].ran \cup (call[r].todo \cap Recorded(call[r].exec)) = call[r].ran
    BY <2>1
  <2>3. ~ (Settled(call[r].exec) /\ call[r].ready)
    BY <1>t, <2>1, <2>2 DEF RetryHolds, Passes
  <2>. QED
    BY <1>q, <1>s, <2>0, <2>1, <2>3
<1>h. ASSUME NEW r \in Requests, Finish(r) PROVE RetryInv'
  <2>1. call'[r] = Idle /\ (\A q \in Requests \ {r} : call'[q] = call[q]) /\ UNCHANGED <<plan, instances, logical, statuses>>
    BY <1>t, <1>h DEF Finish, TypeOK
  <2>2. call'[r].ready = FALSE /\ call'[r].pc = "idle"
    BY <2>1 DEF Idle, Fresh
  <2>3. RetryHolds(r)'
    BY <2>2 DEF RetryHolds
  <2>. QED
    BY <1>s, <2>1, <2>3
<1>i. ASSUME NEW e \in Executions, NEW o \in Owners, NEW s \in Statuses, MarkStatus(e, o, s)
      PROVE  RetryInv'
  <2>1. /\ UNCHANGED <<plan, instances, logical, call>>
        /\ DOMAIN statuses'[e] = DOMAIN statuses[e] \cup {o}
        /\ \A d \in Executions \ {e} : statuses'[d] = statuses[d]
    BY <1>t, <1>i DEF MarkStatus, TypeOK
  <2>2. statuses'[e] # NoStatus
    BY <2>1 DEF NoStatus
  <2>3. \A d \in Executions : Settled(d)' => Settled(d)
    BY <2>1, <2>2 DEF Settled
  <2>. QED
    BY <2>1, <2>3, GrowthKeeps DEF RetryInv
<1>k. ASSUME UNCHANGED vars PROVE RetryInv'
  BY <1>k, <1>s DEF vars, RetryInv, RetryHolds, GrantHolds, Recorded, Settled
<1>j. ASSUME Restart PROVE RetryInv'
  <2>1. /\ \A e \in Executions : instances'[e] = {}
        /\ \A r \in Requests : call'[r].ready = FALSE /\ call'[r].pc = "idle"
    BY <1>j DEF Restart, Idle, Fresh
  <2>2. \A r \in Requests : RetryHolds(r)'
    BY <2>1 DEF RetryHolds
  <2>. QED
    BY <2>1, <2>2 DEF RetryInv
<1>. QED
  BY <1>a, <1>b, <1>c, <1>d, <1>e, <1>f, <1>g, <1>h, <1>i, <1>j, <1>k DEF Next, Serve

(* No retry of a step that was recorded before the retry arrived is denied *)
(* while no status of its execution is marked and its pipeline resolves to *)
(* the same, however many requests run with it and whatever is lost at a   *)
(* restart.                                                                *)
THEOREM RetrySafe == Spec => []RetryAllowed
<1>1. Init => RetryInv
  <2>. SUFFICES ASSUME Init PROVE RetryInv
    OBVIOUS
  <2>1. /\ \A e \in Executions : instances[e] = {}
        /\ \A r \in Requests : call[r].ready = FALSE /\ call[r].pc = "idle"
    BY DEF Init, Idle, Fresh
  <2>2. \A r \in Requests : RetryHolds(r)
    BY <2>1 DEF RetryHolds
  <2>. QED
    BY <2>1, <2>2 DEF RetryInv
<1>2. RetryInv => RetryAllowed
  BY DEF RetryInv, RetryHolds, RetryAllowed, Settled
<1>3. Inv /\ RetryInv /\ [Next]_vars => RetryInv'
  BY RetryStep
<1>. QED
  BY <1>1, <1>2, <1>3, InvAlways, PTL DEF Spec
=============================================================================
