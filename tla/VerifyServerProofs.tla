------------------------- MODULE VerifyServerProofs -------------------------
(***************************************************************************)
(* What is proved of VerifyServer for every number of requests, contents,  *)
(* configurations and pipelines.                                           *)
(***************************************************************************)
EXTENDS VerifyServer, OrderingGateProofs

-----------------------------------------------------------------------------
(* The chain.                                                              *)

LEMMA ChainTyped ==
  ASSUME NEW c \in Configs, NEW t
  PROVE  VerifierChain(c, t) \in Seq(Verifiers)
<1>. DEFINE own == IF t \in DOMAIN c.byType THEN c.byType[t] ELSE <<>>
<1>1. c.global \in Seq(Verifiers) /\ c.custom \in Seq(Verifiers) /\ own \in Seq(Verifiers)
  BY ConfigsAssumption
<1>2. c.global \o own \in Seq(Verifiers)
  BY <1>1
<1>3. (c.global \o own) \o c.custom \in Seq(Verifiers)
  BY <1>1, <1>2
<1>. QED
  BY <1>3 DEF VerifierChain

\* The elements of a sequence, and those of a concatenation.
Held(s) == {s[k] : k \in DOMAIN s}

LEMMA HeldConcat ==
  ASSUME NEW S, NEW s \in Seq(S), NEW t \in Seq(S)
  PROVE  Held(s \o t) = Held(s) \cup Held(t)
<1>1. s \o t \in Seq(S) /\ Len(s \o t) = Len(s) + Len(t) /\ Len(s) \in Nat /\ Len(t) \in Nat
  OBVIOUS
<1>2. ASSUME NEW k \in 1..Len(s) PROVE k \in 1..Len(s \o t) /\ (s \o t)[k] = s[k]
  BY <1>1
<1>3. ASSUME NEW k \in 1..Len(t) PROVE Len(s) + k \in 1..Len(s \o t) /\ (s \o t)[Len(s) + k] = t[k]
  BY <1>1
<1>4. ASSUME NEW k \in 1..Len(s \o t), k > Len(s)
      PROVE  k - Len(s) \in 1..Len(t) /\ (s \o t)[k] = t[k - Len(s)]
  BY <1>1, <1>4
<1>5. DOMAIN s = 1..Len(s) /\ DOMAIN t = 1..Len(t) /\ DOMAIN (s \o t) = 1..Len(s \o t)
  BY <1>1
<1>6. ASSUME NEW v \in Held(s) PROVE v \in Held(s \o t)
  <2>1. PICK k \in 1..Len(s) : v = s[k]
    BY <1>5 DEF Held
  <2>. QED
    BY <1>2, <1>5, <2>1 DEF Held
<1>7. ASSUME NEW v \in Held(t) PROVE v \in Held(s \o t)
  <2>1. PICK k \in 1..Len(t) : v = t[k]
    BY <1>5 DEF Held
  <2>. QED
    BY <1>3, <1>5, <2>1 DEF Held
<1>8. ASSUME NEW v \in Held(s \o t) PROVE v \in Held(s) \cup Held(t)
  <2>1. PICK k \in 1..Len(s \o t) : v = (s \o t)[k]
    BY <1>5 DEF Held
  <2>2. CASE k > Len(s)
    BY <1>4, <1>5, <2>1, <2>2 DEF Held
  <2>3. CASE ~ (k > Len(s))
    <3>1. k \in 1..Len(s)
      BY <1>1, <2>1, <2>3
    <3>. QED
      BY <1>2, <1>5, <2>1, <3>1 DEF Held
  <2>. QED
    BY <2>2, <2>3
<1>. QED
  BY <1>6, <1>7, <1>8

\* Every verifier that is configured for all tasks or for a type is in its chain.
DueVerifiers(c, t) ==
  Held(c.global) \cup Held(c.custom) \cup UNION {Held(c.byType[x]) : x \in DOMAIN c.byType \cap {t}}

LEMMA ChainCovers ==
  ASSUME NEW c \in Configs, NEW t
  PROVE  DueVerifiers(c, t) \subseteq Held(VerifierChain(c, t))
<1>1. PICK own \in Seq(Verifiers) :
        /\ VerifierChain(c, t) = (c.global \o own) \o c.custom
        /\ t \in DOMAIN c.byType => own = c.byType[t]
  <2>1. (IF t \in DOMAIN c.byType THEN c.byType[t] ELSE <<>>) \in Seq(Verifiers)
    BY ConfigsAssumption
  <2>. QED
    BY <2>1 DEF VerifierChain
<1>2. c.global \in Seq(Verifiers) /\ c.custom \in Seq(Verifiers)
  BY ConfigsAssumption
<1>3. c.global \o own \in Seq(Verifiers)
  BY <1>2
<1>4. Held(VerifierChain(c, t)) = (Held(c.global) \cup Held(own)) \cup Held(c.custom)
  <2>1. Held(c.global \o own) = Held(c.global) \cup Held(own)
    BY <1>2, HeldConcat
  <2>2. Held((c.global \o own) \o c.custom) = Held(c.global \o own) \cup Held(c.custom)
    <3>1. PICK a \in Seq(Verifiers) : a = c.global \o own
      BY <1>3
    <3>2. PICK b \in Seq(Verifiers) : b = c.custom
      BY <1>2
    <3>3. Held(a \o b) = Held(a) \cup Held(b)
      BY HeldConcat
    <3>. QED
      BY <3>1, <3>2, <3>3
  <2>3. Held(VerifierChain(c, t)) = Held(c.global \o own) \cup Held(c.custom)
    BY <1>1, <2>2
  <2>. QED
    BY <2>1, <2>3
<1>. QED
  BY <1>1, <1>4 DEF DueVerifiers

-----------------------------------------------------------------------------
(* The inductive invariant.                                                *)

\* What holds of one request, whatever the others do.
Sound(c, q) ==
  LET chain == VerifierChain(c, q.content.type)
  IN  /\ q \in RequestStates
      /\ Len(q.run) <= Len(chain)
      /\ \A k \in 1..Len(q.run) : q.run[k] = chain[k]
      /\ q.pc \in {"resolving", "verifying"} => q.content.kind = "verify"
      /\ q.pc \in {"idle", "reading", "resolving"} => q.run = <<>> /\ ~ q.pipeline /\ ~ q.timedOut
      /\ q.pc \in {"idle", "reading", "resolving", "verifying"} => q.verdict = "none"
      /\ q.pc = "auditing" => q.verdict \in {"allowed", "denied", "noted"}
      /\ q.pc \in {"answering", "done"} => q.verdict \in Verdicts
      /\ q.verdict # "denied" => \A k \in 1..Len(q.run) : q.run[k] \notin q.content.refused
      /\ q.verdict = "allowed" => Len(q.run) = Len(chain)
      /\ q.verdict = "invalid" => q.run = <<>>
      /\ q.verdict = "panicked" => Len(q.run) < Len(chain) /\ chain[Len(q.run) + 1] \in Fragile
      /\ q.answer \in {"none", "lost", q.verdict} /\ (q.pc # "done" => q.answer = "none")
      /\ q.pc = "reading" => q.wait = 0
      /\ q.pc = "resolving" => q.wait = 0 \/ q.age = WriteTimeout
      /\ q.timedOut => q.answer \in {"none", "lost"}
      /\ q.timedOut /\ q.pc \in {"verifying", "auditing", "answering"} => q.age = WriteTimeout

\* The event of a request that was given a verdict is written, or fails to be, before it is answered.
Logged(log, lost, r, q) ==
  q.pc \in {"answering", "done"} /\ q.verdict \in {"allowed", "denied", "noted"} =>
    r \in lost \/ [request |-> r, verdict |-> q.verdict, run |-> q.run] \in log

\* Ordered, of the state of a request.
PassedOrdering(q) ==
  /\ q.content.kind = "verify" /\ q.pipeline /\ q.content.step \in Asked(plan[q.content.exec])
  /\ \E k \in DOMAIN q.run : q.run[k] = Ordering /\ (q.verdict = "denied" => k < Len(q.run))

Accounted ==
  \A e \in Executions : \A f \in granted[e] :
    \E r \in Requests : PassedOrdering(req[r]) /\ req[r].content.exec = e /\ req[r].content.step = f

Stopped ==
  /\ server \in {"drained", "exited"} => \A r \in Requests : ~ Active(r)
  /\ server = "exited" => open = {}

Inv ==
  /\ TypeOK
  /\ \A r \in Requests : Sound(config, req[r]) /\ Logged(events, unwritten, r, req[r])
  /\ Accounted
  /\ Stopped

\* No step takes back that a request was ordered.
Kept ==
  /\ plan' = plan /\ config' = config
  /\ \A r \in Requests : PassedOrdering(req[r]) => PassedOrdering(req[r])' /\ req'[r].content = req[r].content

\* What one step of a request may do to it and to the rest.
Moves(r, q) ==
  /\ req' = [req EXCEPT ![r] = q]
  /\ Sound(config, q)
  /\ Logged(events', unwritten', r, q)
  /\ PassedOrdering(req[r]) => PassedOrdering(q) /\ q.content = req[r].content

LEMMA FreshSound ==
  ASSUME NEW c \in Configs, NEW d \in Contents, NEW pc \in {"idle", "reading"}
  PROVE  Sound(c, Fresh(pc, d)) /\ \A log, lost, r : Logged(log, lost, r, Fresh(pc, d))
<1>. DEFINE q == Fresh(pc, d)
<1>1. q \in RequestStates
  BY DEF Fresh, RequestStates, WriteTimeout, ResolveTimeout
<1>2. /\ q.pc = pc /\ q.content = d /\ q.age = 0 /\ q.wait = 0 /\ q.pipeline = FALSE /\ q.timedOut = FALSE
      /\ q.run = <<>> /\ q.verdict = "none" /\ q.answer = "none"
  BY DEF Fresh
<1>3. VerifierChain(c, d.type) \in Seq(Verifiers)
  BY ChainTyped
<1>4. Len(q.run) = 0 /\ Len(VerifierChain(c, d.type)) \in Nat
  BY <1>2, <1>3
<1>. HIDE DEF q
<1>5. Sound(c, q)
  BY <1>1, <1>2, <1>4 DEF Sound
<1>6. \A log, lost, r : Logged(log, lost, r, q)
  BY <1>2 DEF Logged
<1>. QED
  BY <1>5, <1>6 DEF q

LEMMA InvInit == Init => Inv
<1>. SUFFICES ASSUME Init PROVE Inv
  OBVIOUS
<1>1. (CHOOSE c \in Contents : TRUE) \in Contents
  BY ContentsAssumption
<1>2. PICK d \in Contents : req = [r \in Requests |-> Fresh("idle", d)]
  BY <1>1 DEF Init
<1>3. \A r \in Requests : Sound(config, req[r]) /\ Logged(events, unwritten, r, req[r])
  BY <1>2, FreshSound DEF Init
<1>4. req \in [Requests -> RequestStates]
  BY <1>2, <1>3 DEF Sound
<1>5. TypeOK
  <2>1. granted \in [Executions -> SUBSET Names] /\ folded \in [Executions -> SUBSET Names]
    BY DEF Init, GrantsInit
  <2>2. plan \in [Executions -> Plans] /\ config \in Configs /\ server = "serving" /\ open = {} /\ unwritten = {}
    BY DEF Init, GrantsInit
  <2>3. drain \in 0..ShutdownTimeout
    BY DEF Init, ShutdownTimeout
  <2>. QED
    BY <1>4, <2>1, <2>2, <2>3 DEF TypeOK
<1>6. Accounted
  BY DEF Accounted, Init, GrantsInit
<1>7. Stopped
  BY DEF Stopped, Init
<1>. QED
  BY <1>3, <1>5, <1>6, <1>7 DEF Inv

-----------------------------------------------------------------------------
(* The steps of one request.                                               *)

\* The lengths and the elements that Sound speaks of are numbers and verifiers.
LEMMA Measured ==
  ASSUME Inv, NEW r \in Requests
  PROVE  /\ req[r] \in RequestStates /\ Sound(config, req[r]) /\ Logged(events, unwritten, r, req[r])
         /\ VerifierChain(config, req[r].content.type) \in Seq(Verifiers)
         /\ req[r].run \in Seq(Verifiers) /\ Len(req[r].run) \in Nat
         /\ Len(VerifierChain(config, req[r].content.type)) \in Nat
<1>1. req[r] \in RequestStates /\ Sound(config, req[r]) /\ Logged(events, unwritten, r, req[r]) /\ config \in Configs
  BY DEF Inv, TypeOK
<1>2. VerifierChain(config, req[r].content.type) \in Seq(Verifiers)
  BY <1>1, ChainTyped
<1>3. req[r].run \in Seq(Verifiers)
  BY <1>1 DEF RequestStates
<1>. QED
  BY <1>1, <1>2, <1>3

LEMMA NoTime == 0 \in 0..ResolveTimeout /\ 0 \in 0..WriteTimeout /\ ResolveTimeout > 0
  BY DEF ResolveTimeout, WriteTimeout

\* What keeps its content, pipeline and run, and is not denied by it, stays as ordered as it was.
LEMMA StaysOrdered ==
  ASSUME NEW p, NEW q, q.content = p.content, q.pipeline = p.pipeline, q.run = p.run,
         q.verdict \in {p.verdict, "allowed", "noted", "invalid", "panicked"}
  PROVE  PassedOrdering(p) => PassedOrdering(q) /\ q.content = p.content
  BY DEF PassedOrdering

LEMMA AcceptMoves ==
  ASSUME Inv, NEW r \in Requests, NEW c \in Contents, Accept(r, c)
  PROVE  \E q : Moves(r, q)
<1>1. config \in Configs
  BY DEF Inv, TypeOK
<1>2. Sound(config, Fresh("reading", c)) /\ Logged(events', unwritten', r, Fresh("reading", c))
  BY <1>1, FreshSound
<1>3. ~ PassedOrdering(req[r])
  BY Measured DEF PassedOrdering, Sound, Accept
<1>4. req' = [req EXCEPT ![r] = Fresh("reading", c)]
  BY DEF Accept
<1>. QED
  BY <1>2, <1>3, <1>4 DEF Moves

LEMMA ParseMoves ==
  ASSUME Inv, NEW r \in Requests, Parse(r)
  PROVE  \E q : Moves(r, q)
<1>1. PICK p \in RequestStates : p = req[r] /\ Sound(config, p) /\ p.pc = "reading"
  BY Measured DEF Parse
<1>2. PICK q : q = IF p.content.kind = "verify" THEN [p EXCEPT !.pc = "resolving"]
                   ELSE [p EXCEPT !.pc = "auditing", !.verdict = "noted"]
  OBVIOUS
<1>3. req' = [req EXCEPT ![r] = q]
  BY <1>1, <1>2 DEF Parse
<1>4. /\ q \in RequestStates
      /\ q.content = p.content /\ q.age = p.age /\ q.wait = p.wait /\ q.pipeline = p.pipeline
      /\ q.timedOut = p.timedOut /\ q.run = p.run /\ q.answer = p.answer
      /\ \/ q.pc = "resolving" /\ q.verdict = p.verdict /\ p.content.kind = "verify"
         \/ q.pc = "auditing" /\ q.verdict = "noted"
  BY <1>2 DEF RequestStates, Verdicts
<1>5. p.wait = 0
  BY <1>1 DEF Sound
<1>6. Sound(config, q) /\ Logged(events', unwritten', r, q)
  BY <1>1, <1>4, <1>5 DEF Sound, Logged
<1>. QED
  BY <1>1, <1>3, <1>4, <1>6, StaysOrdered DEF Moves

LEMMA BadRequestMoves ==
  ASSUME Inv, NEW r \in Requests, BadRequest(r)
  PROVE  \E q : Moves(r, q)
<1>1. PICK p \in RequestStates : p = req[r] /\ Sound(config, p) /\ p.pc = "reading"
  BY Measured DEF BadRequest
<1>2. PICK q : q = [p EXCEPT !.pc = "answering", !.verdict = "invalid"]
  OBVIOUS
<1>3. req' = [req EXCEPT ![r] = q]
  BY <1>1, <1>2 DEF BadRequest
<1>4. /\ q \in RequestStates
      /\ q.content = p.content /\ q.age = p.age /\ q.wait = p.wait /\ q.pipeline = p.pipeline
      /\ q.timedOut = p.timedOut /\ q.run = p.run /\ q.answer = p.answer
      /\ q.pc = "answering" /\ q.verdict = "invalid"
  BY <1>2 DEF RequestStates, Verdicts
<1>5. Sound(config, q) /\ Logged(events', unwritten', r, q)
  BY <1>1, <1>4 DEF Sound, Logged, Verdicts
<1>. QED
  BY <1>1, <1>3, <1>4, <1>5, StaysOrdered DEF Moves

LEMMA ResolveMoves ==
  ASSUME Inv, NEW r \in Requests, ResolvePipeline(r) \/ FailToResolve(r)
  PROVE  \E q : Moves(r, q)
<1>1. PICK p \in RequestStates : p = req[r] /\ Sound(config, p) /\ p.pc = "resolving"
  BY Measured DEF ResolvePipeline, FailToResolve
<1>2. PICK late, q : /\ late \in BOOLEAN /\ (late => p.wait >= ResolveTimeout)
                     /\ req' = [req EXCEPT ![r] = q]
                     /\ \/ q = [p EXCEPT !.pc = "verifying", !.wait = 0, !.pipeline = TRUE]
                        \/ q = [p EXCEPT !.pc = "verifying", !.wait = 0, !.timedOut = late]
  <2>1. CASE p.wait >= ResolveTimeout
    <3>1. (p.wait >= ResolveTimeout) = TRUE
      BY <2>1
    <3>. QED
      BY <1>1, <2>1, <3>1, Zenon DEF ResolvePipeline, FailToResolve
  <2>2. CASE ~ (p.wait >= ResolveTimeout)
    <3>1. (p.wait >= ResolveTimeout) = FALSE
      BY <2>2
    <3>. QED
      BY <1>1, <2>2, <3>1, Zenon DEF ResolvePipeline, FailToResolve
  <2>. QED
    BY <2>1, <2>2
<1>3. /\ q \in RequestStates
      /\ q.content = p.content /\ q.age = p.age /\ q.run = p.run /\ q.answer = p.answer
      /\ q.pc = "verifying" /\ q.wait = 0 /\ q.verdict = p.verdict
      /\ q.timedOut => late \/ p.timedOut
  BY <1>2, NoTime DEF RequestStates
<1>4. q.timedOut => q.age = WriteTimeout
  BY <1>1, <1>2, <1>3 DEF Sound, ResolveTimeout
<1>5. Sound(config, q) /\ Logged(events', unwritten', r, q)
  BY <1>1, <1>3, <1>4 DEF Sound, Logged
<1>6. ~ PassedOrdering(p)
  BY <1>1 DEF Sound, PassedOrdering
<1>. QED
  BY <1>1, <1>2, <1>5, <1>6 DEF Moves

\* The next verifier of the chain joins those that have run.
NextOf(chain, run, v) ==
  Len(run) < Len(chain) /\ v = chain[Len(run) + 1] /\ \A k \in 1..Len(run) : run[k] = chain[k]

Grown(chain, run, v, grown) ==
  /\ grown = Append(run, v) /\ Len(grown) = Len(run) + 1 /\ Len(grown) <= Len(chain)
  /\ grown[Len(run) + 1] = v
  /\ \A k \in 1..Len(run) : grown[k] = run[k]
  /\ \A k \in 1..Len(grown) : grown[k] = chain[k]

LEMMA RunGrows ==
  ASSUME NEW chain \in Seq(Verifiers), NEW run \in Seq(Verifiers), NEW v, NextOf(chain, run, v)
  PROVE  \E grown \in Seq(Verifiers) : Grown(chain, run, v, grown)
<1>1. Len(run) \in Nat /\ Len(chain) \in Nat /\ v \in Verifiers /\ Len(run) < Len(chain) /\ v = chain[Len(run) + 1]
  BY DEF NextOf
<1>2. PICK grown : grown = Append(run, v)
  OBVIOUS
<1>3. grown \in Seq(Verifiers) /\ Len(grown) = Len(run) + 1
  BY <1>1, <1>2
<1>4. grown[Len(run) + 1] = v /\ \A k \in 1..Len(run) : grown[k] = run[k]
  BY <1>1, <1>2
<1>5. \A k \in 1..Len(grown) : grown[k] = chain[k]
  BY <1>1, <1>3, <1>4 DEF NextOf
<1>6. Len(grown) <= Len(chain)
  BY <1>1, <1>3
<1>7. Grown(chain, run, v, grown)
  BY <1>2, <1>3, <1>4, <1>5, <1>6 DEF Grown
<1>. QED
  BY <1>3, <1>7

LEMMA PassesMoves ==
  ASSUME Inv, NEW r \in Requests, NEW v, Due(r, v), v \notin req[r].content.refused, Passes(r, v)
  PROVE  \E q : /\ Moves(r, q) /\ q.content = req[r].content /\ q.pipeline = req[r].pipeline
                /\ q.verdict = "none" /\ v \in Held(q.run)
<1>1. PICK p \in RequestStates : p = req[r] /\ Sound(config, p) /\ p.pc = "verifying"
  BY Measured DEF Due
<1>2. PICK chain \in Seq(Verifiers) : /\ chain = VerifierChain(config, p.content.type)
                                      /\ Len(p.run) < Len(chain) /\ v = chain[Len(p.run) + 1]
  BY <1>1, Measured DEF Due, ChainOf
<1>3. PICK ran \in Seq(Verifiers) : /\ ran = p.run /\ Len(ran) \in Nat /\ \A k \in 1..Len(ran) : ran[k] = chain[k]
                                    /\ Len(ran) < Len(chain) /\ v = chain[Len(ran) + 1]
  BY <1>1, <1>2, Measured DEF Sound
<1>4. PICK run \in Seq(Verifiers) : Grown(chain, ran, v, run)
  <2>1. NextOf(chain, ran, v)
    BY <1>3 DEF NextOf
  <2>. QED
    BY <2>1, RunGrows
<1>5. PICK q : q = [p EXCEPT !.run = run, !.wait = 0]
  OBVIOUS
<1>6. req' = [req EXCEPT ![r] = q]
  BY <1>1, <1>3, <1>4, <1>5 DEF Passes, Grown
<1>7. /\ q \in RequestStates
      /\ q.content = p.content /\ q.age = p.age /\ q.pipeline = p.pipeline /\ q.timedOut = p.timedOut
      /\ q.answer = p.answer /\ q.pc = "verifying" /\ q.verdict = p.verdict /\ q.run = run
  BY <1>1, <1>4, <1>5, NoTime DEF RequestStates
<1>b. p.verdict = "none"
  BY <1>1 DEF Sound
<1>8. \A k \in 1..Len(run) : run[k] \notin p.content.refused
  <2>1. \A k \in 1..Len(ran) : ran[k] \notin p.content.refused
    BY <1>1, <1>3, <1>b DEF Sound
  <2>. QED
    BY <1>1, <1>3, <1>4, <2>1 DEF Due, Grown
<1>c. q.verdict = "none" /\ \A k \in 1..Len(q.run) : q.run[k] \notin q.content.refused
  BY <1>b, <1>7, <1>8
<1>d. Len(q.run) <= Len(chain) /\ \A k \in 1..Len(q.run) : q.run[k] = chain[k]
  BY <1>4, <1>7 DEF Grown
<1>9. Sound(config, q) /\ Logged(events', unwritten', r, q)
  <2>1. Sound(config, q)
    BY <1>1, <1>2, <1>c, <1>d, <1>7 DEF Sound
  <2>. QED
    BY <1>7, <2>1 DEF Logged
<1>10. DOMAIN ran = 1..Len(ran) /\ DOMAIN run = 1..Len(run)
  BY <1>3
<1>11. PassedOrdering(p) => PassedOrdering(q)
  BY <1>3, <1>4, <1>b, <1>7, <1>10 DEF PassedOrdering, Grown
<1>12. Moves(r, q)
  BY <1>1, <1>6, <1>7, <1>9, <1>11 DEF Moves
<1>13. v \in Held(q.run)
  BY <1>3, <1>4, <1>7, <1>10 DEF Grown, Held
<1>. QED
  BY <1>1, <1>b, <1>7, <1>12, <1>13

LEMMA FailsMoves ==
  ASSUME Inv, NEW r \in Requests, NEW v, Due(r, v), Fails(r, v)
  PROVE  \E q : Moves(r, q)
<1>1. PICK p \in RequestStates : p = req[r] /\ Sound(config, p) /\ p.pc = "verifying"
  BY Measured DEF Due
<1>2. PICK chain \in Seq(Verifiers) : /\ chain = VerifierChain(config, p.content.type)
                                      /\ Len(p.run) < Len(chain) /\ v = chain[Len(p.run) + 1]
  BY <1>1, Measured DEF Due, ChainOf
<1>3. PICK ran \in Seq(Verifiers) : /\ ran = p.run /\ Len(ran) \in Nat /\ \A k \in 1..Len(ran) : ran[k] = chain[k]
                                    /\ Len(ran) < Len(chain) /\ v = chain[Len(ran) + 1]
  BY <1>1, <1>2, Measured DEF Sound
<1>4. PICK run \in Seq(Verifiers) : Grown(chain, ran, v, run)
  <2>1. NextOf(chain, ran, v)
    BY <1>3 DEF NextOf
  <2>. QED
    BY <2>1, RunGrows
<1>5. PICK q : q = [p EXCEPT !.run = run, !.wait = 0, !.verdict = "denied", !.pc = "auditing"]
  OBVIOUS
<1>6. req' = [req EXCEPT ![r] = q]
  BY <1>1, <1>3, <1>4, <1>5 DEF Fails, Grown
<1>7. /\ q \in RequestStates
      /\ q.content = p.content /\ q.age = p.age /\ q.pipeline = p.pipeline /\ q.timedOut = p.timedOut
      /\ q.answer = p.answer /\ q.pc = "auditing" /\ q.verdict = "denied" /\ q.run = run /\ q.wait = 0
  BY <1>1, <1>4, <1>5, NoTime DEF RequestStates, Verdicts
<1>8. Sound(config, q) /\ Logged(events', unwritten', r, q)
  <2>1. Len(q.run) <= Len(chain) /\ \A k \in 1..Len(q.run) : q.run[k] = chain[k]
    BY <1>4, <1>7 DEF Grown
  <2>2. Sound(config, q)
    BY <1>1, <1>2, <1>7, <2>1 DEF Sound
  <2>. QED
    BY <1>7, <2>2 DEF Logged
<1>9. DOMAIN ran = 1..Len(ran) /\ DOMAIN run = 1..Len(run)
  BY <1>3
<1>10. PassedOrdering(p) => PassedOrdering(q)
  BY <1>3, <1>4, <1>7, <1>9 DEF PassedOrdering, Grown
<1>. QED
  BY <1>1, <1>6, <1>7, <1>8, <1>10 DEF Moves

LEMMA PanicMoves ==
  ASSUME Inv, NEW r \in Requests, NEW v, Panic(r, v)
  PROVE  \E q : Moves(r, q)
<1>1. PICK p \in RequestStates : /\ p = req[r] /\ Sound(config, p) /\ p.pc = "verifying"
                                 /\ Len(p.run) < Len(VerifierChain(config, p.content.type))
                                 /\ VerifierChain(config, p.content.type)[Len(p.run) + 1] \in Fragile
  BY Measured DEF Panic, Due, ChainOf
<1>2. PICK q : q = [p EXCEPT !.pc = "answering", !.verdict = "panicked"]
  OBVIOUS
<1>3. req' = [req EXCEPT ![r] = q]
  BY <1>1, <1>2 DEF Panic
<1>4. /\ q \in RequestStates
      /\ q.content = p.content /\ q.age = p.age /\ q.wait = p.wait /\ q.pipeline = p.pipeline
      /\ q.timedOut = p.timedOut /\ q.run = p.run /\ q.answer = p.answer
      /\ q.pc = "answering" /\ q.verdict = "panicked"
  BY <1>2 DEF RequestStates, Verdicts
<1>5. Sound(config, q) /\ Logged(events', unwritten', r, q)
  BY <1>1, <1>4 DEF Sound, Logged, Verdicts
<1>. QED
  BY <1>1, <1>3, <1>4, <1>5, StaysOrdered DEF Moves

LEMMA AuthorizeMoves ==
  ASSUME Inv, NEW r \in Requests, Authorize(r)
  PROVE  \E q : Moves(r, q)
<1>1. PICK p \in RequestStates : p = req[r] /\ Sound(config, p) /\ p.pc = "verifying"
  BY Measured DEF Authorize
<1>2. PICK q : q = [p EXCEPT !.pc = "auditing", !.verdict = "allowed"]
  OBVIOUS
<1>3. req' = [req EXCEPT ![r] = q] /\ Len(p.run) = Len(VerifierChain(config, p.content.type))
  BY <1>1, <1>2 DEF Authorize, ChainOf
<1>4. /\ q \in RequestStates
      /\ q.content = p.content /\ q.age = p.age /\ q.wait = p.wait /\ q.pipeline = p.pipeline
      /\ q.timedOut = p.timedOut /\ q.run = p.run /\ q.answer = p.answer
      /\ q.pc = "auditing" /\ q.verdict = "allowed"
  BY <1>2 DEF RequestStates, Verdicts
<1>5. Sound(config, q) /\ Logged(events', unwritten', r, q)
  BY <1>1, <1>3, <1>4 DEF Sound, Logged
<1>. QED
  BY <1>1, <1>3, <1>4, <1>5, StaysOrdered DEF Moves

LEMMA AuditMoves ==
  ASSUME Inv, NEW r \in Requests, Audit(r)
  PROVE  \E q : Moves(r, q)
<1>1. PICK p \in RequestStates : p = req[r] /\ Sound(config, p) /\ p.pc = "auditing"
  BY Measured DEF Audit
<1>2. PICK q : q = [p EXCEPT !.pc = "answering"]
  OBVIOUS
<1>3. /\ req' = [req EXCEPT ![r] = q]
      /\ r \in unwritten' \/ [request |-> r, verdict |-> p.verdict, run |-> p.run] \in events'
  BY <1>1, <1>2 DEF Audit, Event
<1>4. /\ q \in RequestStates
      /\ q.content = p.content /\ q.age = p.age /\ q.wait = p.wait /\ q.pipeline = p.pipeline
      /\ q.timedOut = p.timedOut /\ q.run = p.run /\ q.answer = p.answer
      /\ q.pc = "answering" /\ q.verdict = p.verdict
  BY <1>2 DEF RequestStates
<1>5. Sound(config, q) /\ Logged(events', unwritten', r, q)
  BY <1>1, <1>3, <1>4 DEF Sound, Logged, Verdicts
<1>. QED
  BY <1>1, <1>3, <1>4, <1>5, StaysOrdered DEF Moves

\* What is delivered is younger than the write deadline, so it was not late to resolve.
LEMMA ReplyMoves ==
  ASSUME Inv, NEW r \in Requests, NEW delivered \in BOOLEAN, Reply(r, delivered)
  PROVE  \E q : Moves(r, q)
<1>1. PICK p \in RequestStates : /\ p = req[r] /\ Sound(config, p) /\ Logged(events, unwritten, r, p) /\ p.pc = "answering"
                                 /\ delivered => p.age < WriteTimeout
  BY Measured DEF Reply
<1>2. PICK q : q = [p EXCEPT !.pc = "done", !.age = 0, !.answer = IF delivered THEN p.verdict ELSE "lost"]
  OBVIOUS
<1>3. req' = [req EXCEPT ![r] = q] /\ events' = events /\ unwritten' = unwritten
  BY <1>1, <1>2 DEF Reply, auditVars
<1>4. p.verdict \in Verdicts
  BY <1>1 DEF Sound
<1>5. /\ q \in RequestStates
      /\ q.content = p.content /\ q.age = 0 /\ q.wait = p.wait /\ q.pipeline = p.pipeline
      /\ q.timedOut = p.timedOut /\ q.run = p.run /\ q.verdict = p.verdict
      /\ q.pc = "done" /\ q.answer \in {p.verdict, "lost"} /\ (~ delivered => q.answer = "lost")
  BY <1>2, <1>4, NoTime DEF RequestStates
<1>6. q.timedOut => q.answer = "lost"
  BY <1>1, <1>5 DEF Sound, WriteTimeout
<1>7. Sound(config, q) /\ Logged(events', unwritten', r, q)
  BY <1>1, <1>3, <1>4, <1>5, <1>6 DEF Sound, Logged
<1>. QED
  BY <1>1, <1>3, <1>5, <1>7, StaysOrdered DEF Moves

-----------------------------------------------------------------------------
(* Every step.                                                             *)

\* A step of one request keeps what holds of all of them.
LEMMA MovesKeep ==
  ASSUME Inv, NEW r \in Requests, NEW q, Moves(r, q), config' = config, plan' = plan, events \subseteq events',
         unwritten \subseteq unwritten'
  PROVE  /\ req' \in [Requests -> RequestStates]
         /\ \A x \in Requests : Sound(config, req[x])' /\ Logged(events, unwritten, x, req[x])'
         /\ \A x \in Requests : PassedOrdering(req[x]) => PassedOrdering(req[x])' /\ req'[x].content = req[x].content
<1>1. req' = [req EXCEPT ![r] = q] /\ req \in [Requests -> RequestStates]
  BY DEF Moves, Inv, TypeOK
<1>2. \A x \in Requests : req'[x] = IF x = r THEN q ELSE req[x]
  BY <1>1
<1>3. q \in RequestStates
  BY DEF Moves, Sound
<1>4. req' \in [Requests -> RequestStates]
  BY <1>1, <1>3
<1>5. ASSUME NEW x \in Requests
      PROVE  Sound(config, req[x])' /\ Logged(events, unwritten, x, req[x])'
  <2>1. Sound(config, req'[x])
    BY <1>2 DEF Moves, Inv
  <2>2. Logged(events', unwritten', x, req'[x])
    BY <1>2 DEF Moves, Inv, Logged
  <2>. QED
    BY <2>1, <2>2 DEF Sound, Logged
<1>6. ASSUME NEW x \in Requests, PassedOrdering(req[x])
      PROVE  PassedOrdering(req[x])' /\ req'[x].content = req[x].content
  BY <1>2, <1>6 DEF Moves, PassedOrdering
<1>. QED
  BY <1>4, <1>5, <1>6

\* Such a step preserves the invariant, when what it grants is what its request asked for.
LEMMA MovesInv ==
  ASSUME Inv, NEW r \in Requests, NEW q, Moves(r, q), UNCHANGED <<plan, serverVars>>, events \subseteq events',
         unwritten \subseteq unwritten', unwritten' \subseteq Requests, open' \subseteq {"verify", "output"}, server \notin {"drained", "exited"},
         granted' \in [Executions -> SUBSET Names], folded' \in [Executions -> SUBSET Names],
         \A e \in Executions : \A f \in granted'[e] :
           \/ f \in granted[e]
           \/ PassedOrdering(req[r])' /\ req'[r].content.exec = e /\ req'[r].content.step = f
  PROVE  Inv' /\ Kept
<1>1. /\ req' \in [Requests -> RequestStates]
      /\ \A x \in Requests : Sound(config, req[x])' /\ Logged(events, unwritten, x, req[x])'
      /\ \A x \in Requests : PassedOrdering(req[x]) => PassedOrdering(req[x])' /\ req'[x].content = req[x].content
  BY MovesKeep DEF serverVars
<1>2. TypeOK'
  <2>1. plan' = plan /\ config' = config /\ server' = server /\ drain' = drain
    BY DEF serverVars
  <2>. QED
    BY <1>1, <2>1 DEF Inv, TypeOK
<1>3. Accounted'
  <2>. SUFFICES ASSUME NEW e \in Executions, NEW f \in granted'[e]
                PROVE  \E x \in Requests : PassedOrdering(req[x])' /\ req'[x].content.exec = e /\ req'[x].content.step = f
    BY DEF Accounted
  <2>1. CASE f \in granted[e]
    <3>1. PICK x \in Requests : PassedOrdering(req[x]) /\ req[x].content.exec = e /\ req[x].content.step = f
      BY <2>1 DEF Inv, Accounted
    <3>. QED
      BY <1>1, <3>1
  <2>2. CASE f \notin granted[e]
    BY <2>2
  <2>. QED
    BY <2>1, <2>2
<1>4. Stopped'
  BY DEF Stopped, serverVars
<1>5. Kept
  BY <1>1 DEF Kept, serverVars
<1>. QED
  BY <1>1, <1>2, <1>3, <1>4, <1>5 DEF Inv

LEMMA ActiveInv ==
  ASSUME Inv, NEW r \in Requests, Active(r)
  PROVE  server \notin {"drained", "exited"}
  BY DEF Inv, Stopped

\* Nothing but the locals of the request changes.
LEMMA LocalInv ==
  ASSUME Inv, NEW r \in Requests, Active(r) \/ server = "serving", \E q : Moves(r, q),
         UNCHANGED <<grantVars, serverVars, auditVars>>
  PROVE  Inv' /\ Kept
<1>1. /\ UNCHANGED <<plan, serverVars>> /\ events' = events /\ unwritten' = unwritten /\ open' = open
      /\ granted' = granted /\ folded' = folded
  BY DEF grantVars, auditVars
<1>2. open' \subseteq {"verify", "output"} /\ unwritten' \subseteq Requests /\ granted' \in [Executions -> SUBSET Names] /\ folded' \in [Executions -> SUBSET Names]
  BY <1>1 DEF Inv, TypeOK
<1>3. server \notin {"drained", "exited"}
  BY ActiveInv
<1>. QED
  BY <1>1, <1>2, <1>3, MovesInv

LEMMA OrderStepInv ==
  ASSUME Inv, NEW r \in Requests, NEW v \in Versions(plan[req[r].content.exec]),
         NEW own \in StatusMaps, NEW walk \in StatusMaps, OrderStep(r, v, own, walk)
  PROVE  Inv' /\ Kept
<1>1. PICK c : c = req[r].content
  OBVIOUS
<1>2. PICK gate : gate = GateOf(v, c.step, own, walk)
  OBVIOUS
<1>3. Due(r, Ordering) /\ req[r].pipeline /\ c.step \in Asked(plan[c.exec]) /\ UNCHANGED <<serverVars, auditVars>>
  BY <1>1 DEF OrderStep
<1>4. \/ Grant(c.exec, v, c.step, own, walk) /\ Passes(r, Ordering)
      \/ UNCHANGED grantVars /\ (Passes(r, Ordering) \/ Fails(r, Ordering))
  BY <1>1 DEF OrderStep
<1>5. c \in Contents /\ c.exec \in Executions /\ plan[c.exec] \in Plans /\ Active(r)
  BY <1>1, <1>3, Measured, ContentsAssumption DEF RequestStates, Inv, TypeOK, Due, Active
<1>6. Ordering \notin c.refused
  BY <1>5, ContentsAssumption, VerifiersAssumption
<1>7. CASE UNCHANGED grantVars /\ (Passes(r, Ordering) \/ Fails(r, Ordering))
  <2>1. \E q : Moves(r, q)
    BY <1>1, <1>3, <1>6, <1>7, PassesMoves, FailsMoves
  <2>. QED
    BY <1>3, <1>5, <1>7, <2>1, LocalInv
<1>8. CASE Grant(c.exec, v, c.step, own, walk) /\ Passes(r, Ordering)
  <2>1. PICK q : /\ Moves(r, q) /\ q.content = c /\ q.pipeline = req[r].pipeline
                 /\ q.verdict = "none" /\ Ordering \in Held(q.run)
    BY <1>1, <1>3, <1>6, <1>8, PassesMoves
  <2>2. /\ granted' = [granted EXCEPT ![c.exec] = @ \cup {c.step}]
        /\ folded' = [folded EXCEPT ![c.exec] = @ \cup {gate.fqn}] /\ plan' = plan
    BY <1>2, <1>8 DEF Grant
  <2>3. c.step \in Names /\ gate \in Gates(Names)
    BY <1>1, <1>2, <1>3, <1>5, AskedAssumption, GateAssumption
  <2>4. gate.fqn \in Names
    BY <2>3 DEF Gates
  <2>5. granted' \in [Executions -> SUBSET Names] /\ folded' \in [Executions -> SUBSET Names]
    BY <2>2, <2>3, <2>4 DEF Inv, TypeOK
  <2>6. req'[r] = q
    BY <2>1 DEF Moves, Inv, TypeOK
  <2>7. PassedOrdering(req[r])'
    <3>1. c.kind = "verify"
      BY <1>1, <1>3, Measured DEF Sound, Due
    <3>. QED
      BY <1>3, <2>1, <2>2, <2>6, <3>1 DEF PassedOrdering, Held
  <2>8. \A e \in Executions : \A f \in granted'[e] :
          \/ f \in granted[e]
          \/ PassedOrdering(req[r])' /\ req'[r].content.exec = e /\ req'[r].content.step = f
    BY <1>5, <2>1, <2>2, <2>6, <2>7 DEF Inv, TypeOK
  <2>9. /\ UNCHANGED <<plan, serverVars>> /\ events' = events /\ unwritten' = unwritten
        /\ open' \subseteq {"verify", "output"} /\ unwritten' \subseteq Requests
    BY <1>3, <2>2 DEF auditVars, Inv, TypeOK
  <2>10. server \notin {"drained", "exited"}
    BY <1>5, ActiveInv
  <2>. QED
    BY <2>1, <2>5, <2>8, <2>9, <2>10, MovesInv
<1>. QED
  BY <1>4, <1>7, <1>8

LEMMA AuditInv ==
  ASSUME Inv, NEW r \in Requests, Audit(r)
  PROVE  Inv' /\ Kept
<1>1. req[r].content.kind \in {"verify", "output"}
  BY Measured, ContentsAssumption DEF RequestStates
<1>2. /\ UNCHANGED <<plan, serverVars>> /\ granted' = granted /\ folded' = folded
      /\ events \subseteq events' /\ unwritten \subseteq unwritten' /\ unwritten' \subseteq Requests
      /\ open' \subseteq {"verify", "output"}
  BY <1>1 DEF Audit, grantVars, Inv, TypeOK
<1>3. granted' \in [Executions -> SUBSET Names] /\ folded' \in [Executions -> SUBSET Names]
  BY <1>2 DEF Inv, TypeOK
<1>4. server \notin {"drained", "exited"}
  BY ActiveInv DEF Audit, Active
<1>. QED
  BY <1>2, <1>3, <1>4, AuditMoves, MovesInv

LEMMA ServeInv ==
  ASSUME Inv, NEW r \in Requests, Serve(r)
  PROVE  Inv' /\ Kept
<1>1. CASE Parse(r)
  BY <1>1, ParseMoves, LocalInv DEF Parse, Active
<1>2. CASE BadRequest(r)
  BY <1>2, BadRequestMoves, LocalInv DEF BadRequest, Active
<1>3. CASE ResolvePipeline(r) \/ FailToResolve(r)
  BY <1>3, ResolveMoves, LocalInv DEF ResolvePipeline, FailToResolve, Active
<1>4. ASSUME NEW v \in Webhooks, NEW outcome \in HookOutcomes, CallWebhook(r, v, outcome)
      PROVE  Inv' /\ Kept
  <2>1. req[r].content \in Contents /\ v \notin req[r].content.refused
    BY Measured, ContentsAssumption, VerifiersAssumption DEF RequestStates
  <2>2. Due(r, v) /\ (Passes(r, v) \/ Fails(r, v)) /\ UNCHANGED <<grantVars, serverVars, auditVars>>
    BY <1>4 DEF CallWebhook
  <2>3. \E q : Moves(r, q)
    BY <2>1, <2>2, PassesMoves, FailsMoves
  <2>. QED
    BY <2>2, <2>3, LocalInv DEF Due, Active
<1>5. CASE PassUnordered(r)
  <2>1. req[r].content \in Contents /\ Ordering \notin req[r].content.refused
    BY Measured, ContentsAssumption, VerifiersAssumption DEF RequestStates
  <2>2. Due(r, Ordering) /\ Passes(r, Ordering) /\ UNCHANGED <<grantVars, serverVars, auditVars>>
    BY <1>5 DEF PassUnordered
  <2>3. \E q : Moves(r, q)
    BY <2>1, <2>2, PassesMoves
  <2>. QED
    BY <2>2, <2>3, LocalInv DEF Due, Active
<1>6. ASSUME NEW v \in Policies, CheckPolicy(r, v)
      PROVE  Inv' /\ Kept
  <2>1. Due(r, v) /\ UNCHANGED <<grantVars, serverVars, auditVars>>
    BY <1>6 DEF CheckPolicy
  <2>2. \/ v \notin req[r].content.refused /\ Passes(r, v)
        \/ Fails(r, v)
    BY <1>6 DEF CheckPolicy
  <2>3. \E q : Moves(r, q)
    BY <2>1, <2>2, PassesMoves, FailsMoves
  <2>. QED
    BY <2>1, <2>3, LocalInv DEF Due, Active
<1>7. CASE Authorize(r)
  BY <1>7, AuthorizeMoves, LocalInv DEF Authorize, Active
<1>8. ASSUME NEW delivered \in BOOLEAN, Reply(r, delivered)
      PROVE  Inv' /\ Kept
  BY <1>8, ReplyMoves, LocalInv DEF Reply, Active
<1>9. ASSUME NEW v \in Fragile, Panic(r, v)
      PROVE  Inv' /\ Kept
  BY <1>9, PanicMoves, LocalInv DEF Panic, Due, Active
<1>. QED
  <2>1. CASE Wait(r)
    BY <1>1, <1>2, <1>3, <1>4, <2>1 DEF Wait
  <2>2. CASE Verify(r)
    BY <1>5, <1>6, <1>7, <2>2, OrderStepInv DEF Verify
  <2>3. CASE Finish(r)
    BY <1>8, <2>3, AuditInv DEF Finish
  <2>. QED
    BY <1>9, <2>1, <2>2, <2>3 DEF Serve

\* A step that leaves the requests, or what holds of them, and grants nothing.
LEMMA AllKeep ==
  ASSUME Inv, req' \in [Requests -> RequestStates], config' = config, plan' = plan, events' = events,
         unwritten' = unwritten,
         granted' = granted \/ granted' = [e \in Executions |-> {}],
         \A r \in Requests :
           /\ Sound(config, req'[r]) /\ Logged(events, unwritten, r, req'[r])
           /\ PassedOrdering(req[r]) => PassedOrdering(req[r])' /\ req'[r].content = req[r].content
  PROVE  Accounted' /\ \A r \in Requests : Sound(config, req[r])' /\ Logged(events, unwritten, r, req[r])'
<1>1. ASSUME NEW r \in Requests PROVE Sound(config, req[r])' /\ Logged(events, unwritten, r, req[r])'
  <2>1. Sound(config, req'[r]) /\ Logged(events, unwritten, r, req'[r])
    OBVIOUS
  <2>2. Sound(config, req[r])'
    BY <2>1 DEF Sound
  <2>3. Logged(events, unwritten, r, req[r])'
    BY <2>1 DEF Logged
  <2>. QED
    BY <2>2, <2>3
<1>2. Accounted'
  <2>. SUFFICES ASSUME NEW e \in Executions, NEW f \in granted'[e]
                PROVE  \E x \in Requests : PassedOrdering(req[x])' /\ req'[x].content.exec = e /\ req'[x].content.step = f
    BY DEF Accounted
  <2>1. f \in granted[e]
    OBVIOUS
  <2>2. PICK x \in Requests : PassedOrdering(req[x]) /\ req[x].content.exec = e /\ req[x].content.step = f
    BY <2>1 DEF Inv, Accounted
  <2>. QED
    BY <2>2
<1>. QED
  BY <1>1, <1>2

LEMMA TickSound ==
  ASSUME Inv, NEW r \in Requests, Active(r), ~ Expired(r), NEW q,
         q = [req[r] EXCEPT !.age = Older(r), !.wait = IF Waits(r) THEN req[r].wait + 1 ELSE @]
  PROVE  /\ Sound(config, q) /\ Logged(events, unwritten, r, q)
         /\ q.content = req[r].content /\ (PassedOrdering(req[r]) => PassedOrdering(q))
<1>1. PICK p \in RequestStates : p = req[r] /\ Sound(config, p) /\ Logged(events, unwritten, r, p)
  BY Measured
<1>2. p.age \in 0..WriteTimeout /\ p.wait \in 0..ResolveTimeout
  BY DEF RequestStates
<1>3. Older(r) = WriteTimeout
  BY <1>1, <1>2 DEF Older, WriteTimeout
<1>4. Waits(r) => p.wait + 1 \in 0..ResolveTimeout
  BY <1>1, <1>2 DEF Waits, Expired, Due, ResolveTimeout, HookTimeout
<1>5. PICK w \in 0..ResolveTimeout : w = IF Waits(r) THEN p.wait + 1 ELSE p.wait
  BY <1>2, <1>4
<1>6. q = [p EXCEPT !.age = WriteTimeout, !.wait = w]
  BY <1>1, <1>3, <1>5
<1>7. WriteTimeout \in 0..WriteTimeout
  BY DEF WriteTimeout
<1>8. /\ q \in RequestStates
      /\ q.content = p.content /\ q.age = WriteTimeout /\ q.wait = w /\ q.pipeline = p.pipeline /\ q.pc = p.pc
      /\ q.timedOut = p.timedOut /\ q.run = p.run /\ q.answer = p.answer /\ q.verdict = p.verdict
  BY <1>6, <1>7 DEF RequestStates
<1>9. p.pc = "reading" => w = 0
  BY <1>1, <1>5 DEF Sound, Waits, Due
<1>10. Sound(config, q) /\ Logged(events, unwritten, r, q)
  BY <1>1, <1>8, <1>9 DEF Sound, Logged
<1>11. q.content = p.content /\ (PassedOrdering(p) => PassedOrdering(q))
  BY <1>8 DEF PassedOrdering
<1>. QED
  BY <1>1, <1>10, <1>11, Zenon

LEMMA TickInv == Inv /\ Tick => Inv' /\ Kept
<1>. SUFFICES ASSUME Inv, Tick PROVE Inv' /\ Kept
  OBVIOUS
<1>1. \A r \in Requests :
        req'[r] = IF ~ Active(r) THEN req[r]
                  ELSE [req[r] EXCEPT !.age = Older(r), !.wait = IF Waits(r) THEN req[r].wait + 1 ELSE @]
  BY DEF Tick
<1>2. UNCHANGED <<grantVars, config, server, auditVars>> /\ \A r \in Requests : ~ Expired(r)
  BY DEF Tick
<1>3. plan' = plan /\ granted' = granted /\ folded' = folded /\ events' = events /\ unwritten' = unwritten
      /\ open' = open
  BY <1>2 DEF grantVars, auditVars
<1>4. ASSUME NEW r \in Requests
      PROVE  /\ Sound(config, req'[r]) /\ Logged(events, unwritten, r, req'[r])
             /\ PassedOrdering(req[r]) => PassedOrdering(req[r])' /\ req'[r].content = req[r].content
  <2>1. CASE ~ Active(r)
    BY <1>1, <1>3, <2>1 DEF Inv, PassedOrdering
  <2>2. CASE Active(r)
    BY <1>1, <1>2, <1>3, <2>2, TickSound DEF PassedOrdering
  <2>. QED
    BY <2>1, <2>2
<1>5. req' \in [Requests -> RequestStates]
  <2>1. req' = [r \in Requests |-> req'[r]]
    BY DEF Tick
  <2>2. \A r \in Requests : req'[r] \in RequestStates
    BY <1>4 DEF Sound
  <2>. QED
    BY <2>1, <2>2
<1>6. Accounted' /\ \A r \in Requests : Sound(config, req[r])' /\ Logged(events, unwritten, r, req[r])'
  BY <1>2, <1>3, <1>4, <1>5, AllKeep
<1>7. drain' \in 0..ShutdownTimeout
  <2>1. drain \in 0..ShutdownTimeout /\ ShutdownTimeout \in Nat
    BY DEF Inv, TypeOK, ShutdownTimeout
  <2>2. drain' = drain \/ (drain < ShutdownTimeout /\ drain' = drain + 1)
    BY DEF Tick
  <2>. QED
    BY <2>1, <2>2
<1>8. TypeOK'
  BY <1>2, <1>3, <1>5, <1>7 DEF Inv, TypeOK
<1>9. Stopped'
  BY <1>2, ActiveInv DEF Tick, Stopped
<1>10. Kept
  BY <1>2, <1>3, <1>4 DEF Kept
<1>. QED
  BY <1>6, <1>8, <1>9, <1>10 DEF Inv

\* A killed request keeps what it had; it is answered no more.
LEMMA StopInv == Inv /\ Stop => Inv' /\ Kept
<1>. SUFFICES ASSUME Inv, Stop PROVE Inv' /\ Kept
  OBVIOUS
<1>1. /\ server' = "killed" /\ open' = {} /\ plan' = plan /\ granted' = granted /\ folded' = folded
      /\ config' = config /\ drain' = 0 /\ events' = events /\ unwritten' = unwritten
      /\ req' = [r \in Requests |-> IF Active(r) THEN [req[r] EXCEPT !.pc = "killed", !.age = 0, !.wait = 0] ELSE req[r]]
  BY DEF Stop, grantVars
<1>2. ASSUME NEW r \in Requests
      PROVE  /\ Sound(config, req'[r]) /\ Logged(events, unwritten, r, req'[r])
             /\ PassedOrdering(req[r]) => PassedOrdering(req[r])' /\ req'[r].content = req[r].content
  <2>1. PICK p \in RequestStates : p = req[r] /\ Sound(config, p) /\ Logged(events, unwritten, r, p)
    BY Measured
  <2>2. CASE ~ Active(r)
    BY <1>1, <2>1, <2>2 DEF PassedOrdering
  <2>3. CASE Active(r)
    <3>1. PICK q : q = [p EXCEPT !.pc = "killed", !.age = 0, !.wait = 0]
      OBVIOUS
    <3>2. req'[r] = q
      BY <1>1, <2>1, <2>3, <3>1
    <3>3. /\ q \in RequestStates
          /\ q.content = p.content /\ q.pipeline = p.pipeline /\ q.pc = "killed"
          /\ q.timedOut = p.timedOut /\ q.run = p.run /\ q.answer = p.answer /\ q.verdict = p.verdict
      BY <3>1, NoTime DEF RequestStates
    <3>4. p.answer = "none"
      BY <2>1, <2>3 DEF Sound, Active
    <3>5. Sound(config, q) /\ Logged(events, unwritten, r, q)
      BY <2>1, <3>3, <3>4 DEF Sound, Logged
    <3>6. PassedOrdering(p) => PassedOrdering(q)
      BY <3>3 DEF PassedOrdering
    <3>7. PassedOrdering(q) => PassedOrdering(req[r])'
      BY <1>1, <3>2 DEF PassedOrdering
    <3>. QED
      BY <2>1, <3>2, <3>3, <3>5, <3>6, <3>7
  <2>. QED
    BY <2>2, <2>3
<1>3. req' \in [Requests -> RequestStates]
  <2>1. \A r \in Requests : req'[r] \in RequestStates
    BY <1>2 DEF Sound
  <2>2. req' = [r \in Requests |-> req'[r]]
    BY <1>1
  <2>. QED
    BY <2>1, <2>2
<1>4. Accounted' /\ \A r \in Requests : Sound(config, req[r])' /\ Logged(events, unwritten, r, req[r])'
  BY <1>1, <1>2, <1>3, AllKeep
<1>5. TypeOK'
  <2>1. drain' \in 0..ShutdownTimeout
    <3>1. drain' = 0
      BY <1>1
    <3>. QED
      BY <3>1 DEF ShutdownTimeout
  <2>. QED
    BY <1>1, <1>3, <2>1 DEF Inv, TypeOK
<1>6. Stopped'
  BY <1>1 DEF Stopped
<1>7. Kept
  BY <1>1, <1>2 DEF Kept
<1>. QED
  BY <1>4, <1>5, <1>6, <1>7 DEF Inv

\* The steps of the process that leave the requests alone.
LEMMA ServerInv ==
  ASSUME Inv, Signal \/ Drained \/ CloseAudit \/ Restart
  PROVE  Inv' /\ Kept
<1>1. UNCHANGED <<plan, config, req, events, unwritten>>
  BY DEF Signal, Drained, CloseAudit, Restart, Forget, grantVars, auditVars
<1>2. /\ granted' = granted \/ granted' = [e \in Executions |-> {}]
      /\ folded' = folded \/ folded' = [e \in Executions |-> {}]
  BY DEF Signal, Drained, CloseAudit, Restart, Forget, grantVars
<1>3. \A r \in Requests :
        /\ Sound(config, req'[r]) /\ Logged(events, unwritten, r, req'[r])
        /\ PassedOrdering(req[r]) => PassedOrdering(req[r])' /\ req'[r].content = req[r].content
  BY <1>1 DEF Inv, PassedOrdering
<1>4. req' \in [Requests -> RequestStates]
  BY <1>1 DEF Inv, TypeOK
<1>5. Accounted' /\ \A r \in Requests : Sound(config, req[r])' /\ Logged(events, unwritten, r, req[r])'
  BY <1>1, <1>2, <1>3, <1>4, AllKeep
<1>6. granted' \in [Executions -> SUBSET Names] /\ folded' \in [Executions -> SUBSET Names]
  BY <1>2 DEF Inv, TypeOK
<1>7. /\ server' \in {"serving", "draining", "drained", "exited", "killed"}
      /\ open' \subseteq {"verify", "output"}
  BY DEF Signal, Drained, CloseAudit, Restart, auditVars, Inv, TypeOK
<1>8. drain' = drain \/ drain' = 0
  BY DEF Signal, Drained, CloseAudit, Restart
<1>9. drain' \in 0..ShutdownTimeout
  BY <1>8 DEF Inv, TypeOK, ShutdownTimeout
<1>10. TypeOK'
  BY <1>1, <1>4, <1>6, <1>7, <1>9 DEF Inv, TypeOK
<1>11. Stopped'
  BY <1>1 DEF Signal, Drained, CloseAudit, Restart, Inv, Stopped, Active
<1>12. Kept
  BY <1>1, <1>3 DEF Kept
<1>. QED
  BY <1>5, <1>10, <1>11, <1>12 DEF Inv

LEMMA InvNext == Inv /\ [Next]_vars => Inv' /\ Kept
<1>. SUFFICES ASSUME Inv, [Next]_vars PROVE Inv' /\ Kept
  OBVIOUS
<1>1. ASSUME NEW r \in Requests, NEW c \in Contents, Accept(r, c)
      PROVE  Inv' /\ Kept
  BY <1>1, AcceptMoves, LocalInv DEF Accept
<1>2. CASE Tick
  BY <1>2, TickInv
<1>3. CASE Signal \/ Drained \/ CloseAudit \/ Restart
  BY <1>3, ServerInv
<1>4. CASE DrainTimeout \/ Die
  BY <1>4, StopInv DEF DrainTimeout, Die
<1>5. CASE UNCHANGED vars
  BY <1>5 DEF vars, grantVars, serverVars, auditVars, Inv, TypeOK, Sound, Logged, Accounted, PassedOrdering, Stopped, Active, Kept
<1>. QED
  BY <1>1, <1>2, <1>3, <1>4, <1>5, ServeInv DEF Next, Exit

-----------------------------------------------------------------------------
(* What the order of the tasks rests on.                                   *)

\* What has passed in e: what was asked for and ordered, and what it folds to.
Passed(e) ==
  LET asked == {req[r].content.step : r \in {x \in Requests : PassedOrdering(req[x]) /\ req[x].content.exec = e}}
  IN  asked \cup {GateOf(v, f, own, walk).fqn : v \in Versions(plan[e]), f \in asked, own, walk \in StatusMaps}

\* Every logical name that is recorded comes from a name that was asked for.
FoldedFrom ==
  \A e \in Executions : \A h \in folded[e] :
    \E f \in granted[e], v \in Versions(plan[e]), own, walk \in StatusMaps : h = GateOf(v, f, own, walk).fqn

\* The step of r had its gate satisfied by what has passed, or has no node.
Behind(r) ==
  LET c == req[r].content
  IN  \E v \in Versions(plan[c.exec]) : \E own, walk \in StatusMaps :
        LET gate == GateOf(v, c.step, own, walk)
        IN  gate.outcome = "notFound" \/ Justified(gate, gate.needs \cap Passed(c.exec), {})

OrderInv ==
  /\ Inv
  /\ FoldedFrom
  /\ config.enforcing => \A r \in Requests : PassedOrdering(req[r]) => Behind(r)

\* With what it ran and asked for as before, a request is ordered only if it was.
LEMMA StaysUnordered ==
  ASSUME NEW p, NEW q, q.content = p.content, q.pipeline = p.pipeline, q.run = p.run,
         p.verdict \in {"none", q.verdict}
  PROVE  PassedOrdering(q) => PassedOrdering(p)
  BY DEF PassedOrdering

\* The request that moves runs nothing in this step.
Idles(r) ==
  \E q : /\ req' = [req EXCEPT ![r] = q]
         /\ \/ q.run = <<>>
            \/ /\ q.content = req[r].content /\ q.pipeline = req[r].pipeline /\ q.run = req[r].run
               /\ req[r].verdict \in {"none", q.verdict}

LEMMA StepsIdle ==
  ASSUME Inv, NEW r \in Requests,
         \/ \E c \in Contents : Accept(r, c)
         \/ Parse(r) \/ BadRequest(r) \/ ResolvePipeline(r) \/ FailToResolve(r) \/ Authorize(r) \/ Finish(r)
         \/ \E v \in Fragile : Panic(r, v)
  PROVE  Idles(r)
<1>1. PICK p \in RequestStates : p = req[r] /\ Sound(config, p)
  BY Measured
<1>2. p.pc \in {"idle", "reading", "resolving"} => p.run = <<>>
  BY <1>1 DEF Sound
<1>3. p.pc \in {"reading", "resolving", "verifying"} => p.verdict = "none"
  BY <1>1 DEF Sound
<1>4. CASE \E c \in Contents : Accept(r, c)
  BY <1>4 DEF Accept, Fresh, Idles
<1>5. CASE Parse(r)
  <2>1. PICK q : /\ req' = [req EXCEPT ![r] = q]
                 /\ q = IF p.content.kind = "verify" THEN [p EXCEPT !.pc = "resolving"]
                        ELSE [p EXCEPT !.pc = "auditing", !.verdict = "noted"]
    BY <1>1, <1>5 DEF Parse
  <2>2. q.run = p.run
    BY <1>1, <2>1 DEF RequestStates
  <2>. QED
    BY <1>1, <1>2, <1>5, <2>1, <2>2 DEF Parse, Idles
<1>6. CASE BadRequest(r)
  <2>1. PICK q : req' = [req EXCEPT ![r] = q] /\ q = [p EXCEPT !.pc = "answering", !.verdict = "invalid"]
    BY <1>1, <1>6 DEF BadRequest
  <2>2. q.run = p.run
    BY <2>1 DEF RequestStates
  <2>. QED
    BY <1>1, <1>2, <1>6, <2>1, <2>2 DEF BadRequest, Idles
<1>7. CASE ResolvePipeline(r)
  <2>1. PICK q : req' = [req EXCEPT ![r] = q] /\ q = [p EXCEPT !.pc = "verifying", !.wait = 0, !.pipeline = TRUE]
    BY <1>1, <1>7 DEF ResolvePipeline
  <2>2. q.run = p.run
    BY <2>1 DEF RequestStates
  <2>. QED
    BY <1>1, <1>2, <1>7, <2>1, <2>2 DEF ResolvePipeline, Idles
<1>8. CASE FailToResolve(r)
  <2>1. PICK late, q : req' = [req EXCEPT ![r] = q] /\ q = [p EXCEPT !.pc = "verifying", !.wait = 0, !.timedOut = late]
    BY <1>1, <1>8, Zenon DEF FailToResolve
  <2>2. q.run = p.run
    BY <2>1 DEF RequestStates
  <2>. QED
    BY <1>1, <1>2, <1>8, <2>1, <2>2 DEF FailToResolve, Idles
<1>9. CASE Authorize(r)
  <2>1. PICK q : req' = [req EXCEPT ![r] = q] /\ q = [p EXCEPT !.pc = "auditing", !.verdict = "allowed"]
    BY <1>1, <1>9 DEF Authorize
  <2>2. q.content = p.content /\ q.pipeline = p.pipeline /\ q.run = p.run
    BY <2>1 DEF RequestStates
  <2>3. p.pc = "verifying"
    BY <1>1, <1>9 DEF Authorize
  <2>. QED
    BY <1>1, <1>3, <2>1, <2>2, <2>3 DEF Idles
<1>10. CASE Audit(r)
  <2>1. PICK q : req' = [req EXCEPT ![r] = q] /\ q = [p EXCEPT !.pc = "answering"]
    BY <1>1, <1>10 DEF Audit
  <2>2. q.content = p.content /\ q.pipeline = p.pipeline /\ q.run = p.run /\ q.verdict = p.verdict
    BY <2>1 DEF RequestStates
  <2>. QED
    BY <1>1, <2>1, <2>2 DEF Idles
<1>11. ASSUME NEW delivered \in BOOLEAN, Reply(r, delivered)
       PROVE  Idles(r)
  <2>1. PICK a, q : req' = [req EXCEPT ![r] = q] /\ q = [p EXCEPT !.pc = "done", !.age = 0, !.answer = a]
    BY <1>1, <1>11, Zenon DEF Reply
  <2>2. q.content = p.content /\ q.pipeline = p.pipeline /\ q.run = p.run /\ q.verdict = p.verdict
    BY <2>1 DEF RequestStates
  <2>. QED
    BY <1>1, <2>1, <2>2 DEF Idles
<1>12. ASSUME NEW v \in Fragile, Panic(r, v)
       PROVE  Idles(r)
  <2>1. PICK q : req' = [req EXCEPT ![r] = q] /\ q = [p EXCEPT !.pc = "answering", !.verdict = "panicked"]
    BY <1>1, <1>12 DEF Panic
  <2>2. q.content = p.content /\ q.pipeline = p.pipeline /\ q.run = p.run
    BY <2>1 DEF RequestStates
  <2>3. p.pc = "verifying"
    BY <1>1, <1>12 DEF Panic, Due
  <2>. QED
    BY <1>1, <1>3, <2>1, <2>2, <2>3 DEF Idles
<1>. QED
  BY <1>4, <1>5, <1>6, <1>7, <1>8, <1>9, <1>10, <1>11, <1>12 DEF Finish

\* Only the ordering verifier makes a request an ordered one, and only by passing it.
LEMMA RunsOrdering ==
  ASSUME Inv, NEW r \in Requests, NEW v, Due(r, v), Passes(r, v) \/ Fails(r, v), plan' = plan,
         ~ PassedOrdering(req[r]), PassedOrdering(req[r])'
  PROVE  v = Ordering /\ Passes(r, v) /\ req[r].pipeline /\ req[r].content.step \in Asked(plan[req[r].content.exec])
<1>1. PICK p \in RequestStates : p = req[r] /\ p.verdict = "none" /\ p.run \in Seq(Verifiers) /\ p.content.kind = "verify"
  BY Measured DEF Due, Sound
<1>2. PICK run : run = Append(p.run, v)
  OBVIOUS
<1>3. PICK q : /\ req'[r] = q /\ q.run = run /\ q.content = p.content /\ q.pipeline = p.pipeline
               /\ \/ q.verdict = "none" /\ Passes(r, v)
                  \/ q.verdict = "denied"
  <2>1. req \in [Requests -> RequestStates]
    BY DEF Inv, TypeOK
  <2>2. CASE Passes(r, v)
    <3>1. PICK q : q = [p EXCEPT !.run = run, !.wait = 0]
      OBVIOUS
    <3>2. req'[r] = q
      BY <1>1, <1>2, <2>1, <2>2, <3>1 DEF Passes
    <3>3. q.run = run /\ q.content = p.content /\ q.pipeline = p.pipeline /\ q.verdict = p.verdict
      BY <3>1 DEF RequestStates
    <3>. QED
      BY <1>1, <2>2, <3>2, <3>3
  <2>3. CASE Fails(r, v)
    <3>1. PICK q : q = [p EXCEPT !.run = run, !.wait = 0, !.verdict = "denied", !.pc = "auditing"]
      OBVIOUS
    <3>2. req'[r] = q
      BY <1>1, <1>2, <2>1, <2>3, <3>1 DEF Fails
    <3>3. q.run = run /\ q.content = p.content /\ q.pipeline = p.pipeline /\ q.verdict = "denied"
      BY <3>1 DEF RequestStates
    <3>. QED
      BY <3>2, <3>3
  <2>. QED
    BY <2>2, <2>3
<1>4. PassedOrdering(q)
  BY <1>3 DEF PassedOrdering
<1>5. PICK k \in DOMAIN run : run[k] = Ordering /\ (q.verdict = "denied" => k < Len(run))
  BY <1>3, <1>4 DEF PassedOrdering
<1>6. /\ Len(p.run) \in Nat /\ DOMAIN run = 1..Len(p.run) + 1 /\ Len(run) = Len(p.run) + 1 /\ run[Len(p.run) + 1] = v
      /\ DOMAIN p.run = 1..Len(p.run) /\ \A i \in 1..Len(p.run) : run[i] = p.run[i]
  BY <1>1, <1>2
<1>7. k \notin 1..Len(p.run)
  BY <1>1, <1>3, <1>4, <1>5, <1>6 DEF PassedOrdering
<1>8. k = Len(p.run) + 1
  BY <1>5, <1>6, <1>7
<1>. QED
  BY <1>1, <1>3, <1>4, <1>5, <1>6, <1>8 DEF PassedOrdering

LEMMA NewlyOrdered ==
  ASSUME Inv, Next, NEW r \in Requests, ~ PassedOrdering(req[r]), PassedOrdering(req[r])'
  PROVE  \E v \in Versions(plan[req[r].content.exec]), own, walk \in StatusMaps :
           OrderStep(r, v, own, walk) /\ Passes(r, Ordering)
<1>1. plan' = plan /\ req \in [Requests -> RequestStates]
  BY InvNext DEF Kept, Inv, TypeOK
<1>2. ASSUME NEW q, req'[r] = q, q.content = req[r].content, q.pipeline = req[r].pipeline, q.run = req[r].run,
             req[r].verdict \in {"none", q.verdict}
      PROVE  FALSE
  BY <1>1, <1>2, StaysUnordered DEF PassedOrdering
<1>3. ASSUME req'[r] = req[r]
      PROVE  FALSE
  BY <1>2, <1>3
<1>4. ASSUME NEW x \in Requests, NEW q, req' = [req EXCEPT ![x] = q]
      PROVE  x = r /\ req'[r] = q
  BY <1>1, <1>3, <1>4
<1>5. ASSUME NEW x \in Requests, Idles(x)
      PROVE  FALSE
  <2>1. PICK q : /\ req' = [req EXCEPT ![x] = q]
                 /\ \/ q.run = <<>>
                    \/ /\ q.content = req[x].content /\ q.pipeline = req[x].pipeline /\ q.run = req[x].run
                       /\ req[x].verdict \in {"none", q.verdict}
    BY <1>5 DEF Idles
  <2>2. x = r /\ req'[r] = q
    BY <1>4, <2>1
  <2>3. q.run # <<>>
    BY <2>2 DEF PassedOrdering
  <2>. QED
    BY <1>2, <2>1, <2>2, <2>3
<1>6. ASSUME NEW x \in Requests, NEW v, Due(x, v), Passes(x, v) \/ Fails(x, v)
      PROVE  /\ x = r /\ v = Ordering /\ Passes(r, v) /\ req[r].pipeline
             /\ req[r].content.step \in Asked(plan[req[r].content.exec])
  <2>1. x = r
    BY <1>4, <1>6 DEF Passes, Fails
  <2>. QED
    BY <1>1, <1>6, <2>1, RunsOrdering
<1>7. ASSUME Tick
      PROVE  FALSE
  <2>1. PICK p \in RequestStates : p = req[r]
    BY <1>1
  <2>2. PICK a, w : req'[r] = p \/ req'[r] = [p EXCEPT !.age = a, !.wait = w]
    BY <1>7, <2>1 DEF Tick
  <2>3. PICK q : q = req'[r]
    OBVIOUS
  <2>4. q.content = p.content /\ q.pipeline = p.pipeline /\ q.run = p.run /\ q.verdict = p.verdict
    BY <2>2, <2>3 DEF RequestStates
  <2>. QED
    BY <1>2, <2>1, <2>3, <2>4
<1>8. ASSUME Stop
      PROVE  FALSE
  <2>1. PICK p \in RequestStates : p = req[r]
    BY <1>1
  <2>2. req'[r] = p \/ req'[r] = [p EXCEPT !.pc = "killed", !.age = 0, !.wait = 0]
    BY <1>8, <2>1 DEF Stop
  <2>3. PICK q : q = req'[r]
    OBVIOUS
  <2>4. q.content = p.content /\ q.pipeline = p.pipeline /\ q.run = p.run /\ q.verdict = p.verdict
    BY <2>2, <2>3 DEF RequestStates
  <2>. QED
    BY <1>2, <2>1, <2>3, <2>4
<1>9. CASE Tick \/ Signal \/ Exit \/ Die \/ Restart
  BY <1>3, <1>7, <1>8, <1>9 DEF Signal, Exit, Drained, CloseAudit, DrainTimeout, Die, Restart
<1>10. ASSUME NEW x \in Requests, Serve(x) \/ \E c \in Contents : Accept(x, c), ~ \E v : Due(x, v) /\ (Passes(x, v) \/ Fails(x, v))
       PROVE  FALSE
  BY <1>5, <1>10, StepsIdle DEF Serve, Wait, Verify, PassUnordered, OrderStep, CallWebhook, CheckPolicy
<1>11. ASSUME NEW x \in Requests, Serve(x), NEW v, Due(x, v), Passes(x, v) \/ Fails(x, v)
       PROVE  \E w \in Versions(plan[req[r].content.exec]), own, walk \in StatusMaps :
                OrderStep(r, w, own, walk) /\ Passes(r, Ordering)
  <2>1. x = r /\ v = Ordering /\ Passes(r, Ordering) /\ Due(r, Ordering)
    BY <1>6, <1>11
  <2>2. req[r].pc = "verifying"
    BY <2>1 DEF Due
  <2>. QED
    BY <1>5, <1>6, <1>11, <2>1, <2>2, StepsIdle, VerifiersAssumption
       DEF Serve, Wait, Verify, PassUnordered, CallWebhook, CheckPolicy
<1>. QED
  BY <1>9, <1>10, <1>11 DEF Next, Accept, Due

LEMMA PassedGrows ==
  ASSUME Kept, NEW e \in Executions
  PROVE  Passed(e) \subseteq Passed(e)'
<1>. DEFINE asked == {req[r].content.step : r \in {x \in Requests : PassedOrdering(req[x]) /\ req[x].content.exec = e}}
<1>1. asked \subseteq asked'
  BY DEF Kept
<1>2. plan' = plan
  BY DEF Kept
<1>. HIDE DEF asked
<1>3. Passed(e) = asked \cup {GateOf(v, f, own, walk).fqn : v \in Versions(plan[e]), f \in asked, own, walk \in StatusMaps}
  BY DEF Passed, asked
<1>4. Passed(e)' = asked' \cup {GateOf(v, f, own, walk).fqn : v \in Versions(plan[e]), f \in asked', own, walk \in StatusMaps}
  BY <1>2 DEF Passed, asked
<1>. QED
  BY <1>1, <1>3, <1>4

\* What is recorded has passed.
LEMMA RecordedPassed ==
  ASSUME Inv, FoldedFrom, NEW e \in Executions
  PROVE  granted[e] \cup folded[e] \subseteq Passed(e)
<1>1. granted[e] \subseteq Passed(e)
  BY DEF Inv, Accounted, Passed
<1>2. ASSUME NEW h \in folded[e]
      PROVE  h \in Passed(e)
  <2>1. PICK f \in granted[e], v \in Versions(plan[e]), own \in StatusMaps, walk \in StatusMaps : h = GateOf(v, f, own, walk).fqn
    BY DEF FoldedFrom
  <2>2. PICK r \in Requests : PassedOrdering(req[r]) /\ req[r].content.exec = e /\ req[r].content.step = f
    BY <2>1 DEF Inv, Accounted
  <2>. QED
    BY <2>1, <2>2 DEF Passed
<1>. QED
  BY <1>1, <1>2

LEMMA BehindKept ==
  ASSUME Inv, Kept, NEW r \in Requests, Behind(r), req'[r].content = req[r].content
  PROVE  Behind(r)'
<1>1. PICK c : c = req[r].content /\ c.exec \in Executions /\ req'[r].content = c
  BY Measured, ContentsAssumption DEF RequestStates
<1>2. PICK v \in Versions(plan[c.exec]), own \in StatusMaps, walk \in StatusMaps :
        \/ GateOf(v, c.step, own, walk).outcome = "notFound"
        \/ Justified(GateOf(v, c.step, own, walk), GateOf(v, c.step, own, walk).needs \cap Passed(c.exec), {})
  BY <1>1 DEF Behind
<1>3. PICK gate : gate = GateOf(v, c.step, own, walk)
  OBVIOUS
<1>4. ASSUME Justified(gate, gate.needs \cap Passed(c.exec), {})
      PROVE  Justified(gate, gate.needs \cap Passed(c.exec)', {})
  <2>1. gate.outcome = "evaluated" /\ Allowed(gate, gate.needs \cap Passed(c.exec), {}, FailOpen)
    <3>1. (gate.needs \cap Passed(c.exec)) \ {} = gate.needs \cap Passed(c.exec)
      OBVIOUS
    <3>. QED
      BY <1>4, <3>1 DEF Justified
  <2>2. gate.needs \cap Passed(c.exec) \subseteq gate.needs \cap Passed(c.exec)'
    BY <1>1, PassedGrows
  <2>3. Allowed(gate, gate.needs \cap Passed(c.exec)', {}, FailOpen)
    BY <2>1, <2>2, AllowedMonotone
  <2>4. (gate.needs \cap Passed(c.exec)') \ {} = gate.needs \cap Passed(c.exec)'
    OBVIOUS
  <2>. QED
    BY <2>1, <2>3, <2>4 DEF Justified
<1>. QED
  BY <1>1, <1>2, <1>3, <1>4 DEF Behind, Kept

\* Around the ordering verifier, a step grants as OrderedGrants does or not at all.
LEMMA GrantsStep ==
  ASSUME Inv, [Next]_vars
  PROVE  [GrantsNext]_grantVars
<1>1. ASSUME NEW r \in Requests, NEW v \in Versions(plan[req[r].content.exec]),
             NEW own \in StatusMaps, NEW walk \in StatusMaps, OrderStep(r, v, own, walk)
      PROVE  GrantsNext \/ UNCHANGED grantVars
  <2>1. req[r].content.exec \in Executions
    BY Measured, ContentsAssumption DEF RequestStates
  <2>2. req[r].content.step \in Asked(plan[req[r].content.exec])
    BY <1>1 DEF OrderStep
  <2>3. Grant(req[r].content.exec, v, req[r].content.step, own, walk) \/ UNCHANGED grantVars
    BY <1>1 DEF OrderStep
  <2>. QED
    BY <1>1, <2>1, <2>2, <2>3 DEF GrantsNext
<1>2. ASSUME NEW r \in Requests, Serve(r)
      PROVE  GrantsNext \/ UNCHANGED grantVars
  BY <1>1, <1>2 DEF Serve, Wait, Verify, Finish, Parse, BadRequest, ResolvePipeline, FailToResolve, CallWebhook,
     PassUnordered, CheckPolicy, Authorize, Audit, Reply, Panic
<1>3. CASE \E r \in Requests : \E c \in Contents : Accept(r, c)
  BY <1>3 DEF Accept
<1>4. CASE Tick \/ Signal \/ Exit \/ Die
  BY <1>4 DEF Tick, Signal, Exit, Drained, CloseAudit, DrainTimeout, Die, Stop
<1>5. CASE Restart
  BY <1>5 DEF Restart, GrantsNext
<1>6. CASE UNCHANGED vars
  BY <1>6 DEF vars
<1>. QED
  BY <1>2, <1>3, <1>4, <1>5, <1>6 DEF Next

LEMMA FoldedFromStep ==
  ASSUME Inv, FoldedFrom, [Next]_vars
  PROVE  FoldedFrom'
<1>1. plan' = plan
  BY InvNext DEF Kept
<1>2. CASE UNCHANGED grantVars
  BY <1>2 DEF grantVars, FoldedFrom
<1>3. CASE Forget
  BY <1>3 DEF Forget, FoldedFrom
<1>4. ASSUME NEW e \in Executions, NEW v \in Versions(plan[e]), NEW f \in Asked(plan[e]),
             NEW own \in StatusMaps, NEW walk \in StatusMaps, Grant(e, v, f, own, walk)
      PROVE  FoldedFrom'
  <2>1. PICK h : h = GateOf(v, f, own, walk).fqn
    OBVIOUS
  <2>2. /\ granted' = [granted EXCEPT ![e] = granted[e] \cup {f}]
        /\ folded' = [folded EXCEPT ![e] = folded[e] \cup {h}]
        /\ granted \in [Executions -> SUBSET Names] /\ folded \in [Executions -> SUBSET Names]
    BY <1>4, <2>1 DEF Grant, Inv, TypeOK
  <2>3. ASSUME NEW x \in Executions, NEW g \in folded'[x]
        PROVE  \E k \in granted'[x], w \in Versions(plan'[x]), o, a \in StatusMaps : g = GateOf(w, k, o, a).fqn
    <3>1. CASE g \in folded[x]
      <4>1. granted[x] \subseteq granted'[x]
        BY <2>2
      <4>. QED
        BY <1>1, <3>1, <4>1 DEF FoldedFrom
    <3>2. CASE g \notin folded[x]
      <4>1. x = e /\ g = h /\ f \in granted'[x]
        BY <2>2, <3>2
      <4>. QED
        BY <1>1, <2>1, <4>1
    <3>. QED
      BY <3>1, <3>2
  <2>. QED
    BY <2>3 DEF FoldedFrom
<1>. QED
  BY <1>2, <1>3, <1>4, GrantsStep DEF GrantsNext

LEMMA PassesOrFails ==
  ASSUME Inv, NEW r \in Requests, NEW v, Due(r, v), Passes(r, v)
  PROVE  ~ Fails(r, v)
<1>1. PICK p \in RequestStates : p = req[r] /\ p.verdict = "none"
  BY Measured DEF Due, Sound
<1>2. req \in [Requests -> RequestStates]
  BY DEF Inv, TypeOK
<1>3. PICK run, q : q = [p EXCEPT !.run = run, !.wait = 0] /\ req' = [req EXCEPT ![r] = q]
  BY <1>1 DEF Passes
<1>4. req'[r].verdict = "none"
  <2>1. q.verdict = p.verdict
    BY <1>3 DEF RequestStates
  <2>. QED
    BY <1>1, <1>2, <1>3, <2>1
<1>5. ASSUME Fails(r, v)
      PROVE  req'[r].verdict = "denied"
  <2>1. PICK ran, o : /\ o = [p EXCEPT !.run = ran, !.wait = 0, !.verdict = "denied", !.pc = "auditing"]
                      /\ req' = [req EXCEPT ![r] = o]
    BY <1>1, <1>5 DEF Fails
  <2>2. o.verdict = "denied"
    BY <2>1 DEF RequestStates
  <2>. QED
    BY <1>2, <2>1, <2>2
<1>. QED
  BY <1>4, <1>5

\* The request that the ordering verifier lets pass has its ancestors behind it.
LEMMA OrderStepBehind ==
  ASSUME Inv, FoldedFrom, Kept, config.enforcing, NEW r \in Requests, req'[r].content = req[r].content,
         NEW v \in Versions(plan[req[r].content.exec]), NEW own \in StatusMaps, NEW walk \in StatusMaps,
         OrderStep(r, v, own, walk), Passes(r, Ordering)
  PROVE  Behind(r)'
<1>1. PICK c : c = req[r].content /\ c.exec \in Executions /\ req'[r].content = c
  BY Measured, ContentsAssumption DEF RequestStates
<1>2. PICK gate : gate = GateOf(v, c.step, own, walk)
  OBVIOUS
<1>3. PICK ran : ran = gate.needs \cap (granted[c.exec] \cup folded[c.exec])
  OBVIOUS
<1>4. Due(r, Ordering) /\ ~ Fails(r, Ordering)
  BY PassesOrFails DEF OrderStep
<1>5. Justified(gate, ran, {}) \/ gate.outcome = "notFound"
  BY <1>1, <1>2, <1>3, <1>4 DEF OrderStep
<1>6. ASSUME Justified(gate, ran, {})
      PROVE  Justified(gate, gate.needs \cap Passed(c.exec)', {})
  <2>1. gate.outcome = "evaluated" /\ Allowed(gate, ran, {}, FailOpen)
    <3>1. ran \ {} = ran
      OBVIOUS
    <3>. QED
      BY <1>6, <3>1 DEF Justified
  <2>2. ran \subseteq gate.needs \cap Passed(c.exec)'
    BY <1>1, <1>3, RecordedPassed, PassedGrows
  <2>3. Allowed(gate, gate.needs \cap Passed(c.exec)', {}, FailOpen)
    BY <2>1, <2>2, AllowedMonotone
  <2>4. (gate.needs \cap Passed(c.exec)') \ {} = gate.needs \cap Passed(c.exec)'
    OBVIOUS
  <2>. QED
    BY <2>1, <2>3, <2>4 DEF Justified
<1>. QED
  BY <1>1, <1>2, <1>5, <1>6 DEF Behind, Kept

LEMMA OrderInvInit == Init => OrderInv
<1>. SUFFICES ASSUME Init PROVE OrderInv
  OBVIOUS
<1>1. Inv
  BY InvInit
<1>2. FoldedFrom
  BY DEF FoldedFrom, Init, GrantsInit
<1>3. \A r \in Requests : ~ PassedOrdering(req[r])
  BY DEF Init, Fresh, PassedOrdering
<1>. QED
  BY <1>1, <1>2, <1>3 DEF OrderInv

LEMMA OrderInvNext == OrderInv /\ [Next]_vars => OrderInv'
<1>. SUFFICES ASSUME OrderInv, [Next]_vars PROVE OrderInv'
  OBVIOUS
<1>1. Inv /\ FoldedFrom /\ Inv' /\ Kept
  BY InvNext DEF OrderInv
<1>2. FoldedFrom'
  BY <1>1, FoldedFromStep
<1>3. ASSUME config'.enforcing, NEW r \in Requests, PassedOrdering(req[r])'
      PROVE  Behind(r)'
  <2>1. config.enforcing
    BY <1>1, <1>3 DEF Kept
  <2>2. CASE PassedOrdering(req[r])
    <3>1. Behind(r) /\ req'[r].content = req[r].content
      BY <1>1, <2>1, <2>2 DEF OrderInv, Kept
    <3>. QED
      BY <1>1, <3>1, BehindKept
  <2>3. CASE ~ PassedOrdering(req[r]) /\ Next
    <3>1. PICK v \in Versions(plan[req[r].content.exec]), own \in StatusMaps, walk \in StatusMaps :
            OrderStep(r, v, own, walk) /\ Passes(r, Ordering)
      BY <1>1, <1>3, <2>3, NewlyOrdered
    <3>2. req'[r].content = req[r].content
      <4>1. PICK p \in RequestStates : p = req[r]
        BY <1>1, Measured
      <4>2. PICK run, q : q = [p EXCEPT !.run = run, !.wait = 0] /\ req' = [req EXCEPT ![r] = q]
        BY <3>1, <4>1 DEF Passes
      <4>3. q.content = p.content
        BY <4>2 DEF RequestStates
      <4>. QED
        BY <1>1, <4>1, <4>2, <4>3 DEF Inv, TypeOK
    <3>. QED
      BY <1>1, <2>1, <3>1, <3>2, OrderStepBehind
  <2>4. CASE ~ PassedOrdering(req[r]) /\ UNCHANGED vars
    BY <1>3, <2>4 DEF vars, grantVars, PassedOrdering
  <2>. QED
    BY <2>2, <2>3, <2>4
<1>. QED
  BY <1>1, <1>2, <1>3 DEF OrderInv

-----------------------------------------------------------------------------
(* The theorems.                                                           *)

LEMMA Invariance == Spec => []Inv
  BY InvInit, InvNext, PTL DEF Spec

(* Types: in particular the time a request waits never passes the timeout  *)
(* that ends the wait, whatever the repository and the webhooks do.        *)
THEOREM TypeCorrect == Spec => []TypeOK
<1>1. Inv => TypeOK
  BY DEF Inv
<1>. QED
  BY <1>1, Invariance, PTL

(* Whatever is recorded as run was asked for by a request that passed the  *)
(* ordering verifier.  Once that request is over it has its audit event,   *)
(* unless writing the event failed and was logged, or a verifier that may  *)
(* panic comes after ordering in its chain and did.                        *)
THEOREM EveryGrantAccounted == Spec => []GrantsAccounted
<1>1. ASSUME Inv PROVE GrantsAccounted
  <2>. SUFFICES ASSUME NEW e \in Executions, NEW f \in granted[e]
                PROVE  \E r \in Requests :
                         /\ Ordered(r) /\ req[r].content.exec = e /\ req[r].content.step = f
                         /\ req[r].pc = "done" =>
                              \/ Event(r) \in events
                              \/ r \in unwritten
                              \/ req[r].verdict = "panicked" /\ FragileAfterOrdering(r)
    BY DEF GrantsAccounted
  <2>1. PICK r \in Requests : PassedOrdering(req[r]) /\ req[r].content.exec = e /\ req[r].content.step = f
    BY <1>1 DEF Inv, Accounted
  <2>2. PICK q : q = req[r] /\ Sound(config, q) /\ Logged(events, unwritten, r, q) /\ PassedOrdering(q)
    BY <1>1, <2>1 DEF Inv
  <2>3. Ordered(r)
    BY <2>1 DEF Ordered, PassedOrdering
  <2>4. q.verdict # "invalid"
    BY <2>2 DEF Sound, PassedOrdering
  <2>5. ASSUME q.verdict = "panicked"
        PROVE  FragileAfterOrdering(r)
    <3>1. PICK chain \in Seq(Verifiers) : chain = ChainOf(r) /\ chain = VerifierChain(config, q.content.type)
      BY <1>1, <2>2, Measured DEF ChainOf
    <3>2. /\ Len(q.run) \in Nat /\ DOMAIN q.run = 1..Len(q.run) /\ DOMAIN chain = 1..Len(chain)
          /\ Len(q.run) < Len(chain) /\ Len(chain) \in Nat /\ chain[Len(q.run) + 1] \in Fragile
          /\ \A k \in 1..Len(q.run) : q.run[k] = chain[k]
      <4>1. q.run \in Seq(Verifiers)
        BY <1>1, <2>2, Measured
      <4>. QED
        BY <2>2, <2>5, <3>1, <4>1 DEF Sound
    <3>3. PICK k \in 1..Len(q.run) : q.run[k] = Ordering
      BY <2>2, <3>2 DEF PassedOrdering
    <3>4. /\ k \in DOMAIN chain /\ Len(q.run) + 1 \in DOMAIN chain /\ k < Len(q.run) + 1
          /\ chain[k] = Ordering
      BY <3>2, <3>3
    <3>. QED
      BY <3>1, <3>2, <3>4 DEF FragileAfterOrdering
  <2>6. q.pc = "done" /\ q.verdict # "panicked" => r \in unwritten \/ Event(r) \in events
    BY <2>2, <2>4 DEF Sound, Logged, Verdicts, Event
  <2>. QED
    BY <2>1, <2>2, <2>3, <2>5, <2>6
<1>. QED
  BY <1>1, Invariance, PTL

(* A verdict that reached a delegate is in the audit, unless writing that  *)
(* event failed and was logged; and "allowed" came after every verifier    *)
(* configured for all tasks or for the type, without an objection.         *)
THEOREM DeliveredAudited == Spec => []VerdictsAudited
<1>1. ASSUME Inv, NEW r \in Requests
      PROVE  /\ req[r].answer \in {"allowed", "denied", "noted"} =>
                  r \in unwritten \/ [request |-> r, verdict |-> req[r].answer, run |-> req[r].run] \in events
             /\ req[r].answer = "allowed" =>
                  DueVerifiers(config, req[r].content.type) \subseteq Held(req[r].run) \ req[r].content.refused
  <2>1. PICK q : /\ q = req[r] /\ q \in RequestStates /\ Sound(config, q) /\ Logged(events, unwritten, r, q)
                 /\ VerifierChain(config, q.content.type) \in Seq(Verifiers) /\ q.run \in Seq(Verifiers)
    BY <1>1, Measured
  <2>2. q.answer \in {"allowed", "denied", "noted"} => q.pc = "done" /\ q.verdict = q.answer
    BY <2>1 DEF Sound
  <2>3. ASSUME q.answer = "allowed"
        PROVE  DueVerifiers(config, q.content.type) \subseteq Held(q.run) \ q.content.refused
    <3>1. PICK chain \in Seq(Verifiers) : chain = VerifierChain(config, q.content.type)
      BY <2>1
    <3>2. q.verdict = "allowed"
      BY <2>2, <2>3
    <3>3. /\ Len(q.run) = Len(chain) /\ \A k \in 1..Len(q.run) : q.run[k] = chain[k]
          /\ \A k \in 1..Len(q.run) : q.run[k] \notin q.content.refused
      BY <2>1, <3>1, <3>2 DEF Sound
    <3>4. DOMAIN q.run = 1..Len(q.run) /\ DOMAIN chain = 1..Len(chain)
      BY <2>1, <3>1
    <3>5. Held(chain) \subseteq Held(q.run) \ q.content.refused
      BY <3>3, <3>4 DEF Held
    <3>6. DueVerifiers(config, q.content.type) \subseteq Held(chain)
      BY <1>1, <3>1, ChainCovers DEF Inv, TypeOK
    <3>. QED
      BY <3>5, <3>6
  <2>. QED
    BY <2>1, <2>2, <2>3 DEF Logged
<1>2. Inv => VerdictsAudited
  BY <1>1 DEF VerdictsAudited, DueVerifiers, Held
<1>. QED
  BY <1>2, Invariance, PTL

(* A request whose pipeline could not be resolved in time passes without   *)
(* being ordered, and its answer never reaches the delegate.               *)
THEOREM LateIsLost == Spec => []LateNeverDelivered
<1>1. Inv => LateNeverDelivered
  BY DEF Inv, Sound, LateNeverDelivered
<1>. QED
  BY <1>1, Invariance, PTL

(* A clean exit leaves no request unserved and no audit file open.         *)
THEOREM ExitIsClean == Spec => []CleanExit
<1>1. Inv => CleanExit
  BY DEF Inv, Stopped, CleanExit
<1>. QED
  BY <1>1, Invariance, PTL

(* A task that is allowed in its pipeline, with ordering as the last of    *)
(* the verifiers, has its gate satisfied by tasks that were asked for,     *)
(* ordered, and neither denied nor lost to a panic.                        *)
THEOREM AllowedAfterAncestors == Spec => []AncestorsRan
<1>1. ASSUME OrderInv, config.enforcing, OrderingLast(config), NEW x \in Requests, PassedOrdering(req[x])
      PROVE  req[x].verdict \notin {"denied", "panicked"}
  <2>1. PICK q : /\ q = req[x] /\ q.content \in Contents /\ q.run \in Seq(Verifiers) /\ Len(q.run) \in Nat
                 /\ VerifierChain(config, q.content.type) \in Seq(Verifiers) /\ Sound(config, q)
    BY <1>1, Measured DEF OrderInv, RequestStates
  <2>c. PICK chain \in Seq(Verifiers) : chain = VerifierChain(config, q.content.type) /\ Len(chain) \in Nat
    BY <2>1
  <2>2. /\ Len(q.run) <= Len(chain) /\ \A k \in 1..Len(q.run) : q.run[k] = chain[k]
        /\ q.verdict = "panicked" => Len(q.run) < Len(chain)
    BY <2>1, <2>c DEF Sound
  <2>3. PICK k \in 1..Len(q.run) : q.run[k] = Ordering /\ (q.verdict = "denied" => k < Len(q.run))
    BY <1>1, <2>1 DEF PassedOrdering
  <2>4. k = Len(chain)
    <3>1. \A i \in DOMAIN chain : chain[i] = Ordering => i = Len(chain)
      BY <1>1, <2>1, <2>c DEF OrderingLast
    <3>. QED
      BY <2>c, <2>2, <2>3, <3>1
  <2>. QED
    BY <2>1, <2>c, <2>2, <2>3, <2>4
<1>2. ASSUME OrderInv, config.enforcing, OrderingLast(config), NEW e \in Executions
      PROVE  Passed(e) = RanNames(e)
  <2>. DEFINE asked == {req[r].content.step : r \in {x \in Requests : PassedOrdering(req[x]) /\ req[x].content.exec = e}}
              counted == {req[r].content.step : r \in {q \in Requests : Ordered(q) /\ req[q].content.exec = e
                                                       /\ req[q].verdict \notin {"denied", "panicked"}}}
  <2>1. \A x \in Requests : Ordered(x) <=> PassedOrdering(req[x])
    BY DEF Ordered, PassedOrdering
  <2>2. {x \in Requests : PassedOrdering(req[x]) /\ req[x].content.exec = e}
          = {q \in Requests : Ordered(q) /\ req[q].content.exec = e /\ req[q].verdict \notin {"denied", "panicked"}}
    BY <1>1, <1>2, <2>1
  <2>3. asked = counted
    BY <2>2
  <2>4. Passed(e) = asked \cup {GateOf(v, f, own, walk).fqn : v \in Versions(plan[e]), f \in asked, own, walk \in StatusMaps}
    BY DEF Passed
  <2>5. RanNames(e) = counted \cup {GateOf(v, f, own, walk).fqn : v \in Versions(plan[e]), f \in counted, own, walk \in StatusMaps}
    BY DEF RanNames
  <2>. HIDE DEF asked, counted
  <2>. QED
    BY <2>3, <2>4, <2>5
<1>3. ASSUME OrderInv, config.enforcing, OrderingLast(config), NEW r \in Requests
      PROVE  AncestorsRanBefore(r)
  <2>. SUFFICES ASSUME Ordered(r)
                PROVE  LET c == req[r].content
                       IN  \E v \in Versions(plan[c.exec]) : \E own, walk \in StatusMaps :
                             LET gate == GateOf(v, c.step, own, walk)
                             IN  gate.outcome = "notFound" \/ Justified(gate, gate.needs \cap RanNames(c.exec), {})
    BY DEF AncestorsRanBefore
  <2>1. req[r].content.exec \in Executions
    BY <1>3, Measured, ContentsAssumption DEF OrderInv, RequestStates
  <2>2. PassedOrdering(req[r])
    BY DEF Ordered, PassedOrdering
  <2>3. Behind(r)
    BY <1>3, <2>2 DEF OrderInv
  <2>. QED
    BY <1>2, <1>3, <2>1, <2>3 DEF Behind
<1>4. OrderInv => AncestorsRan
  BY <1>3 DEF AncestorsRan
<1>. QED
  BY <1>4, OrderInvInit, OrderInvNext, PTL DEF Spec

(* Around the ordering verifier, the server grants what OrderedGrants      *)
(* grants and nothing else: no other verifier, timeout, panic, shutdown or *)
(* crash touches what is recorded, but to forget it.                       *)
THEOREM ServerGrants == Spec => GrantsSpec
<1>1. Init => GrantsInit
  BY DEF Init
<1>. QED
  BY <1>1, GrantsStep, Invariance, PTL DEF Spec, GrantsSpec

=============================================================================
