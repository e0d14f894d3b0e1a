------------------------- MODULE MCOrderingVerifier -------------------------
(***************************************************************************)
(* OrderingVerifier over a few small pipelines that together use every     *)
(* part of a gate: fan-outs, OR joins, guards, rollback, a name that no    *)
(* node has and a pipeline that BuildGraph refuses.  A plan is the set of  *)
(* the pipelines it resolves to: one of them drifts, as a template that is *)
(* pushed while it runs gives a step a strategy.                           *)
(***************************************************************************)
EXTENDS OrderingVerifier, MCPipelines

CONSTANT PlanNames

\* parallel {a twice, b}; c on failure
Forked == <<"join", (<<1, 1, 1>> :> "twice") @@ (<<1, 2>> :> "onFailure")>>
\* a, skipped; b; c on any outcome, then the next stage
Skipping == <<"sequence", (<<1, 1>> :> "false") @@ (<<1, 3>> :> "onAll")>>
RollingBack == <<"separateRollback", <<>>>>
Broken == <<"separateRollback", (<<1, 1>> :> "broken")>>

\* a; b, or a twice; b
Drifting == {<<"pair", <<>>>>, <<"pair", (<<1, 1>> :> "twice")>>}

PlanIds == [forked |-> {Forked}, skipping |-> {Skipping}, rollback |-> {RollingBack},
            broken |-> {Broken}, drifting |-> Drifting]

Stranger == <<<<"nowhere">>>>
\* A name without a node, and every run in any version.
AskedIn(ids) == {Stranger} \cup UNION {EveryRun(BuildGraph(Doc(id))) : id \in ids}

\* The owners whose status is marked: units that only run on failure.
OwnerTable == {FQN(Doc(Forked), <<1, 2>>)}
MCStatuses == {"Failure"}

\* Tables are evaluated once by TLC, which evaluates a definition put in
\* place of a constant at every use.

StatusTable == UNION {[S -> MCStatuses] : S \in SUBSET OwnerTable}
PlanTable == {{Plan(Doc(id), StatusTable, LAMBDA g : AskedIn(PlanIds[k])) : id \in PlanIds[k]} : k \in PlanNames}
\* Every name a gate can mention: the steps' FQNs and those of two runs.
StepNames(doc) ==
  LET fqns == {FQN(doc, n) : n \in {m \in DOMAIN doc : doc[m].kind = "step"}}
  IN  fqns \cup {[f EXCEPT ![Len(f)] = Append(@, i)] : f \in fqns, i \in {"0", "1"}}
NameTable == {Stranger} \cup UNION {UNION {StepNames(Doc(id)) : id \in PlanIds[k]} : k \in PlanNames}
Interchangeable == Permutations(Requests)

MCOwners == OwnerTable
MCPlans == PlanTable
MCNames == NameTable
MCVersions(p) == p
MCAsked(p) == UNION {DOMAIN v.gates : v \in p}
MCGate(v, f, own, walk) == PlanGate(v, f, own, walk)
=============================================================================
