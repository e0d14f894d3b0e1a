----------------------------- MODULE ResolvedPlan -----------------------------
(***************************************************************************)
(* A resolved pipeline as the ordering verifier sees it: the outcome of    *)
(* BuildGraph, the value of every guard under each record of statuses, and *)
(* the gate of every FQN that may be asked for.                            *)
(***************************************************************************)
EXTENDS StepEvaluation, ConditionChecker

CONSTANTS HasChecker,           \* a ConditionChecker is configured
          Overrides, Evaluator  \* how it decides expressions

\* The ConditionFunc over the guards of a document: AlwaysTrue without a
\* checker.  Statuses are keyed by the FQN of the unit they were marked for.
GuardTruth(doc, s) ==
  [n \in {m \in DOMAIN doc : doc[m].when # NoWhen} |->
     IF HasChecker
     THEN Eval(doc[n].when,
               IF FQN(doc, n) \in DOMAIN s THEN s[FQN(doc, n)] ELSE Unmarked,
               Overrides, Evaluator)
     ELSE "holds"]

\* f itself, evaluated once by TLC.
Tabulate(f) == f @@ <<>>

Plan(doc, statusMaps, asked(_)) ==
  LET d == Tabulate(doc)
      g == Tabulate(BuildGraph(d))
      guards == Tabulate([s \in statusMaps |-> Tabulate(GuardTruth(d, s))])
      errors == BuildErrors(d)
      gate(f, own, walk) == VerifyStepOrder(errors, g, guards[own], guards[walk], f)
      gates(f) == [w \in statusMaps \X statusMaps |-> gate(f, w[1], w[2])]
  IN  [graph |-> g, guards |-> guards, gates |-> Tabulate([f \in asked(g) |-> Tabulate(gates(f))])]

\* The pipeline of an execution that resolves to the same at every request.
PlanVersions(p) == {p}
PlanAsked(p) == DOMAIN p.gates
PlanGate(p, f, own, walk) == p.gates[f][<<own, walk>>]
=============================================================================
