---------------------------- MODULE OrderingGate ----------------------------
(***************************************************************************)
(* The gate of one step: everything EvaluateStep                           *)
(* (verifier/pipeline/evaluate.go) finds out about it without the          *)
(* run-state, and the verdict once the run-state has answered.             *)
(*                                                                         *)
(*   outcome     "evaluated", "notFound" or "invalid" (BuildGraph failed)  *)
(*   fqn         the logical FQN the asked FQN resolves to                 *)
(*   join        "AND" or "OR"                                             *)
(*   violations  the violations that do not depend on the run-state        *)
(*   needs       the FQNs the run-state is asked about                     *)
(*   fanout      an ancestor fans out at runtime, so its fan-in is unknown *)
(*   vacuous     no live ancestor: an OR join is satisfied                 *)
(***************************************************************************)

\* The violation kinds of the sealed Violation interface.
ViolationKinds == {"condition", "conditionUnknown", "runtimeFanout", "pipelineRollback",
                   "ancestorDidNotRun", "runStateUnknown"}

Gates(names) ==
  [outcome : {"evaluated", "notFound", "invalid"}, fqn : names, join : {"AND", "OR"},
   violations : SUBSET ViolationKinds, needs : SUBSET names,
   fanout : BOOLEAN, vacuous : BOOLEAN]

Gate(outcome, fqn, join, violations, needs, fanout, vacuous) ==
  [outcome |-> outcome, fqn |-> fqn, join |-> join, violations |-> violations,
   needs |-> needs, fanout |-> fanout, vacuous |-> vacuous]

NoGate(outcome, raw) == Gate(outcome, raw, "AND", {}, {}, FALSE, TRUE)

\* ran are the needs the run-state confirmed, unknown those it failed on.
Satisfied(gate, ran) == gate.vacuous \/ gate.needs \cap ran # {}

RunViolations(gate, ran, unknown) ==
  IF gate.join = "OR" /\ Satisfied(gate, ran) THEN {}
  ELSE {v \in {"runtimeFanout", "runStateUnknown", "ancestorDidNotRun"} :
          \/ v = "runtimeFanout" /\ gate.fanout
          \/ v = "runStateUnknown" /\ gate.needs \cap unknown # {}
          \/ v = "ancestorDidNotRun" /\ gate.needs \ (ran \cup unknown) # {}}

\* failOpen: the kinds whose policy accepts the violation.
Allowed(gate, ran, unknown, failOpen) ==
  gate.violations \cup RunViolations(gate, ran, unknown) \subseteq failOpen
=============================================================================
