---------------------------- MODULE OrderedGrants ----------------------------
(***************************************************************************)
(* What execution ordering promises, without requests, locks or reads:     *)
(* per execution the FQNs granted so far, as they were asked (granted) and *)
(* folded to their logical node (folded), and one atomic action that       *)
(* grants an asked FQN when its gate is satisfied by the earlier grants.   *)
(* GateOf(v, f, own, walk) is the gate of FQN f in version v of a plan     *)
(* when its own guards were read under the statuses own, and those on the  *)
(* walk over its ancestors under the statuses walk.  A plan has several    *)
(* versions when templates are pushed while it runs: every request         *)
(* resolves the pipeline anew.                                             *)
(*                                                                         *)
(* The abstraction leaves the statuses to the environment (any may apply   *)
(* to a grant), lets the run-state fail on any subset of the needs, and    *)
(* lets it be forgotten as a whole: no order survives only in memory.      *)
(***************************************************************************)
EXTENDS OrderingGate

CONSTANTS Executions,           \* planExecutionIds
          Plans,                \* pipelines
          Versions(_),          \* what a pipeline may be resolved to
          Names,                \* FQNs
          StatusMaps,           \* what MarkStatus may have recorded
          Asked(_),             \* the FQNs asked for in a plan
          GateOf(_, _, _, _),   \* VerifyStepOrder up to the run-state
          FailOpen              \* kinds with an accepting policy

ASSUME AskedAssumption == \A p \in Plans : Asked(p) \subseteq Names
ASSUME GateAssumption ==
  \A p \in Plans : \A v \in Versions(p) : \A f \in Asked(p) : \A own, walk \in StatusMaps :
    GateOf(v, f, own, walk) \in Gates(Names)

VARIABLES plan,                 \* the pipeline each execution runs
          granted,              \* per execution, the asked FQNs granted so far
          folded                \* and the logical FQNs they resolve to

grantVars == <<plan, granted, folded>>

GrantsInit == /\ plan \in [Executions -> Plans]
              /\ granted = [e \in Executions |-> {}]
              /\ folded = [e \in Executions |-> {}]

\* The run-state answers with ran, and fails on unknown.
Justified(gate, ran, unknown) ==
  gate.outcome = "evaluated" /\ Allowed(gate, ran \ unknown, unknown, FailOpen)

Grant(e, v, f, own, walk) ==
  LET gate == GateOf(v, f, own, walk)
  IN  /\ \E unknown \in SUBSET gate.needs :
           Justified(gate, gate.needs \cap (granted[e] \cup folded[e]), unknown)
      /\ granted' = [granted EXCEPT ![e] = @ \cup {f}]
      /\ folded' = [folded EXCEPT ![e] = @ \cup {gate.fqn}]
      /\ UNCHANGED plan

Forget == /\ granted' = [e \in Executions |-> {}]
          /\ folded' = [e \in Executions |-> {}]
          /\ UNCHANGED plan

GrantsNext ==
  \/ \E e \in Executions : \E v \in Versions(plan[e]) : \E f \in Asked(plan[e]) :
        \E own, walk \in StatusMaps : Grant(e, v, f, own, walk)
  \/ Forget

GrantsSpec == GrantsInit /\ [][GrantsNext]_grantVars
=============================================================================
