------------------------ MODULE MCDelegateExecution ------------------------
(***************************************************************************)
(* DelegateExecution over pipelines whose runs are all known beforehand.   *)
(***************************************************************************)
EXTENDS DelegateExecution, MCPipelines

CONSTANT PlanNames

PlanIds == [
  \* a; parallel {b, c}; d on any outcome
  forked   |-> <<"fork", (<<1, 3>> :> "onAll")>>,
  \* a twice {parallel {b, c}; d}; e, with b skipped
  branched |-> <<"forkInGroup", (<<1, 1>> :> "twice") @@ (<<1, 1, 1, 1>> :> "false")>>,
  \* a; b; rollback {r; s}; next stage
  rollback |-> <<"rollback", <<>>>>,
  \* the same with r skipped: s may be denied
  skipped  |-> <<"rollback", (<<1, 0, 1>> :> "false")>>]

PlanTable == {Plan(Doc(PlanIds[k]), {<<>>}, EveryRun) : k \in PlanNames}
NameTable ==
  UNION {DOMAIN p.gates \cup UNION {{w.fqn} \cup w.needs : w \in {PlanGate(p, f, <<>>, <<>>) : f \in DOMAIN p.gates}} :
         p \in PlanTable}
MCPlans == PlanTable
MCNames == NameTable
=============================================================================
