--------------------------- MODULE MCVerifyServer ---------------------------
(***************************************************************************)
(* VerifyServer over the two steps of a pipeline, in an order of the       *)
(* verifiers like that of the reference configuration, ordering before a   *)
(* policy and a webhook, and in one with ordering last.                    *)
(***************************************************************************)
EXTENDS VerifyServer, MCPipelines

CONSTANT ConfigNames

\* The server asks for the gates of its plan and nothing else of it.
PairPlan == Plan(Doc(<<"pair", <<>>>>), {<<>>}, EveryRun)
PlanTable == {[gates |-> PairPlan.gates]}
NameTable == UNION {DOMAIN p.gates \cup UNION {{w.fqn} \cup w.needs : w \in {PlanGate(p, f, <<>>, <<>>) : f \in DOMAIN p.gates}} :
                    p \in PlanTable}
MCPlans == PlanTable
MCNames == NameTable
NoStatuses == {<<>>}

FirstStep == FQN(Doc(<<"pair", <<>>>>), <<1, 1>>)
SecondStep == FQN(Doc(<<"pair", <<>>>>), <<1, 2>>)
NoStep == <<"none">>

Content(kind, step, type, refused) ==
  [kind |-> kind, exec |-> CHOOSE e \in Executions : TRUE, step |-> step, type |-> type, refused |-> refused]
ContentTable ==
  {Content("verify", FirstStep, "shell", {}), Content("verify", FirstStep, "shell", {"shellscript"}),
   Content("verify", SecondStep, "plain", {}), Content("output", NoStep, "plain", {})}
MCContents == ContentTable

ConfigTable ==
  [ordering_first |-> [global |-> <<"execution_ordering">>, byType |-> ("shell" :> <<"shellscript">>),
                       custom |-> <<"webhook">>, enforcing |-> TRUE, failOpen |-> FALSE],
   ordering_last  |-> [global |-> <<>>, byType |-> ("shell" :> <<"shellscript">>),
                       custom |-> <<"webhook", "execution_ordering">>, enforcing |-> TRUE, failOpen |-> TRUE]]
MCConfigs == {ConfigTable[n] : n \in ConfigNames}
=============================================================================
