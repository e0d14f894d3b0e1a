----------------------------- MODULE StageFanout -----------------------------
(***************************************************************************)
(* Building the fan-out of one stage (PipelineGraph.buildStage): its       *)
(* `strategy` block and its multi-deployment block are resolved and        *)
(* combined in one step.  The inputs are every pair of blocks of the       *)
(* instance, so that a run of TLC compares Strategy's enumeration with the *)
(* counting argument below on all of them.                                 *)
(***************************************************************************)
EXTENDS Strategy

CONSTANTS RawStages,            \* pairs of a `strategy` and a multi-deployment
                                \* block, after YAML decoding
          Namings               \* a subset of {"index", "value"}

\* What the decoder makes of the blocks of a document the engine runs: the
\* keys of a mapping are unique, as YAML requires, a value leaves at least the
\* token "", and no position goes beyond the tokens in use.
Values == [raw : STRING, tokens : Seq(STRING) \ {<<>>}]
Positions == DOMAIN IndexTokens

MatrixBlock(s) ==
  /\ s.axes \in Seq([name : Nat, vals : Seq(Values), scalar : BOOLEAN])
  /\ \A a, b \in DOMAIN s.axes : s.axes[a].name = s.axes[b].name => a = b
  /\ \A a \in DOMAIN s.axes : DOMAIN s.axes[a].vals \subseteq Positions
  /\ s.flags \subseteq {"runtimeInput", "badShape", "nodeName"}

StrategyBlock(s) ==
  CASE s.type = "matrix"      -> MatrixBlock(s)
    [] s.type = "parallelism" -> s.count \in {0} \cup Positions
    [] s.type = "repeat"      -> /\ s.times \in {-1, 0} \cup Positions /\ s.items \in {-1, 0} \cup Positions
                                 /\ s.flags \subseteq {"nodeName", "ranged"}
    [] OTHER                  -> s.type \in {"none", "runtimeInput", "unrecognized"}

DeploymentBlock(d) ==
  /\ d.services \in Seq(Values)
  /\ d.envs \in Seq([ref : Values, infras : Seq(Values), infraRuntime : BOOLEAN, gitOps : BOOLEAN])

ASSUME BlocksAssumption == \A raw \in RawStages : StrategyBlock(raw[1]) /\ DeploymentBlock(raw[2])
ASSUME NamingsAssumption == Namings \subseteq {"index", "value"}

VARIABLES strategy, deployment, naming, strat

vars == <<strategy, deployment, naming, strat>>

NoDeployment == [envGroup |-> FALSE, services |-> <<>>, envs |-> <<>>]

StageStrat(s, d, n) == CombineStageSpecs(Resolve(s, n), MultiDeploySpec(d))

Init == /\ \E raw \in RawStages : strategy = raw[1] /\ deployment = raw[2]
        /\ naming \in Namings
        /\ strat = NoFanout

BuildStage == /\ strat = NoFanout
              /\ strat' = StageStrat(strategy, deployment, naming)
              /\ UNCHANGED <<strategy, deployment, naming>>

Next == BuildStage

FanoutSpec == Init /\ [][Next]_vars

-----------------------------------------------------------------------------
(* The four ways a fan-out resolves exclude each other, so the evaluation  *)
(* (which tests known, excluded and status in different orders in          *)
(* different places) never meets a spec that answers two of them.          *)
TypeOK ==
  /\ strat.suffixes \subseteq Seq(STRING) /\ <<>> \notin strat.suffixes
  /\ strat.status \in FanoutStatuses
  /\ strat.known <=> strat.suffixes # {}
  /\ strat.present /\ strat.error = "none" =>
       /\ strat.known => ~ strat.excluded /\ strat.status = "none"
       /\ ~ strat.known => (strat.excluded <=> strat.status = "none")

\* The number of deployments a multi-deployment block stands for.
DeploymentCount(d) ==
  (IF d.services = <<>> THEN 1 ELSE Len(d.services))
  * (IF d.envs = <<>> THEN 1
     ELSE Cardinality(UNION {{i} \X (1..IF d.envs[i].infras = <<>> THEN 1 ELSE Len(d.envs[i].infras)) :
                             i \in DOMAIN d.envs}))

\* The number of runs the engine starts for a strategy, counted without
\* naming them: a matrix starts one run per combination no exclude removes
\* (a key that is no axis has the value "").
RunCount(s) ==
  CASE s.type = "matrix" ->
         Cardinality({c \in Combos(s.axes) :
           \A ex \in s.excludes : \E name \in DOMAIN ex :
             /\ \A a \in DOMAIN s.axes : s.axes[a].name = name => s.axes[a].vals[c[a]].raw # ex[name]
             /\ ex[name] = "" => \E a \in DOMAIN s.axes : s.axes[a].name = name})
    [] s.type = "parallelism" -> s.count
    [] s.type = "repeat" -> IF s.times > 0 THEN s.times ELSE s.items
    [] OTHER -> 1

Enumerates(S) == S.known \/ S.excluded

(* An enumerated fan-out has exactly one name per run the engine starts:   *)
(* no two instances share a name (after sanitizing and the 127-character   *)
(* cap), none is missing and none is invented.  An AND join over the node  *)
(* waits on these names, so a merged pair would let a follower run with    *)
(* one instance outstanding (matrixValueSuffixes, multiDeploySpec).        *)
OneNamePerRun ==
  strat.present /\ Enumerates(strat) =>
    Cardinality(strat.suffixes) =
      IF strategy.type = "none" THEN DeploymentCount(deployment) ELSE RunCount(strategy)

(* A node is treated as skipped exactly when its strategy is fully literal *)
(* and leaves no run; a fan-out of unknown size is never skipped, whatever *)
(* the naming option says (enumerated, repeatSuffixes, matrixSuffixes).    *)
SkippedOnlyWhenEmpty ==
  strat.excluded => /\ strategy.type \in {"matrix", "repeat"}
                    /\ strategy.flags = {}
                    /\ RunCount(strategy) = 0

(* Whether a node is skipped is a fact of the pipeline, so the two naming  *)
(* options agree on it as long as every axis is scalar: the option may     *)
(* only change the names (BuildGraph's WithMatrixNaming).                  *)
NamingNeverDecidesSkip ==
  (strat.present /\ (strategy.type = "matrix" => \A a \in DOMAIN strategy.axes : strategy.axes[a].scalar)) =>
    \A n \in {"index", "value"} : StageStrat(strategy, deployment, n).excluded = strat.excluded
=============================================================================
