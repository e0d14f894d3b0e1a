----------------------------- MODULE MCPipelines -----------------------------
(***************************************************************************)
(* Small pipelines for the checks: tree shapes, and the decorations (a     *)
(* guard or a strategy) that their units may carry.                        *)
(***************************************************************************)
EXTENDS ResolvedPlan

MCIndexTokens == <<"0", "1", "2", "3", "4", "5">>

\* A shape lists the kinds by path.
Steps(prefix, S) == [n \in {Append(prefix, k) : k \in S} |-> "step"]
Base == (<<>> :> "pipeline") @@ (<<1>> :> "stage")
NextStage == (<<2>> :> "stage") @@ Steps(<<2>>, 1..1)

Shapes == [
  \* a; b
  pair |-> Base @@ Steps(<<1>>, 1..2),
  \* a; b; c, then a second stage
  sequence |-> Base @@ Steps(<<1>>, 1..3) @@ NextStage,
  \* a; parallel {b, c}; d
  fork |-> Base @@ Steps(<<1>>, {1, 3}) @@ (<<1, 2>> :> "parallel") @@ Steps(<<1, 2>>, 1..2),
  \* parallel {a, b}; c
  join |-> Base @@ (<<1, 1>> :> "parallel") @@ Steps(<<1, 1>>, 1..2) @@ Steps(<<1>>, {2}),
  \* a; group {b; c}; d
  group |-> Base @@ Steps(<<1>>, {1, 3}) @@ (<<1, 2>> :> "stepGroup") @@ Steps(<<1, 2>>, 1..2),
  \* parallel {group {a; b}, c}; d
  groupInFork |-> Base @@ (<<1, 1>> :> "parallel") @@ (<<1, 1, 1>> :> "stepGroup")
       @@ Steps(<<1, 1, 1>>, 1..2) @@ Steps(<<1, 1>>, {2}) @@ Steps(<<1>>, {2}),
  \* a; group {parallel {b, c}}; d
  forkInGroup |-> Base @@ Steps(<<1>>, {1, 3}) @@ (<<1, 2>> :> "stepGroup")
       @@ (<<1, 2, 1>> :> "parallel") @@ Steps(<<1, 2, 1>>, 1..2),
  \* parallel {a, b}; parallel {c, d}; e
  forks |-> Base @@ (<<1, 1>> :> "parallel") @@ Steps(<<1, 1>>, 1..2) @@ (<<1, 2>> :> "parallel")
       @@ Steps(<<1, 2>>, 1..2) @@ Steps(<<1>>, {3}),
  \* two stages in parallel, then a third
  stageFork |-> (<<>> :> "pipeline") @@ (<<1>> :> "parallel") @@ (<<1, 1>> :> "stage") @@ (<<1, 2>> :> "stage")
       @@ Steps(<<1, 1>>, 1..2) @@ Steps(<<1, 2>>, 1..1) @@ NextStage,
  \* a; b; rollback {r; s}, then a second stage
  rollback |-> Base @@ Steps(<<1>>, 1..2) @@ (<<1, 0>> :> "rollback") @@ Steps(<<1, 0>>, 1..2) @@ NextStage,
  \* a; then a stage b; c; rollback {r; s}
  laterStage |-> Base @@ Steps(<<1>>, 1..1) @@ (<<2>> :> "stage") @@ Steps(<<2>>, 1..2)
       @@ (<<2, 0>> :> "rollback") @@ Steps(<<2, 0>>, 1..2),
  \* parallel {a, b}; rollback {parallel {r, s}}
  rollbackFork |-> Base @@ (<<1, 1>> :> "parallel") @@ Steps(<<1, 1>>, 1..2) @@ (<<1, 0>> :> "rollback")
       @@ (<<1, 0, 1>> :> "parallel") @@ Steps(<<1, 0, 1>>, 1..2),
  \* a; rollback {r; s} of a stage with the PipelineRollback action
  separateRollback |-> Base @@ Steps(<<1>>, 1..1) @@ (<<1, 0>> :> "rollback") @@ Steps(<<1, 0>>, 1..2),
  \* parallel {a, a_0}: an identifier that ends like a run of the other
  alias |-> Base @@ (<<1, 1>> :> "parallel") @@ Steps(<<1, 1>>, 1..2)]

\* An identifier is its path, unique in the pipeline, but for alias.
Id(shape, n) ==
  CASE shape = "alias" /\ n = <<1, 1, 1>> -> <<"a">>
    [] shape = "alias" /\ n = <<1, 1, 2>> -> <<"a", "0">>
    [] OTHER -> <<ToString(n)>>

When(status, expr) == [level |-> "step", status |-> status, expr |-> expr, runtimeInput |-> FALSE]
Guard(status, expr) == [when |-> When(status, expr), strat |-> NoFanout]
Fan(spec) == [when |-> NoWhen, strat |-> spec]

Decorations == [
  plain     |-> Fan(NoFanout),
  false     |-> Guard("", "no"),
  true      |-> Guard("Success", "yes"),
  undecided |-> Guard("", "what"),
  onFailure |-> Guard("Failure", ""),
  onAll     |-> Guard("All", ""),
  twice     |-> Fan(Instances({<<"0">>, <<"1">>})),
  grid      |-> Fan(Instances({<<i, j>> : i, j \in {"0", "1"}})),
  runtime   |-> Fan(NotEnumerable("runtime_input")),
  excluded  |-> Fan(Excluded),
  broken    |-> Fan(Failed("invalid"))]

\* A plan is <<shape, decorations by unit>>.
Entry(shape, n, deco) ==
  LET d == Decorations[IF n \in DOMAIN deco THEN deco[n] ELSE "plain"]
  IN  [kind |-> Shapes[shape][n], id |-> Id(shape, n), when |-> d.when, strat |-> d.strat,
       pipelineRollback |-> shape = "separateRollback" /\ n = <<1>>]

Doc(p) == [n \in DOMAIN Shapes[p[1]] |-> Entry(p[1], n, p[2])]

\* Asked for: every run of every step, under its instance names when they
\* are known and under its logical name otherwise.
EveryRun(g) ==
  UNION {IF InstanceFQNs(g, n).ok THEN InstanceFQNs(g, n).fqns ELSE {g[n].fqn} :
         n \in {m \in Nodes(g) : g[m].kind = "step"}}

MCOverrides == [x \in {"no"} |-> "fails"] @@ [x \in {"yes"} |-> "holds"]
MCEvaluator == <<>>
=============================================================================
