# Verification of the zero-trust service

The zero-trust service sits between a CI/CD engine and its delegates.  Before a
delegate runs a task it asks the service (`POST /api/verify`); the service runs
a chain of verifiers over the request and answers whether the task may run.
One verifier, execution ordering, keeps state: it allows a pipeline step only
when the steps before it were allowed.  Every answer leaves an audit event in
files on disk.  Ordering needs the pipeline, which is fetched from a git
repository with all the templates it refers to.  This directory holds TLA+
models of these parts and of the server around them, the TLC runs that check
them and the TLAPS proofs about the fan-out of a stage, the order that gates
keep, the ordering verifier alone and with its engine, the audit files and the
server.

## 1. Inventory

| Part | State | Operations | Interacts with |
|---|---|---|---|
| Strategy resolution (`verifier/pipeline/graph.go`) | none (pure) | parse and enumerate `matrix`, `parallelism`, `repeat`, multi-deployment; name the instances | called by graph building |
| Pipeline graph (`graph.go`) | immutable after `BuildGraph` | `lookup`, `climb`, leaves, instance enumeration and pinning | built anew for every request |
| Step evaluation (`evaluate.go`) | none; callbacks for run-state and guards | `EvaluateStep`, `VerifyStepOrder` | calls the store and the condition checker while it runs |
| Condition checker (`examples/zts/ordering/conditionchecker.go`) | statuses per execution, under a mutex; overrides | `Eval`, `MarkStatus`, `MergeOverrides` | called back from evaluation |
| Ordering verifier and `Store` (`examples/zts/ordering`) | two sets of FQNs per execution, under a mutex | `Ran`, `MarkRan`, the handler | all request goroutines share them |
| Pipeline resolution (`verifier/resolver.go`), template resolver (`resolver/`), SCM (`resolver/scm/`) | a holder in the request context | fetch, expand templates, merge inputs | remote repositories; a failure lets the request go on without a pipeline |
| HTTP server, handlers, chain, dispatcher, tracker (`server.go`, `verify.go`, `verifier/`) | per request: validators run | read, verify, answer, shut down | timeouts of the server and of resolution differ |
| Middlewares (`middleware/`), audit files (`audit/file/`) | open file handles under a mutex; files by date and kind | append, reopen after failure, retention, list, paginate | written by every request, read by the admin endpoint |
| Task-type, account, deny-list, image verifiers; webhook example | none | predicates over a request; one outbound call | the chain |
| Metrics, request types, configuration, wiring | counters; none | -- | -- |

What is hard here, in the order in which it matters:

1. *Order from minimal gates.*  A step's gate names only its nearest
   predecessors.  That the whole order of the pipeline holds follows from
   chains of earlier grants, across skipped nodes, pruned nodes, OR joins
   (failure branches, rollback) and fan-outs shared with the predecessor.
2. *Concurrency.*  An evaluation reads the store once per ancestor, each read
   under its own lock, and records the step later; guards may turn in between.
3. *Retries and restarts.*  Answers get lost and calls repeat; the store lives
   in memory.
4. *Progress.*  A gate that names something that will never be recorded blocks
   a pipeline for good.
5. *Names.*  Runs are identified by generated names that may collide, be
   truncated, or be readable as runs of two nodes.
6. *Resolution.*  The pipeline is put together from many fetches, each at the
   head of a branch that others push to; inputs are merged into templates that
   refer to templates; anything may fail or take too long, and the request then
   goes on without a pipeline.
7. *The server.*  The timeouts of the server, of resolution, of webhooks and of
   the shutdown do not nest; a step is recorded in the middle of a chain that
   may still deny it; a panic skips the audit.
8. *The audit files* are written by concurrent requests, listed by the admin
   endpoint and removed by retention at the same time.

What makes each part correct: the graph and the evaluation enforce the order of
the document and nothing else; the store and the handler make concurrent
requests look like atomic checks; resolution yields the whole pipeline or none;
the server accounts for every record and answers a verdict only after it tried
to audit it, with a line in the process log when it could not; the audit files
keep what was written until it expires.

`PROJECT.json` lists the hazards at their lines with the properties that cover
them or the reason why none does.  Not listed there, as no run could meet them
without input the system does not get: an empty `parallel` block, and a
template whose specification is itself a reference (only its children are
resolved, so the inner reference would stay in the pipeline).

## 2. Modules

| Module | Models | Kind |
|---|---|---|
| `Strategy` | `rawStrategy.resolve` and what it calls, `multiDeploySpec`, `combineStageSpecs` | operators |
| `StageFanout` | `buildStage`'s use of them, over any blocks a document may have | one-step machine |
| `StageFanoutProofs` | theorems about it | proofs |
| `PipelineGraph` | `BuildGraph`, `climb`, leaves, instances, `lookup` | operators |
| `StepEvaluation` | `EvaluateStep` up to the run-state, `liveAncestorsOf`, `precedesVia` | operators |
| `OrderingGate` | the result: a gate, `ancestorViolations`, the verdict | operators |
| `OrderingGateProofs` | lemmas about gates that several proofs use | proofs |
| `GateOrder` | what the gates of a pipeline have to be, each for itself, to keep an order | operators |
| `ConditionChecker` | `Eval`, `statusGate`, `exprGate` | operators |
| `ResolvedPlan` | `VerifyStepOrder` applied to a document and its guards | operators |
| `OrderedGrants` | *abstract specification*: grants made by one atomic check | machine |
| `PipelineOrder` | *reference*: the order of a document, stated on its tree; what a graph of a document is | operators |
| `PipelineGraphProofs` | from the tree to the gate of every step, and from a document to its graph | proofs |
| `GrantOrder` | `OrderedGrants` over real gates, compared with `PipelineOrder` | machine |
| `GrantOrderProofs` | the gates of every document keep its order, and so do all grants | proofs |
| `OrderingVerifier` | `ordering.New`'s handler, `Store`, `MarkStatus`, restart | machine |
| `OrderingVerifierProofs` | theorems about it | proofs |
| `DelegateExecution` | the verifier composed with engine and delegate (external) | machine |
| `DelegateExecutionProofs` | theorems about the composition | proofs |
| `AuditFile` | `audit/file`: `Writer`, retention, `Reader` and a client that pages | machine |
| `AuditFileProofs` | theorems about it | proofs |
| `YamlNodes` | `resolver/yaml_helpers.go`: nodes of a document and operations on them | operators |
| `TemplateMerge` | `resolver/template.go`: references, specifications, the merge of inputs | operators |
| `TemplateStore` | `resolver/scm/template_store.go`, `resolver/config.go`: where a template's file is | operators |
| `StepLookup` | `verifier/pipeline/yaml.go`, `step_lookup.go`, and the FQNs the graph gives | operators |
| `TemplateResolver` | `verifier/resolver.go` and `resolver/resolver.go`: one request's resolution while branches move | machine |
| `VerifyServer` | `server.go`, handlers, chain, tracker, webhook, audit middleware, shutdown | machine |
| `VerifyServerProofs` | theorems about it | proofs |
| `MCPipelines`, `MC...` | the bounded instances for TLC | -- |

`Strategy <- PipelineGraph <- StepEvaluation <- ResolvedPlan <- {GrantOrder,
DelegateExecution}`; `OrderingGate` is what the concurrent machine knows of an
evaluation: `OrderingVerifier` takes the gate of each FQN as a constant
operator `GateOf`, and an instance plugs in `ResolvedPlan!PlanGate`, that is,
the real evaluation.  The proofs therefore hold for any evaluation whose result
has the type of a gate.

`OrderedGrants` is what holds the parts together.  `OrderingVerifier`, with its
separate reads and its record, implements it; `VerifyServer` takes one atomic
`Grant` of it as its ordering step and implements it too.  Both refinements are
proved, and so is that `DelegateExecution` implements `OrderingVerifier`, whose
theorems therefore hold for it too.  So the server's properties, which are
about many verifiers, timeouts and an audit, need not know how the ordering
verifier reads the store.

`TemplateResolver` extends `TemplateStore` and `StepLookup`; what it yields, a
pipeline or none and another one from request to request, is `Versions` and
`PassUnordered` of the ordering verifier, and `FailToResolve` of the server.
`TemplateMerge`, `StepLookup` and `TemplateResolver` are recursive over
documents and only used by TLC.

### How code and model correspond

*Documents and names.*  A document maps tree paths to nodes; `rollbackSteps` is
child 0 of its stage.  An FQN is the sequence of its identifiers, without the
fixed keywords; an identifier or a suffix is the sequence of its `_`-separated
tokens, so that `build_0` and `build` + `_0` are the same name, as in the code.
Loops over parent links (`climb`, `terminalLeaves`, `instanceFQNs`) become sets
of paths.

*Gates.*  `AncestorGate` yields the violations that do not depend on the
run-state, the FQNs the run-state is asked about (`needs`), and the join.
`RunViolations` is `ancestorViolations`.  `FailOpen` is the set of kinds whose
policy accepts a violation; the example verifier accepts `pipelineRollback`
only.

*The handler.*  `Arrive` is the call up to the early returns (`PassUnordered`
for requests with no step, no execution or no resolved pipeline);
`ReadOwnGuards`, `WalkAncestors`, `ReadRan` (one per needed FQN, in any order:
a superset of the code's order), then `Allow` (`MarkRan` of both views under
one lock) or `Deny`; `Finish` writes the response.  Each is one critical
section or one group of reads.  `MarkStatus` may happen between any two of
them.  `Restart` empties store and statuses and drops the calls in flight.
A plan of an execution may have several `Versions`: each request is resolved
anew, and its gate is one of whichever version it got.

*Resolution.*  A YAML node is a record of its kind, value, keys and children.
The Go code walks the document and fetches as it goes; it keeps nothing but the
document and the depth, so `ResolvePipeline` repeats the walk from the start
over the list of what has been fetched, and ends either done, failed, or with
the reference to fetch next.  `Fetch` reads the head of the branch at that
moment, `Push` moves the head, `Serve` calls the next verifier.  `GiveUp` is
the deadline, a client that went away or a repository that does not answer, at
any moment.  An entity keeps its `template` field in the resolved document, as
in the code: the references that are found there afterwards are what `Expanded`
compares with the fetches.  The two readings in `StepLookup` are the untyped
walk over the YAML (`walkToNode`) and the segments that `buildStages`,
`buildSteps` and `buildStepGroup` put together.

*The server.* One request is read, resolved, verified, audited and answered.
Requests are numbered as they are accepted (`RequestsAssumption`), so that TLC
sees each set of requests in one order only.  `run` is the tracker.  `Audit`
writes the event or fails to: `WriteEvent` only logs a line that neither the
file nor the reopened one took, and the request is answered all the same;
`unwritten` is what the process log then says.  The chain is `BuildChain`'s:
global, by task type, custom; a policy (a verifier that looks only at the
request) objects to given contents, a webhook answers in each way its client
distinguishes, ordering is `OrderStep`.  `Panic` is a verifier that panics:
`Recoverer` answers and neither tracker nor audit hears of it.  Time is counted
in units of 10 s: `Tick` advances the age of each request (from its acceptance,
for the read and write deadlines of `http.Server`), the time it has waited for
the repository or a webhook, and the shutdown's own clock; it does not pass a
deadline before what the deadline ends has ended.  A `Reply` past the write
deadline is lost.  `Signal` stops accepting, `Drained`, `CloseAudit` are the
orderly exit, `DrainTimeout` is `log.Fatalf` when `Shutdown` gives up, `Die` a
kill at any moment, `Restart` a new process with an empty store.

*Audit files.*  A file is the sequence of what single writes left in it: a
whole line, some of a line, or all but its line feed (`Pieces`); the scanner
reads a piece that has its line to itself.  `WriteMetadata` is `writeMetadata`
under the writer's lock, with every way in which opening and the two writes can
fail; retention between an open and a write, which the lock does not exclude,
has the effect of one before or after both.  `WritePayload`, `RemoveDay` (one
directory), `ScanDay` (one file) and `AnswerPage` are steps of their own, as
nothing covers more.  A handle whose directory was removed is `stale`: writes
to it succeed and are seen by nobody.  `Restart` is a crash at any point of a
write, or `Close` and the end of the process.  Retention goes through the
expired days in any order; the code goes through the directories it finds,
oldest first.  `due` is kept for the property: what the client was promised by
the list it began with.

*What is abstracted.*  The guards of one evaluation are read in two groups, the
step's own and those of its ancestors, each group at one moment.  The code
reads the guards of the second group one by one; a status marked within the
group is seen by all or none of it in the model.  `Store.Ran` never fails in
the reference verifier, so `unknown` is empty there; `OrderedGrants` allows
failures.  Overrides and the evaluator do not change after start-up.  The
interleaved names of a stage with both a strategy and a multi-deployment are
not enumerated by the code and not modelled.  A matrix that repeats a key is not
modelled: the code keeps both axes, but such a document is not YAML, and the
engine does not run it.  Documents have no empty
`parallel` block.  In `DelegateExecution` the pipeline of an execution stays the
same.  Scalars and keys are words; an identifier with its scope is the sequence
of the words between the dots, which is what `parseIdentifierScope` and
`SplitN` look at.  YAML tags, comments, styles and anchors are left out.  In
`VerifyServer` writing an audit event takes one step and succeeds or fails (what
a failed write leaves in the file is `AuditFile`'s), and what a policy compares
is left out.  Names in paths are words: `/` and `..`, which `path.Join` would
clean, do not occur in them.  `AuditFile` keeps a file with a line too long for
the scanner out of its properties: the list skips that day.  A line that lost
its line feed can become too long together with the next one; the model has
the merged line, as one that cannot be parsed, and not its length.

Operators commented `Fault:` are mutated forms of the definition that follows
them.  Nothing uses them; they exist to show that the property they are paired
with in `PROJECT.json` can fail.

## 3. What is checked

| Run | Instance | Shows |
|---|---|---|
| `StageFanout_names` | matrices of up to three axes, values that sanitize alike, all exclude kinds, all repeat and parallelism shapes, deployments over two services and two environments; both naming options; a cap of 3 tokens | every fan-out is known, skipped or unknown for a reason; an enumerated one has one name per run; `excluded` means that no run is left and nothing else; naming does not decide skipping |
| `GrantOrder_order` | 9 shapes, 1638 documents; every unit with each of 7 decorations (false, undecided, failure and always guards; literal, runtime and excluded fan-outs), every pair of units with 3 of them; all orders of grants | each gate does its part for the order (`GatesKeepOrder`); the gates enforce the whole order; rollback and failure steps follow something; no refusal without a reason |
| `OrderingVerifier_grants` | 1 execution, 2 requests, 5 pipelines (fan-out with failure branch; skipped step with an always-step; pipeline rollback; one that `BuildGraph` refuses; one that gets a fan-out while it runs), statuses marked, restarts, unordered requests, an unknown FQN; enforcing and observing | types; reads stay true; both store views agree; retries are allowed; refinement of `OrderedGrants` |
| `DelegateExecution_delegate` | 1 execution, 2 requests, 4 pipelines (fan-out and fork; fork in a fanned-out group with a skipped branch; rollback and second stage; a rollback whose entry is skipped), lost answers, up to two runs that pass unrecorded; an honest engine and one that asks for anything | runs are started in order; an honest engine is denied only for a run that escaped the record or behind a skipped rollback entry; otherwise every pipeline ends |
| `AuditFile_log` | 2 events on disk (one filtered out), 2 new ones (one with a line too long for the scanner), 2 days, retention of 1 day, 1 incomplete line on disk at a time, pages of 1 | what was written stays listed until its day expires; an incomplete line costs at most one written event; payloads are kept as long; paging misses nothing unless the list shrinks |
| `TemplateResolver_expand` | 20 pipelines (templates of pipeline, stage, group and step, in both syntaxes; inputs for values, for nested references, for new steps, for steps in parallel blocks; chains of templates of and beyond the limit, a template that contains itself; missing, broken and unmapped templates) over 2 commits; requests without a repository | a served pipeline is expanded completely, with the inputs in place and no step of a template lost; the limit is exact and resolution ends; both readings of FQNs agree; templates of different owners never share a file |
| `VerifyServer_requests` | 2 requests, each with one of 4 contents (the two steps of a pipeline, one of them refused by a policy, an output), 2 configurations of the chain (ordering first and closed webhook, ordering last and open webhook), every timeout, audit writes that fail, panics, shutdown, crash, restart | every record is accounted for, every delivered verdict audited or logged as one that could not be, an unordered pass of a late resolution never delivered; with ordering last allowed steps follow steps that were not denied; an orderly exit leaves nothing behind; every request ends |
| `GrantOrder_skippedStage`, `GrantOrder_laterRollback`, `GrantOrder_ambiguous`, `TemplateResolver_parallelInputs`, `VerifyServer_deniedAncestor` | minimal instances | disagreements between code and comments, section 5 |

*Bounds.*  Two requests are enough for every interaction: the only shared
state is the store and the statuses, a request's reads interleave with any
number of writes by the other one, and the proofs (section 4) cover any number
of requests and of executions (the runs have one execution).  The shapes cover
each way `climb` can leave a node (sibling, parallel wrapper, first in a group,
first in a stage, rollback boundary), followed by each way `terminalLeaves` can
descend, two levels deep; two decorated units give a skipped or fanned-out node
between two others, which is where step-over, pruning and pinning meet.
`SuffixCap` is 3 tokens in place of 127 characters so that names are truncated;
`IndexTokens` lists the decimal names of as many positions as an instance has.
For the audit files, one incomplete line is enough to meet each successor it
can have (the retry, another request, the first write after a crash), and two
days are enough for a write to the earlier one after midnight, during retention
and between two pages.
`MaxTemplateDepth` is 3 in place of 10, so that chains of the allowed length
and one longer are there; a resolution takes at most `MaxFetches` = 5 fetches,
and `LimitIsExact` fails if one needs more.  One push is enough to come between
any two fetches of a request; the templates that differ between the commits are
one that is used twice, one that grows, and one that is broken at first.
In `VerifyServer` a request is posted once (a repeated call is another request,
and every other request may carry the same step); two requests are a step and
the one it follows, or two calls for the same.  The 5 s of a webhook count as
one unit.
`GrantOrder` names four conditions that its theorems use, and TLC evaluates
them in its runs.  `SettledAssumption`: no status is marked.
`PlansAssumption`: a pipeline whose steps are evaluated has an ordering graph
(`OrderingGraph`), its guards are decided or known to be undecided, and an FQN
that is asked for is a run of the step it is looked up as.
`DocumentsAssumption`: each instance is a `Document`, what the decoder leaves of
a pipeline.  `NamesAssumption`: no two runs of one share a name
(`DistinctNames`); `GrantOrder_ambiguous` is about one where they do.
Symmetry over the requests is used in `OrderingVerifier_grants`, which checks
safety.  Deadlock is off where the machine stops by design (every step granted,
an execution over, every event written, a request served, all requests posted).
`MaxUnrecorded` is 2 so that a failure branch or a rollback can lose all it
could follow: with one escaped run some other one was recorded.

*Fairness.*  `FairDSpec` assumes that a request goroutine that can move does and
that its call ends, answered or lost (`WF` of `Verify` and `Deliver` per
request); that of a call repeated for ever some answer that lets the run start
gets through (`SF` of `Deliver` for answers other than a denial; the competitor
is `LoseAnswer`); and, per execution, that the engine hands out the runs that
are due and a started run ends (`WF` of `Dispatch` and `Complete`).  `Dispatch`
is fair over the runs that are not behind a skipped rollback entry: the engine
repeats a denied call, but while one run is denied it goes on with the others.
The first is the Go scheduler (no handler waits for another one: every lock is
released before the next step); the others are the contract of the engine and
the network.  `Restart` and `MarkStatus` are not steps of `DelegateExecution`: a
restart forgets the grants and a pipeline then stays denied, which is the
fail-closed policy of the example.  A run that passes unrecorded has the same
effect on its followers; `PipelineEnds` and `HonestNeverDenied` name that
exception, and the one of what comes after a skipped rollback entry
(disagreement 2).

`FairSpec` of `VerifyServer` assumes for each request that its goroutine moves
when it has something to compute or to write, and, where it waits for the
client, the repository or a webhook, only that the wait ends once its deadline
is over (`WF` of `Verify`, `Finish`, `Expired /\ Wait`): that is what `net/http`
and `context.WithTimeout` do.  Time passes or the process ends (`WF` of
`Tick \/ Exit`).  Nothing is assumed of the repository, the webhooks, the
client, signals or crashes.

## 4. What is proved

### The ordering verifier

`OrderingVerifierProofs`, for every value of the constants, from the named
assumptions of `OrderingVerifier`: the FQNs asked for are names, `GateOf`
returns gates, the node an FQN names in a version does not depend on guards,
executions and names exist, a refusal is a denial or a pass, the flags are
Booleans.  TLC evaluates these assumptions on the
real gates in every run of `MCOrderingVerifier`.

* `TypeCorrect`, `ReadsStayTrue`: from the inductive invariant
  `Inv == TypeOK /\ CallsConsistent`.  A request between two reads relies on
  what it has read; `CallConsistent` says that this is still so, and it is
  preserved because grants are only added (`Restart` also drops the requests).
* `Refinement`: `Spec => ImplementsGrants`.  `Allow` maps to `Grant`, `Restart`
  to `Forget`, everything else to a stutter.  At `Allow` the request has read
  a subset of what is recorded; `AllowedMonotone` (a gate satisfied by fewer
  grants is satisfied by more) closes the gap between the reads and the record.
  `CallsConsistent` is what makes the subset argument inductive.
* `StoreViews`: `Folded` says that the logical view is the fold of the instance
  view.  `ViewsAgree` evaluates the fold under the current statuses, so
  `FoldAssumption` is needed to carry it across `MarkStatus`.
* `RetrySafe`: strengthened by `GrantHolds` (while no status was marked, each
  recorded step's needs are recorded in a way that satisfies its gate) and
  `RetryHolds` (a request that arrived for a recorded step has, for each need,
  either not read it yet or found what its gate relies on).  With a status
  marked the guard of a recorded step may turn and its repetition be denied,
  which the property excludes by its condition; so does a pipeline that resolves
  to another version.

### The server

`VerifyServerProofs`, for any number of requests, contents, configurations,
pipelines and verifiers, from the assumptions of `VerifyServer` (policies,
webhooks and ordering are distinct, contents and chains are made of them) and
of `OrderedGrants`.

The inductive invariant is `Inv == TypeOK /\ (\A r : Sound(config, req[r]) /\
Logged(events, unwritten, r, req[r])) /\ Accounted /\ Stopped`:

* `Sound` is about one request: what its tracker holds is a prefix of its
  chain (all of it when it is allowed), none of the policies in it objected
  unless it is denied, and a request whose resolution timed out is as old as
  the write deadline.  The last needs the relation between the two clocks: the
  age of a request is never less than the time it has waited, up to the write
  deadline.  This is what makes `LateIsLost` more than a guard: age and wait
  are counted from different moments.
* `Logged`: a verdict that is being answered or was answered has its event, or
  the process log has a line that it could not be written.
* `Accounted`: every recorded step has a request that passed ordering for it.
  It is kept across `Restart` because requests and events outlive the store.
* `Stopped`: a stopped server has no active request and holds no file.

`EveryGrantAccounted` names what may take the event of a recorded step, and the
list is complete: the process dies under the request, a verifier that may panic
comes after ordering (`FragileAfterOrdering`) and does, or the line cannot be
written.  In a chain with nothing fragile after ordering a panic takes none.
`ChainCovers` gives what `DeliveredAudited` needs of the chain: its elements
are those of its three parts.  `StaysOrdered` says that no step of a request
takes back that it passed ordering.  `TickSound` is the only step that moves
all requests.  `ServerGrants` is the refinement: `OrderStep` maps to `Grant`,
`Restart` to `Forget`, every other step to a stutter.

With ordering last in the chain, `AllowedAfterAncestors` (`AncestorsRan`) goes
from the records to the requests: `FoldedFrom` (every logical record is the
fold of a recorded run), `Behind` (a request past ordering has, for every
record its gate rests on, a request that passed ordering for it) and
`Accounted` are kept together, through restarts, because a request that passed
stays so.  As ordering is last, a request that passed ordering passed the chain.

### The names of a fan-out

`StageFanoutProofs`, for every strategy and deployment block (`BlocksAssumption`
says what YAML decoding can yield), any cap and any number of positions.  The
invariant `Built` only says which blocks the stage has; the work is in the
lemmas about the operators:

* `FlattenParts`: the concatenation of a sequence of sequences is a sequence of
  their elements, as long as there are places in its parts.  It is proved for
  any length by taking the least counterexample (`Least`), which needs no
  induction theorem.  `RowsNamed` and `PairsCounted` follow: a deployment has as
  many pairs of a service and a row as `DeploymentCount` says.
* `KeptAreCounted`: looking up the axis of a name, as the code does, and asking
  every axis, as `RunCount` does, drop the same combinations.
* `IndexNames`, `RangeNames`: index names differ for different combinations.
  Value names and deployment names need not: there the code answers "custom
  names" or "runtime input" when two agree (`ValueOutcome`,
  `DeploymentOutcome`).  `OneNameEach` turns either into a count.
* `SortedAxisIsThere`: the k-th axis in alphabetical order exists, as ranks are
  an injection of the axes into as many numbers.

From these, `FanoutTyped`, `OneNameForEachRun`, `SkippedWhenEmpty` and
`NamingOnlyNames` for every stage.

### The order of a document

A gate names the nearest predecessors of a step only.  `OrderKept` says that
this is enough: in every pipeline every chain of grants keeps the whole order of
the document.  The proof goes from the tree to one gate and from one gate to all
chains of grants.  `GateOrder` is the seam: `KeepsOrder` says of each gate alone
that, whatever records suffice for it, each run due before it is vouched for by
one of them, which only that run or a run that comes after it leaves;
`FollowsSome` says the same of the units a rollback or failure step may follow.

*From a document to a graph.*  `GraphOfDocument`: BuildGraph makes of every
`Document` without a duplicate FQN an `OrderingGraph`.  FQNs nest as the nodes
do, which needs a proof about the concatenation of segments of any number
(`FlattenConcatenates`).  `PlanOfDocument`: with any statuses, what
`PlansAssumption` asks of the graph, the guards and the gates of a pipeline
follows from the document.  The rest of `PlansAssumption`, that an FQN is a run of
the step `lookup` finds for it, TLC checks on the instances.

*From the tree to a gate* (`PipelineGraphProofs`), for trees of any size:

* `Before` is a strict order of the units (`BeforeTransitive`,
  `BeforeIrreflexive`); `BeforeNested` says in which container.
* `ClimbImmediate`: `climb` and `terminalLeaves` together find exactly the units
  immediately before a step, where the step is not the entry of a rollback;
  there they find the forward units of the stage (`ClimbAtEntry`).
* `VisitedPrecursors`: the walk that steps over what never runs meets only units
  the step may follow.  `Covering`: a unit due before the step is one that the
  gate names or is due before one of those, so stepping over and dropping
  what another predecessor implies lose nothing.  `LiveNonempty`: the walk ends
  on something that runs when anything it may follow does.  The walk is a
  function of the number of its rounds (`Reached`); `ReachedWithin` and
  `ReachedClosed` are its induction principle, by a least counterexample.
* `WaitedFor`: of a predecessor whose runs are known the gate of a run asks for
  exactly the runs it comes after, those in the same branch of a fan-out that
  the two share.  `RunCovered`: a run due before it that belongs to an earlier
  unit is due before one of these, so the order of runs composes as that of the
  units does.
* `GateCovers`, `GateFollows`, `GateRefuses` put these together for one gate, for
  what it cannot be allowed without; `GateOpens`, `GateAwaits` and `GateAwaitsAny`
  are the other direction.

*From single gates to all grants* (`GrantOrderProofs`): `GatesKeep` is
`GatesKeepOrder` for every pipeline.  `OrderKept` and `FollowsSomething` follow by
the invariant `OrderInv`: each granted run folds to a record, all due before it
is granted, each record was left by a grant.  They hold for any number of
executions, failed reads of the store and forgotten run-states.
`DeniedForAReason` (`NoFalseDenial`) is the converse for steps outside
rollbacks, from `GateOpens`: the order is not kept by denying too much.

*Hypotheses.*  `DefaultPolicies`: no policy accepts a violation, but for
`pipelineRollback`, as in the example verifier; one that accepts, say, an
undecided guard gives up the order on purpose.  `NamesDistinct`: no two runs
share a name.  YAML does not exclude that they do, and the code then decides by
segments (disagreement 3).  `OrderFromGates` and `FollowsFromGates` need
neither: with any policies and names, gates that keep the order are enough.
`DeniedForAReason` has no hypothesis besides the named assumptions.

*What the attempt showed.*  `SomethingToFollow` at first said that the entry of
a rollback follows a forward step of its stage or a unit before the rollback.
The proof does not go through for a stage whose first step is skipped, and the
shape `laterStage`, added for it, gives the counterexample: the walk leaves the
stage, and a step of an earlier stage will do.  The property now says what holds
(`Precursors`), and disagreement 2 has the rest.

### The verifier with its engine

* `DelegateExecutionProofs`: `Delegated` (every step of the composition is a
  step of the verifier or none) brings in the theorems of
  `OrderingVerifierProofs`.  `StartsInOrder` rests on `RecordedInOrder` (the
  same argument, with the reads and the record apart) and on `Begun` (what was
  started is recorded or escaped the record).
* `HonestEngine`: a call of an honest engine finds what its gate needs.  That
  the gate of a due run opens is proved of the document: `StartAdmitted` says
  that the runs an honest engine waits for let a run through.  It rests on
  `GateAwaits` (what the gate of a run asks for that no OR joins are runs due
  before it, of units before it that run) and `GateAwaitsAny` (the OR of a
  rollback entry or a failure step asks for any forward run of its stage, or
  for one before it), both in `PipelineGraphProofs`.  `CallsFind` then follows
  the call from its arrival through its reads: while none of the runs it
  follows escaped, everything it has read and everything still to be read is
  recorded.  `AdmittedByRecords` says that more records never turn an admitted
  step away.

*Hypotheses.*  `DocumentsAssumption`: the pipelines are graphs of documents that
`BuildGraph` accepts (`OrderingGraph`), the checker decides every guard, and a
name that is asked for is a run of its step.  `PolicyAssumption`: where a
pipeline has a rollback of the whole, the policies accept it, as the example
verifier does; such a step is denied otherwise, whatever ran.  Neither says
anything of a gate.  `StartsInOrder` has `OrderAssumption`, the order of single
gates, which is what `PipelineOrdered` proves of the documents that `GatesKeep`
is about.  TLC evaluates the three in `DelegateExecution_delegate`.

*What the theorem does not say.*  A step after a rollback entry that is skipped
may be denied to an honest engine: that is disagreement 2 of section 5.
`HonestNeverDenied` therefore leaves out `AfterSkippedEntry`, the runs of steps
with such an entry before them, and nothing else; the pipeline `skipped` of the
run has one.  `Followed` has the runs due before a step and, for one that needs
only some run to have come before it (failure branches, rollbacks), those of
which any will do: it may be denied because that one escaped.

### The audit files

`AuditFileProofs`, for any number of events, days, writers' failures, crashes,
page sizes and incomplete lines.

* `TypeCorrect` and the invariant `LogInv`: no event is of a day that has not
  begun (`EventsInTime`), retention removes only what expired, also from
  under an open handle (`OnlyExpiredGoes`), a line is in the file of its event's
  day and an incomplete one comes before the whole one of the same event
  (`Lines`), and what was written with success is in its file while the day is
  kept (`Written`).
* `NothingIsLost`: a whole line that cannot be read follows an incomplete one on
  the same line of the file, and different events follow different ones
  (`LostToTornLines`, an injection), so there are at most as many lost events as
  incomplete lines.
* `NothingLeavesTheList` (an action property): `StepMoves` says what any step
  can do to a file, keep it, extend it or remove it with its day;
  `WholeLineStays` says that a readable line survives an extension.
* `EveryPageIsSeen`: what is due is `Ahead` of the walk, in a file that is not
  scanned yet or among the matches behind the offset, where the number of lines
  listed before it (`Before`) bounds how far the offset may have come.
  `Rank` and `Nth` relate the place of a line in a file to its place in the
  answer, for any file.

### Model-checked only

* Liveness (`PipelineEnds`, `RequestsEnd`), which is out of the prover's reach.
* `TemplateResolver`, `TemplateStore` and `StepLookup`, whose definitions are
  recursive over documents: the prover takes no `RECURSIVE` operator, and what
  resolution computes for every document needs induction over data.
* That an FQN is a run of the step it is looked up as (in `PlansAssumption`):
  `lookup` guesses by segments where no node enumerates the name, which
  depends on the instance.
* The disagreements of section 5, which are counterexamples.

## 5. Disagreements between the code and its comments

1. `climb` (`graph.go`, above the function) reports the guard of a container for its
   first step only, because "a preceding sibling would otherwise already imply
   those guards held".  If the guard does not hold, the first step is stepped
   over and the second one is allowed.  `GrantOrder_skippedStage` shows it of a
   stage; a step group is a container like it.
2. Rollback steps are "never entangled with forward steps", and "only the entry
   gates on the forward run"; if the entry is skipped, the next rollback step
   waits for all forward steps, including those that never run after a failure;
   and if a forward step is skipped, the entry is also satisfied by a step before
   the stage (`GrantOrder_laterRollback`).
3. An instance name that two nodes enumerate "is dropped rather than guessed";
   `lookup` then guesses it by its segments (`GrantOrder_ambiguous`).
4. Template inputs are "deep-merged"; a list of inputs for a step inside a
   `parallel` block replaces the template's list, and its other steps disappear
   (`TemplateResolver_parallelInputs`).
5. Ordering "checks that its ancestors have already run"; a step is recorded
   when ordering lets it pass, and a verifier later in the chain may deny it,
   after which its followers are allowed (`VerifyServer_deniedAncestor`).

## 6. Not modelled, and what could follow

Not modelled: flags, configuration files and the registry (start-up code);
metrics and logging (nothing reads them); the request types and context values
(data); what the task-type, account, deny-list and image verifiers compare
(predicates over one request, within the reach of unit tests); the go-scm
clients (I/O); displays and accessors of the graph and of the YAML; writing the
resolved pipeline to a file for inspection.  Without a default provider the
loader of a pipeline is whichever a map iteration yields; `LoadPipeline` has
the choice, but the instance names a default as the reference configuration
does.

What could follow:

1. A proof of `PlansAssumption`'s part about `lookup`.
2. The composition of `DelegateExecution` with `VerifyServer`: an engine and a
   delegate that retry through timeouts and restarts.
3. `Retry` and abort of runs by the engine, which the ordering verifier cannot
   tell from first calls.
