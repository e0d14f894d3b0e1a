------------------------------ MODULE Strategy ------------------------------
(***************************************************************************)
(* Fan-out of one `strategy` block: which runtime instances a step, step   *)
(* group or stage expands into, and how the engine names them              *)
(* (verifier/pipeline/graph.go, rawStrategy.resolve and what it calls).    *)
(*                                                                         *)
(* An instance suffix "_0_1" or "_us_free" is the sequence of its          *)
(* "_"-separated tokens, <<"0", "1">> or <<"us", "free">>.  The suffixes   *)
(* of a strategy are a set: nothing in the ordering check depends on the   *)
(* order in which the engine starts the instances.                         *)
(*                                                                         *)
(* A raw axis value (or deployment ref) is a record: `raw` is the text,    *)
(* `tokens` what sanitizing it leaves, so two values may differ in `raw`   *)
(* and agree in `tokens`.  An axis is [name, vals, scalar]; `name` is the  *)
(* alphabetical rank of the axis key.                                      *)
(***************************************************************************)
EXTENDS Integers, Sequences, FiniteSets, SequencesExt

CONSTANTS SuffixCap,    \* tokens that fit in the engine's 127 characters
          IndexTokens   \* strconv.Itoa of the positions in use, from 0 on

ASSUME SuffixCapAssumption == SuffixCap \in Nat \ {0}
ASSUME IndexAssumption ==
  /\ IndexTokens \in Seq(STRING)
  /\ \A i, j \in DOMAIN IndexTokens : IndexTokens[i] = IndexTokens[j] => i = j

-----------------------------------------------------------------------------
(* Resolved fan-outs: the strategySpec struct.                             *)

FanoutStatuses == {"none", "runtime_input", "custom_names"}

Fanout(known, suffixes, status, excluded, error) ==
  [present |-> TRUE, known |-> known, suffixes |-> suffixes,
   status |-> status, excluded |-> excluded, error |-> error]

NoFanout == [Fanout(FALSE, {}, "none", FALSE, "none") EXCEPT !.present = FALSE]
Instances(S)  == Fanout(TRUE, S, "none", FALSE, "none")
NotEnumerable(status) == Fanout(FALSE, {}, status, FALSE, "none")
Excluded      == Fanout(FALSE, {}, "none", TRUE, "none")
Failed(error) == Fanout(FALSE, {}, "none", FALSE, error)

\* Fault: no run left is an enumeration like any other.
EnumeratedNeverSkipped(S) == Instances(S)

Enumerated(S) == IF S = {} THEN Excluded ELSE Instances(S)

-----------------------------------------------------------------------------
(* Suffixes.                                                               *)

RangeSuffixes(n) == {<<IndexTokens[i]>> : i \in 1..n}

Truncate(suffix) == SubSeq(suffix, 1, IF Len(suffix) > SuffixCap THEN SuffixCap ELSE Len(suffix))

\* The combinations of a matrix: one value position per axis.
Combos(axes) ==
  LET widest == UNION {1..Len(axes[a].vals) : a \in DOMAIN axes}
  IN  {c \in [DOMAIN axes -> widest] : \A a \in DOMAIN axes : c[a] <= Len(axes[a].vals)}

\* An exclude entry maps axis names to values; it drops a combination when
\* every axis it names has that value (an axis the matrix lacks reads as "").
ComboValue(axes, c, name) ==
  IF \E a \in DOMAIN axes : axes[a].name = name
  THEN axes[CHOOSE a \in DOMAIN axes : axes[a].name = name].vals[
         c[CHOOSE a \in DOMAIN axes : axes[a].name = name]].raw
  ELSE ""

MatchesAnyExclude(axes, c, excludes) ==
  \E ex \in excludes : \A name \in DOMAIN ex : ComboValue(axes, c, name) = ex[name]

MatrixCombos(axes, excludes) ==
  {c \in Combos(axes) : ~ MatchesAnyExclude(axes, c, excludes)}

IndexName(axes, c) == [a \in DOMAIN axes |-> IndexTokens[c[a]]]

\* Value naming goes through the axes in alphabetical order: the k-th has
\* k - 1 before it.
SortedAxes(axes) ==
  [k \in DOMAIN axes |-> CHOOSE a \in DOMAIN axes :
     Cardinality({b \in DOMAIN axes : axes[b].name < axes[a].name}) = k - 1]

ValueName(axes, c) ==
  LET sorted == SortedAxes(axes)
  IN  Truncate(FlattenSeq([k \in DOMAIN axes |-> axes[sorted[k]].vals[c[sorted[k]]].tokens]))

\* Fault: two combinations may share a name.
MatrixValueSuffixesMerged(axes, excludes) ==
  Enumerated({ValueName(axes, c) : c \in MatrixCombos(axes, excludes)})

\* Fault: value naming forgets the excludes.
MatrixValueSuffixesUnfiltered(axes, excludes) ==
  IF \E c, d \in Combos(axes) : c # d /\ ValueName(axes, c) = ValueName(axes, d)
  THEN NotEnumerable("custom_names")
  ELSE Enumerated({ValueName(axes, c) : c \in Combos(axes)})

MatrixValueSuffixes(axes, excludes) ==
  LET combos == MatrixCombos(axes, excludes)
  IN  IF \E c, d \in combos : c # d /\ ValueName(axes, c) = ValueName(axes, d)
      THEN NotEnumerable("custom_names")
      ELSE Enumerated({ValueName(axes, c) : c \in combos})

-----------------------------------------------------------------------------
(* The shapes a `strategy` key may have.                                   *)

MatrixSuffixes(m, naming) ==
  CASE "runtimeInput" \in m.flags -> NotEnumerable("runtime_input")
    [] "runtimeInput" \notin m.flags /\ "badShape" \in m.flags -> Failed("invalid")
    [] m.flags = {"nodeName"} -> NotEnumerable("custom_names")
    [] m.flags = {} /\ m.axes = <<>> -> Failed("invalid")
    [] m.flags = {} /\ m.axes # <<>> /\ naming = "index" /\ m.excludes = {} ->
         Enumerated({IndexName(m.axes, c) : c \in Combos(m.axes)})
    [] OTHER ->
         IF \E a \in DOMAIN m.axes : ~ m.axes[a].scalar
         THEN NotEnumerable("custom_names")
         ELSE IF naming = "value"
         THEN MatrixValueSuffixes(m.axes, m.excludes)
         ELSE Enumerated({IndexName(m.axes, c) : c \in MatrixCombos(m.axes, m.excludes)})

\* count = 0 stands for everything parseParallelism refuses.
ParallelismSuffixes(p) ==
  IF p.count > 0 THEN Instances(RangeSuffixes(p.count)) ELSE NotEnumerable("runtime_input")

\* Fault: a count that does not parse is a count of zero.
RepeatSuffixesZero(r) ==
  CASE "nodeName" \in r.flags -> NotEnumerable("custom_names")
    [] r.flags = {"ranged"} -> NotEnumerable("runtime_input")
    [] r.flags = {} /\ r.times > 0 -> Instances(RangeSuffixes(r.times))
    [] r.flags = {} /\ r.times = -1 /\ r.items >= 0 -> Enumerated(RangeSuffixes(r.items))
    [] OTHER -> Excluded

\* times: -1 when the key is absent, 0 when it is not a positive integer;
\* items: -1 when there is no literal sequence.
RepeatSuffixes(r) ==
  CASE "nodeName" \in r.flags -> NotEnumerable("custom_names")
    [] r.flags = {"ranged"} -> NotEnumerable("runtime_input")
    [] r.flags = {} /\ r.times > 0 -> Instances(RangeSuffixes(r.times))
    [] r.flags = {} /\ r.times = -1 /\ r.items >= 0 -> Enumerated(RangeSuffixes(r.items))
    [] OTHER -> NotEnumerable("runtime_input")

\* rawStrategy.resolve, with stratSpec's nil for a unit without a strategy.
Resolve(s, naming) ==
  CASE s.type = "none"         -> NoFanout
    [] s.type = "matrix"       -> MatrixSuffixes(s, naming)
    [] s.type = "parallelism"  -> ParallelismSuffixes(s)
    [] s.type = "repeat"       -> RepeatSuffixes(s)
    [] s.type = "runtimeInput" -> NotEnumerable("runtime_input")
    [] s.type = "unrecognized" -> Failed("unsupported")

-----------------------------------------------------------------------------
(* Multi-service / environment / infrastructure deployment of a stage.     *)
(* deploy is [envGroup, services, envs]; a ref is a raw value, runtime     *)
(* refs have raw = "<+input>"; an environment is                           *)
(* [ref, infraRuntime, gitOps, infras].                                    *)

IsLiteralRef(v) == v.raw \notin {"", "<+input>"}

EnvIsRuntime(env) ==
  \/ ~ IsLiteralRef(env.ref) \/ env.gitOps \/ env.infraRuntime
  \/ \E i \in DOMAIN env.infras : ~ IsLiteralRef(env.infras[i])

\* The tokens of one (environment, infrastructure) row: the sorted keys put
\* environmentRef before infraIdentifier.
EnvRows(env) ==
  IF env.infras = <<>> THEN <<env.ref.tokens>>
  ELSE [i \in DOMAIN env.infras |-> env.ref.tokens \o env.infras[i].tokens]

MultiDeploySpec(d) ==
  LET rows  == IF d.envs = <<>> THEN <<<<>>>>
               ELSE FlattenSeq([i \in DOMAIN d.envs |-> EnvRows(d.envs[i])])
      svcs  == IF d.services = <<>> THEN <<<<>>>>
               ELSE [i \in DOMAIN d.services |-> d.services[i].tokens]
      pairs == (DOMAIN svcs) \X (DOMAIN rows)
      name(p) == Truncate(rows[p[2]] \o svcs[p[1]])
  IN  CASE d.envGroup -> NotEnumerable("runtime_input")
        [] ~ d.envGroup /\ d.services = <<>> /\ d.envs = <<>> -> NoFanout
        [] OTHER ->
             IF \/ \E i \in DOMAIN d.services : ~ IsLiteralRef(d.services[i])
                \/ \E i \in DOMAIN d.envs : EnvIsRuntime(d.envs[i])
                \/ \E p, q \in pairs : p # q /\ name(p) = name(q)
             THEN NotEnumerable("runtime_input")
             ELSE Instances({name(p) : p \in pairs})

\* Two fan-outs on one stage: the interleaved names are not modelled.
CombineStageSpecs(strategy, deploy) ==
  CASE ~ strategy.present -> deploy
    [] strategy.present /\ ~ deploy.present -> strategy
    [] OTHER ->
         [NotEnumerable("runtime_input") EXCEPT !.error = strategy.error]
=============================================================================
