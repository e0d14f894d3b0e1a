---------------------------- MODULE MCGrantOrder ----------------------------
(***************************************************************************)
(* GrantOrder over every small pipeline: a handful of tree shapes, one or  *)
(* two of whose units carry a decoration (a guard or a strategy).          *)
(***************************************************************************)
EXTENDS GrantOrder, MCPipelines

CONSTANTS ShapeNames,           \* the shapes of this run
          Kinds,                \* the decorations that one unit carries
          Pairs                 \* and those that two units carry together

\* No status is marked in these runs.
MCStatusMaps == {<<>>}

Decorable(shape) == {n \in DOMAIN Shapes[shape] : Shapes[shape][n] \in {"stage", "stepGroup", "step"}}

Decorated(shape) ==
  {shape} \X ({<<>>} \cup UNION {[{n} -> Kinds] : n \in Decorable(shape)}
                  \cup UNION {[{n, m} -> Pairs] : n, m \in Decorable(shape)})

ASSUME DocumentsAssumption == \A k \in ShapeNames : \A p \in Decorated(k) : Document(Doc(p))
ASSUME NamesAssumption == "alias" \notin ShapeNames => \A p \in Plans : DistinctNames(p.graph)

\* Evaluated once by TLC, which evaluates a definition put in place of a
\* constant at every use.
PlanTable == {Plan(Doc(p), MCStatusMaps, EveryRun) : p \in UNION {Decorated(k) : k \in ShapeNames}}

NameTable ==
  UNION {DOMAIN p.gates \cup UNION {{g.fqn} \cup g.needs : g \in {PlanGate(p, f, <<>>, <<>>) : f \in DOMAIN p.gates}} :
         p \in PlanTable}

MCPlans == PlanTable
MCNames == NameTable
=============================================================================
