----------------------------- MODULE StepLookup -----------------------------
(***************************************************************************)
(* Two readings of one resolved document: the lookup of a step by its FQN  *)
(* (verifier/pipeline/yaml.go, step_lookup.go), which walks the YAML, and  *)
(* the FQNs the pipeline graph gives its steps (verifier/pipeline/         *)
(* graph.go), which reads typed structures.  An FQN is the sequence of its *)
(* segments.                                                               *)
(***************************************************************************)
EXTENDS YamlNodes

HasIdentifier(n, segment) == NodeGet(n, "identifier").value = <<segment>>

RECURSIVE WalkToNode(_, _), WalkItems(_, _), GraphSteps(_, _)

NamedWrapper(item, segment) ==
  SelectInSeq(<<"step", "stage", "stepGroup">>, LAMBDA w : HasIdentifier(NodeGet(item, w), segment))

\* Fault: the first parallel block decides.
WalkItemsOnce(items, fqn) ==
  LET item == Head(items)
      named == NamedWrapper(item, Head(fqn))
  IN  CASE items = <<>> -> NoNode
        [] named # 0    -> WalkToNode(NodeGet(item, <<"step", "stage", "stepGroup">>[named]), Tail(fqn))
        [] NodeHas(item, "parallel") -> WalkToNode(NodeGet(item, "parallel"), fqn)
        [] OTHER        -> WalkItems(Tail(items), fqn)

\* A named element decides, a parallel block only when the rest of the path is
\* found in it.
WalkItems(items, fqn) ==
  LET item == Head(items)
      named == NamedWrapper(item, Head(fqn))
      inside == WalkToNode(NodeGet(item, "parallel"), fqn)
  IN  CASE items = <<>>                    -> NoNode
        [] named # 0                       ->
             WalkToNode(NodeGet(item, <<"step", "stage", "stepGroup">>[named]), Tail(fqn))
        [] inside # NoNode                 -> inside
        [] HasIdentifier(item, Head(fqn))  -> WalkToNode(item, Tail(fqn))
        [] OTHER                           -> WalkItems(Tail(items), fqn)

WalkToNode(node, fqn) ==
  CASE fqn = <<>>              -> node
    [] node.kind = "mapping"   -> WalkToNode(NodeGet(node, Head(fqn)), Tail(fqn))
    [] node.kind = "sequence"  -> WalkItems(node.items, fqn)
    [] OTHER                   -> NoNode

\* LookupStep; NoNode is StepMissing.
FindNodeByFQN(root, fqn) == IF fqn = <<>> THEN NoNode ELSE WalkToNode(root, fqn)

-----------------------------------------------------------------------------
\* The steps under a list of wrapped elements with the FQNs the graph gives
\* them, in the order of the document; parallel adds no segment.
GraphSteps(list, prefix) ==
  LET inStage(s) ==
        LET at(part) == <<"spec", "execution", part>>
            steps(part) == GraphSteps(WalkToNode(s, at(part)), prefix \o NodeGet(s, "identifier").value \o at(part))
        IN  steps("steps") \o steps("rollbackSteps")
      inGroup(g) == GraphSteps(NodeGet(g, "steps"), prefix \o NodeGet(g, "identifier").value \o <<"steps">>)
      inItem(i) ==
        CASE NodeHas(i, "parallel")  -> GraphSteps(NodeGet(i, "parallel"), prefix)
          [] NodeHas(i, "stage")     -> inStage(NodeGet(i, "stage"))
          [] NodeHas(i, "stepGroup") -> inGroup(NodeGet(i, "stepGroup"))
          [] NodeHas(i, "step")      ->
               << [fqn |-> prefix \o NodeGet(NodeGet(i, "step"), "identifier").value,
                   node |-> NodeGet(i, "step")] >>
          [] OTHER                   -> <<>>
  IN  FlattenSeq([i \in DOMAIN list.items |-> inItem(list.items[i])])

Prefix == <<"pipeline", "stages">>
StepsOf(doc) == GraphSteps(WalkToNode(doc, Prefix), Prefix)
=============================================================================
