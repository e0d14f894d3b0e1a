-------------------------- MODULE TemplateResolver --------------------------
(***************************************************************************)
(* A request on its way to the verifiers: verifier/resolver.go loads the   *)
(* pipeline from the repository and resolver/resolver.go replaces its      *)
(* template references, fetching one template after the other while the    *)
(* branches may be pushed to.  When any of it fails, the request goes on   *)
(* without a pipeline.                                                     *)
(*                                                                         *)
(* The walk over the document keeps nothing but the document, so it is     *)
(* repeated here from the start with what has been fetched so far: it      *)
(* either ends or names the reference it needs next.                       *)
(***************************************************************************)
EXTENDS TemplateStore, StepLookup, Naturals

CONSTANTS Requests,             \* [origin, file, org, project]: where the
                                \* metadata says the pipeline is
          Commits,              \* successive contents of the branches:
                                \* location -> document
          MaxTemplateDepth,
          MaxFetches            \* bound on the fetches of one request

ASSUME DepthAssumption == MaxTemplateDepth \in Nat /\ MaxFetches \in Nat
ASSUME CommitAssumption == Commits # <<>>

VARIABLES request,
          head,                 \* the commit at the head of the branches
          doc,                  \* the pipeline's document, once loaded
          fetched,              \* what GetTemplate returned, in order
          pipeline              \* what the next verifier was called with

vars == <<request, head, doc, fetched, pipeline>>

Unserved == [NoNode EXCEPT !.kind = "unserved"]
Without == [NoNode EXCEPT !.kind = "without"]

-----------------------------------------------------------------------------
(* The walk.  used: the references fetched so far, each with its depth;    *)
(* needs: the reference to fetch before the walk can go on.                *)
Walked(node, used) ==
  [state |-> "done", node |-> node, used |-> used, error |-> "", needs |-> Ref(<<>>, <<>>, "")]
Failed(error, used) == [Walked(NoNode, used) EXCEPT !.state = "failed", !.error = error]
Needs(ref, used) == [Walked(NoNode, used) EXCEPT !.state = "needs", !.needs = ref]

RECURSIVE ResolveNode(_, _, _), ResolveChildren(_, _, _, _), ExpandReference(_, _, _)

IsEntityWithTemplate(key, value) ==
  key \in {"step", "stage", "stepGroup"} /\ IsTemplateNode(value)

\* Fault: one level less.
ResolveNodeEarly(node, depth, used) ==
  IF depth >= MaxTemplateDepth THEN Failed("max depth", used)
  ELSE IF node.kind \in {"mapping", "sequence"} THEN ResolveChildren(node, 1, depth, used)
  ELSE Walked(node, used)

ResolveNode(node, depth, used) ==
  CASE depth > MaxTemplateDepth                 -> Failed("max depth", used)
    [] node.kind \in {"mapping", "sequence"}    -> ResolveChildren(node, 1, depth, used)
    [] OTHER                                    -> Walked(node, used)

\* resolveMapNode and resolveArrayNode, from the i-th child on; the keys of a
\* sequence are empty.
ResolveChildren(node, i, depth, used) ==
  LET entity == node.kind = "mapping" /\ IsEntityWithTemplate(node.keys[i], node.items[i])
      child == IF entity THEN ExpandReference(node.items[i], depth, used)
               ELSE ResolveNode(node.items[i], depth, used)
  IN  CASE i > Len(node.items)    -> Walked(node, used)
        [] child.state # "done"   -> child
        [] OTHER                  ->
             ResolveChildren([node EXCEPT !.items[i] = child.node], i + 1, depth, child.used)

\* The scope's owners come from the request, not from the reference.
Owned(ref) ==
  [ref EXCEPT !.org = IF ref.scope = "account" THEN <<>> ELSE request.org,
              !.project = IF ref.scope = "project" THEN request.project ELSE <<>>]

\* A mapping under "template" is taken for the reference, else "uses".
ReferenceOf(node) ==
  ParseTemplateRef(IF NodeGet(node, "template").kind = "mapping" THEN NodeGet(node, "template") ELSE node)

Expansion(node, t, inputs) == OverlayMappingFields(node, MergeTemplateInputs(t.spec, inputs))

\* resolveEntityTemplate and resolveTemplateNode: the entity keeps its fields,
\* the reference among them, and the template's are laid over them.
ExpandReference(node, depth, used) ==
  LET p == ReferenceOf(node)
      t == fetched[Len(used) + 1]
  IN  CASE ~ p.ok                     -> Failed("reference", used)
        [] Len(used) = Len(fetched)   -> Needs(Owned(p.ref), used)
        [] t.error # ""               -> Failed(t.error, used)
        [] OTHER                      ->
             ResolveChildren(Expansion(node, t, p.inputs), 1, depth + 1,
                             Append(used, [ref |-> Owned(p.ref), depth |-> depth]))

ResolvePipeline ==
  LET p == NodeGet(doc, "pipeline")
      w == ExpandReference(p, 0, <<>>)
  IN  IF ~ IsTemplateNode(p) THEN ResolveNode(doc, 0, <<>>)
      ELSE [w EXCEPT !.node = NodeSet(doc, "pipeline", w.node)]

-----------------------------------------------------------------------------
\* Contents.Find at the head of a branch (or at a commit, which never changes).
Content(loc) == IF loc \in DOMAIN Commits[head] THEN Commits[head][loc] ELSE NoNode

\* GetTemplate and ExtractTemplateSpec: a location without a loader, a file
\* that is missing or no YAML (kind "broken"), a template without a spec.
GetTemplate(ref) ==
  LET loc == ResolveFileLocation(ref)
      file == Content(loc)
      t == ExtractTemplateSpec(file)
      error == CASE loc.provider \notin DOMAIN Providers -> "no loader"
                 [] file.kind = "none"                   -> "not found"
                 [] file.kind = "broken" \/ ~ t.ok       -> "invalid"
                 [] OTHER                                -> ""
  IN  [error |-> error, spec |-> IF error = "" THEN t.spec ELSE NoNode]

Init ==
  /\ request \in Requests
  /\ head = 1
  /\ doc = NoNode
  /\ fetched = <<>>
  /\ pipeline = Unserved

\* next.Handle without a pipeline in the context.
ServeWithout == pipeline' = Without /\ UNCHANGED <<request, head, doc, fetched>>

\* No metadata, or a pipeline that is not in a repository.
SkipResolution == pipeline = Unserved /\ request.origin # "git" /\ ServeWithout

\* Without a default provider any loader is taken.
LoadPipeline ==
  /\ pipeline = Unserved /\ request.origin = "git" /\ doc = NoNode
  /\ \E p \in IF DefaultProvider # <<>> THEN {DefaultProvider} ELSE DOMAIN Providers :
       LET file == Content([request.file EXCEPT !.provider = p,
                              !.repo = QualifyRepo(DefaultProvider, @)])
       IN  IF file.kind \in {"none", "broken"} THEN ServeWithout
           ELSE doc' = file /\ UNCHANGED <<request, head, fetched, pipeline>>

Fetch ==
  /\ pipeline = Unserved /\ doc # NoNode /\ ResolvePipeline.state = "needs"
  /\ Len(fetched) < MaxFetches
  /\ fetched' = Append(fetched, GetTemplate(ResolvePipeline.needs))
  /\ UNCHANGED <<request, head, doc, pipeline>>

\* Fault: what was resolved before the failure is served.
ServePartial ==
  /\ pipeline = Unserved /\ doc # NoNode /\ ResolvePipeline.state # "needs"
  /\ pipeline' = IF ResolvePipeline.state = "done" THEN ResolvePipeline.node ELSE doc
  /\ UNCHANGED <<request, head, doc, fetched>>

\* The error of a failed walk is logged; partial results are not served.
Serve ==
  /\ pipeline = Unserved /\ doc # NoNode /\ ResolvePipeline.state # "needs"
  /\ pipeline' = IF ResolvePipeline.state = "done" THEN ResolvePipeline.node ELSE Without
  /\ UNCHANGED <<request, head, doc, fetched>>

\* The deadline passes, the client goes away or the repository does not answer.
GiveUp == pipeline = Unserved /\ request.origin = "git" /\ ServeWithout

Push ==
  /\ head < Len(Commits)
  /\ head' = head + 1
  /\ UNCHANGED <<request, doc, fetched, pipeline>>

Next == SkipResolution \/ LoadPipeline \/ Fetch \/ Serve \/ GiveUp \/ Push

Spec == Init /\ [][Next]_vars

-----------------------------------------------------------------------------
(* Properties follow.  Helpers: the reference entities of a document in    *)
(* the order of the walk.                                                  *)
RECURSIVE References(_, _)
References(n, i) ==
  LET own == n.kind = "mapping" /\ n.keys[i] \in {"pipeline", "stage", "stepGroup", "step"}
             /\ IsTemplateNode(n.items[i])
  IN  IF i > Len(n.items) THEN <<>>
      ELSE (IF own THEN <<n.items[i]>> ELSE <<>>) \o References(n.items[i], 1) \o References(n, i + 1)

Resolved == pipeline \notin {Unserved, Without}

Key(e) == <<Element(e).wrapper, Element(e).id>>

\* The inputs are found in node: scalars as they are, elements of a list by
\* their identifier.  A step that is itself a reference takes inputs only
\* through its own templateInputs.
RECURSIVE Arrive(_, _)
Arrive(inputs, node) ==
  CASE inputs.kind = "mapping" ->
         \A i \in DOMAIN inputs.keys :
           LET k == inputs.keys[i]
               there == NodeGet(node, k)
           IN  IF IsEntityWithTemplate(k, there)
               THEN Arrive(NodeGet(inputs.items[i], "template"), NodeGet(there, "template"))
               ELSE Arrive(inputs.items[i], there)
    [] inputs.kind = "sequence" ->
         \A e \in ToSet(inputs.items) : \E x \in ToSet(node.items) :
           Key(x) = Key(e) /\ Arrive(e, x)
    [] inputs.kind = "none" -> TRUE
    [] OTHER -> node = inputs

\* What the template lists is still listed, in its place.
RECURSIVE Keeps(_, _)
Keeps(spec, node) ==
  CASE spec.kind = "mapping" ->
         \A i \in DOMAIN spec.keys : Keeps(spec.items[i], NodeGet(node, spec.keys[i]))
    [] spec.kind = "sequence" ->
         /\ Len(node.items) >= Len(spec.items)
         /\ \A i \in DOMAIN spec.items :
              Key(node.items[i]) = Key(spec.items[i]) /\ Keeps(spec.items[i], node.items[i])
    [] OTHER -> node.kind = spec.kind

RECURSIVE HasParallel(_)
HasParallel(n) == "parallel" \in ToSet(n.keys) \/ \E c \in ToSet(n.items) : HasParallel(c)

(* Every reference is expanded: in the order of the walk, the entities of  *)
(* the pipeline that refer to a template are those whose templates were    *)
(* fetched, no more and no fewer, so each shows the template as it was     *)
(* when its own fetch was made.                                            *)
Expanded ==
  Resolved =>
    LET refs == References(pipeline, 1)
        used == ResolvePipeline.used
    IN  /\ Len(refs) = Len(used) /\ Len(refs) = Len(fetched)
        /\ \A i \in DOMAIN refs : Owned(ReferenceOf(refs[i]).ref) = used[i].ref

(* The inputs a reference gives arrive in the expanded entity, through all *)
(* levels of nested templates: what is verified has the values the         *)
(* pipeline's author wrote, not the template's defaults.                   *)
InputsArrive ==
  Resolved =>
    \A e \in ToSet(References(pipeline, 1)) :
      LET inputs == ReferenceOf(e).inputs
      IN  HasParallel(inputs) \/ Arrive(inputs, e)

StillListed(inputs(_)) ==
  Resolved =>
    LET refs == References(pipeline, 1)
    IN  \A i \in DOMAIN refs : inputs(ReferenceOf(refs[i]).inputs) => Keeps(fetched[i].spec, refs[i])

(* Inputs never cost a step: what the template fetched for a reference     *)
(* lists is in the resolved pipeline, in its place, so ordering and the    *)
(* lookup by FQN see it.  Inputs of a step inside a parallel block are     *)
(* left out: see DeepMerge.                                                *)
StepsKept == StillListed(LAMBDA inputs : ~ HasParallel(inputs))

(* Doc (template.go): MergeTemplateInputs "deep-merges templateInputs onto *)
(* the template spec", so what the template lists stays whatever inputs    *)
(* are given.                                                              *)
DeepMerge == StillListed(LAMBDA inputs : TRUE)

(* Resolution ends, also when templates refer to themselves, and the limit *)
(* on nested templates is where it is said to be: only a chain of          *)
(* references that goes on at MaxTemplateDepth is refused for it, and no   *)
(* template at that depth is part of a pipeline.                           *)
LimitIsExact ==
  LET depths == {u.depth : u \in ToSet(ResolvePipeline.used)}
  IN  /\ ResolvePipeline.state = "needs" => Len(fetched) < MaxFetches
      /\ Resolved => \A d \in depths : d < MaxTemplateDepth
      /\ ResolvePipeline.error = "max depth" => MaxTemplateDepth \in depths

(* The two readings of a resolved pipeline agree: every step the graph     *)
(* orders is found by the lookup under the same FQN, and it is that step,  *)
(* with the fields its template and its inputs gave it, as long as the     *)
(* FQNs are distinct (the graph refuses others).                           *)
StepsFound ==
  Resolved =>
    LET steps == StepsOf(pipeline)
    IN  IsInjective([i \in DOMAIN steps |-> steps[i].fqn]) =>
          \A i \in DOMAIN steps : FindNodeByFQN(pipeline, steps[i].fqn) = steps[i].node

\* The file of the reference needed next is the file of no other template.
FileApart(refs) ==
  LET r == ResolvePipeline.needs
  IN  ResolvePipeline.state = "needs" =>
        \A s \in refs :
          MappingOf(r).path = <<>> /\ MappingOf(s).path = <<>> /\ ResolveFileLocation(r) = ResolveFileLocation(s) =>
            /\ r.id = s.id /\ r.scope = s.scope
            /\ OrElse(r.version, <<"stable">>) = OrElse(s.version, <<"stable">>)
            /\ r.scope # "account" => OrElse(r.org, <<"default">>) = OrElse(s.org, <<"default">>)
            /\ r.scope = "project" => OrElse(r.project, <<"default">>) = OrElse(s.project, <<"default">>)
=============================================================================
