--------------------------- MODULE TemplateMerge ---------------------------
(***************************************************************************)
(* What a template reference says and how the inputs it gives are merged   *)
(* into the template's spec (resolver/template.go).                        *)
(***************************************************************************)
EXTENDS YamlNodes

\* A template reference; scope, organisation and project as the store
\* sees them.
Ref(id, version, scope) ==
  [id |-> id, version |-> version, scope |-> scope, org |-> <<>>, project |-> <<>>, branch |-> <<>>]

\* "account." and "org." before an identifier name its scope.
ParseIdentifierScope(name) ==
  IF Len(name) > 1 /\ Head(name) \in {"account", "org"}
  THEN [id |-> Tail(name), scope |-> Head(name)]
  ELSE [id |-> name, scope |-> "project"]

\* id@version, cut at the first @.
ParseUses(words) ==
  LET at == Min({i \in DOMAIN words : words[i] = "@"})
  IN  IF "@" \notin ToSet(words) THEN [name |-> words, version |-> <<>>]
      ELSE [name |-> SubSeq(words, 1, at - 1), version |-> SubSeq(words, at + 1, Len(words))]

\* The reference and its inputs; an empty reference is an error.
ParseTemplateRef(n) ==
  LET old == NodeHas(n, "templateRef")
      uses == ParseUses(NodeGet(n, "uses").value)
      name == IF old THEN NodeGet(n, "templateRef").value ELSE uses.name
      p == ParseIdentifierScope(name)
      ref == Ref(p.id, IF old THEN NodeGet(n, "versionLabel").value ELSE uses.version, p.scope)
  IN  [ok |-> NodeGet(n, IF old THEN "templateRef" ELSE "uses").value # <<>>,
       ref |-> [ref EXCEPT !.branch = IF old THEN NodeGet(n, "gitBranch").value ELSE <<>>],
       inputs |-> NodeGet(n, IF old THEN "templateInputs" ELSE "with")]

IsTemplateNode(n) ==
  \/ NodeHas(NodeGet(n, "template"), "templateRef")
  \/ NodeHas(n, "uses")

\* A document without the key "template" is the spec itself.
ExtractTemplateSpec(doc) ==
  LET spec == NodeGet(NodeGet(doc, "template"), "spec")
  IN  IF ~ NodeHas(doc, "template") THEN [ok |-> TRUE, spec |-> doc]
      ELSE [ok |-> spec.kind = "mapping", spec |-> spec]

-----------------------------------------------------------------------------
Wrappers == <<"stage", "step", "stepGroup", "parallel">>

\* A parallel block holds a list, so it is no wrapper in this sense.
Wrapper(e) ==
  LET wrapping == {i \in DOMAIN Wrappers : NodeGet(e, Wrappers[i]).kind = "mapping"}
  IN  CASE wrapping # {}                                  -> Wrappers[Min(wrapping)]
        [] NodeHas(e, "identifier") \/ NodeHas(e, "name") -> "_direct"
        [] OTHER                                          -> "none"

Unwrapped(e, wrapper) == IF wrapper = "_direct" THEN e ELSE NodeGet(e, wrapper)

Identifier(n) == OrElse(NodeGet(n, "identifier").value, NodeGet(n, "name").value)

\* An element of a list with what it is matched by; identified by id # <<>>.
Keyed(e, wrapper, body) == [node |-> e, wrapper |-> wrapper, body |-> body, id |-> Identifier(body)]
Element(e) == Keyed(e, Wrapper(e), Unwrapped(e, Wrapper(e)))
Elements(n) == [i \in DOMAIN n.items |-> Element(n.items[i])]
SameElement(e, f) == e.id # <<>> /\ e.id = f.id /\ e.wrapper = f.wrapper

RECURSIVE MergeTemplateInputs(_, _), MergeArraysByIdentifier(_, _)

\* Fault: the template's value wins over a scalar input.
MergeKeepingScalars(old, new) ==
  CASE old.kind = "mapping" /\ new.kind = "mapping"   -> MergeTemplateInputs(old, new)
    [] old.kind = "sequence" /\ new.kind = "sequence" -> MergeArraysByIdentifier(old, new)
    [] OTHER                                          -> IF old.kind = "none" THEN new ELSE old

\* Fault: lists are replaced.
MergeReplacingLists(old, new) ==
  IF old.kind = "mapping" /\ new.kind = "mapping" THEN MergeTemplateInputs(old, new) ELSE new

MergeValue(old, new) ==
  CASE old.kind = "mapping" /\ new.kind = "mapping"   -> MergeTemplateInputs(old, new)
    [] old.kind = "sequence" /\ new.kind = "sequence" -> MergeArraysByIdentifier(old, new)
    [] OTHER                                          -> new

MergeTemplateInputs(spec, inputs) ==
  CASE inputs.kind # "mapping" -> spec
    [] spec.kind # "mapping"   -> inputs
    [] OTHER                   -> Joined(spec, inputs, MergeValue)

\* Elements are matched by wrapper and identifier, the last input with a key
\* counting; other inputs are appended when they are identified.  Without any
\* identified input the input list replaces the template's.
MergeElements(spec, input) ==
  LET matches(e) == {i \in DOMAIN input : SameElement(e, input[i])}
      merged(e) == MergeTemplateInputs(e.body, input[Max(matches(e))].body)
      kept(e) == CASE matches(e) = {}        -> e.node
                   [] e.wrapper = "_direct"  -> merged(e)
                   [] OTHER                  -> Entries(<< <<e.wrapper, merged(e)>> >>)
      new == SelectSeq(input, LAMBDA e : e.id # <<>> /\ \A s \in ToSet(spec) : ~ SameElement(e, s))
  IN  IF \A e \in ToSet(input) : e.id = <<>> THEN List([i \in DOMAIN input |-> input[i].node])
      ELSE List([i \in DOMAIN spec |-> kept(spec[i])] \o [i \in DOMAIN new |-> new[i].node])

MergeArraysByIdentifier(spec, input) == MergeElements(Elements(spec) \o <<>>, Elements(input) \o <<>>)
=============================================================================
