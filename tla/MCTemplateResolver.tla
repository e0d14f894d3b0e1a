------------------------- MODULE MCTemplateResolver -------------------------
(***************************************************************************)
(* TemplateResolver over a small repository: templates for every way a     *)
(* reference can be expanded or fail, and pipelines that give them inputs. *)
(***************************************************************************)
EXTENDS TemplateResolver

CONSTANT PipelineNames

S(word) == Scalar(<<word>>)
Field(key, word) == <<key, S(word)>>
Named(key, id, fields) == Entries(<< <<key, Entries(<<Field("identifier", id)>> \o fields)>> >>)
Step(id, fields) == Named("step", id, fields)
Group(id, fields) == Named("stepGroup", id, fields)
Steps(list) == <<"steps", List(list)>>
Execution(parts) == <<"spec", Entries(<< <<"execution", Entries(parts)>> >>)>>
Parallel(list) == Entries(<< <<"parallel", List(list)>> >>)

\* A reference with inputs, in the old and the new form.
Template(name, inputs) ==
  <<"template", Entries(<< <<"templateRef", Scalar(name)>> >>
                        \o IF inputs = <<>> THEN <<>> ELSE << <<"templateInputs", Entries(inputs)>> >>)>>
Uses(name, inputs) == << <<"uses", Scalar(name)>>, <<"with", Entries(inputs)>> >>
NewInputs(inputs) == <<"template", Entries(<< <<"templateInputs", Entries(inputs)>> >>)>>

TemplateFile(fields) == Entries(<< <<"template", Entries(<< <<"spec", Entries(fields)>> >>)>> >>)
Chain(next) == TemplateFile(<<Steps(<<Step("c", <<Template(next, <<>>)>>)>>)>>)
Broken == [NoNode EXCEPT !.kind = "broken"]

\* The templates at commit n.
Group4(n) == TemplateFile(<<Field("timeout", "short"),
  Steps(<<Step("a", <<Template(<<"account", "T">>, <<>>)>>),
          Parallel(<<Step("b", <<>>), Step("c", <<>>)>>),
          Step("d", <<Field("command", "old")>>),
          Group("g", <<Steps(<<Step("e", <<Field("command", "old")>>)>>)>>)>>
        \o IF n = 1 THEN <<>> ELSE <<Step("f", <<>>)>>)>>)

Library(n) == [
  T |-> TemplateFile(<<Field("type", "Run"), Field("command", IF n = 1 THEN "one" ELSE "two")>>),
  G |-> Group4(n),
  N |-> TemplateFile(<<Steps(<<Group("h", <<Template(<<"G">>, <<Steps(<<Step("d", <<Field("command", "nested")>>)>>)>>)>>)>>)>>),
  P |-> TemplateFile(<< <<"stages", List(<<Named("stage", "s", <<Template(<<"S">>, <<>>)>>)>>)>> >>),
  S |-> TemplateFile(<<Field("type", "Custom"),
          Execution(<<Steps(<<Parallel(<<Step("a", <<>>), Group("g", <<Steps(<<Step("b", <<>>)>>)>>)>>),
                               Step("c", Uses(<<"account", "T">>, <<>>))>>),
                      <<"rollbackSteps", List(<<Step("a", <<>>)>>)>> >>)>>),
  L |-> Chain(<<"L">>),
  C1 |-> Chain(<<"account", "T">>), C2 |-> Chain(<<"C1">>), C3 |-> Chain(<<"C2">>),
  M |-> Entries(<<Field("type", "Mapped")>>),
  X |-> Entries(<< <<"template", Entries(<<Field("type", "Step")>>)>> >>),
  Y |-> IF n = 1 THEN Broken ELSE TemplateFile(<<Field("type", "Run")>>)]

Base == <<".harness">>
Path(name) ==
  CASE name = "T" -> <<Base, <<"templates">>, <<name>>, <<"stable">>>>
    [] name = "M" -> <<<<"shared">>>>
    [] OTHER -> <<Base, <<"orgs">>, <<"o">>, <<"projects">>, <<"p">>, <<"templates">>, <<name>>, <<"stable">>>>
Location(provider, repo, path) == [provider |-> provider, repo |-> repo, path |-> path, branch |-> <<"main">>]
TemplateAt(name) ==
  IF name = "M" THEN Location(<<"alt">>, <<"lib">>, Path(name))
  ELSE Location(<<"scm">>, <<"acme", "tpl">>, Path(name))

ProviderTable ==
  (<<"scm">> :> [driver |-> "github", owner |-> <<"acme">>, repo |-> <<"tpl">>, branch |-> <<>>, basePath |-> <<>>])
  @@ (<<"alt">> :> [driver |-> "harness", owner |-> <<"acc">>, repo |-> <<"lib">>, branch |-> <<>>, basePath |-> <<>>])
Mapping(version, provider, path) ==
  [NoMapping EXCEPT !.scope = "project", !.version = version, !.provider = provider, !.path = path]
MappingTable ==
  (<<"M">> :> Mapping(<<"*">>, <<"alt">>, <<"shared">>)) @@ (<<"Q">> :> Mapping(<<>>, <<"gone">>, <<>>))
  @@ (<<"N">> :> Mapping(<<"old">>, <<"alt">>, <<"shared">>))

-----------------------------------------------------------------------------
Pipeline(steps) ==
  Entries(<< <<"pipeline", Entries(<<Field("identifier", "p"),
    <<"stages", List(<<Named("stage", "s", <<Execution(<<Steps(steps)>>)>>)>>)>> >>)>> >>)
Using(name, inputs) == Pipeline(<<Group("h", <<Template(name, inputs)>>), Step("last", <<>>)>>)

Pipelines == [
  plain     |-> Pipeline(<<Step("a", <<>>)>>),
  twice     |-> Pipeline(<<Step("a", <<Template(<<"account", "T">>, <<Field("command", "mine")>>)>>),
                           Step("b", Uses(<<"account", "T">>, <<Field("shell", "sh")>>))>>),
  untouched |-> Using(<<"G">>, <<>>),
  override  |-> Using(<<"G">>, <<Field("timeout", "long"), Steps(<<Step("d", <<Field("command", "mine")>>)>>)>>),
  inner     |-> Using(<<"G">>, <<Steps(<<Step("a", <<NewInputs(<<Field("command", "mine")>>)>>),
                                         Group("g", <<Steps(<<Step("e", <<Field("command", "mine")>>)>>)>>)>>)>>),
  added     |-> Using(<<"G">>, <<Steps(<<Step("z", <<Template(<<"account", "T">>, <<>>)>>),
                                         Step("d", <<Field("command", "mine")>>)>>)>>),
  forked    |-> Using(<<"G">>, <<Steps(<<Parallel(<<Step("b", <<Field("command", "mine")>>)>>)>>)>>),
  forkedToo |-> Using(<<"G">>, <<Steps(<<Parallel(<<Step("b", <<Field("command", "mine")>>)>>),
                                         Step("d", <<Field("command", "mine")>>)>>)>>),
  nested    |-> Using(<<"N">>, <<Steps(<<Group("h", <<NewInputs(
                  <<Steps(<<Step("a", <<NewInputs(<<Field("command", "mine")>>)>>)>>)>>)>>)>>)>>),
  whole     |-> Entries(<< <<"pipeline", Entries(<<Field("identifier", "p"), Template(<<"P">>, <<>>)>>)>> >>),
  mapped    |-> Using(<<"M">>, <<>>),
  three     |-> Using(<<"C2">>, <<>>),
  four      |-> Using(<<"C3">>, <<>>),
  loop      |-> Using(<<"L">>, <<>>),
  noSpec    |-> Using(<<"X">>, <<>>),
  mended    |-> Using(<<"Y">>, <<>>),
  missing   |-> Using(<<"org", "T">>, <<>>),
  nowhere   |-> Using(<<"Q">>, <<>>),
  unnamed   |-> Using(<<>>, <<>>),
  broken    |-> Broken]

MCProviders == ProviderTable
MCMappings == MappingTable

FileOf(name) == Location(<<"scm">>, <<"acme", "app">>, <<<<name>>>>)
\* Tables are evaluated once by TLC, which evaluates a definition put in
\* place of a constant at every use.
Files(n) ==
  [l \in {TemplateAt(t) : t \in DOMAIN Library(n)} |->
     Library(n)[CHOOSE t \in DOMAIN Library(n) : TemplateAt(t) = l]]
  @@ [l \in {FileOf(f) : f \in PipelineNames} |-> Pipelines[CHOOSE f \in PipelineNames : FileOf(f) = l]]

CommitTable == <<Files(1) @@ <<>>, Files(2) @@ <<>>>>
MCCommits == CommitTable
Request(origin, name) ==
  [origin |-> origin, file |-> [FileOf(name) EXCEPT !.provider = <<>>, !.repo = <<"app">>],
   org |-> <<"o">>, project |-> <<"p">>]
MCRequests ==
  {Request("git", f) : f \in PipelineNames \cup {"absent"}}
  \cup {Request("inline", "absent"), Request("none", "absent")}
MCDefault == <<"scm">>

(* A project never gets the template of another project, organisation or   *)
(* scope, nor another version or identifier than it asked for, unless a    *)
(* mapping redirects it: the conventional paths are one to one.            *)
SomeRefs ==
  [id : {<<"T">>, <<"N">>, <<"G">>}, version : {<<>>, <<"old">>, <<"stable">>},
   scope : {"project", "org", "account"}, org : {<<>>, <<"o">>, <<"p">>},
   project : {<<>>, <<"o">>, <<"p">>}, branch : {<<>>}]
OneFilePerTemplate == FileApart(SomeRefs)
=============================================================================
