--------------------------- MODULE TemplateStore ---------------------------
(***************************************************************************)
(* Where the file of a template is (resolver/scm/template_store.go,        *)
(* resolver/config.go).  A value is a sequence of words, empty when it is  *)
(* not given; a repository of two words is one qualified by its owner.     *)
(***************************************************************************)
EXTENDS TemplateMerge

CONSTANTS Providers,            \* name -> [driver, owner, repo, branch, basePath]
          DefaultProvider,
          Mappings              \* identifier -> [scope, version, provider, repo,
                                \*   branch, path]; the scope in lower case

NoProvider == [driver |-> "", owner |-> <<>>, repo |-> <<>>, branch |-> <<>>, basePath |-> <<>>]
ProviderDefaults(name) ==
  LET p == IF name \in DOMAIN Providers THEN Providers[name] ELSE NoProvider
  IN  [repo |-> p.repo, branch |-> OrElse(p.branch, <<"main">>),
       basePath |-> OrElse(p.basePath, <<".harness">>)]

\* The driver of Harness Code adds the owner itself.
QualifyRepo(name, repo) ==
  IF Len(repo) > 1 \/ name \notin DOMAIN Providers \/ Providers[name].driver = "harness"
  THEN repo ELSE Providers[name].owner \o repo

MatchMapping(m, ref) ==
  m.scope \in {"", ref.scope} /\ m.version \in {<<>>, <<"*">>, ref.version}

NoMapping == [scope |-> "", version |-> <<>>, provider |-> <<>>, repo |-> <<>>,
              branch |-> <<>>, path |-> <<>>]
MappingOf(ref) ==
  IF ref.id \in DOMAIN Mappings /\ MatchMapping(Mappings[ref.id], ref) THEN Mappings[ref.id]
  ELSE NoMapping

\* Fault: the organisation of a project is left out.
FlatConventionPath(ref, base) ==
  CASE ref.scope = "account" -> <<base, <<"templates">>, ref.id, OrElse(ref.version, <<"stable">>)>>
    [] ref.scope = "org" -> <<base, OrElse(ref.org, <<"default">>), ref.id, OrElse(ref.version, <<"stable">>)>>
    [] OTHER -> <<base, OrElse(ref.project, <<"default">>), ref.id, OrElse(ref.version, <<"stable">>)>>

ConventionPath(ref, base) ==
  LET org == <<<<"orgs">>, OrElse(ref.org, <<"default">>)>>
      project == <<<<"projects">>, OrElse(ref.project, <<"default">>)>>
      owner == CASE ref.scope = "account" -> <<>>
                 [] ref.scope = "org"     -> org
                 [] OTHER                 -> org \o project
  IN  <<base>> \o owner \o <<<<"templates">>, ref.id, OrElse(ref.version, <<"stable">>)>>

\* What the mapping gives comes before what the provider gives, and the
\* reference's own branch before both.
ResolveFileLocation(ref) ==
  LET m == MappingOf(ref)
      provider == OrElse(m.provider, DefaultProvider)
      d == ProviderDefaults(provider)
  IN  [provider |-> provider,
       repo |-> QualifyRepo(provider, OrElse(m.repo, d.repo)),
       path |-> IF m.path # <<>> THEN <<m.path>> ELSE ConventionPath(ref, d.basePath),
       branch |-> OrElse(ref.branch, OrElse(m.branch, d.branch))]
=============================================================================
