CONSTANTS
  Requests <- MCRequests
  Commits <- MCCommits
  Providers <- MCProviders
  DefaultProvider <- MCDefault
  Mappings <- MCMappings
  MaxTemplateDepth = 3
  MaxFetches = 5
  PipelineNames = {"plain", "twice", "untouched", "override", "inner", "added", "forked", "forkedToo", "nested", "whole", "mapped", "three", "four", "loop", "noSpec", "mended", "missing", "nowhere", "unnamed", "broken"}
SPECIFICATION Spec
INVARIANTS Expanded InputsArrive StepsKept LimitIsExact StepsFound OneFilePerTemplate
\* a request is served once
CHECK_DEADLOCK FALSE
