CONSTANTS
  Requests <- MCRequests
  Commits <- MCCommits
  Providers <- MCProviders
  DefaultProvider <- MCDefault
  Mappings <- MCMappings
  MaxTemplateDepth = 3
  MaxFetches = 5
  PipelineNames = {"plain", "untouched", "override", "inner", "added", "nested", "whole", "forked"}
SPECIFICATION Spec
INVARIANT DeepMerge
\* a request is served once
CHECK_DEADLOCK FALSE
