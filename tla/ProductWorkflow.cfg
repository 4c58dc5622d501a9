SPECIFICATION WorkflowSpec
CONSTANTS
  Handlers = {h1, h2, h3}
  Slots = 2
  Paths <- MCPaths
  Production <- MCProduction
  Tests <- MCTests
  Changelog = changelog
  Allowed <- MCAllowed
  Workspaces <- MCWorkspaces
  Patches <- MCPatches
  Metas <- MCMetas
  MaxFiles = 3
  MaxFileBytes = 2
  MaxTotalBytes = 4
  MaxLines = 4
  MaxPatchBytes = 5
  MaxHead = 2
  None = None
  code = code
  tests = tests
  changelog = changelog
  readme = readme
  workflow = workflow
INVARIANTS PermitsAccounted PublishedAsCaptured PublishedWithinBoundary CapturedIsApplied
CHECK_DEADLOCK FALSE
