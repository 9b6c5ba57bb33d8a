CONSTANTS
  SomeVersions <- SmallVersions
  SomeLists <- SmallLists
  SomeConstraints <- SmallConstraints
  Paths <- MCPaths
  Available <- MCAvailable
  Minimum <- Least
  Worlds <- SmallWorlds
  Modules = {"root", "a", "b"}
  Root = "root"
  MaxVersion = 2
  Manifests <- SmallManifests
  Packages = {"a", "b"}
  Processes = {m, n}
  m = m
  n = n
  Imports <- SmallImports
  Broken <- SmallBroken
  Roots <- SmallRoots
  Missing = 0
  File = "file"
  MaxEdits = 1
SPECIFICATION MCSpec
INVARIANTS
  VersionsAreOrdered SelectionIsRight GraphIsRight CachedResultsAreCurrent
SYMMETRY Alike
CHECK_DEADLOCK FALSE
