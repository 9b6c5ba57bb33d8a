CONSTANT
  Subjects = {"infer", "type", "closure", "file", "package", "directory", "import", "loop", "match", "call",
              "block", "pattern", "body", "names", "yaml", "cache", "views", "packages", "merged", "text"}
SPECIFICATION Spec
INVARIANTS
  InfersThePrincipalType SharingIsSafe UndefinedIsReported PackageIsCollected ImportsAreFound
  LoopsMeanTheirCalls FirstMatchWins CallsAreBound BlockMeansItsClauses CompilesIfMeant
  UsesReachTheirPackages CodecsRoundTrip MergesLoseNothing
CHECK_DEADLOCK FALSE
