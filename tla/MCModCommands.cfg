CONSTANTS
  Projects = {p, q}
  Modules = {"a", "b"}
  Provider <- MCProvider
  MaxVersion = 2
  GalaMod = "gala.mod"
  GalaFiles <- MCGalaFiles
  Starting <- MCStarting
  FirstTags <- MCFirstTags
  Contents <- MCContents
  Requires <- MCRequires
  MaxCommands = 2
  MaxKills = 1
SPECIFICATION Spec
INVARIANT SumsAreRight
PROPERTY TidyIsRight
CHECK_DEADLOCK FALSE
SYMMETRY Interchangeable
