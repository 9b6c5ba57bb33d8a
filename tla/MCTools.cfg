CONSTANTS
  None = None
  Builders = {b1, b2}
  Cleaners = {c1}
  Patient = {b1}
  Versions = {v1, v2}
  Broken = {v2}
  OpenFiles = TRUE
  MaxCrashes = 1
  MaxEdits = 2
  Nil = Nil
  Uris = {u}
  Texts = {"typed", "broken"}
  Patches <- Patched
  Unparsable = {"broken"}
  Typed = {"typed", "patched"}
  Unanalysable = {}
  MaxMessages = 5
  Inputs = {f, g}
  Keys = {k, l}
  Sources = {s}
  MaxRequests = 2
  Parts = {f}
  Builds = {"b1", "b2", "other"}
  Fingerprint <- Library
  Marker = Marker
  MaxKills = 1
SPECIFICATION MCSpec
INVARIANTS OneBuild SkippingIsSound ServerIsRight WorkerIsRight LibraryIsRight
PROPERTIES EveryoneEnds EverythingEnds
CHECK_DEADLOCK FALSE
