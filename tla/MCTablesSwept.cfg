CONSTANTS
  Exports = {x1, x2}
  Backfill = backfill
  Sweeper = sweeper
  None = None
  InstallIds = {1, 2}
  Versions <- VersionNames
  Methods = {"brew", "apt"}
  Semver <- SemverOrder
  EventBatches <- MixedBatches
  Chunk = 3
  Cutoffs = {3}
  MaxExports = 2
  MaxBackfills = 0
  MaxSweeps = 1
  Writers = {w1, w2}
  Reasons = {1, 2, 3}
  Batches <- ReasonBatches
  Limits = {1, 2}
  TouchInterval = 1
  Retentions = {1, 2}
  MaxTime = 3
  MaxRequests = 3
  MaxSpan = 1
  NoWriter = NoWriter
  Parts = {"installs"}
SPECIFICATION MCSpec
SYMMETRY Symmetry
INVARIANT DiscoveriesKept
CHECK_DEADLOCK FALSE
