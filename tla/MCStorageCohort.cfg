CONSTANTS
  Writers = {w1, w2}
  Names = {1, 2}
  Labels = {1, 2}
  Batches <- MCBatches
  NameLimits = {1}
  LabelLimits = {1}
  TouchInterval = 1
  Retentions = {1}
  MaxTime = 2
  MaxRequests = 2
  MaxSpan = 1
  NoWriter = NoWriter
  Parts = {"starts"}
  NoCommand = NoCommand
  Runs <- MCRuns
  Starts <- MCStarts
  Errors <- MCErrors
  Edges <- MCEdges
  Gap = 1
  MaxSequence = 2
  Window = 2
  Repeats = 3
  Period = 2
  Ceilings = {0, 1, 2}
  Limit = 1
  MaxRows = 4
  ShortRows = 3
  Spans <- MCSpans
  Attempts <- MCAttempts
  Null = 9
  Day = 2
  Week = 4
  Skew = 1
  SkewFuture = 1
  HourlyStart = 3
  DailyStart = 7
  Lag = 2
  TracesKeep = 4
  TenantKeep = 3
  HourlyKeep = 7
  PageLimit = 1
  MaxSpans = 2
  MaxAttempts = 1
  MaxHour = 10
  DataPoints <- MCPoints
  AllBounds <- MCBounds
  RatioMetrics <- MCRatioMetrics
  Width = 2
  SeriesLimits = {1, 3}
  DimKey = "k"
  MaxPoints = 3
  None = None
  OtherLabel = OtherLabel
SPECIFICATION MCSpec
INVARIANT CohortsStartInRange
CHECK_DEADLOCK FALSE
