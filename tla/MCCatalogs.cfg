CONSTANTS
  a1 = a1  a2 = a2  p1 = p1  p2 = p2  e1 = e1  e2 = e2
  Appliers = {a1, a2}
  Savers = {p1, p2}
  Services = {"cli", "other"}
  Names = {"runs", "rate"}
  Count = Count  Rate = Rate  Share = Share  Untitled = Untitled
  Specs = {Count, Rate, Share, Untitled}
  Meaning <- MCMeaning
  Files <- MCFiles
  Layouts <- MCLayouts
  MaxApplies = 2
  MaxSaves = 3
  Exports = {e1, e2}
  TTL = 2
  MaxLoad = 1
  MaxTime = 3
  None = None
  NoApplier = NoApplier
  NoFile = NoFile
  NoLayout = NoLayout
SPECIFICATION CatalogsSpec
SYMMETRY Symmetry
INVARIANTS CatalogIsLastFile RatiosResolve LayoutIsWhole SavesNeverDeadlock
PROPERTIES RefinesBoundedStaleness
CHECK_DEADLOCK FALSE
