\* Two queries, two calls and two polls in flight, one change, two counted writes, two events.
SPECIFICATION FairSpec
CONSTANTS
  Queries = {"default", "filtered"}
  Calls = {1, 2}
  MaxPolls = 2
  MaxChanges = 1
  MaxVersion = 2
  MaxEvents = 2
INVARIANTS ListTypeOK RowsOfQuery
PROPERTIES LoadingEnds OwnSaveShown FilteredCatchesUp
CHECK_DEADLOCK FALSE
