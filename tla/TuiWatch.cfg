SPECIFICATION FairWatchSpec
CONSTANTS
  Runs = {run1, run2}
  NoRun = NoRun
  Chains = {c1, c2}
  DetailLoads = {l1}
  MaxPanelKeys = 4
INVARIANTS WatchIsAlive
PROPERTIES WatchEnds ChainsDieOut
CHECK_DEADLOCK FALSE
