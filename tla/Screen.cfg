SPECIFICATION FairSpec
CONSTANTS
  Path = {p1}
  None = None
  Level <- MCLevel
  Quiet = 1
  Timeout = {0, 2}
  DimPct = {30}
  Pct = {40,95}
INVARIANT Inv
PROPERTIES RaisedAlarmIsSeen DarkEnds
