SPECIFICATION FairSpec
CONSTANTS
  Path = {p1}
  Message = {m1}
  NoText = NoText
  None = None
  SelfClearWindow = 2
  ReassertWindow = 1
  SourceStates = {2, 4}
  MinStates = {2, 4}
  TapGuard = 1
  MaxInbox = 2
  Lossy = TRUE
INVARIANTS OverlayInSync AckCoversAlarm
PROPERTIES PanelSpec AlarmReachesOperator
