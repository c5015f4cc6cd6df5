SPECIFICATION Spec
CONSTANTS
  Path = {p1, p2}
  Message = {}
  NoText = NoText
  None = None
  SelfClearWindow = 1
  ReassertWindow = 1
  SourceStates = {2, 4}
  MinStates = {2}
  TapGuard = 1
  MaxInbox = 1
  Lossy = FALSE
SYMMETRY Symmetry
INVARIANTS GenuineClearRearms
PROPERTIES ChimeOnlyForFreshAlarm NoMissedChime
