SPECIFICATION ControlsSpec
CONSTANTS
  Kinds = {"toggle", "slider"}
  Levels = {0, 1, 2}
  BoolEcho = FALSE
  Rejected = {"toggle"}
  MaxGestures = 3
  MaxOthers = 2
  Pct = {40, 70, 90}
  DimLevel = 0
  MaxPosted = 3
  horn = horn
  dropHere = dropHere
  raise = raise
  engaged = engaged
  idle = idle
  hornPath = hornPath
  Buttons = {horn, dropHere, raise}
  PathOf <- PathOfMC
  PressOf <- PressMC
  ReleaseOf <- ReleaseMC
  Held = {horn, dropHere, raise}
  HoldTicks = 2
  Paths = {hornPath, AnchorPath}
  DropHere = DropHere
  AnchorPath = AnchorPath
  Null = Null
  Absent = Absent
  NoButton = NoButton
  Drops = {1, 2}
  MaxFix = 2
  ZoneLists <- ZoneListsMC
  Readings = {1, 2, 3}
  Fallback = Fallback
  MaxReports = 2
  Volumes = {20, 50}
  FirstVolume = 50
  Sliders = {"one", "two"}
  NoSlider = "none"
  MaxPowerLoss = 1
INVARIANTS BrightnessInv ButtonInv ControlsInv
PROPERTIES ShowsTruthInTheEnd HoldIsHeld
CHECK_DEADLOCK FALSE
