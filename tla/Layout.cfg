SPECIFICATION NetSpec
CONSTANTS
  depth = depth
  switch = switch
  wind = wind
  dflt = dflt
  gauges = gauges
  slider = slider
  mixed = mixed
  foreign = foreign
  Path = {depth, switch, wind}
  Layout = {dflt, gauges, slider, mixed, foreign}
  Widgets <- MCWidgets
  DefaultLayout = dflt
  None = None
  MaxSubs = 2
  MaxQueue = 2
  Paths = {depth, switch}
  Boot = Boot
  Lively = {depth}
  MaxChanges = 2
  MaxOutages = 1
  Servers = {"boat", "shore"}
  NoServer = "none"
  MaxSelects = 6
INVARIANTS KeptPush LiveKindsAgree UnfedOnlyIfFull NetInv
PROPERTIES StaleOnlyIfMissedOrOvertaken WakeFollowsServer
CHECK_DEADLOCK FALSE
