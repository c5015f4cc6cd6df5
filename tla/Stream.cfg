SPECIFICATION FairSpec
CONSTANTS
  Widget = {w1}
  Session = {s1, s2}
  None = None
  soak = soak
  MaxStalls = 1
  MaxFails = 1
  MaxTalks = 1
  MaxEvents = 1
INVARIANTS Inv OneDecoder StartedOwns
PROPERTIES PictureComes SessionEnds
