SPECIFICATION UiSpec
CONSTANTS
  MaxPosts = 3
  None = None
  Clients = {"stream", "status"}
  Addresses = {"p", "q", "r"}
  LastHandle = 3
  NoClient = "none"
  NoTimer = "null"
INVARIANTS SingleFlight TimerInv
PROPERTIES PushSpec HandlersFinish HelloBrackets TimersServe
