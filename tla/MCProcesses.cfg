SPECIFICATION Spec
CONSTANTS
  SEND = 1
  RETRY = 5
  HomeDuration = 3
  HomeCooldown = 12
  InactiveAction = "home"
  DisconnectAction = "home"
  MayBeNone = TRUE
  HasChord = TRUE
  MaxLate = 1
  FreshReports = 2
  HomeStart = 8
  HomeLen = 2
  Peer = {p1}
  MaxEvents = 1
  MaxSession = 2
  MaxCrash = 1
  Startup = 1
  Grace = 1
  close_existing_obs = FALSE
  startup_timeout = 3
  Timeout = 3
  MaxStart = 2
INVARIANTS
  FailsafeStaysQuiet
  HomeIsReleased
  
  
  CleansUp
  ChildrenAreOwned
PROPERTIES
  SignalFollowsPulse
  
  ClosedPeerLeaves
  SessionEndsClean
  LauncherEnds
  WrapperEndsClean
  LabelFollowsBot
