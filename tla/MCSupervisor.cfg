\* Safety: every interleaving, one service, one signal kind; time unit 15 s.
CONSTANTS
  Cookie = {c1}
  NoCookie = NoCookie
  Proc = {p1, p2}
  NoProc = NoProc
  Service = {routing}
  Signal = {term}
  GatewayStates = {"up", "down"}
  SpawnResults = {"ok", "err"}
  MaxPush = 2
  CheckInterval = 6
  PollMin = 1
  PollMax = 1
  SuspendFloor = 2
  RetryWait = 4
  ProbeTimeout = 1
  BackoffMax = 1
  TermTimeout = 1
  FetchMax = 6
  LoginStopMax = 2
  SuspendLengths = {5}
  MaxSuspends = 1
SPECIFICATION Spec
SYMMETRY Symmetries
INVARIANTS OneTunnel ExitLeavesNothing FatalExitKeepsLimit
PROPERTIES TearDownJustified UnreachableRetriedNextPoll SuspendNoticed StopAdvances ImplementsContract ImplementsTunnel
