\* The gateway may answer with a server error.
CONSTANTS
  Cookie = {c1}
  NoCookie = NoCookie
  Proc = {p1, p2}
  NoProc = NoProc
  Service = {routing}
  Signal = {term}
  GatewayStates = {"up", "down", "erring"}
  SpawnResults = {"ok", "err"}
  MaxPush = 2
  CheckInterval = 4
  PollMin = 1
  PollMax = 1
  SuspendFloor = 2
  RetryWait = 4
  ProbeTimeout = 1
  BackoffMax = 1
  TermTimeout = 1
  FetchMax = 6
  LoginStopMax = 1
  SuspendLengths = {5}
  MaxSuspends = 1
SPECIFICATION Spec
PROPERTY ResetNeedsAcceptedCookie
