\* A refresh after a resume fails; then a valid cookie is supplied.
CONSTANTS
  Cookie = {c1}
  NoCookie = NoCookie
  Proc = {p1}
  NoProc = NoProc
  Service = {routing}
  Signal = {term}
  GatewayStates = {"up", "down"}
  SpawnResults = {"ok"}
  MaxPush = 1
  CheckInterval = 2
  PollMin = 1
  PollMax = 1
  SuspendFloor = 2
  RetryWait = 4
  ProbeTimeout = 1
  BackoffMax = 1
  TermTimeout = 1
  FetchMax = 2
  LoginStopMax = 1
  SuspendLengths = {1}
  MaxSuspends = 1
SPECIFICATION FairSpec
PROPERTY SuppliedCookieReplacesTunnel
