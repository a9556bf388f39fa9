\* Liveness under FairSpec; smaller clocks, spawning succeeds.
CONSTANTS
  Cookie = {c1}
  NoCookie = NoCookie
  Proc = {p1}
  NoProc = NoProc
  Service = {routing}
  Signal = {term}
  GatewayStates = {"up", "down"}
  SpawnResults = {"ok"}
  MaxPush = 1
  CheckInterval = 2
  PollMin = 1
  PollMax = 1
  SuspendFloor = 2
  RetryWait = 4
  ProbeTimeout = 1
  BackoffMax = 1
  TermTimeout = 1
  FetchMax = 1
  LoginStopMax = 1
  SuspendLengths = {1}
  MaxSuspends = 1
SPECIFICATION FairSpec
PROPERTIES StopTerminates UsableCookieBringsTunnel ResumeReplacesTunnel
