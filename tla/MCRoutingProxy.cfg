\* One connection (they share nothing), one VPN and one public destination,
\* three chunks each way.
CONSTANTS
  Conn = {k1}
  Target = {vpn, public}
  VpnTarget = {vpn}
  NoTarget = NoTarget
  MaxData = 3
SPECIFICATION FairSpec
INVARIANTS NamesStayOnRoute SuccessIsTrue UnderstoodIsAnswered NothingSwallowed
PROPERTIES ImplementsProxyContract DrainedBeforeEnd LossEndsConnection StopClosesListener
