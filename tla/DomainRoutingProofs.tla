------------------------ MODULE DomainRoutingProofs ------------------------
(* Theorems about DomainRouting, for every set of labels, patterns and      *)
(* hosts, and every pair of lists.                                          *)
EXTENDS DomainRouting, TLAPS

LEMMA TypeInit == Init => TypeOK
  BY DEF Init, TypeOK

LEMMA TypeStep == TypeOK /\ [Next]_vars => TypeOK'
  BY DEF TypeOK, Next, Ask, Answered, vars, request

(* The lists and the request stay in their ranges.                          *)
THEOREM RoutingTypeCorrect == Spec => []TypeOK
  BY TypeInit, TypeStep, PTL DEF Spec

(* A plain pattern is the same condition to the proxy and to the script.    *)
LEMMA PlainMeansSame ==
  ASSUME NEW p, Plain(p)
  PROVE  DomainCondition(p) <=> DomainMatches(host, p)
  BY DEF Plain, DomainCondition, DomainMatches

(* So the two decisions differ only where the URL mentions a direct domain. *)
LEMMA PlainAgrees == TypeOK => PacAgrees
<1> SUFFICES ASSUME TypeOK, ~isIp, \A p \in direct \cup proxy : Plain(p)
             PROVE  FindProxyForURL = "proxy_chain"
                      <=> RouteFor = "upstream" /\ mentioned = {}
  BY DEF PacAgrees
<1>1. \A p \in direct \cup proxy : DomainCondition(p) <=> DomainMatches(host, p)
  BY PlainMeansSame
<1>2. FindProxyForURL = "proxy_chain"
        <=> /\ ~\E p \in direct : DomainCondition(p) \/ p \in mentioned
            /\ \E p \in proxy : DomainCondition(p)
  BY DEF FindProxyForURL
<1>3. RouteFor = "upstream"
        <=> /\ ~\E p \in direct : DomainMatches(host, p)
            /\ \E p \in proxy : DomainMatches(host, p)
  BY DEF RouteFor
<1>4. mentioned = {} <=> ~\E p \in direct : p \in mentioned
  BY DEF TypeOK
<1> QED  BY <1>1, <1>2, <1>3, <1>4

(* Browsers and clients of the routing proxy agree on plain patterns.       *)
THEOREM PacAgreement == Spec => []PacAgrees
  BY RoutingTypeCorrect, PlainAgrees, PTL

(* A direct pattern beats every proxy pattern, in the proxy and the script. *)
LEMMA DirectWins == PortalStaysDirect
<1> SUFFICES ASSUME NEW p \in direct, DomainMatches(host, p)
             PROVE  /\ RouteFor = "direct"
                    /\ Plain(p) => FindProxyForURL = "DIRECT"
  BY DEF PortalStaysDirect
<1>1. RouteFor = "direct"
  BY DEF RouteFor
<1>2. Plain(p) => DomainCondition(p)
  BY PlainMeansSame
<1>3. DomainCondition(p) => FindProxyForURL = "DIRECT"
  BY DEF FindProxyForURL
<1> QED  BY <1>1, <1>2, <1>3

(* The portal stays reachable without the tunnel.                           *)
THEOREM PortalReachable == Spec => []PortalStaysDirect
  BY DirectWins, PTL

LEMMA LabelIsRoute == LabelTellsRoute
  BY DEF LabelTellsRoute, RouteLabel, RouteFor, SameOrBelow, DomainMatches

(* The two copies of domain_matches and of the order of the lists agree, so
   test-tunnel names the route that the proxy takes.                        *)
THEOREM LabelTrue == Spec => []LabelTellsRoute
  BY LabelIsRoute, PTL
=============================================================================
