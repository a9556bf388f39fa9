--------------------------- MODULE DomainRouting ---------------------------
(***************************************************************************)
(* Which destinations use the tunnel: the routing proxy's route_for and the *)
(* script that the PAC generator emits, fed by the same two lists of domain *)
(* patterns.                                                                *)
(*                                                                         *)
(* A host name or pattern is the sequence of its labels, so "equal, or ends *)
(* with a dot and the pattern" is IsSuffix on sequences.  A browser hands   *)
(* the script a lower-case host; a SOCKS client sends it as it was typed.   *)
(***************************************************************************)
EXTENDS Sequences, SequencesExt

CONSTANTS
  Label,    \* labels of names, in any case
  Lower,    \* to_ascii_lowercase on labels
  Star,     \* the label "*"
  Pattern,  \* entries that [domains] may list
  Host      \* names and addresses that clients ask for

ASSUME LowerAssumption ==
  /\ Lower \in [Label -> Label]
  /\ \A l \in Label : Lower[Lower[l]] = Lower[l]
  /\ Star \in Label
ASSUME NameAssumption ==
  Pattern \subseteq Seq(Label) \ {<<>>} /\ Host \subseteq Seq(Label) \ {<<>>}

VARIABLES
  direct, proxy,  \* direct_domains(), proxy_domains(): read once, then cached
  host,           \* what is asked for; <<>> between two requests
  isIp,           \* the client, or the CONNECT parser, sees an IP address
  mentioned       \* direct domains that occur somewhere in the URL

request == <<host, isIp, mentioned>>
vars == <<direct, proxy, request>>

Folded(name) == [i \in DOMAIN name |-> Lower[name[i]]]
OccursIn(p, name) ==
  \E i, j \in DOMAIN name : SubSeq(name, i, j) = p

-----------------------------------------------------------------------------
(* routing.rs *)
DomainMatches(name, p) == IsSuffix(Folded(p), Folded(name))

(* Mutant of RouteFor: the proxy list is consulted first. *)
ProxyFirst ==
  IF ~isIp /\ \E p \in proxy : DomainMatches(host, p) THEN "upstream" ELSE "direct"

RouteFor ==
  IF /\ ~isIp
     /\ ~\E p \in direct : DomainMatches(host, p)
     /\ \E p \in proxy : DomainMatches(host, p)
  THEN "upstream" ELSE "direct"

-----------------------------------------------------------------------------
(* config.rs: the label test-tunnel prints, with a domain_matches of its own. *)
SameOrBelow(name, p) == IsSuffix(Folded(p), Folded(name))

(* Mutant of RouteLabel: a host in no list is taken for a tunnelled one. *)
LabelUnlessDirect ==
  IF \E p \in direct : SameOrBelow(host, p) THEN "direct" ELSE "tunnel"

RouteLabel ==
  IF /\ ~\E p \in direct : SameOrBelow(host, p)
     /\ \E p \in proxy : SameOrBelow(host, p)
  THEN "tunnel" ELSE "direct"

-----------------------------------------------------------------------------
(* pac.rs: the script's conditions as the browser evaluates them. *)
Wildcard(p) == Len(p) > 1 /\ Head(p) = Star

(* Mutant of DomainCondition: only subdomains match. *)
SubdomainsOnly(p) ==
  IsStrictSuffix(IF Wildcard(p) THEN Tail(p) ELSE p, Folded(host))

(* shExpMatch(host, "*.rest"), or === and dnsDomainIs.                      *)
DomainCondition(p) ==
  IF Wildcard(p) THEN IsStrictSuffix(Tail(p), Folded(host))
                 ELSE IsSuffix(p, Folded(host))

(* Per direct domain its condition and url.indexOf; then the proxy list.    *)
FindProxyForURL ==
  IF /\ ~\E p \in direct : DomainCondition(p) \/ p \in mentioned
     /\ \E p \in proxy : DomainCondition(p)
  THEN "proxy_chain" ELSE "DIRECT"

-----------------------------------------------------------------------------
Init ==
  /\ direct \in SUBSET Pattern /\ proxy \in SUBSET Pattern
  /\ host = <<>> /\ isIp = FALSE /\ mentioned = {}

(* A client asks for a host.  The host itself, the path and the query may
   each mention a direct domain.                                            *)
Ask ==
  /\ host = <<>>
  /\ host' \in Host /\ isIp' \in BOOLEAN
  /\ mentioned' \in SUBSET direct
  /\ {p \in direct : OccursIn(p, Folded(host'))} \subseteq mentioned'
  /\ UNCHANGED <<direct, proxy>>

Answered ==
  /\ host # <<>>
  /\ host' = <<>> /\ isIp' = FALSE /\ mentioned' = {}
  /\ UNCHANGED <<direct, proxy>>

Next == Ask \/ Answered

Spec == Init /\ [][Next]_vars

-----------------------------------------------------------------------------
(* Properties.                                                              *)

(* The configured lists and the request stay in their ranges.               *)
TypeOK ==
  /\ direct \subseteq Pattern /\ proxy \subseteq Pattern
  /\ host \in Host \cup {<<>>} /\ isIp \in BOOLEAN
  /\ mentioned \subseteq direct

Plain(p) == ~Wildcard(p) /\ Folded(p) = p

(* With plain lower-case patterns the browser and the clients of the routing
   proxy use the tunnel for the same names; only a URL that mentions a direct
   domain makes the script more cautious than the proxy, never less.        *)
PacAgrees ==
  (~isIp /\ \A p \in direct \cup proxy : Plain(p)) =>
    (FindProxyForURL = "proxy_chain" <=> RouteFor = "upstream" /\ mentioned = {})

(* The portal: a host under a direct pattern never needs the tunnel, however
   specific the proxy patterns that match it too.                           *)
PortalStaysDirect ==
  \A p \in direct : DomainMatches(host, p) =>
    /\ RouteFor = "direct"
    /\ Plain(p) => FindProxyForURL = "DIRECT"

(* What test-tunnel says of a host is what the routing proxy does with it:
   the probe sends every target as a name.                                  *)
LabelTellsRoute == ~isIp => (RouteLabel = "tunnel" <=> RouteFor = "upstream")

(* config.rs, spec.md: the script and the proxy stay in sync because they
   consume the same lists.                                                  *)
RulesInSync ==
  (~isIp /\ mentioned = {}) =>
    (FindProxyForURL = "proxy_chain" <=> RouteFor = "upstream")
=============================================================================
