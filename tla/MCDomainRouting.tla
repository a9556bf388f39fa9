-------------------------- MODULE MCDomainRouting --------------------------
(* DomainRouting for TLC: short names over three labels, one of which also  *)
(* occurs in upper case.                                                    *)
EXTENDS DomainRouting

MCLabel == {"be", "BE", "vito", "*"}
MCLower == [l \in MCLabel |-> IF l = "BE" THEN "be" ELSE l]
MCHost == UNION {[1..n -> {"be", "BE", "vito"}] : n \in 1..3}
MCPattern == {<<"be">>, <<"vito", "be">>, <<"*", "be">>, <<"BE">>}
WildPattern == {<<"be">>, <<"*", "be">>}
=============================================================================
