--------------------------- MODULE MCRoutingProxy ---------------------------
(* RoutingProxy for TLC.                                                    *)
EXTENDS RoutingProxy
=============================================================================
