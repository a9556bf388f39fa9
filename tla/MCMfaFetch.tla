----------------------------- MODULE MCMfaFetch -----------------------------
(* MfaFetch for TLC.                                                        *)
EXTENDS MfaFetch
=============================================================================
