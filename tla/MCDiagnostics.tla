---------------------------- MODULE MCDiagnostics ----------------------------
(* Diagnostics for TLC.                                                     *)
EXTENDS Diagnostics

MCHostLists == {<<>>, <<BadHost>>, <<"h1", "h2">>, <<"h1", BadHost>>, <<"long">>}
=============================================================================
