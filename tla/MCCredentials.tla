--------------------------- MODULE MCCredentials ---------------------------
(* Credentials for TLC: an environment with half a pair or a whole one, files
   with none or a whole one.                                                *)
EXTENDS Credentials, TLC

CONSTANTS a1, a2

MCNobody == [username |-> NoAccount, password |-> NoAccount]
MCHalf == [username |-> a1, password |-> NoAccount]
MCWhole == [username |-> a1, password |-> a1]

MCEnvPairs == {MCHalf, MCWhole}
MCFilePairs == {MCNobody, MCWhole}
MCSymmetry == Permutations(Proc)
=============================================================================
