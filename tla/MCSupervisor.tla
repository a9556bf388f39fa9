---------------------------- MODULE MCSupervisor ----------------------------
(* Supervisor for TLC: which instances are interchangeable.                 *)
EXTENDS Supervisor, TLC

CookieSymmetry == Permutations(Cookie)
ProcSymmetry == Permutations(Proc)
Symmetries == CookieSymmetry \cup ProcSymmetry
=============================================================================
