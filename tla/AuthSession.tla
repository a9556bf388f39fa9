---------------------------- MODULE AuthSession ----------------------------
(***************************************************************************)
(* What automatic authentication promises the rest of jumphost: a login    *)
(* session starts only while the push allowance lasts, it may spend from    *)
(* the allowance but never refill it, and the allowance is refilled only by *)
(* a saved cookie or, between sessions, by a valid cookie found on disk.    *)
(* Supervisor and MfaFetch both implement this module.                      *)
(***************************************************************************)
EXTENDS Integers

CONSTANT MaxPush  \* MAX_MFA_PUSH_ATTEMPTS

VARIABLES
  attempts,  \* MfaAttemptBudget
  phase      \* idle, login (a browser may run), captured (cookie not yet saved)

sessionVars == <<attempts, phase>>

Init == attempts = 0 /\ phase = "idle"

Begin == /\ phase = "idle" /\ attempts < MaxPush
         /\ phase' = "login" /\ UNCHANGED attempts

Push == /\ phase = "login" /\ attempts < MaxPush
        /\ attempts' = attempts + 1 /\ UNCHANGED phase

Capture == phase = "login" /\ phase' = "captured" /\ UNCHANGED attempts

Save == phase = "captured" /\ phase' = "idle" /\ attempts' = 0

Fail == phase # "idle" /\ phase' = "idle" /\ UNCHANGED attempts

ValidCookieSeen == phase = "idle" /\ attempts' = 0 /\ UNCHANGED phase

Next == Begin \/ Push \/ Capture \/ Save \/ Fail \/ ValidCookieSeen

Spec == Init /\ [][Next]_sessionVars
=============================================================================
