------------------------------- MODULE Tunnel -------------------------------
(***************************************************************************)
(* What the supervisor promises of openconnect: one process at a time.  A  *)
(* tunnel may die at any moment; it is replaced only by taking down what    *)
(* runs before anything new is started; once the supervisor closes, no      *)
(* tunnel is started any more, and it does not end by itself before the     *)
(* last one is reaped.  Only a forced exit leaves a tunnel to itself.       *)
(***************************************************************************)

CONSTANT Proc  \* openconnect process identities

VARIABLES
  running,  \* the processes that run
  intent    \* keep, replace, close, or how it ended: over, abandoned

tunnelVars == <<running, intent>>

Ending == {"over", "abandoned"}

Init == running = {} /\ intent = "keep"

Start == /\ intent = "keep" /\ running = {}
         /\ \E p \in Proc : running' = {p}
         /\ UNCHANGED intent

Dies == /\ intent \notin Ending
        /\ \E p \in running : running' = running \ {p}
        /\ UNCHANGED intent

TakeDown == /\ intent = "keep" /\ intent' \in {"replace", "close"}
            /\ UNCHANGED running

TakenDown == \/ intent = "replace" /\ intent' = "keep" /\ running' = {}
             \/ intent = "close" /\ intent' = "over" /\ running' = {}

Fail == /\ intent = "keep" /\ intent' = "over"
        /\ running = {} /\ UNCHANGED running

Abandon == /\ intent \notin Ending /\ intent' = "abandoned"
           /\ UNCHANGED running

Next == Start \/ Dies \/ TakeDown \/ TakenDown \/ Fail \/ Abandon

Spec == Init /\ [][Next]_tunnelVars
=============================================================================
