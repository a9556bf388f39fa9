--------------------------- MODULE ProxyContract ---------------------------
(***************************************************************************)
(* What the routing proxy promises each client, in the terms of one call:   *)
(* it asks for at most one destination, whose name goes out on its own way  *)
(* only; it gets one answer, and hears of success only once it is linked;   *)
(* data passes in between, no more than was sent; and what is over is over. *)
(***************************************************************************)
EXTENDS Integers

CONSTANTS Client, Target, VpnTarget, NoTarget

VARIABLE call

Dir == {"up", "down"}
Way(t) == IF t \in VpnTarget THEN "tunnel" ELSE "direct"

NewCall == [ phase  |-> "idle",  \* asked, reached, linked, connected, over
             target |-> NoTarget,
             ways   |-> {},      \* where the target's name went
             told   |-> "none",  \* the one answer
             client |-> "open",  \* open, halfclosed or gone
             sent   |-> [d \in Dir |-> 0],
             passed |-> [d \in Dir |-> 0] ]

Init == call = [c \in Client |-> NewCall]

Becomes(c, r) == call' = [call EXCEPT ![c] = r]

Ask(c) == /\ call[c].phase = "idle"
          /\ \E t \in Target :
               Becomes(c, [call[c] EXCEPT !.phase = "asked", !.target = t])

Reach(c) == /\ call[c].phase = "asked"
            /\ Becomes(c, [call[c] EXCEPT !.phase = "reached",
                                          !.ways = {Way(call[c].target)}])

Link(c) == /\ call[c].phase \in {"asked", "reached"}
           /\ Becomes(c, [call[c] EXCEPT !.phase = "linked",
                                         !.ways = {Way(call[c].target)}])

Tell(c) == /\ call[c].phase = "linked"
           /\ Becomes(c, [call[c] EXCEPT !.phase = "connected", !.told = "ok"])

Refuse(c) == /\ call[c].phase \in {"idle", "asked", "reached"}
             /\ Becomes(c, [call[c] EXCEPT !.phase = "over", !.told = "error"])

Fail(c) == /\ call[c].phase = "asked"
           /\ Becomes(c, [call[c] EXCEPT !.phase = "over", !.told = "error",
                                         !.ways = {Way(call[c].target)}])

(* The only calls that end unanswered: they asked for nothing, or left.     *)
TurnAway == \E S \in SUBSET {c \in Client : call[c].phase = "idle"} :
              call' = [c \in Client |-> IF c \in S
                         THEN [call[c] EXCEPT !.phase = "over"] ELSE call[c]]

GiveUp(c) == /\ call[c].phase = "linked" /\ call[c].client = "gone"
             /\ Becomes(c, [call[c] EXCEPT !.phase = "over"])

Send(c, d) == /\ call[c].phase # "over"
              /\ d = "down" => call[c].phase \in {"linked", "connected"}
              /\ Becomes(c, [call[c] EXCEPT !.sent[d] = @ + 1])

Pass(c, d) == /\ call[c].phase = "connected"
              /\ call[c].passed[d] < call[c].sent[d]
              /\ Becomes(c, [call[c] EXCEPT !.passed[d] = @ + 1])

Leave(c) == /\ call[c].phase # "over" /\ call[c].client # "gone"
            /\ \E s \in {"halfclosed", "gone"} :
                 Becomes(c, [call[c] EXCEPT !.client = s])

HangUp(c) == /\ call[c].phase = "connected"
             /\ Becomes(c, [call[c] EXCEPT !.phase = "over"])

Next ==
  \/ TurnAway
  \/ \E c \in Client :
       \/ Ask(c) \/ Reach(c) \/ Link(c) \/ Tell(c) \/ Refuse(c) \/ Fail(c)
       \/ GiveUp(c) \/ Leave(c) \/ HangUp(c)
       \/ \E d \in Dir : Send(c, d) \/ Pass(c, d)

Spec == Init /\ [][Next]_call
=============================================================================
