------------------------------ MODULE MfaFetch ------------------------------
(***************************************************************************)
(* cookie::fetch: the browser sessions that obtain a cookie, the MFA state  *)
(* machine of fetch_inner's poll loop, and the push budget that all         *)
(* sessions of one supervisor share.                                        *)
(*                                                                         *)
(* The Microsoft pages and the user are the environment.  `page` is what    *)
(* the browser shows, `pending` whether a push it sent is unanswered on the *)
(* user's phone.  `clicks` and `sent` are history: the pushes that this     *)
(* code clicked for, and all pushes it caused, since the budget was last    *)
(* reset.                                                                   *)
(***************************************************************************)
EXTENDS Integers

CONSTANTS
  Number,      \* numbers of the number-match screen
  NoNumber,
  MaxPush,     \* MAX_MFA_PUSH_ATTEMPTS
  Deadline,    \* FetchOptions.max_wait, in seconds
  StuckLimit,  \* polls on the device-auth page before it is reloaded (5)
  NoHeadless,  \* --no-headless / no_headless
  LostAnswers  \* a click may reach the page and its CDP answer be lost

ASSUME NumberAssumption == Number \cap {NoNumber, "Idle", "Triggered"} = {}
ASSUME BoundAssumption ==
  /\ MaxPush \in Nat \ {0} /\ Deadline \in Nat /\ StuckLimit \in Nat \ {0}
  /\ NoHeadless \in BOOLEAN /\ LostAnswers \in BOOLEAN

VARIABLES
  pc,         \* idle, launch, open, poll, detect, fill, sleep, save
  headless, creds,
  attempts,   \* MfaAttemptBudget
  mfa,        \* MfaAttemptState: Idle, Triggered or the number
  notif,      \* the number on the desktop notification
  notified,   \* notified_number
  stuckPolls, \* stuck_url_count, while on the device-auth page
  elapsed,    \* time since the deadline was set
  stop,
  page, number, pending,
  clicks, sent

local == <<headless, creds, mfa, notif, notified, stuckPolls, elapsed>>
site  == <<page, number, pending>>
hist  == <<clicks, sent>>
vars  == <<pc, local, attempts, stop, site, hist>>

-----------------------------------------------------------------------------
(* Mutant: one push too many. *)
ExhaustedOffByOne == attempts > MaxPush
IsExhausted == attempts >= MaxPush

(* A history counter; one more than the limit is all that matters.          *)
CountUp(n) == IF n > MaxPush THEN n ELSE n + 1
Later(d) == elapsed' = IF elapsed + d > Deadline THEN Deadline ELSE elapsed + d

EntryPages == {"login", "stuck", "done", "blank"}
AfterLogin == {"login", "picker", "number", "approval", "prompt", "stuck", "done"}
ChallengePages == {"number", "approval"}

(* The site shows page p; a challenge page comes with its number.           *)
Shows(p) ==
  /\ page' = p
  /\ IF p = "number" THEN number' \in Number ELSE number' = NoNumber

(* try_microsoft_login: submitting the password may by itself send a push.  *)
TryLogin ==
  IF creds /\ page = "login"
    THEN \E p \in AfterLogin :
           /\ Shows(p)
           /\ pending' = (p \in ChallengePages)
           /\ sent' = IF p \in ChallengePages THEN CountUp(sent) ELSE sent
    ELSE UNCHANGED <<site, sent>>

(* Mutant of LocalsDropped: no NotificationGuard. *)
NotificationLeft ==
  /\ mfa' = "Idle" /\ UNCHANGED notif /\ notified' = NoNumber
  /\ stuckPolls' = 0 /\ elapsed' = 0
  /\ page' = "blank" /\ number' = NoNumber /\ pending' = FALSE

(* fetch_inner returned: its locals are gone, NotificationGuard::drop closed
   the notification, launch_and_fetch closed the browser.                   *)
LocalsDropped ==
  /\ mfa' = "Idle" /\ notif' = NoNumber /\ notified' = NoNumber
  /\ stuckPolls' = 0 /\ elapsed' = 0
  /\ page' = "blank" /\ number' = NoNumber /\ pending' = FALSE

FetchEnds == pc' = "idle" /\ headless' = FALSE /\ creds' = FALSE /\ LocalsDropped
-----------------------------------------------------------------------------
(* Mutant of Begin: no check of the push limit. *)
BeginUnlimited ==
  /\ pc = "idle" /\ pc' = "launch"
  /\ creds' \in BOOLEAN /\ headless' = (creds' /\ ~NoHeadless)
  /\ UNCHANGED <<attempts, mfa, notif, notified, stuckPolls, elapsed, stop, site,
                 hist>>

(* refresh_cookie and the entry of fetch.                                   *)
Begin ==
  /\ pc = "idle" /\ ~IsExhausted
  /\ pc' = "launch"
  /\ creds' \in BOOLEAN /\ headless' = (creds' /\ ~NoHeadless)
  /\ UNCHANGED <<attempts, mfa, notif, notified, stuckPolls, elapsed, stop, site,
                 hist>>

LaunchFails ==
  /\ pc = "launch" /\ FetchEnds /\ UNCHANGED <<attempts, stop, hist>>

LaunchOpens ==
  /\ pc = "launch" /\ pc' = "open"
  /\ \E p \in EntryPages : Shows(p)
  /\ UNCHANGED <<local, attempts, stop, pending, hist>>

(* The login form is filled once before the poll loop.                      *)
FirstFill ==
  /\ pc = "open" /\ pc' = "poll"
  /\ TryLogin
  /\ UNCHANGED <<local, attempts, stop, clicks>>

-----------------------------------------------------------------------------
(* One round of the poll loop.                                              *)

Interrupted ==
  /\ pc \in {"poll", "sleep"} /\ stop
  /\ FetchEnds /\ UNCHANGED <<attempts, stop, hist>>

(* The jar holds a cookie and the gateway accepts it.                       *)
PollCaptures ==
  /\ pc = "poll" /\ page = "done"
  /\ pc' = "save" /\ LocalsDropped
  /\ UNCHANGED <<headless, creds, attempts, stop, hist>>

(* No cookie in the jar, or none that the gateway could be seen to accept.  *)
PollContinues ==
  /\ pc = "poll" /\ ~stop /\ pc' = "detect"
  /\ UNCHANGED <<local, attempts, stop, site, hist>>

PageStuck == headless /\ page = "stuck" /\ stuckPolls >= StuckLimit

(* Mutant of ReloadStuck: stuck_url_count is not reset. *)
ReloadForever ==
  /\ pc = "detect" /\ PageStuck /\ pc' = "poll"
  /\ \E p \in EntryPages : Shows(p)
  /\ Later(3)
  /\ UNCHANGED <<headless, creds, mfa, notif, notified, stuckPolls, attempts, stop,
                 pending, hist>>

(* The `continue` skips both the MFA detection and the deadline.            *)
ReloadStuck ==
  /\ pc = "detect" /\ PageStuck /\ pc' = "poll"
  /\ \E p \in EntryPages : Shows(p)
  /\ stuckPolls' = 0 /\ Later(3)
  /\ UNCHANGED <<headless, creds, mfa, notif, notified, attempts, stop, pending,
                 hist>>

Detects ==
  /\ pc = "detect" /\ ~PageStuck
  /\ pc' = "fill"
  /\ stuckPolls' = IF page = "stuck" /\ stuckPolls < StuckLimit
                     THEN stuckPolls + 1
                     ELSE IF page = "stuck" THEN stuckPolls ELSE 0
  /\ UNCHANGED <<headless, creds, stop>>

(* The `?` of try_record_attempt, and the check before a click.             *)
LimitReached ==
  /\ pc = "detect" /\ ~PageStuck /\ IsExhausted
  /\ \/ page = "picker" /\ headless /\ mfa # "Triggered"
     \/ page = "number" /\ mfa \notin {"Triggered", number}
     \/ page = "approval" /\ mfa = "Idle"
  /\ FetchEnds /\ UNCHANGED <<attempts, stop, hist>>

(* Mutant of MayClick: the lingering picker is clicked again. *)
MayClickAgain == headless /\ page = "picker"

MayClick == headless /\ page = "picker" /\ mfa # "Triggered"

(* Mutant of ClickPicker: the click is not charged to the budget. *)
ClickUncharged ==
  /\ Detects /\ MayClick /\ ~IsExhausted
  /\ pending' = TRUE /\ clicks' = CountUp(clicks) /\ sent' = CountUp(sent)
  /\ mfa' = "Triggered" /\ Later(2)
  /\ UNCHANGED <<attempts, notif, notified, page, number>>

(* The Authenticator option is clicked: the push goes out, the picker
   lingers.  The click counts once its answer is back.                      *)
ClickPicker ==
  /\ Detects /\ MayClick /\ ~IsExhausted
  /\ pending' = TRUE /\ clicks' = CountUp(clicks) /\ sent' = CountUp(sent)
  /\ \/ attempts' = attempts + 1 /\ mfa' = "Triggered"
     \/ LostAnswers /\ UNCHANGED <<attempts, mfa>>
  /\ Later(2)
  /\ UNCHANGED <<notif, notified, page, number>>

ClickMisses ==
  /\ Detects /\ MayClick /\ ~IsExhausted
  /\ Later(2)
  /\ UNCHANGED <<mfa, notif, notified, attempts, site, hist>>

(* A number that this process's own click announced is not counted again.   *)
SeeNumber ==
  /\ Detects /\ page = "number"
  /\ IF mfa \in {"Triggered", number}
       THEN UNCHANGED attempts
       ELSE ~IsExhausted /\ attempts' = attempts + 1
  /\ mfa' = number
  /\ IF headless /\ notified # number
       THEN notif' \in {number, NoNumber} /\ notified' = number
       ELSE UNCHANGED <<notif, notified>>
  /\ UNCHANGED <<elapsed, site, hist>>

SeePending ==
  /\ Detects /\ page = "approval"
  /\ IF mfa = "Idle"
       THEN ~IsExhausted /\ attempts' = attempts + 1 /\ mfa' = "Triggered"
       ELSE UNCHANGED <<attempts, mfa>>
  /\ UNCHANGED <<notif, notified, elapsed, site, hist>>

(* Headless and the page wants typing: fetch relaunches a visible browser,
   unless it was interrupted.                                               *)
SeePrompt ==
  /\ pc = "detect" /\ page = "prompt" /\ headless
  /\ IF stop
       THEN FetchEnds
       ELSE pc' = "launch" /\ headless' = FALSE /\ LocalsDropped /\ UNCHANGED creds
  /\ UNCHANGED <<attempts, stop, hist>>

(* Nothing to do on this page, or the detection script failed.              *)
SeeNothing ==
  /\ Detects
  /\ UNCHANGED <<mfa, notif, notified, elapsed, attempts, site, hist>>

(* Mutant of Fill: no deadline. *)
FillForever ==
  /\ pc = "fill" /\ pc' = "sleep" /\ TryLogin
  /\ UNCHANGED <<local, attempts, stop, clicks>>

(* Re-fill the form, then the deadline.                                     *)
Fill ==
  /\ pc = "fill"
  /\ IF elapsed >= Deadline
       THEN /\ FetchEnds
            /\ sent' \in {sent} \cup
                 (IF creds /\ page = "login" THEN {CountUp(sent)} ELSE {})
       ELSE pc' = "sleep" /\ TryLogin /\ UNCHANGED local
  /\ UNCHANGED <<attempts, stop, clicks>>

(* A round takes its second of sleep, and what the browser's answers took.  *)
Sleep ==
  /\ pc = "sleep" /\ pc' = "poll"
  /\ \E d \in 1..Deadline + 1 : Later(d)
  /\ UNCHANGED <<headless, creds, mfa, notif, notified, stuckPolls, attempts, stop,
                 site, hist>>

(* write_cookie_file, then refresh_cookie's reset.                          *)
SaveCookie ==
  /\ pc = "save" /\ FetchEnds
  /\ attempts' = 0 /\ clicks' = 0 /\ sent' = 0
  /\ UNCHANGED stop

SaveFails ==
  /\ pc = "save" /\ FetchEnds /\ UNCHANGED <<attempts, stop, hist>>

(* The supervisor validated the cookie file between two logins.             *)
ValidCookieSeen ==
  /\ pc = "idle" /\ attempts' = 0 /\ clicks' = 0 /\ sent' = 0
  /\ UNCHANGED <<pc, local, stop, site>>
-----------------------------------------------------------------------------
(* The environment: Microsoft's pages and the user.                         *)
InBrowser == pc \in {"open", "poll", "detect", "fill", "sleep"}

(* The challenge screen replaces the picker, or its number renders.         *)
ChallengeAppears ==
  /\ pending /\ page \in {"picker", "approval"}
  /\ \E p \in ChallengePages \ {page} : Shows(p)
  /\ UNCHANGED pending

UserApproves ==
  pending /\ Shows("done") /\ pending' = FALSE

ChallengeExpires ==
  /\ pending /\ pending' = FALSE
  /\ \E p \in {"picker", "login"} : Shows(p)

(* In a visible browser the user types, picks a method or resends.          *)
UserDrives ==
  /\ ~headless /\ page \in {"login", "picker", "prompt", "number"}
  /\ \E p \in AfterLogin : Shows(p) /\ pending' = (p \in ChallengePages)

PageRedirects ==
  /\ page \in {"stuck", "blank"}
  /\ \E p \in {"login", "done"} : Shows(p)
  /\ UNCHANGED pending

Site ==
  /\ InBrowser
  /\ \/ ChallengeAppears \/ UserApproves \/ ChallengeExpires
     \/ UserDrives \/ PageRedirects
  /\ UNCHANGED <<pc, local, attempts, stop, hist>>

StopRequested ==
  /\ ~stop /\ stop' = TRUE
  /\ UNCHANGED <<pc, local, attempts, site, hist>>

-----------------------------------------------------------------------------
Init ==
  /\ pc = "idle" /\ headless = FALSE /\ creds = FALSE /\ attempts = 0
  /\ mfa = "Idle" /\ notif = NoNumber /\ notified = NoNumber
  /\ stuckPolls = 0 /\ elapsed = 0 /\ stop = FALSE
  /\ page = "blank" /\ number = NoNumber /\ pending = FALSE
  /\ clicks = 0 /\ sent = 0

Round == Interrupted \/ PollCaptures \/ PollContinues \/ ReloadStuck
           \/ LimitReached \/ ClickPicker \/ ClickMisses \/ SeeNumber
           \/ SeePending \/ SeePrompt \/ SeeNothing \/ Fill \/ Sleep
Session == LaunchFails \/ LaunchOpens \/ FirstFill \/ Round \/ SaveCookie
             \/ SaveFails

Next == Begin \/ Session \/ ValidCookieSeen \/ Site \/ StopRequested

Spec == Init /\ [][Next]_vars

(* Every await inside a session returns: CDP calls are bounded by
   chromiumoxide's request timeout, closing the browser by 5 s.             *)
FairSpec == Spec /\ WF_vars(Session)

-----------------------------------------------------------------------------
(* Properties.                                                              *)

(* Every variable stays in its range.                                       *)
TypeOK ==
  /\ pc \in {"idle", "launch", "open", "poll", "detect", "fill", "sleep", "save"}
  /\ headless \in BOOLEAN /\ creds \in BOOLEAN
  /\ attempts \in 0..MaxPush
  /\ mfa \in Number \cup {"Idle", "Triggered"}
  /\ notif \in Number \cup {NoNumber} /\ notified \in Number \cup {NoNumber}
  /\ stuckPolls \in 0..StuckLimit /\ elapsed \in 0..Deadline
  /\ stop \in BOOLEAN /\ pending \in BOOLEAN
  /\ page \in AfterLogin \cup {"blank"} /\ number \in Number \cup {NoNumber}
  /\ clicks \in 0..MaxPush + 1 /\ sent \in 0..MaxPush + 1

(* As long as click answers arrive, the code clicks for at most MaxPush
   pushes between two resets, across browser sessions; and once it has
   recognised a push, that login has been charged.                          *)
ClicksCounted ==
  ~LostAnswers => /\ clicks <= attempts
                  /\ mfa # "Idle" => attempts > 0

(* One login never clicks for a second push while its first is unanswered,
   however long the clicked picker stays in the DOM.                        *)
NoClickWhilePending == [][clicks' > clicks => ~pending]_vars

(* The desktop notification shows the number the loop last saw, and is gone
   when no browser session runs.                                            *)
NotificationCurrent ==
  /\ notif # NoNumber => InBrowser
  /\ mfa \in Number => notif \in {mfa, NoNumber}

(* What a session at await p still has before it: the rounds that the
   deadline leaves, the place in this one, a reload if the stuck page was
   seen often enough, and the visible browser after a headless one.         *)
RoundsLeft(t) == 6 * (Deadline - t)
Relaunch(h) == IF h THEN RoundsLeft(0) + 7 ELSE 0
ReloadDue(k) == IF k >= StuckLimit THEN 2 ELSE 0
Rank(p, h, t, k) ==
  CASE p = "idle"   -> 0
    [] p = "save"   -> 1
    [] p = "sleep"  -> Relaunch(h) + RoundsLeft(t) + 1
    [] p = "fill"   -> Relaunch(h) + RoundsLeft(t) + 2
    [] p = "detect" -> Relaunch(h) + RoundsLeft(t) + 3 + ReloadDue(k)
    [] p = "poll"   -> Relaunch(h) + RoundsLeft(t) + 4 + ReloadDue(k)
    [] p = "open"   -> Relaunch(h) + RoundsLeft(0) + 5
    [] p = "launch" -> Relaunch(h) + RoundsLeft(0) + 6
SessionRank == Rank(pc, headless, elapsed, stuckPolls)

(* Whatever the pages show, every await of a login brings it closer to its
   end: a reload skips the deadline but cannot come twice in a row, a round
   uses up time, and there is one relaunch.  Neither the site nor the user
   can prolong it.                                                          *)
SessionAdvances ==
  [][/\ SessionRank \in Nat
     /\ Session => SessionRank' < SessionRank
     /\ pc # "idle" => SessionRank' <= SessionRank]_vars

(* Every login session ends, even on pages that never move: reloading a
   stuck page skips the deadline, but not for ever.                         *)
SessionEnds == pc # "idle" ~> pc = "idle"

(* The session implements the contract that the supervisor relies on.       *)
Phase == CASE pc = "idle" -> "idle" [] pc = "save" -> "captured"
           [] OTHER -> "login"
Contract == INSTANCE AuthSession WITH phase <- Phase
ImplementsContract == Contract!Spec

(* README.md: "at most three Microsoft Authenticator push notifications
   during one `jumphost run` process".                                      *)
PushLimit == sent <= MaxPush
=============================================================================
