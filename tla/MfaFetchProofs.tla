--------------------------- MODULE MfaFetchProofs ---------------------------
(***************************************************************************)
(* What holds of the login sessions for every push limit, deadline and set  *)
(* of numbers, whatever the pages and the user do.                          *)
(***************************************************************************)
EXTENDS MfaFetch, TLAPS

(* Outside a browser the locals of fetch_inner do not exist.                *)
LocalsScoped ==
  ~InBrowser => /\ mfa = "Idle" /\ notif = NoNumber /\ notified = NoNumber
                /\ page = "blank" /\ pending = FALSE

(* A clicked picker that is still in the DOM of a headless page is
   remembered as triggered.                                                 *)
LingeringPicker ==
  ~LostAnswers /\ headless /\ page = "picker" /\ pending => mfa = "Triggered"

(* A number page has a number.                                              *)
NumberShown == page = "number" => number \in Number

(* The notification shows the number it was sent for; only a headless
   session sends one.                                                       *)
NotificationSent ==
  /\ notif \in {notified, NoNumber}
  /\ ~headless => notified = NoNumber

MInv == TypeOK /\ ClicksCounted /\ NotificationCurrent /\ LocalsScoped
        /\ LingeringPicker /\ NumberShown /\ NotificationSent

LEMMA CountUpType ==
  ASSUME NEW n \in 0..MaxPush + 1
  PROVE  CountUp(n) \in 0..MaxPush + 1
  BY BoundAssumption DEF CountUp

LEMMA InitMInv == Init => MInv
<1> SUFFICES ASSUME Init PROVE MInv
  OBVIOUS
<1>1. headless \in BOOLEAN /\ creds \in BOOLEAN /\ stop \in BOOLEAN /\ pending \in BOOLEAN
  BY Zenon DEF Init
<1>2. TypeOK
  BY <1>1, BoundAssumption DEF Init, TypeOK, AfterLogin
<1> QED
  BY <1>2, NumberAssumption
  DEF Init, MInv, ClicksCounted, NotificationCurrent, LocalsScoped,
      LingeringPicker, NumberShown, NotificationSent, InBrowser

-----------------------------------------------------------------------------
(* Ending a session, submitting the form and showing a page keep the
   invariant's parts that they touch.                                       *)

LEMMA TryLoginType ==
  ASSUME TypeOK, NumberShown, TryLogin
  PROVE  /\ page' \in AfterLogin \cup {"blank"} /\ number' \in Number \cup {NoNumber}
         /\ pending' \in BOOLEAN /\ sent' \in 0..MaxPush + 1
         /\ NumberShown'
         /\ page' = "picker" /\ pending' => page = "picker" /\ pending
<1>1. CASE creds /\ page = "login"
  <2>1. PICK p \in AfterLogin :
           /\ Shows(p)
           /\ pending' = (p \in ChallengePages)
           /\ sent' = IF p \in ChallengePages THEN CountUp(sent) ELSE sent
    BY <1>1 DEF TryLogin
  <2>2. pending' \in BOOLEAN
    <3>1. pending' = (p \in ChallengePages)
      BY <2>1, Zenon
    <3> QED BY ONLY <3>1, SMT
  <2>3. CountUp(sent) \in 0..MaxPush + 1 /\ sent \in 0..MaxPush + 1
    BY CountUpType DEF TypeOK
  <2>4. sent' \in 0..MaxPush + 1
    BY <2>1, <2>3
  <2> QED BY <2>1, <2>2, <2>4 DEF Shows, NumberShown, ChallengePages, AfterLogin
<1>2. CASE ~(creds /\ page = "login")
  BY <1>2 DEF TryLogin, TypeOK, NumberShown, site
<1> QED BY <1>1, <1>2

LEMMA FetchEndsKeeps ==
  ASSUME MInv, FetchEnds, UNCHANGED stop,
         \/ attempts' = attempts /\ clicks' = clicks
         \/ attempts' = 0 /\ clicks' = 0,
         sent' \in 0..MaxPush + 1
  PROVE  MInv'
<1>1. headless' \in BOOLEAN /\ creds' \in BOOLEAN /\ pending' \in BOOLEAN
  BY Zenon DEF FetchEnds, LocalsDropped
<1>2. TypeOK'
  BY <1>1, BoundAssumption DEF MInv, TypeOK, FetchEnds, LocalsDropped, AfterLogin
<1>3. ClicksCounted'
  BY BoundAssumption DEF MInv, ClicksCounted, TypeOK, FetchEnds, LocalsDropped
<1> QED
  BY <1>2, <1>3, NumberAssumption
  DEF MInv, FetchEnds, LocalsDropped, NotificationCurrent, LocalsScoped,
      LingeringPicker, NumberShown, NotificationSent, InBrowser

-----------------------------------------------------------------------------
(* The poll loop keeps the invariant.                                       *)

LEMMA RoundKeepsMInv == MInv /\ Round => MInv'
<1> SUFFICES ASSUME MInv, Round PROVE MInv'
  OBVIOUS
<1>0. /\ sent \in 0..MaxPush + 1 /\ CountUp(sent) \in 0..MaxPush + 1
      /\ CountUp(clicks) \in 0..MaxPush + 1
      /\ attempts \in 0..MaxPush /\ MaxPush \in Nat /\ StuckLimit \in Nat
      /\ Deadline \in Nat /\ elapsed \in 0..Deadline /\ stuckPolls \in 0..StuckLimit
  BY CountUpType, BoundAssumption DEF MInv, TypeOK
<1> USE DEF MInv, TypeOK, ClicksCounted, NotificationCurrent, LocalsScoped,
      LingeringPicker, NumberShown, NotificationSent, InBrowser, hist, site, local
<1>1. CASE Interrupted
  BY <1>0, <1>1, FetchEndsKeeps DEF Interrupted
<1>2. CASE PollCaptures
  <2>1. pending' \in BOOLEAN
    BY <1>2, Zenon DEF PollCaptures, LocalsDropped
  <2> QED BY <1>0, <1>2, <2>1, NumberAssumption DEF PollCaptures, LocalsDropped
<1>3. CASE PollContinues
  BY <1>3 DEF PollContinues
<1>4. CASE ReloadStuck
  BY <1>0, <1>4 DEF ReloadStuck, Later, EntryPages, AfterLogin, Shows
<1>5. CASE LimitReached
  BY <1>0, <1>5, FetchEndsKeeps DEF LimitReached
<1>6. CASE ClickPicker
  <2>1. pending' \in BOOLEAN
    BY <1>6, Zenon DEF ClickPicker
  <2>2. elapsed' \in 0..Deadline /\ stuckPolls' \in 0..StuckLimit
    BY <1>0, <1>6 DEF ClickPicker, Later, Detects
  <2>3. attempts' \in 0..MaxPush /\ mfa' \in Number \cup {"Idle", "Triggered"}
    BY <1>0, <1>6 DEF ClickPicker, IsExhausted
  <2>4. TypeOK'
    BY <1>0, <1>6, <2>1, <2>2, <2>3 DEF ClickPicker, Detects
  <2>5. ClicksCounted'
    BY <1>0, <1>6 DEF ClickPicker, IsExhausted, CountUp
  <2> QED
    BY <1>6, <2>4, <2>5, NumberAssumption DEF ClickPicker, Detects, MayClick
<1>7. CASE ClickMisses
  BY <1>0, <1>7 DEF ClickMisses, Detects, Later
<1>8. CASE SeeNumber
  <2>1. /\ pc' = "fill" /\ page = "number" /\ mfa' = number /\ number \in Number
        /\ number \notin {NoNumber, "Idle", "Triggered"}
        /\ UNCHANGED <<headless, creds, stop, elapsed, site, hist>>
    BY <1>8, NumberAssumption DEF SeeNumber, Detects
  <2>2. stuckPolls' \in 0..StuckLimit
    BY <1>0, <1>8 DEF SeeNumber, Detects
  <2>3. /\ attempts' \in 0..MaxPush /\ attempts' >= attempts
        /\ ~LostAnswers => attempts' > 0
    <3>1. CASE mfa \in {"Triggered", number}
      BY <1>0, <1>8, <2>1, <3>1 DEF SeeNumber
    <3>2. CASE mfa \notin {"Triggered", number}
      BY <1>0, <1>8, <3>2 DEF SeeNumber, IsExhausted
    <3> QED BY <3>1, <3>2
  <2>4. /\ notif' \in {number, NoNumber} /\ notified' \in Number \cup {NoNumber}
        /\ notif' \in {notified', NoNumber}
        /\ ~headless => notified' = NoNumber
    <3>1. CASE headless /\ notified # number
      BY <1>8, <2>1, <3>1 DEF SeeNumber
    <3>2. CASE ~(headless /\ notified # number)
      BY <1>8, <2>1, <3>2 DEF SeeNumber
    <3> QED BY <3>1, <3>2
  <2>5. TypeOK'
    BY <2>1, <2>2, <2>3, <2>4
  <2>6. ClicksCounted'
    BY <1>0, <2>1, <2>3
  <2> QED BY <2>1, <2>4, <2>5, <2>6
<1>9. CASE SeePending
  BY <1>0, <1>9, NumberAssumption DEF SeePending, Detects, IsExhausted
<1>10. CASE SeePrompt
  <2>1. CASE stop
    BY <1>0, <1>10, <2>1, FetchEndsKeeps DEF SeePrompt
  <2>2. CASE ~stop
    <3>1. headless' \in BOOLEAN /\ pending' \in BOOLEAN
      BY <1>10, <2>2, Zenon DEF SeePrompt, LocalsDropped
    <3> QED BY <1>0, <1>10, <2>2, <3>1, NumberAssumption DEF SeePrompt, LocalsDropped
  <2> QED BY <2>1, <2>2
<1>11. CASE SeeNothing
  BY <1>0, <1>11 DEF SeeNothing, Detects
<1>12. CASE Fill
  <2>1. CASE elapsed >= Deadline
    BY <1>0, <1>12, <2>1, FetchEndsKeeps DEF Fill
  <2>2. CASE ~(elapsed >= Deadline)
    BY <1>12, <2>2, TryLoginType DEF Fill
  <2> QED BY <2>1, <2>2
<1>13. CASE Sleep
  BY <1>0, <1>13 DEF Sleep, Later
<1> QED
  BY <1>1, <1>2, <1>3, <1>4, <1>5, <1>6, <1>7, <1>8, <1>9, <1>10, <1>11, <1>12, <1>13
  DEF Round

(* The actions that open and close sessions keep the invariant.             *)
LEMMA SessionKeepsMInv ==
  MInv /\ (Begin \/ LaunchFails \/ LaunchOpens \/ FirstFill \/ SaveCookie \/ SaveFails)
    => MInv'
<1> SUFFICES ASSUME MInv, Begin \/ LaunchFails \/ LaunchOpens \/ FirstFill
                            \/ SaveCookie \/ SaveFails
             PROVE  MInv'
  OBVIOUS
<1>0. sent \in 0..MaxPush + 1 /\ 0 \in 0..MaxPush + 1
  BY BoundAssumption DEF MInv, TypeOK
<1> USE DEF MInv, TypeOK, ClicksCounted, NotificationCurrent, LocalsScoped,
      LingeringPicker, NumberShown, NotificationSent, InBrowser, hist, site, local
<1>1. CASE Begin
  <2>1. headless' \in BOOLEAN /\ creds' \in BOOLEAN
    BY <1>1, BoundAssumption, Zenon DEF Begin
  <2> QED BY <1>1, <2>1 DEF Begin
<1>2. CASE LaunchFails
  BY <1>0, <1>2, FetchEndsKeeps DEF LaunchFails
<1>3. CASE LaunchOpens
  BY <1>3 DEF LaunchOpens, EntryPages, AfterLogin, Shows
<1>4. CASE FirstFill
  BY <1>4, TryLoginType DEF FirstFill
<1>5. CASE SaveCookie
  BY <1>0, <1>5, FetchEndsKeeps DEF SaveCookie
<1>6. CASE SaveFails
  BY <1>0, <1>6, FetchEndsKeeps DEF SaveFails
<1> QED BY <1>1, <1>2, <1>3, <1>4, <1>5, <1>6

(* So do the pages, the user and a stop request.                            *)
LEMMA EnvironmentKeepsMInv == MInv /\ (Site \/ ValidCookieSeen \/ StopRequested) => MInv'
<1> SUFFICES ASSUME MInv, Site \/ ValidCookieSeen \/ StopRequested PROVE MInv'
  OBVIOUS
<1> USE DEF MInv, TypeOK, ClicksCounted, NotificationCurrent, LocalsScoped,
      LingeringPicker, NumberShown, NotificationSent, InBrowser, hist, site, local
<1>1. CASE Site
  <2>0. InBrowser /\ UNCHANGED <<pc, local, attempts, stop, hist>>
    BY <1>1 DEF Site
  <2>1. CASE ChallengeAppears
    BY <2>0, <2>1 DEF ChallengeAppears, Shows, ChallengePages, AfterLogin
  <2>2. CASE UserApproves
    <3>1. page' = "done" /\ number' = NoNumber
      BY <2>2 DEF UserApproves, Shows
    <3>2. pending' \in BOOLEAN
      BY <2>2, Zenon DEF UserApproves
    <3> QED BY <2>0, <3>1, <3>2 DEF AfterLogin
  <2>3. CASE ChallengeExpires
    <3>1. page' \in {"picker", "login"} /\ number' = NoNumber
      BY <2>3 DEF ChallengeExpires, Shows
    <3>2. pending' \in BOOLEAN
      BY <2>3, Zenon DEF ChallengeExpires
    <3>3. ~pending'
      BY <2>3, Zenon DEF ChallengeExpires
    <3> QED BY <2>0, <3>1, <3>2, <3>3 DEF AfterLogin
  <2>4. CASE UserDrives
    <3>1. PICK p \in AfterLogin : Shows(p) /\ pending' = (p \in ChallengePages)
      BY <2>4, Zenon DEF UserDrives
    <3>2. pending' = (p \in ChallengePages)
      BY <3>1
    <3>3. pending' \in BOOLEAN
      BY ONLY <3>2, SMT
    <3> QED BY <2>0, <2>4, <3>1, <3>3 DEF UserDrives, Shows, AfterLogin
  <2>5. CASE PageRedirects
    BY <2>0, <2>5 DEF PageRedirects, Shows, AfterLogin
  <2> QED BY <1>1, <2>1, <2>2, <2>3, <2>4, <2>5 DEF Site
<1>2. CASE ValidCookieSeen
  BY <1>2, BoundAssumption DEF ValidCookieSeen
<1>3. CASE StopRequested
  <2>1. stop' \in BOOLEAN
    BY <1>3, Zenon DEF StopRequested
  <2> QED BY <1>3, <2>1 DEF StopRequested
<1> QED BY <1>1, <1>2, <1>3

LEMMA StepKeepsMInv == MInv /\ [Next]_vars => MInv'
<1>1. MInv /\ UNCHANGED vars => MInv'
  BY DEF MInv, TypeOK, ClicksCounted, NotificationCurrent, LocalsScoped,
     LingeringPicker, NumberShown, NotificationSent, InBrowser, vars, hist, site, local
<1> QED
  BY <1>1, RoundKeepsMInv, SessionKeepsMInv, EnvironmentKeepsMInv DEF Next, Session

-----------------------------------------------------------------------------
(* The invariant holds in every reachable state.                            *)
THEOREM FetchStrengthened == Spec => []MInv
<1> QED BY InitMInv, StepKeepsMInv, PTL DEF Spec

(* Every variable keeps to its range; in particular the shared budget never
   exceeds its limit, whatever order sessions and resets come in.           *)
THEOREM FetchTypeCorrect == Spec => []TypeOK
<1>1. MInv => TypeOK
  BY DEF MInv
<1> QED BY <1>1, FetchStrengthened, PTL

(* Unless a click's answer is lost, the budget covers every push that the
   code clicked for.                                                        *)
THEOREM ClicksAreCounted == Spec => []ClicksCounted
<1>1. MInv => ClicksCounted
  BY DEF MInv
<1> QED BY <1>1, FetchStrengthened, PTL

(* The notification never shows a number of an earlier challenge while the
   loop displays another, and never outlives the browser session.           *)
THEOREM NotificationIsCurrent == Spec => []NotificationCurrent
<1>1. MInv => NotificationCurrent
  BY DEF MInv
<1> QED BY <1>1, FetchStrengthened, PTL

-----------------------------------------------------------------------------
(* Only a click counts as a click, and a click is made on a picker that
   carries no earlier one.                                                  *)
LEMMA ClickNeedsNoPending ==
  ASSUME ~LostAnswers, MInv, [Next]_vars, clicks' > clicks
  PROVE  ~pending
<1>0. clicks \in Nat
  BY BoundAssumption DEF MInv, TypeOK
<1>1. CASE ClickPicker
  BY <1>1 DEF ClickPicker, MayClick, MInv, LingeringPicker
<1>2. CASE clicks' = clicks \/ clicks' = 0
  BY <1>0, <1>2
<1>3. CASE Site \/ StopRequested \/ ValidCookieSeen \/ Begin \/ UNCHANGED vars
  BY <1>2, <1>3 DEF Site, StopRequested, ValidCookieSeen, Begin, vars, hist
<1>4. CASE LaunchFails \/ LaunchOpens \/ FirstFill \/ SaveCookie \/ SaveFails
  BY <1>2, <1>4 DEF LaunchFails, LaunchOpens, FirstFill, SaveCookie, SaveFails, hist
<1>5. CASE Round /\ ~ClickPicker
  BY <1>2, <1>5
  DEF Round, Interrupted, PollCaptures, PollContinues, ReloadStuck, LimitReached,
      ClickMisses, SeeNumber, SeePending, SeePrompt, SeeNothing, Fill, Sleep, hist
<1> QED BY <1>1, <1>3, <1>4, <1>5 DEF Next, Session

(* While an own push is unanswered no second one is clicked for.            *)
THEOREM NoSecondClick == ASSUME ~LostAnswers PROVE Spec => NoClickWhilePending
<1>1. MInv /\ [Next]_vars => [clicks' > clicks => ~pending]_vars
  BY ClickNeedsNoPending
<1> QED BY <1>1, FetchStrengthened, PTL DEF Spec, NoClickWhilePending

-----------------------------------------------------------------------------
(* Refinement of the login contract.                                        *)

LEMMA StepKeepsContract ==
  ASSUME MInv, [Next]_vars
  PROVE  [Contract!Next]_(Contract!sessionVars)
<1> USE DEF Contract!Next, Contract!sessionVars, Contract!Begin, Contract!Push,
      Contract!Capture, Contract!Save, Contract!Fail, Contract!ValidCookieSeen,
      Phase, IsExhausted, FetchEnds, Detects
<1>0. attempts \in 0..MaxPush /\ MaxPush \in Nat
  BY BoundAssumption DEF MInv, TypeOK
<1>1. CASE Begin
  BY <1>0, <1>1 DEF Begin
<1>2. CASE ValidCookieSeen
  BY <1>2 DEF ValidCookieSeen
<1>3. CASE Site \/ StopRequested \/ UNCHANGED vars
  BY <1>3 DEF Site, StopRequested, vars
<1>4. CASE LaunchFails \/ LaunchOpens \/ FirstFill \/ SaveCookie \/ SaveFails
  BY <1>4 DEF LaunchFails, LaunchOpens, FirstFill, SaveCookie, SaveFails
<1>5. CASE Round
  <2>1. CASE Interrupted \/ PollCaptures \/ PollContinues \/ ReloadStuck \/ LimitReached
    BY <2>1 DEF Interrupted, PollCaptures, PollContinues, ReloadStuck, LimitReached
  <2>2. CASE ClickPicker
    BY <1>0, <2>2 DEF ClickPicker
  <2>3. CASE ClickMisses \/ SeePrompt \/ SeeNothing \/ Fill \/ Sleep
    BY <2>3 DEF ClickMisses, SeePrompt, SeeNothing, Fill, Sleep
  <2>4. CASE SeeNumber
    BY <1>0, <2>4 DEF SeeNumber
  <2>5. CASE SeePending
    BY <1>0, <2>5 DEF SeePending
  <2> QED BY <1>5, <2>1, <2>2, <2>3, <2>4, <2>5 DEF Round
<1> QED BY <1>1, <1>2, <1>3, <1>4, <1>5 DEF Next, Session

(* A login session keeps the contract that the supervisor relies on.        *)
THEOREM FetchKeepsContract == Spec => ImplementsContract
<1>1. Init => Contract!Init
  BY DEF Init, Contract!Init, Phase
<1>2. MInv /\ [Next]_vars => [Contract!Next]_(Contract!sessionVars)
  BY StepKeepsContract
<1> QED
  BY <1>1, <1>2, FetchStrengthened, PTL DEF Spec, ImplementsContract, Contract!Spec

-----------------------------------------------------------------------------
(* A login session advances.                                                *)

(* Before the poll loop no stuck page was counted, and whoever sleeps has
   looked at the deadline.                                                  *)
RankInv ==
  /\ pc \in {"idle", "launch", "open"} => stuckPolls = 0
  /\ pc = "sleep" => elapsed < Deadline

(* A saturating clock that is short of the deadline comes closer to it.     *)
LEMMA LaterType ==
  ASSUME elapsed \in 0..Deadline, NEW d \in Nat, Later(d)
  PROVE  /\ elapsed' \in 0..Deadline /\ elapsed' >= elapsed
         /\ d > 0 /\ elapsed < Deadline => elapsed' > elapsed
BY BoundAssumption DEF Later

LEMMA RoundsType ==
  ASSUME NEW t \in 0..Deadline
  PROVE  /\ RoundsLeft(t) \in Nat /\ RoundsLeft(0) \in Nat
         /\ RoundsLeft(t) <= RoundsLeft(0)
BY BoundAssumption DEF RoundsLeft

LEMMA RelaunchType ==
  ASSUME NEW h \in BOOLEAN
  PROVE  Relaunch(h) \in Nat
BY BoundAssumption DEF Relaunch, RoundsLeft

LEMMA ReloadType ==
  ASSUME NEW k \in 0..StuckLimit
  PROVE  ReloadDue(k) \in 0..2 /\ ReloadDue(0) = 0 /\ ReloadDue(StuckLimit) = 2
BY BoundAssumption DEF ReloadDue

(* Later is fewer rounds.                                                   *)
LEMMA FewerRounds ==
  ASSUME NEW t \in 0..Deadline, NEW u \in 0..Deadline, t <= u
  PROVE  /\ RoundsLeft(u) <= RoundsLeft(t)
         /\ t < u => RoundsLeft(u) + 6 <= RoundsLeft(t)
BY BoundAssumption DEF RoundsLeft

LEMMA RankByAwait ==
  ASSUME NEW h, NEW t, NEW k
  PROVE  /\ Rank("idle", h, t, k) = 0 /\ Rank("save", h, t, k) = 1
         /\ Rank("sleep", h, t, k) = Relaunch(h) + RoundsLeft(t) + 1
         /\ Rank("fill", h, t, k) = Relaunch(h) + RoundsLeft(t) + 2
         /\ Rank("detect", h, t, k) = Relaunch(h) + RoundsLeft(t) + 3 + ReloadDue(k)
         /\ Rank("poll", h, t, k) = Relaunch(h) + RoundsLeft(t) + 4 + ReloadDue(k)
         /\ Rank("open", h, t, k) = Relaunch(h) + RoundsLeft(0) + 5
         /\ Rank("launch", h, t, k) = Relaunch(h) + RoundsLeft(0) + 6
BY DEF Rank

LEMMA RankType ==
  ASSUME NEW p \in {"idle", "launch", "open", "poll", "detect", "fill", "sleep", "save"},
         NEW h \in BOOLEAN, NEW t \in 0..Deadline, NEW k \in 0..StuckLimit
  PROVE  Rank(p, h, t, k) \in Nat /\ (p # "idle" => Rank(p, h, t, k) > 0)
<1>1. RoundsLeft(t) \in Nat /\ RoundsLeft(0) \in Nat
  BY RoundsType
<1>2. Relaunch(h) \in Nat
  BY RelaunchType
<1>3. ReloadDue(k) \in Nat
  BY ReloadType
<1>4. CASE p \in {"idle", "save"}
  BY <1>4 DEF Rank
<1>5. CASE p = "sleep" BY <1>1, <1>2, <1>5 DEF Rank
<1>6. CASE p = "fill" BY <1>1, <1>2, <1>6 DEF Rank
<1>7. CASE p \in {"detect", "poll"} BY <1>1, <1>2, <1>3, <1>7 DEF Rank
<1>8. CASE p = "open" BY <1>1, <1>2, <1>8 DEF Rank
<1>9. CASE p = "launch" BY <1>1, <1>2, <1>9 DEF Rank
<1> QED BY <1>4, <1>5, <1>6, <1>7, <1>8, <1>9

(* The moves within a round, from round to round and from browser to
   browser, for any two times t and u and poll counts j and k.              *)
LEMMA Nearer ==
  ASSUME NEW h \in BOOLEAN, NEW t \in 0..Deadline, NEW u \in 0..Deadline, t <= u,
         NEW j \in 0..StuckLimit, NEW k \in 0..StuckLimit
  PROVE  /\ Rank("open", h, u, k) < Rank("launch", h, t, j)
         /\ Rank("poll", h, t, 0) < Rank("open", h, t, 0)
         /\ Rank("detect", h, t, k) < Rank("poll", h, t, k)
         /\ Rank("poll", h, u, 0) < Rank("detect", h, t, StuckLimit)
         /\ Rank("fill", h, u, k) < Rank("detect", h, t, j)
         /\ Rank("sleep", h, t, k) < Rank("fill", h, t, k)
         /\ t < u => Rank("poll", h, u, k) < Rank("sleep", h, t, k)
         /\ \A g \in BOOLEAN : h /\ ~g => Rank("launch", g, 0, 0) < Rank("detect", h, t, k)
<1>1. /\ RoundsLeft(t) \in Nat /\ RoundsLeft(u) \in Nat /\ RoundsLeft(0) \in Nat
      /\ RoundsLeft(t) <= RoundsLeft(0)
  BY RoundsType
<1>2. Relaunch(h) \in Nat
  BY RelaunchType
<1>3. ReloadDue(k) \in 0..2 /\ ReloadDue(j) \in 0..2
  BY ReloadType
<1>4. RoundsLeft(u) <= RoundsLeft(t) /\ (t < u => RoundsLeft(u) + 6 <= RoundsLeft(t))
  BY FewerRounds
<1>5. Rank("open", h, u, k) < Rank("launch", h, t, j)
  BY <1>1, <1>2 DEF Rank
<1>6. /\ Rank("poll", h, t, 0) < Rank("open", h, t, 0)
      /\ Rank("poll", h, u, 0) < Rank("detect", h, t, StuckLimit)
  <2>1. ReloadDue(0) = 0 /\ ReloadDue(StuckLimit) = 2
    BY ReloadType
  <2>2. Rank("poll", h, t, 0) < Rank("open", h, t, 0)
    BY <1>1, <1>2, <2>1 DEF Rank
  <2>3. Rank("poll", h, u, 0) < Rank("detect", h, t, StuckLimit)
    BY <1>1, <1>2, <1>4, <2>1 DEF Rank
  <2> QED BY <2>2, <2>3
<1>7. /\ Rank("detect", h, t, k) < Rank("poll", h, t, k)
      /\ Rank("fill", h, u, k) < Rank("detect", h, t, j)
      /\ Rank("sleep", h, t, k) < Rank("fill", h, t, k)
      /\ t < u => Rank("poll", h, u, k) < Rank("sleep", h, t, k)
  BY <1>1, <1>2, <1>3, <1>4 DEF Rank
<1>8. ASSUME NEW g \in BOOLEAN, h, ~g
      PROVE  Rank("launch", g, 0, 0) < Rank("detect", h, t, k)
  <2>1. /\ Rank("launch", g, 0, 0) = Relaunch(g) + RoundsLeft(0) + 6
        /\ Rank("detect", h, t, k) = Relaunch(h) + RoundsLeft(t) + 3 + ReloadDue(k)
    BY DEF Rank
  <2>2. Relaunch(h) = RoundsLeft(0) + 7 /\ Relaunch(g) = 0
    BY <1>8 DEF Relaunch
  <2> QED BY <1>1, <1>3, <2>1, <2>2
<1> QED BY <1>5, <1>6, <1>7, <1>8

(* Each await of a session leads to one that is nearer to its end.          *)
LEMMA SessionComesCloser ==
  ASSUME TypeOK, TypeOK', RankInv, Session
  PROVE  RankInv' /\ SessionRank' < SessionRank
<1>1. /\ headless \in BOOLEAN /\ headless' \in BOOLEAN
      /\ elapsed \in 0..Deadline /\ elapsed' \in 0..Deadline
      /\ stuckPolls \in 0..StuckLimit /\ stuckPolls' \in 0..StuckLimit
      /\ pc \in {"idle", "launch", "open", "poll", "detect", "fill", "sleep", "save"}
  BY DEF TypeOK
<1>2. elapsed <= elapsed /\ elapsed \in Int /\ 0 \in 0..Deadline /\ 0 \in 0..StuckLimit
  BY <1>1, BoundAssumption
<1> USE <1>1, <1>2 DEF RankInv, SessionRank
<1>3. ASSUME FetchEnds, pc # "idle" PROVE RankInv' /\ SessionRank' < SessionRank
  <2>1. pc' = "idle" /\ stuckPolls' = 0
    BY <1>3 DEF FetchEnds, LocalsDropped
  <2>2. SessionRank' = 0
    BY <2>1, RankByAwait
  <2>3. SessionRank > 0
    BY <1>3, RankType, RankByAwait
  <2> QED BY <2>1, <2>2, <2>3
<1>4. ASSUME Detects, elapsed <= elapsed' PROVE RankInv' /\ SessionRank' < SessionRank
  BY <1>4, Nearer DEF Detects
<1>5. CASE LaunchFails \/ Interrupted \/ LimitReached \/ SaveCookie \/ SaveFails
  BY <1>3, <1>5 DEF LaunchFails, Interrupted, LimitReached, SaveCookie, SaveFails
<1>6. CASE LaunchOpens
  BY <1>6, Nearer DEF LaunchOpens, local
<1>7. CASE FirstFill
  BY <1>7, Nearer DEF FirstFill, local
<1>8. CASE PollCaptures
  <2>1. pc = "poll" /\ pc' = "save" /\ stuckPolls' = 0
    BY <1>8 DEF PollCaptures, LocalsDropped
  <2>2. SessionRank' = 1
    BY <2>1, RankByAwait
  <2>3. Rank("detect", headless, elapsed, stuckPolls) \in Nat /\ SessionRank \in Nat
    BY RankType
  <2>4. /\ Rank("detect", headless, elapsed, stuckPolls) < SessionRank
        /\ Rank("detect", headless, elapsed, stuckPolls) > 0
    BY <2>1, Nearer, RankType
  <2> QED BY <2>1, <2>2, <2>3, <2>4
<1>9. CASE PollContinues
  BY <1>9, Nearer DEF PollContinues, local
<1>10. CASE ReloadStuck
  <2>1. elapsed <= elapsed'
    BY <1>10, LaterType DEF ReloadStuck
  <2>2. stuckPolls = StuckLimit /\ stuckPolls' = 0 /\ headless' = headless
    BY <1>10, BoundAssumption DEF ReloadStuck, PageStuck
  <2> QED BY <1>10, <2>1, <2>2, Nearer DEF ReloadStuck
<1>11. CASE ClickPicker \/ ClickMisses
  <2>1. elapsed <= elapsed'
    BY <1>11, LaterType DEF ClickPicker, ClickMisses
  <2> QED BY <1>4, <1>11, <2>1 DEF ClickPicker, ClickMisses
<1>12. CASE SeeNumber \/ SeePending \/ SeeNothing
  BY <1>4, <1>12 DEF SeeNumber, SeePending, SeeNothing
<1>13. CASE SeePrompt
  <2>1. CASE stop
    BY <1>3, <1>13, <2>1 DEF SeePrompt
  <2>2. CASE ~stop
    <3>1. /\ pc = "detect" /\ headless /\ pc' = "launch" /\ ~headless'
          /\ stuckPolls' = 0 /\ elapsed' = 0
      BY <1>13, <2>2 DEF SeePrompt, LocalsDropped
    <3> QED BY <3>1, Nearer
  <2> QED BY <2>1, <2>2
<1>14. CASE Fill
  <2>1. CASE elapsed >= Deadline
    BY <1>3, <1>14, <2>1 DEF Fill
  <2>2. CASE elapsed < Deadline
    <3>1. pc = "fill" /\ pc' = "sleep" /\ UNCHANGED local
      BY <1>14, <2>2, BoundAssumption DEF Fill
    <3> QED BY <2>2, <3>1, Nearer DEF local
  <2> QED BY <2>1, <2>2, BoundAssumption
<1>15. CASE Sleep
  <2>1. elapsed < elapsed'
    <3>1. PICK d \in 1..Deadline + 1 : Later(d)
      BY <1>15 DEF Sleep
    <3>2. d \in Nat /\ d > 0
      BY BoundAssumption
    <3> QED BY <1>15, <3>1, <3>2, LaterType DEF Sleep
  <2>2. elapsed <= elapsed'
    BY <2>1
  <2> QED BY <1>15, <2>1, <2>2, Nearer DEF Sleep
<1> QED
  BY <1>5, <1>6, <1>7, <1>8, <1>9, <1>10, <1>11, <1>12, <1>13, <1>14, <1>15
  DEF Session, Round

LEMMA OthersKeepRank ==
  ASSUME TypeOK, RankInv, Begin \/ ValidCookieSeen \/ Site \/ StopRequested \/ UNCHANGED vars
  PROVE  RankInv' /\ (pc # "idle" => SessionRank' = SessionRank)
<1>1. CASE Begin
  BY <1>1 DEF Begin, RankInv
<1>2. CASE UNCHANGED <<pc, local>>
  BY <1>2 DEF local, RankInv, SessionRank
<1> QED BY <1>1, <1>2 DEF ValidCookieSeen, Site, StopRequested, vars

(* The argument behind SessionEnds for every deadline and stuck limit: no
   await of a login, on whatever pages, fails to bring it closer to its end,
   and between them nobody prolongs it.                                     *)
THEOREM SessionsAdvance == Spec => SessionAdvances
<1>1. Init => RankInv
  BY BoundAssumption DEF Init, RankInv
<1>2. TypeOK /\ TypeOK' /\ RankInv /\ [Next]_vars => RankInv'
  BY SessionComesCloser, OthersKeepRank DEF Next
<1>3. TypeOK /\ TypeOK' /\ RankInv /\ [Next]_vars =>
        [/\ SessionRank \in Nat
         /\ Session => SessionRank' < SessionRank
         /\ pc # "idle" => SessionRank' <= SessionRank]_vars
  <2> SUFFICES ASSUME TypeOK, TypeOK', RankInv, [Next]_vars
               PROVE  /\ SessionRank \in Nat
                      /\ Session => SessionRank' < SessionRank
                      /\ pc # "idle" => SessionRank' <= SessionRank
    OBVIOUS
  <2>1. SessionRank \in Nat /\ SessionRank' \in Nat
    BY RankType DEF TypeOK, SessionRank
  <2>2. pc # "idle" => SessionRank' < SessionRank \/ SessionRank' = SessionRank
    BY SessionComesCloser, OthersKeepRank DEF Next
  <2>3. pc # "idle" => SessionRank' <= SessionRank
    BY <2>1, <2>2
  <2> QED BY <2>1, <2>3, SessionComesCloser
<1> QED BY <1>1, <1>2, <1>3, FetchTypeCorrect, PTL DEF Spec, SessionAdvances
=============================================================================
