----------------------------- MODULE Supervisor -----------------------------
(***************************************************************************)
(* The jumphost supervisor: Supervisor::run, its monitor loop, the cookie   *)
(* helpers it awaits and the openconnect child it owns.                     *)
(*                                                                         *)
(* The supervisor is one sequential task.  `pc` is the await it is parked   *)
(* at, `caller` the reason it is there; between two awaits its code is one  *)
(* action.  Everything else runs concurrently with it: the gateway, other   *)
(* jumphost commands that write the cookie file, openconnect, the service   *)
(* tasks, signals, suspend/resume and the passing of time.                  *)
(*                                                                         *)
(* Time is discrete.  Deadlines are ages that Tick advances and that        *)
(* saturate at AgeCap, so no clock grows without bound.                     *)
(***************************************************************************)
EXTENDS Integers

CONSTANTS
  Cookie,         \* MRHSession values
  NoCookie,       \* the cookie file is missing or empty
  Proc,           \* openconnect process identities
  NoProc,         \* the vpn slot is None
  Service,        \* in-process tasks: the routing proxy, and PAC if configured
  Signal,         \* SIGTERM, SIGINT, SIGHUP
  GatewayStates,  \* subset of {"up", "down", "erring"}
  SpawnResults,   \* subset of {"ok", "err"}: what vpn::start may return
  MaxPush,        \* MAX_MFA_PUSH_ATTEMPTS
  CheckInterval, PollMin, PollMax, SuspendFloor,
  RetryWait,      \* retry period of a forced validation (60 s)
  ProbeTimeout,   \* reqwest timeout of one probe (10 s)
  BackoffMax,     \* longest back-off between two probes (10 s)
  TermTimeout,    \* SIGTERM grace period (10 s)
  FetchMax,       \* longest login (its deadline is 300 s)
  LoginStopMax,   \* longest that a login goes on after the stop, see Patience
  SuspendLengths, \* how far the wall clock may jump while suspended
  MaxSuspends     \* bound on the number of suspends of a behaviour

ASSUME NoValueAssumption == NoCookie \notin Cookie /\ NoProc \notin Proc
ASSUME KindAssumption ==
  /\ GatewayStates \subseteq {"up", "down", "erring"}
  /\ SpawnResults \subseteq {"ok", "err"}
ASSUME TimeAssumption ==
  /\ MaxPush \in Nat \ {0} /\ MaxSuspends \in Nat
  /\ {CheckInterval, PollMin, PollMax, SuspendFloor} \subseteq Nat \ {0}
  /\ {RetryWait, ProbeTimeout, BackoffMax, TermTimeout, FetchMax,
      LoginStopMax} \subseteq Nat
  /\ PollMin <= PollMax
  /\ SuspendLengths \subseteq Nat
\* 4 * 15 s and 30 s do not exceed the 60 s of a forced check.
ASSUME RetryAssumption == 4 * PollMax <= RetryWait /\ SuspendFloor <= RetryWait

VARIABLES
  pc,         \* where the supervisor task waits
  caller,     \* why: startup, vpn_down, periodic, forced, shutdown
  probing,    \* cookie value in flight: under probe, or captured by a login
  rc,         \* verdict of the last validation
  attempts,   \* MfaAttemptBudget
  slot,       \* Supervisor.vpn
  stopping,   \* the child taken out of the slot by stop_vpn
  serving,    \* service tasks that run
  file,       \* content of the cookie file
  accepted,   \* sessions the gateway accepts
  gateway,    \* up, down (unreachable) or erring (answers 5xx)
  alive,      \* openconnect processes that run
  stale,      \* those whose gateway session did not survive a suspend
  signals,    \* kinds of stop signal received so far
  watcher,    \* the sleep/wake watcher task: off, starting or subscribed
  permit,     \* Notify permit: a resume was reported and not yet consumed
  suspends,   \* number of suspends so far
  sinceCheck, \* age of last_check, on the monotonic clock
  sinceLoop,  \* age of now_mono
  sinceWall,  \* age of last_wall, on the wall clock
  slept,      \* history: since last_wall was read, a suspend beyond the threshold
  waited      \* time spent at the current await; in a login since it began or,
              \* once stop is cancelled, since then

task   == <<pc, caller, probing, rc>>
tunnel == <<slot, stopping, alive, stale>>
world  == <<file, accepted, gateway>>
power  == <<permit, suspends>>
wall   == <<sinceWall, slept>>
clocks == <<sinceCheck, sinceLoop, wall, waited>>
vars   == <<task, attempts, tunnel, serving, world, signals, watcher, power,
            clocks>>

-----------------------------------------------------------------------------
(* Derived durations.                                                       *)

Least(a, b) == IF a <= b THEN a ELSE b
Greatest(a, b) == IF a >= b THEN a ELSE b

PollInterval == Least(Greatest(CheckInterval \div 4, PollMin), PollMax)
SuspendThreshold == Greatest(4 * PollInterval, SuspendFloor)
AgeCap == Greatest(Greatest(CheckInterval, SuspendThreshold), RetryWait) + 1
Older(age, d) == Least(age + d, AgeCap)

-----------------------------------------------------------------------------
(* State predicates of the code.                                            *)

Final == {"stopped", "failed", "killed"}
Running == pc \notin Final
StopCancelled == signals # {}
(* Mutant: one push too many. *)
ExhaustedOffByOne == attempts > MaxPush
IsExhausted == attempts >= MaxPush
VpnAlive == slot \in alive

(* validate_cookie: a 3xx or 404 is Invalid, every other answer is Valid.   *)
Verdict(c) ==
  CASE gateway = "down"                    -> "NetworkError"
    [] gateway = "up" /\ c \notin accepted -> "Invalid"
    [] OTHER                               -> "Valid"

-----------------------------------------------------------------------------
(* Continuations: what the task does between one await and the next.        *)

(* Mutant of ToWait: last_wall is read at the end of the iteration. *)
ToWaitFresh == pc' = "wait" /\ waited' = 0 /\ sinceWall' = 0 /\ UNCHANGED <<sinceLoop, slept>>

(* Back to wait_for_stop_or_wake.                                           *)
ToWait == pc' = "wait" /\ waited' = 0 /\ UNCHANGED <<sinceLoop, wall>>

(* The end of run's step 3: the watcher is spawned, the loop initialised.   *)
EnterMonitor ==
  /\ pc' = "wait"
  /\ watcher' = "starting"
  /\ sinceCheck' = 0 /\ sinceLoop' = 0 /\ sinceWall' = 0 /\ waited' = 0
  /\ slept' = "no"

At(p) == pc' = p /\ waited' = 0 /\ UNCHANGED <<sinceCheck, sinceLoop, wall>>

(* Start-up runs start_services whatever ensure_valid_cookie returned, and
   before it calls start_vpn.                                               *)
ServicesStarted ==
  serving' = IF caller = "startup" /\ pc # "start" THEN Service ELSE serving

(* ensure_valid_cookie returned true: start_vpn is next.                    *)
CookieReady == ServicesStarted /\ At("start") /\ UNCHANGED watcher

(* The iteration ends without touching the tunnel; `last_check = now_mono`
   when `checked`.                                                          *)
IterationEnds(checked) ==
  /\ ServicesStarted
  /\ IF caller = "startup"
       THEN EnterMonitor
       ELSE /\ ToWait
            /\ sinceCheck' = IF checked THEN sinceLoop ELSE sinceCheck
            /\ UNCHANGED watcher

(* restart_vpn: stop_vpn takes the child out of the slot and sends SIGTERM. *)
RestartVpn ==
  /\ pc' = "stopping" /\ waited' = 0
  /\ stopping' = slot /\ slot' = NoProc
  /\ sinceCheck' = sinceLoop
  /\ UNCHANGED <<sinceLoop, wall, watcher, serving, alive, stale>>

(* Mutant of RefreshCookie: no check of the push limit. *)
RefreshUnlimited ==
  /\ UNCHANGED <<attempts, tunnel>>
  /\ pc' = "fetch" /\ waited' = 0
  /\ sinceCheck' = IF caller \in {"periodic", "forced"} THEN sinceLoop ELSE sinceCheck
  /\ UNCHANGED <<sinceLoop, wall, watcher, serving>>

(* The Invalid branch, up to the await in cookie::fetch.                    *)
RefreshCookie ==
  /\ UNCHANGED <<attempts, tunnel>>
  /\ IF IsExhausted
       THEN IterationEnds(TRUE)
       ELSE /\ pc' = "fetch" /\ waited' = 0
            /\ sinceCheck' = IF caller \in {"periodic", "forced"}
                               THEN sinceLoop ELSE sinceCheck
            /\ UNCHANGED <<sinceLoop, wall, watcher, serving>>
-----------------------------------------------------------------------------
(* Cookie validation.                                                       *)

(* Mutant of ReadCookie: a paused supervisor does not look at the file. *)
ReadUnlessPaused ==
  /\ pc = "read"
  /\ IF IsExhausted \/ file = NoCookie
       THEN rc' = "Invalid" /\ RefreshCookie /\ UNCHANGED probing
       ELSE /\ probing' = file /\ At("probe")
            /\ UNCHANGED <<rc, attempts, tunnel, watcher, serving>>
  /\ UNCHANGED <<caller, world, signals, power>>

(* validate_file reads the file before it awaits the probe.  The retrying
   validation of a forced check gives up first if stop is cancelled.        *)
ReadCookie ==
  /\ pc = "read"
  /\ IF caller = "forced" /\ StopCancelled
       THEN /\ rc' = "NetworkError" /\ IterationEnds(FALSE)
            /\ UNCHANGED <<probing, attempts, tunnel>>
       ELSE IF file = NoCookie
       THEN /\ rc' = "Invalid" /\ RefreshCookie
            /\ UNCHANGED probing
       ELSE /\ probing' = file /\ At("probe")
            /\ UNCHANGED <<rc, attempts, tunnel, watcher, serving>>
  /\ UNCHANGED <<caller, world, signals, power>>

(* The gateway answered and the cookie counts as valid.                     *)
ProbeValid ==
  /\ pc = "probe" /\ Verdict(probing) = "Valid"
  /\ rc' = "Valid" /\ attempts' = 0 /\ probing' = NoCookie
  /\ CASE caller \in {"startup", "vpn_down"} ->
            CookieReady /\ UNCHANGED tunnel
       [] caller = "forced" \/ (caller = "periodic" /\ attempts > 0) ->
            RestartVpn
       [] OTHER ->
            IterationEnds(TRUE) /\ UNCHANGED tunnel
  /\ UNCHANGED <<caller, world, signals, power>>

(* Mutant of ProbeUnreachable: the last answer of the retries is ignored. *)
UnreachableRestarts ==
  /\ pc = "probe" /\ Verdict(probing) = "NetworkError"
  /\ rc' = "NetworkError" /\ probing' = NoCookie
  /\ CASE caller \in {"startup", "vpn_down"} -> CookieReady /\ UNCHANGED tunnel
       [] caller = "forced" /\ sinceLoop >= RetryWait -> RestartVpn
       [] caller = "forced" /\ sinceLoop < RetryWait ->
            At("backoff") /\ UNCHANGED <<watcher, serving, tunnel>>
       [] OTHER -> IterationEnds(FALSE) /\ UNCHANGED tunnel
  /\ UNCHANGED <<caller, attempts, world, signals, power>>

(* Mutant of ProbeUnreachable: last_check advances on a network error. *)
UnreachableAdvances ==
  /\ pc = "probe" /\ Verdict(probing) = "NetworkError"
  /\ rc' = "NetworkError" /\ probing' = NoCookie
  /\ CASE caller \in {"startup", "vpn_down"} -> CookieReady
       [] caller = "forced" /\ sinceLoop < RetryWait ->
            At("backoff") /\ UNCHANGED <<watcher, serving>>
       [] OTHER -> IterationEnds(TRUE)
  /\ UNCHANGED <<caller, attempts, tunnel, world, signals, power>>

(* No answer.  ensure_valid_cookie lets openconnect decide; a forced check
   backs off until its retry period is over; a periodic one returns to the
   loop without advancing last_check.                                       *)
ProbeUnreachable ==
  /\ pc = "probe" /\ Verdict(probing) = "NetworkError"
  /\ rc' = "NetworkError" /\ probing' = NoCookie
  /\ CASE caller \in {"startup", "vpn_down"} -> CookieReady
       [] caller = "forced" /\ sinceLoop < RetryWait ->
            At("backoff") /\ UNCHANGED <<watcher, serving>>
       [] OTHER -> IterationEnds(FALSE)
  /\ UNCHANGED <<caller, attempts, tunnel, world, signals, power>>

ProbeInvalid ==
  /\ pc = "probe" /\ Verdict(probing) = "Invalid"
  /\ rc' = "Invalid" /\ probing' = NoCookie
  /\ RefreshCookie
  /\ UNCHANGED <<caller, world, signals, power>>

(* The back-off of validate_cookie_with_retry is over, or stop was
   cancelled while it slept.                                                *)
BackoffEnds ==
  /\ pc = "backoff"
  /\ IF StopCancelled
       THEN IterationEnds(FALSE)
       ELSE At("read") /\ UNCHANGED <<watcher, serving>>
  /\ UNCHANGED <<caller, probing, rc, attempts, tunnel, world, signals, power>>

-----------------------------------------------------------------------------
(* Browser login, seen from refresh_cookie (MfaFetch has the inside).       *)

FetchPush ==
  /\ pc = "fetch" /\ ~IsExhausted
  /\ attempts' = attempts + 1
  /\ UNCHANGED <<task, tunnel, serving, world, signals, watcher, power, clocks>>

(* A cookie of the browser's jar passes validation.  While the gateway
   errs, any value in the jar does.                                         *)
FetchCapture ==
  /\ pc = "fetch" /\ gateway # "down"
  /\ \E c \in Cookie :
       /\ probing' = c
       /\ accepted' = IF gateway = "up" THEN accepted \cup {c} ELSE accepted
  /\ At("write")
  /\ UNCHANGED <<caller, rc, attempts, tunnel, serving, file, gateway, signals,
                 watcher, power>>

(* Mutant of FetchFails: run returns the error of a failed start-up login. *)
FetchFailsFatally ==
  /\ pc = "fetch"
  /\ IF caller = "startup"
       THEN pc' = "failed" /\ UNCHANGED <<serving, clocks, watcher>>
       ELSE IterationEnds(caller = "vpn_down")
  /\ UNCHANGED <<caller, probing, rc, attempts, tunnel, world, signals, power>>

(* The login timed out, hit the push limit, was interrupted or crashed.     *)
FetchFails ==
  /\ pc = "fetch"
  /\ IterationEnds(caller = "vpn_down")
  /\ UNCHANGED <<caller, probing, rc, attempts, tunnel, world, signals, power>>

(* write_cookie_file, after the browser was closed.                         *)
FetchWrites ==
  /\ pc = "write"
  /\ file' = probing /\ probing' = NoCookie /\ attempts' = 0
  /\ IF caller \in {"startup", "vpn_down"}
       THEN CookieReady /\ UNCHANGED tunnel
       ELSE RestartVpn
  /\ UNCHANGED <<caller, rc, accepted, gateway, signals, power>>

(* fs::write truncates before it writes: a failure may leave nothing.       *)
FetchWriteFails ==
  /\ pc = "write"
  /\ file' \in {file, NoCookie} /\ probing' = NoCookie
  /\ IterationEnds(caller = "vpn_down")
  /\ UNCHANGED <<caller, rc, attempts, tunnel, accepted, gateway, signals, power>>
-----------------------------------------------------------------------------
(* The openconnect child.                                                   *)

(* The iteration, or start-up, is over once start_vpn has returned.         *)
StartReturns == IterationEnds(caller = "vpn_down")

(* A child that still runs is kept; a dead one is replaced.                 *)
StartVpn ==
  /\ pc = "start"
  /\ IF VpnAlive
       THEN UNCHANGED <<slot, alive>>
       ELSE /\ file # NoCookie /\ "ok" \in SpawnResults
            /\ \E p \in Proc \ alive : slot' = p /\ alive' = alive \cup {p}
  /\ StartReturns
  /\ UNCHANGED <<caller, probing, rc, attempts, stopping, world, stale,
                 signals, power>>

(* start_vpn fails.  At start-up `?` ends run with the error; in the monitor
   loop the error is logged.                                                *)
StartVpnFails ==
  /\ pc = "start" /\ ~VpnAlive
  /\ file = NoCookie \/ "err" \in SpawnResults
  /\ IF caller = "startup"
       THEN /\ pc' = "failed" /\ serving' = {}
            /\ UNCHANGED <<clocks, watcher>>
       ELSE StartReturns
  /\ UNCHANGED <<caller, probing, rc, attempts, tunnel, world, signals, power>>

(* Mutant of StopReturns: shutdown restarts the tunnel instead of stopping. *)
StopAlwaysRestarts ==
  /\ stopping' = NoProc /\ At("start")
  /\ UNCHANGED <<caller, probing, rc, attempts, slot, serving, world, signals,
                 watcher, power>>

(* VpnProcess::stop returned; the child is reaped.                          *)
StopReturns ==
  /\ stopping' = NoProc
  /\ IF caller = "shutdown" THEN At("stopped") ELSE At("start")
  /\ UNCHANGED <<caller, probing, rc, attempts, slot, serving, world, signals,
                 watcher, power>>

(* Mutant of StopVpn: the child is signalled but not reaped. *)
StopVpnUnreaped ==
  /\ pc = "stopping" /\ StopReturns /\ UNCHANGED <<alive, stale>>

StopVpn ==
  /\ pc = "stopping" /\ stopping \notin alive
  /\ StopReturns
  /\ UNCHANGED <<alive, stale>>

(* Mutant of StopVpnKills: SIGTERM is never followed by SIGKILL. *)
StopVpnWaits ==
  /\ pc = "stopping" /\ stopping \in alive /\ waited > TermTimeout
  /\ alive' = alive \ {stopping} /\ stale' = stale \ {stopping}
  /\ StopReturns

StopVpnKills ==
  /\ pc = "stopping" /\ stopping \in alive /\ waited >= TermTimeout
  /\ alive' = alive \ {stopping} /\ stale' = stale \ {stopping}
  /\ StopReturns

-----------------------------------------------------------------------------
(* The monitor loop.                                                        *)

(* One pass from the wake-up to the next await.                             *)
Iterate(wakeSignaled) ==
  LET force   == wakeSignaled \/ sinceWall > SuspendThreshold
      expired == sinceCheck >= CheckInterval
  IN /\ sinceLoop' = 0 /\ sinceWall' = 0 /\ slept' = "no" /\ waited' = 0
     /\ IF ~VpnAlive \/ force \/ expired
          THEN /\ pc' = "read"
               /\ caller' = CASE ~VpnAlive -> "vpn_down"
                              [] VpnAlive /\ force -> "forced"
                              [] OTHER -> "periodic"
          ELSE UNCHANGED <<pc, caller>>
     /\ UNCHANGED <<probing, rc, attempts, tunnel, serving, world, signals,
                    watcher, suspends, sinceCheck>>

(* Mutant of WaitWake: a reported resume is an ordinary poll. *)
WakeIsPoll == pc = "wait" /\ permit /\ permit' = FALSE /\ Iterate(FALSE)

WaitWake == pc = "wait" /\ permit /\ permit' = FALSE /\ Iterate(TRUE)

WaitTimeout ==
  pc = "wait" /\ waited >= PollInterval /\ Iterate(FALSE) /\ UNCHANGED permit

(* The loop breaks; the watcher and the services are cancelled.             *)
WaitStop ==
  /\ pc = "wait" /\ StopCancelled
  /\ At("closing") /\ watcher' = "off"
  /\ UNCHANGED <<caller, probing, rc, attempts, tunnel, serving, world, signals,
                 power>>

(* Mutant of CloseDone: the services are cancelled and not joined. *)
CloseUnjoined ==
  /\ pc = "closing"
  /\ At("stopping") /\ caller' = "shutdown"
  /\ stopping' = slot /\ slot' = NoProc
  /\ UNCHANGED <<probing, rc, attempts, serving, world, alive, stale, signals,
                 watcher, power>>

(* shutdown has joined the service tasks and calls stop_vpn.                *)
CloseDone ==
  /\ pc = "closing" /\ serving = {}
  /\ At("stopping") /\ caller' = "shutdown"
  /\ stopping' = slot /\ slot' = NoProc
  /\ UNCHANGED <<probing, rc, attempts, serving, world, alive, stale, signals,
                 watcher, power>>

(* A cancelled service task returns; one that failed is only logged.        *)
ServiceEnds(s) ==
  /\ s \in serving /\ serving' = serving \ {s}
  /\ UNCHANGED <<task, attempts, tunnel, world, signals, watcher, power, clocks>>

-----------------------------------------------------------------------------
(* The environment.                                                         *)

GatewayChanges ==
  /\ Running /\ gateway' \in GatewayStates
  /\ UNCHANGED <<task, attempts, tunnel, serving, file, accepted, signals,
                 watcher, power, clocks>>

SessionExpires(c) ==
  /\ Running /\ accepted' = accepted \ {c}
  /\ UNCHANGED <<task, attempts, tunnel, serving, file, gateway, signals,
                 watcher, power, clocks>>

(* Another process: `jumphost authenticate` or `refresh_token` succeeds.    *)
CookieSupplied(c) ==
  /\ Running /\ gateway = "up"
  /\ file' = c /\ accepted' = accepted \cup {c}
  /\ UNCHANGED <<task, attempts, tunnel, serving, gateway, signals, watcher,
                 power, clocks>>

(* Another process: `deauthenticate`, or the truncation of fs::write.       *)
CookieRemoved ==
  /\ Running /\ file' = NoCookie
  /\ UNCHANGED <<task, attempts, tunnel, serving, accepted, gateway, signals,
                 watcher, power, clocks>>

ChildExits(p) ==
  /\ Running /\ p \in alive
  /\ alive' = alive \ {p} /\ stale' = stale \ {p}
  /\ UNCHANGED <<task, attempts, slot, stopping, serving, world, signals,
                 watcher, power, clocks>>

(* The machine sleeps and resumes: the wall clock jumps, the monotonic one
   does not, tunnels are stale, and logind reports the resume.              *)
Suspend(d) ==
  /\ Running /\ suspends < MaxSuspends
  /\ suspends' = suspends + 1
  /\ sinceWall' = Older(sinceWall, d)
  /\ slept' = IF d > SuspendThreshold THEN "yes" ELSE slept
  /\ stale' = alive
  /\ permit' = (permit \/ watcher = "subscribed")
  /\ UNCHANGED <<task, attempts, slot, stopping, alive, serving, world, signals,
                 watcher, sinceCheck, sinceLoop, waited>>

(* The watcher task has its D-Bus match rule.                               *)
WatcherSubscribes ==
  /\ Running /\ watcher = "starting" /\ watcher' = "subscribed"
  /\ UNCHANGED <<task, attempts, tunnel, serving, world, signals, power, clocks>>

(* No D-Bus, or its stream ended: only the wall-clock fallback is left.     *)
WatcherExits ==
  /\ Running /\ watcher # "off" /\ watcher' = "off"
  /\ UNCHANGED <<task, attempts, tunnel, serving, world, signals, power, clocks>>

FirstSignal(k) ==
  /\ Running /\ k \notin signals /\ signals' = signals \cup {k}
  /\ waited' = IF pc = "fetch" /\ ~StopCancelled THEN 0 ELSE waited
  /\ UNCHANGED <<task, attempts, tunnel, serving, world, watcher, power,
                 sinceCheck, sinceLoop, wall>>

(* A second signal of one kind forces process::exit(1).                     *)
SecondSignal(k) ==
  /\ Running /\ k \in signals
  /\ pc' = "killed" /\ serving' = {} /\ watcher' = "off"
  /\ UNCHANGED <<caller, probing, rc, attempts, tunnel, world, signals, power,
                 clocks>>

(* Mutant of Patience: nobody told the login about the stop token. *)
PatienceDespiteStop ==
  CASE pc = "wait" /\ ~permit /\ ~StopCancelled -> PollInterval
    [] pc = "probe"                             -> ProbeTimeout
    [] pc = "backoff" /\ ~StopCancelled         -> BackoffMax
    [] pc = "fetch"                             -> FetchMax
    [] pc = "stopping"                          -> TermTimeout
    [] OTHER                                    -> 0

(* How long the task may stay where it is.  A login looks at the stop token
   at the top of its poll loop, while it lists the cookies and in the pause
   between two polls.  Launching a browser (headless, then visible), filling
   in forms, evaluating pages, validating a captured cookie and closing the
   browser go on regardless: together at most LoginStopMax.                 *)
Patience ==
  CASE pc = "wait" /\ ~permit /\ ~StopCancelled -> PollInterval
    [] pc = "probe"                             -> ProbeTimeout
    [] pc = "backoff" /\ ~StopCancelled         -> BackoffMax
    [] pc = "fetch" /\ ~StopCancelled           -> FetchMax
    [] pc = "fetch" /\ StopCancelled            -> LoginStopMax
    [] pc = "stopping"                          -> TermTimeout
    [] OTHER                                    -> 0

Tick ==
  /\ waited < Patience
  /\ waited' = waited + 1
  /\ sinceCheck' = Older(sinceCheck, 1)
  /\ sinceLoop' = Older(sinceLoop, 1)
  /\ sinceWall' = Older(sinceWall, 1)
  /\ UNCHANGED <<task, attempts, tunnel, serving, world, signals, watcher, power,
                 slept>>

Over == ~Running /\ UNCHANGED vars
-----------------------------------------------------------------------------
Init ==
  /\ pc = "read" /\ caller = "startup" /\ probing = NoCookie /\ rc = "none"
  /\ attempts = 0 /\ serving = {}
  /\ slot = NoProc /\ stopping = NoProc /\ alive = {} /\ stale = {}
  /\ file \in Cookie \cup {NoCookie}
  /\ accepted \in SUBSET Cookie
  /\ gateway \in GatewayStates
  /\ signals = {} /\ watcher = "off" /\ permit = FALSE /\ suspends = 0
  /\ sinceCheck = 0 /\ sinceLoop = 0 /\ sinceWall = 0 /\ slept = "no"
  /\ waited = 0

Validation == ReadCookie \/ ProbeValid \/ ProbeUnreachable \/ ProbeInvalid
                \/ BackoffEnds
Login == FetchPush \/ FetchCapture \/ FetchFails \/ FetchWrites
                \/ FetchWriteFails
Child == StartVpn \/ StartVpnFails \/ StopVpn \/ StopVpnKills
Loop == WaitWake \/ WaitTimeout \/ WaitStop \/ CloseDone
TaskStep == Validation \/ Login \/ Child \/ Loop

Environment ==
  \/ GatewayChanges \/ CookieRemoved \/ WatcherSubscribes \/ WatcherExits
  \/ \E c \in Cookie : SessionExpires(c) \/ CookieSupplied(c)
  \/ \E p \in Proc : ChildExits(p)
  \/ \E d \in SuspendLengths : Suspend(d)
  \/ \E k \in Signal : FirstSignal(k) \/ SecondSignal(k)

Services == \E s \in Service : ServiceEnds(s)

Next == TaskStep \/ Services \/ Environment \/ Tick \/ Over

Spec == Init /\ [][Next]_vars

(* The tokio runtime runs a ready task, timers fire, and a cancelled service
   task returns.  Nothing is promised about the environment.                *)
Fairness ==
  /\ WF_vars(TaskStep) /\ WF_vars(Tick)
  /\ \A s \in Service : WF_vars(pc = "closing" /\ ServiceEnds(s))

FairSpec == Spec /\ Fairness

-----------------------------------------------------------------------------
(* Properties.                                                              *)

(* Every variable stays in its range; every await is a known one.           *)
Pc == Final \cup {"read", "probe", "backoff", "fetch", "write", "start",
                  "stopping", "wait", "closing"}
TypeOK ==
  /\ pc \in Pc
  /\ caller \in {"startup", "vpn_down", "periodic", "forced", "shutdown"}
  /\ probing \in Cookie \cup {NoCookie} /\ file \in Cookie \cup {NoCookie}
  /\ rc \in {"none", "Valid", "Invalid", "NetworkError"}
  /\ attempts \in 0..MaxPush
  /\ slot \in Proc \cup {NoProc} /\ stopping \in Proc \cup {NoProc}
  /\ alive \subseteq Proc /\ stale \subseteq alive
  /\ serving \subseteq Service
  /\ accepted \subseteq Cookie /\ gateway \in GatewayStates
  /\ signals \subseteq Signal
  /\ watcher \in {"off", "starting", "subscribed"} /\ permit \in BOOLEAN /\ suspends \in 0..MaxSuspends
  /\ sinceCheck \in 0..AgeCap /\ sinceLoop \in 0..AgeCap
  /\ sinceWall \in 0..AgeCap /\ slept \in {"no", "yes"} /\ waited \in Nat

(* At most one openconnect runs, through restarts, deaths and shutdown: two
   would fight for ocproxy's port.                                          *)
OneTunnel == \A p, q \in alive : p = q

(* A supervisor that ends by itself leaves no openconnect and no listener
   behind, and closes the listeners before it takes the tunnel down.        *)
ExitLeavesNothing ==
  /\ pc \in {"stopped", "failed"} => alive = {} /\ serving = {}
  /\ pc = "stopping" /\ caller = "shutdown" => serving = {}

(* run ends with an error, which makes the service manager start a process
   with a fresh push allowance, only when none of the allowance was spent.  *)
FatalExitKeepsLimit == pc = "failed" => attempts = 0

(* Outside shutdown a running tunnel is only taken down for a reason that
   holds then: the gateway just confirmed the cookie and a resume or a spent
   push asked for a new tunnel, or a fresh cookie was just written.  Neither
   an unreachable gateway nor a failed login costs the user the tunnel.     *)
SigtermSent == slot \in alive /\ slot' = NoProc
TearDownJustified ==
  [][SigtermSent =>
       \/ StopCancelled
       \/ pc = "probe" /\ gateway # "down" /\ (caller = "forced" \/ attempts > 0)
       \/ pc = "write" /\ file' = probing]_vars

(* A validation of a running tunnel's cookie that found the gateway
   unreachable is repeated by the next poll, not after another check_interval.
   For a forced check nothing remembers the force: the next poll repeats it
   because the retry period itself looks like a suspend.                    *)
IterationStarts == pc = "wait" /\ (WaitTimeout \/ WaitWake)
UnreachableRetriedNextPoll ==
  [][IterationStarts /\ caller \in {"periodic", "forced"} /\ rc = "NetworkError"
       /\ VpnAlive /\ ~StopCancelled
       => pc' = "read"]_vars

(* A suspend beyond the threshold is noticed by the next poll, though no
   watcher reports it and it fell into a login, a back-off or a restart: the
   poll checks the tunnel as after a resume, or finds it down.              *)
SuspendNoticed ==
  [][IterationStarts /\ slept = "yes"
       => pc' = "read" /\ caller' \in {"forced", "vpn_down"}]_vars

(* What is left to do once stop is cancelled: the way from await p to the end
   of shutdown, counted in steps of the task and of the clock, when t of the
   await is over and n pushes are spent.  Joining the services is one step:
   how long that takes is theirs to say (see RoutingProxy).                 *)
ToShutDown == TermTimeout + 3
ToReplace == ToShutDown + TermTimeout + 4
ToLogIn == ToReplace + MaxPush + LoginStopMax + ProbeTimeout + 1
StepsFrom(p, c, t, n) ==
  CASE p \in Final                         -> 0
    [] p = "stopping" /\ c = "shutdown"    -> TermTimeout + 1 - t
    [] p = "closing"                       -> TermTimeout + 2
    [] p = "wait"                          -> ToShutDown
    [] p \in {"start", "backoff"}          -> ToShutDown + 1
    [] p = "stopping" /\ c # "shutdown"    -> ToReplace - 2 - t
    [] p = "write"                         -> ToReplace - 1
    [] p = "fetch"                         -> ToReplace + MaxPush - n + LoginStopMax - t
    [] p = "probe"                         -> ToLogIn - t
    [] p = "read"                          -> ToLogIn + 1

(* The wake-ups that may still win against the stop: one per suspend to
   come, a permit that is there, and a poll that is due.                    *)
Wakes(p, t, notified, s) ==
  (MaxSuspends - s) + (IF notified THEN 1 ELSE 0)
    + (IF p = "wait" /\ t >= PollInterval THEN 1 ELSE 0)
StopRank == Wakes(pc, waited, permit, suspends) * (ToLogIn + 2)
              + StepsFrom(pc, caller, waited, attempts)

(* Once stop is cancelled, everything the task does and every tick it spends
   waiting brings it closer to its end, and nobody else can set it back: a
   back-off or a restart under way is a bounded detour, and so is a login,
   which goes on for as long as what it cannot interrupt lasts.             *)
StopAdvances ==
  [][StopCancelled =>
       /\ StopRank \in Nat
       /\ IF TaskStep \/ Tick THEN StopRank' < StopRank ELSE StopRank' <= StopRank]_vars

(* A stop signal ends the process, whatever the supervisor is doing.        *)
StopTerminates == StopCancelled ~> ~Running

(* However automatic login failed, once the cookie file holds an accepted
   cookie for good the tunnel comes up and, from then on, each time it dies. *)
CookieUsable == gateway = "up" /\ file \in accepted
UsableCookieBringsTunnel ==
  <>[]CookieUsable => []<>(alive # {} \/ StopCancelled \/ ~Running)

(* A reported resume replaces the tunnel, however long the network stays
   away after it, provided the cookie survived the suspend.                 *)
ResumeReplacesTunnel ==
  <>[]CookieUsable /\ [](file \in accepted) =>
    (permit /\ stale # {} ~> stale = {} \/ StopCancelled \/ ~Running)

(* The login inside the supervisor keeps the contract that MfaFetch keeps:
   the push allowance bounds it across sessions, and a login in progress can
   neither refill the allowance nor start without one.                      *)
LoginPhase == CASE pc = "fetch" -> "login" [] pc = "write" -> "captured"
                [] OTHER -> "idle"
Contract == INSTANCE AuthSession WITH phase <- LoginPhase
ImplementsContract == Contract!Spec

(* The supervisor keeps the promise of Tunnel: nothing new is started before
   what ran is reaped, nothing at all once shutdown takes the tunnel down,
   and only a forced exit leaves an openconnect behind.                     *)
Intent ==
  CASE pc = "killed"                             -> "abandoned"
    [] pc \in {"stopped", "failed"}              -> "over"
    [] pc = "stopping" /\ caller = "shutdown"    -> "close"
    [] pc = "stopping" /\ caller # "shutdown"    -> "replace"
    [] OTHER                                     -> "keep"
Promise == INSTANCE Tunnel WITH running <- alive, intent <- Intent
ImplementsTunnel == Promise!Spec

-----------------------------------------------------------------------------
(* What the documentation and comments say and the code does not do.        *)

(* architecture.md: after a failed refresh the monitor starts the VPN once
   `jumphost authenticate` has supplied a valid cookie.  Here the refresh
   followed a resume, and the old openconnect is still there.               *)
SuppliedCookieReplacesTunnel ==
  <>[]CookieUsable =>
    (pc = "fetch" /\ stale # {} ~> stale = {} \/ StopCancelled \/ ~Running)

(* spec.md: the fallback looks for wall-clock skew, the wall clock having run
   ahead of the monotonic one.                                              *)
ForcedCheckMeansResume ==
  [][WaitTimeout /\ pc' = "read" /\ caller' = "forced" => sinceWall > sinceLoop]_vars

(* cookie.rs, spec.md: only a cookie that the gateway accepted counts as
   valid, and only such a cookie resets the push allowance.                 *)
ResetNeedsAcceptedCookie ==
  [][pc = "probe" /\ attempts' < attempts => probing \in accepted]_vars
=============================================================================
