-------------------------- MODULE SupervisorProofs --------------------------
(***************************************************************************)
(* What holds of the supervisor for every set of cookies, processes,        *)
(* services and signals and for all durations.                              *)
(***************************************************************************)
EXTENDS Supervisor, TLAPS

(* The saturation bound of the ages is a positive number.                   *)
LEMMA AgeCapType == AgeCap \in Nat /\ AgeCap > 0
<1>1. CheckInterval \in Nat /\ PollMin \in Nat /\ PollMax \in Nat
      /\ SuspendFloor \in Nat /\ RetryWait \in Nat
  BY TimeAssumption
<1>2. CheckInterval \div 4 \in Nat
  BY <1>1
<1>3. PollInterval \in Nat
  BY <1>1, <1>2 DEF PollInterval, Least, Greatest
<1>4. SuspendThreshold \in Nat
  BY <1>1, <1>3 DEF SuspendThreshold, Greatest
<1> QED
  BY <1>1, <1>4 DEF AgeCap, Greatest

(* Ageing keeps an age in its range.                                        *)
LEMMA OlderType ==
  ASSUME NEW age \in 0..AgeCap, NEW d \in Nat
  PROVE  Older(age, d) \in 0..AgeCap
  BY AgeCapType DEF Older, Least

-----------------------------------------------------------------------------
(* The inductive invariant.                                                 *)

(* Where openconnect can be: in the slot or, while it is being stopped, only
   in the hands of stop_vpn.  A killed supervisor leaves it where it was.   *)
TunnelPlace ==
  /\ pc = "stopping" => slot = NoProc /\ alive \subseteq {stopping}
  /\ pc \notin {"stopping", "killed"} => alive \subseteq {slot}

(* Before start-up has called start_vpn there is no child, and until a login
   is attempted no push was spent.                                          *)
StartupClean ==
  caller = "startup" =>
    /\ pc \in {"read", "probe", "fetch", "write", "start"} => alive = {}
    /\ pc \in {"read", "probe", "start"} => attempts = 0

(* Each reason to be at an await goes with the awaits it can reach.         *)
CallerPlace ==
  /\ caller = "shutdown" => pc \in {"stopping", "stopped", "killed"}
  /\ pc = "stopped" => caller = "shutdown"
  /\ pc = "stopping" => caller \notin {"startup", "vpn_down"}
  /\ pc = "closing" \/ caller = "shutdown" => StopCancelled
  /\ pc = "backoff" => caller = "forced"

IInv == TypeOK /\ OneTunnel /\ TunnelPlace /\ StartupClean /\ CallerPlace
        /\ ExitLeavesNothing /\ FatalExitKeepsLimit

LEMMA InitIInv == Init => IInv
<1> SUFFICES ASSUME Init PROVE IInv
  OBVIOUS
<1>1. permit \in BOOLEAN
  BY Zenon DEF Init
<1>2. 0 \in 0..AgeCap /\ 0 \in 0..MaxPush /\ 0 \in 0..MaxSuspends
  BY AgeCapType, TimeAssumption
<1>3. TypeOK
  BY <1>1, <1>2 DEF Init, TypeOK, Pc
<1>4. OneTunnel /\ TunnelPlace /\ StartupClean /\ CallerPlace
      /\ ExitLeavesNothing /\ FatalExitKeepsLimit
  BY DEF Init, OneTunnel, TunnelPlace, StartupClean, CallerPlace,
         ExitLeavesNothing, FatalExitKeepsLimit
<1> QED
  BY <1>3, <1>4 DEF IInv

LEMMA TaskKeepsIInv == IInv /\ TaskStep => IInv'
<1> SUFFICES ASSUME IInv, TaskStep PROVE IInv'
  OBVIOUS
<1> USE AgeCapType, NoValueAssumption, TimeAssumption
<1> USE DEF IInv, TypeOK, Pc, Final, OneTunnel, TunnelPlace, StartupClean,
      CallerPlace, ExitLeavesNothing, FatalExitKeepsLimit,
      At, ToWait, EnterMonitor, ServicesStarted, CookieReady, IterationEnds,
      IsExhausted, StopCancelled, VpnAlive, world, power, tunnel, clocks, wall, task
<1>1. CASE ReadCookie BY <1>1 DEF ReadCookie, RefreshCookie
<1>2. CASE ProbeValid BY <1>2 DEF ProbeValid, RestartVpn
<1>3. CASE ProbeUnreachable BY <1>3 DEF ProbeUnreachable
<1>4. CASE ProbeInvalid BY <1>4 DEF ProbeInvalid, RefreshCookie
<1>5. CASE BackoffEnds BY <1>5 DEF BackoffEnds
<1>6. CASE FetchPush BY <1>6 DEF FetchPush
<1>7. CASE FetchCapture BY <1>7 DEF FetchCapture
<1>8. CASE FetchFails BY <1>8 DEF FetchFails
<1>9. CASE FetchWrites BY <1>9 DEF FetchWrites, RestartVpn
<1>10. CASE FetchWriteFails BY <1>10 DEF FetchWriteFails
<1>11. CASE StartVpn BY <1>11 DEF StartVpn, StartReturns
<1>12. CASE StartVpnFails BY <1>12 DEF StartVpnFails, StartReturns
<1>13. CASE StopVpn
  <2>1. alive' = {} /\ stale' = {}
    BY <1>13 DEF StopVpn
  <2>2. StopReturns
    BY <1>13 DEF StopVpn
  <2>3. TypeOK'
    BY <2>1, <2>2 DEF StopReturns
  <2>4. OneTunnel' /\ TunnelPlace'
    BY <2>1, <2>2 DEF StopReturns
  <2>5. StartupClean' /\ CallerPlace'
    BY <1>13, <2>1, <2>2 DEF StopVpn, StopReturns
  <2>6. ExitLeavesNothing' /\ FatalExitKeepsLimit'
    BY <1>13, <2>1, <2>2 DEF StopVpn, StopReturns
  <2> QED BY <2>3, <2>4, <2>5, <2>6
<1>14. CASE StopVpnKills
  <2>1. alive' = {} /\ stale' = {}
    BY <1>14 DEF StopVpnKills
  <2>2. StopReturns
    BY <1>14 DEF StopVpnKills
  <2>3. TypeOK'
    BY <2>1, <2>2 DEF StopReturns
  <2>4. OneTunnel' /\ TunnelPlace'
    BY <2>1, <2>2 DEF StopReturns
  <2>5. StartupClean' /\ CallerPlace'
    BY <1>14, <2>1, <2>2 DEF StopVpnKills, StopReturns
  <2>6. ExitLeavesNothing' /\ FatalExitKeepsLimit'
    BY <1>14, <2>1, <2>2 DEF StopVpnKills, StopReturns
  <2> QED BY <2>3, <2>4, <2>5, <2>6
<1>15. CASE WaitWake
  <2>1. permit' \in BOOLEAN
    BY <1>15, Zenon DEF WaitWake
  <2> QED BY <1>15, <2>1 DEF WaitWake, Iterate
<1>16. CASE WaitTimeout BY <1>16 DEF WaitTimeout, Iterate
<1>17. CASE WaitStop BY <1>17 DEF WaitStop
<1>18. CASE CloseDone BY <1>18 DEF CloseDone
<1> QED
  BY <1>1, <1>2, <1>3, <1>4, <1>5, <1>6, <1>7, <1>8, <1>9, <1>10, <1>11, <1>12,
     <1>13, <1>14, <1>15, <1>16, <1>17, <1>18
  DEF TaskStep, Validation, Login, Child, Loop

LEMMA ServicesKeepIInv == IInv /\ Services => IInv'
  BY DEF IInv, TypeOK, OneTunnel, TunnelPlace, StartupClean, CallerPlace,
         ExitLeavesNothing, FatalExitKeepsLimit, Services, ServiceEnds,
         task, tunnel, world, power, clocks, wall, StopCancelled

LEMMA EnvironmentKeepsIInv == IInv /\ Environment => IInv'
<1> SUFFICES ASSUME IInv, Environment PROVE IInv'
  OBVIOUS
<1> USE DEF IInv, TypeOK, Pc, Final, OneTunnel, TunnelPlace, StartupClean,
      CallerPlace, ExitLeavesNothing, FatalExitKeepsLimit, StopCancelled,
      Running, task, tunnel, world, power, clocks, wall
<1>1. CASE GatewayChanges BY <1>1 DEF GatewayChanges
<1>2. CASE CookieRemoved BY <1>2 DEF CookieRemoved
<1>3. CASE WatcherSubscribes \/ WatcherExits
  BY <1>3 DEF WatcherSubscribes, WatcherExits
<1>4. ASSUME NEW c \in Cookie, SessionExpires(c) PROVE IInv'
  BY <1>4 DEF SessionExpires
<1>5. ASSUME NEW c \in Cookie, CookieSupplied(c) PROVE IInv'
  BY <1>5 DEF CookieSupplied
<1>6. ASSUME NEW p \in Proc, ChildExits(p) PROVE IInv'
  BY <1>6 DEF ChildExits
<1>7. ASSUME NEW d \in SuspendLengths, Suspend(d) PROVE IInv'
  <2>0. permit' = (permit \/ watcher = "subscribed")
    BY <1>7 DEF Suspend
  <2>1. permit' \in BOOLEAN
    BY ONLY <2>0, SMT
  <2>2. sinceWall' \in 0..AgeCap
    BY <1>7, OlderType, TimeAssumption DEF Suspend
  <2>3. suspends' \in 0..MaxSuspends
    BY <1>7, TimeAssumption DEF Suspend
  <2> QED BY <1>7, <2>1, <2>2, <2>3 DEF Suspend
<1>8. ASSUME NEW k \in Signal, FirstSignal(k) PROVE IInv'
  BY <1>8 DEF FirstSignal
<1>9. ASSUME NEW k \in Signal, SecondSignal(k) PROVE IInv'
  BY <1>9 DEF SecondSignal
<1> QED
  BY <1>1, <1>2, <1>3, <1>4, <1>5, <1>6, <1>7, <1>8, <1>9 DEF Environment

LEMMA TickKeepsIInv == IInv /\ Tick => IInv'
<1> SUFFICES ASSUME IInv, Tick PROVE IInv'
  OBVIOUS
<1>1. /\ sinceCheck' \in 0..AgeCap /\ sinceLoop' \in 0..AgeCap
      /\ sinceWall' \in 0..AgeCap
  BY OlderType DEF IInv, TypeOK, Tick
<1>2. waited' \in Nat
  BY DEF IInv, TypeOK, Tick
<1> QED
  BY <1>1, <1>2
  DEF IInv, TypeOK, Pc, Final, OneTunnel, TunnelPlace, StartupClean, CallerPlace,
      ExitLeavesNothing, FatalExitKeepsLimit, StopCancelled, Tick, task, tunnel,
      world, power

LEMMA StepKeepsIInv == IInv /\ [Next]_vars => IInv'
<1> SUFFICES ASSUME IInv, [Next]_vars PROVE IInv'
  OBVIOUS
<1>1. CASE UNCHANGED vars
  BY <1>1 DEF IInv, TypeOK, Pc, Final, OneTunnel, TunnelPlace, StartupClean,
      CallerPlace, ExitLeavesNothing, FatalExitKeepsLimit, StopCancelled, vars,
      task, tunnel, world, power, clocks, wall
<1> QED
  BY <1>1, TaskKeepsIInv, ServicesKeepIInv, EnvironmentKeepsIInv, TickKeepsIInv
  DEF Next, Over

(* The strengthened invariant holds in every reachable state.               *)
THEOREM Strengthened == Spec => []IInv
<1> QED BY InitIInv, StepKeepsIInv, PTL DEF Spec

(* Every variable keeps to its range, for all durations and sets.           *)
THEOREM TypeCorrect == Spec => []TypeOK
<1>1. IInv => TypeOK
  BY DEF IInv
<1> QED BY <1>1, Strengthened, PTL

(* At most one openconnect runs at any time, for any number of restarts.    *)
THEOREM SingleTunnel == Spec => []OneTunnel
<1>1. IInv => OneTunnel
  BY DEF IInv
<1> QED BY <1>1, Strengthened, PTL

(* A supervisor that ends by itself leaves no openconnect and no listener.  *)
THEOREM CleanExit == Spec => []ExitLeavesNothing
<1>1. IInv => ExitLeavesNothing
  BY DEF IInv
<1> QED BY <1>1, Strengthened, PTL

(* A fatal exit, after which a service manager starts a process with a fresh
   allowance, never comes after a spent push.                               *)
THEOREM FatalExitSpendsNothing == Spec => []FatalExitKeepsLimit
<1>1. IInv => FatalExitKeepsLimit
  BY DEF IInv
<1> QED BY <1>1, Strengthened, PTL

-----------------------------------------------------------------------------
(* Action properties.                                                       *)

LEMMA StepTearsDownJustified ==
  ASSUME IInv, [Next]_vars, SigtermSent
  PROVE  \/ StopCancelled
         \/ pc = "probe" /\ gateway # "down" /\ (caller = "forced" \/ attempts > 0)
         \/ pc = "write" /\ file' = probing
<1> USE DEF SigtermSent, At, ToWait, CookieReady, IterationEnds, EnterMonitor,
      ServicesStarted, task, tunnel, world, power, clocks, wall
<1>1. slot \in Proc
  BY NoValueAssumption DEF IInv, TypeOK
<1>2. slot' # slot
  BY <1>1, NoValueAssumption
<1>3. CASE ProbeValid
  BY <1>2, <1>3 DEF ProbeValid, Verdict, IInv, TypeOK, RestartVpn
<1>4. CASE FetchWrites
  BY <1>2, <1>4 DEF FetchWrites
<1>5. CASE CloseDone
  BY <1>5 DEF CloseDone, IInv, CallerPlace
<1>6. CASE Validation
  BY <1>2, <1>3, <1>6 DEF Validation, ReadCookie, ProbeUnreachable, ProbeInvalid,
     BackoffEnds, RefreshCookie
<1>7. CASE Login
  BY <1>2, <1>4, <1>7 DEF Login, FetchPush, FetchCapture, FetchFails,
     FetchWriteFails
<1>8. CASE Child
  BY <1>1, <1>2, <1>8, NoValueAssumption DEF Child, StartVpn, StartVpnFails, StopVpn,
     StopVpnKills, StopReturns, VpnAlive
<1>9. CASE Loop
  BY <1>2, <1>5, <1>9 DEF Loop, WaitWake, WaitTimeout, WaitStop, Iterate
<1>10. CASE Services \/ Environment \/ Tick \/ Over \/ UNCHANGED vars
  BY <1>2, <1>10 DEF Services, ServiceEnds, Environment, GatewayChanges,
     CookieRemoved, WatcherSubscribes, WatcherExits, SessionExpires, CookieSupplied, ChildExits,
     Suspend, FirstSignal, SecondSignal, Tick, Over, vars
<1> QED
  BY <1>6, <1>7, <1>8, <1>9, <1>10 DEF Next, TaskStep

(* A running tunnel is taken down only for a stop signal, for a resume or a
   spent push that a gateway answer confirmed, or for a freshly written
   cookie: never because the gateway is out of reach or a login failed.     *)
THEOREM TearDownIsJustified == Spec => TearDownJustified
<1>1. IInv /\ [Next]_vars =>
        [SigtermSent =>
           \/ StopCancelled
           \/ pc = "probe" /\ gateway # "down" /\ (caller = "forced" \/ attempts > 0)
           \/ pc = "write" /\ file' = probing]_vars
  BY StepTearsDownJustified
<1> QED BY <1>1, Strengthened, PTL DEF Spec, TearDownJustified

-----------------------------------------------------------------------------
(* Refinement of the login contract.                                        *)

LEMMA TaskKeepsContract ==
  ASSUME IInv, TaskStep
  PROVE  [Contract!Next]_(Contract!sessionVars)
<1> USE DEF Contract!Next, Contract!sessionVars, Contract!Begin, Contract!Push,
      Contract!Capture, Contract!Save, Contract!Fail, Contract!ValidCookieSeen,
      LoginPhase, At, ToWait, CookieReady, IterationEnds, EnterMonitor,
      IsExhausted, RestartVpn, task
<1>0. attempts \in 0..MaxPush /\ MaxPush \in Nat
  BY TimeAssumption DEF IInv, TypeOK
<1>1. CASE ReadCookie BY <1>0, <1>1 DEF ReadCookie, RefreshCookie
<1>2. CASE ProbeValid BY <1>2 DEF ProbeValid
<1>3. CASE ProbeUnreachable BY <1>3 DEF ProbeUnreachable
<1>4. CASE ProbeInvalid BY <1>0, <1>4 DEF ProbeInvalid, RefreshCookie
<1>5. CASE BackoffEnds BY <1>5 DEF BackoffEnds
<1>6. CASE FetchPush BY <1>0, <1>6 DEF FetchPush
<1>7. CASE FetchCapture BY <1>7 DEF FetchCapture
<1>8. CASE FetchFails BY <1>8 DEF FetchFails
<1>9. CASE FetchWrites BY <1>9 DEF FetchWrites
<1>10. CASE FetchWriteFails BY <1>10 DEF FetchWriteFails
<1>11. CASE Child
  BY <1>11 DEF Child, StartVpn, StartVpnFails, StartReturns, StopVpn,
     StopVpnKills, StopReturns
<1>12. CASE Loop
  BY <1>12 DEF Loop, WaitWake, WaitTimeout, WaitStop, CloseDone, Iterate
<1> QED
  BY <1>1, <1>2, <1>3, <1>4, <1>5, <1>6, <1>7, <1>8, <1>9, <1>10, <1>11, <1>12
  DEF TaskStep, Validation, Login

LEMMA OthersKeepContract ==
  ASSUME IInv, Services \/ Environment \/ Tick \/ Over \/ UNCHANGED vars
  PROVE  [Contract!Next]_(Contract!sessionVars)
<1> USE DEF Contract!Next, Contract!sessionVars, Contract!Fail, LoginPhase, task,
      vars
<1>1. CASE \E k \in Signal : SecondSignal(k)
  BY <1>1 DEF SecondSignal
<1>2. CASE UNCHANGED <<pc, attempts>>
  BY <1>2
<1> QED
  BY <1>1, <1>2 DEF Services, ServiceEnds, Environment, GatewayChanges, CookieRemoved,
     WatcherSubscribes, WatcherExits, SessionExpires, CookieSupplied, ChildExits, Suspend, FirstSignal,
     Tick, Over

(* Seen from the push allowance the supervisor is an AuthSession: every step
   of it begins, advances or ends a login session, or leaves it alone.      *)
THEOREM KeepsLoginContract == Spec => ImplementsContract
<1>1. Init => Contract!Init
  BY DEF Init, Contract!Init, LoginPhase
<1>2. IInv /\ [Next]_vars => [Contract!Next]_(Contract!sessionVars)
  BY TaskKeepsContract, OthersKeepContract DEF Next
<1> QED
  BY <1>1, <1>2, Strengthened, PTL DEF Spec, ImplementsContract, Contract!Spec

-----------------------------------------------------------------------------
(* Refinement of the tunnel's promise.                                      *)

LEMMA TaskKeepsPromise ==
  ASSUME IInv, TaskStep
  PROVE  [Promise!Next]_(Promise!tunnelVars)
<1> USE DEF Promise!Next, Promise!tunnelVars, Promise!Start, Promise!TakeDown,
      Promise!TakenDown, Promise!Fail, Intent, At, ToWait, CookieReady,
      IterationEnds, EnterMonitor, RestartVpn, task, tunnel
<1>1. CASE Validation
  BY <1>1 DEF Validation, ReadCookie, ProbeValid, ProbeUnreachable, ProbeInvalid,
     BackoffEnds, RefreshCookie, IInv, CallerPlace
<1>2. CASE Login
  BY <1>2 DEF Login, FetchPush, FetchCapture, FetchFails, FetchWrites,
     FetchWriteFails, IInv, CallerPlace
<1>3. CASE StartVpn
  <2>1. CASE VpnAlive
    BY <1>3, <2>1 DEF StartVpn, StartReturns
  <2>2. CASE ~VpnAlive
    <3>1. alive = {}
      BY <1>3, <2>2 DEF StartVpn, VpnAlive, IInv, TunnelPlace
    <3>2. PICK p \in Proc : alive' = {p}
      BY <1>3, <2>2, <3>1 DEF StartVpn
    <3> QED BY <1>3, <3>1, <3>2 DEF StartVpn, StartReturns
  <2> QED BY <2>1, <2>2
<1>4. CASE StartVpnFails
  BY <1>4 DEF StartVpnFails, StartReturns, VpnAlive, IInv, TunnelPlace
<1>5. CASE StopVpn \/ StopVpnKills
  <2>1. alive' = {}
    BY <1>5 DEF StopVpn, StopVpnKills, IInv, TunnelPlace
  <2> QED BY <1>5, <2>1 DEF StopVpn, StopVpnKills, StopReturns
<1>6. CASE Loop
  BY <1>6 DEF Loop, WaitWake, WaitTimeout, WaitStop, CloseDone, Iterate, IInv,
     CallerPlace
<1> QED
  BY <1>1, <1>2, <1>3, <1>4, <1>5, <1>6 DEF TaskStep, Child

LEMMA OthersKeepPromise ==
  ASSUME IInv, Services \/ Environment \/ Tick \/ Over \/ UNCHANGED vars
  PROVE  [Promise!Next]_(Promise!tunnelVars)
<1> USE DEF Promise!Next, Promise!tunnelVars, Intent
<1>1. ASSUME NEW k \in Signal, SecondSignal(k)
      PROVE  Promise!Abandon
  BY <1>1 DEF SecondSignal, Running, Final, tunnel, Promise!Abandon, Promise!Ending
<1>2. ASSUME NEW p \in Proc, ChildExits(p)
      PROVE  Promise!Dies
  BY <1>2 DEF ChildExits, Running, Final, task, Promise!Dies, Promise!Ending
<1>3. CASE UNCHANGED <<pc, caller, alive>>
  BY <1>3
<1> QED
  BY <1>1, <1>2, <1>3
  DEF Services, ServiceEnds, Environment, GatewayChanges, CookieRemoved,
      WatcherSubscribes, WatcherExits, SessionExpires, CookieSupplied, Suspend,
      FirstSignal, Tick, Over, vars, task, tunnel

(* However starts, deaths, restarts and the shutdown interleave, the
   supervisor starts nothing before the last openconnect is reaped and
   nothing once it closes: every step is one of Tunnel's or changes nothing
   there.                                                                   *)
THEOREM KeepsTunnelPromise == Spec => ImplementsTunnel
<1>1. Init => Promise!Init
  BY DEF Init, Promise!Init, Intent
<1>2. IInv /\ [Next]_vars => [Promise!Next]_(Promise!tunnelVars)
  BY TaskKeepsPromise, OthersKeepPromise DEF Next
<1> QED
  BY <1>1, <1>2, Strengthened, PTL DEF Spec, ImplementsTunnel, Promise!Spec

-----------------------------------------------------------------------------
(* Retrying after an unreachable gateway.                                   *)

(* How the durations of the code compare.                                   *)
LEMMA Durations ==
  /\ CheckInterval \in Nat /\ PollInterval \in Nat /\ RetryWait \in Nat
  /\ SuspendThreshold \in Nat
  /\ PollInterval >= 1 /\ SuspendThreshold <= RetryWait
  /\ AgeCap > RetryWait /\ AgeCap > CheckInterval /\ AgeCap > SuspendThreshold
<1>1. /\ CheckInterval \in Nat /\ PollMin \in Nat \ {0} /\ PollMax \in Nat \ {0}
      /\ SuspendFloor \in Nat /\ RetryWait \in Nat
  BY TimeAssumption
<1>2. CheckInterval \div 4 \in Nat
  BY <1>1
<1>3. PollInterval \in Nat /\ PollInterval >= 1 /\ PollInterval <= PollMax
  BY <1>1, <1>2 DEF PollInterval, Least, Greatest
<1>4. SuspendThreshold \in Nat /\ SuspendThreshold <= RetryWait
  BY <1>1, <1>3, RetryAssumption DEF SuspendThreshold, Greatest
<1> QED
  BY <1>1, <1>3, <1>4 DEF AgeCap, Greatest

(* While the loop waits after an unreachable gateway, enough time has passed
   for the next poll to check again: a whole check_interval since the last
   completed check or, after a forced check, a whole retry period since the
   iteration began, which the wall clock cannot have missed.                *)
Unanswered == pc = "wait" /\ rc = "NetworkError" /\ ~StopCancelled
RetryInv ==
  /\ sinceLoop <= sinceWall
  /\ caller = "periodic" /\ pc \in {"read", "probe"} => sinceCheck >= CheckInterval
  /\ caller \in {"periodic", "forced"}
        /\ pc \in {"fetch", "write", "stopping", "start"} => rc # "NetworkError"
  /\ Unanswered /\ caller = "periodic" => sinceCheck >= CheckInterval
  /\ Unanswered /\ caller = "forced" =>
        sinceLoop >= Least(RetryWait + waited, AgeCap)

LEMMA InitRetryInv == Init => RetryInv
  BY DEF Init, RetryInv, Unanswered

(* What a poll that times out decides, from the invariant.                  *)
LEMMA UnansweredIsChecked ==
  ASSUME IInv, RetryInv, Unanswered, caller \in {"periodic", "forced"},
         WaitTimeout \/ WaitWake
  PROVE  pc' = "read"
<1>1. CASE WaitWake
  BY <1>1 DEF WaitWake, Iterate
<1>2. CASE WaitTimeout /\ caller = "periodic"
  BY <1>2 DEF WaitTimeout, Iterate, RetryInv
<1>3. CASE WaitTimeout /\ caller = "forced"
  <2>1. sinceWall \in Nat /\ sinceLoop \in Nat /\ waited \in Nat /\ AgeCap \in Nat
    BY AgeCapType DEF IInv, TypeOK
  <2>2. sinceLoop > RetryWait
    BY <1>3, <2>1, Durations DEF WaitTimeout, RetryInv, Least
  <2>3. sinceWall > SuspendThreshold
    BY <2>1, <2>2, Durations DEF RetryInv
  <2> QED BY <1>3, <2>3 DEF WaitTimeout, Iterate
<1> QED BY <1>1, <1>2, <1>3

LEMMA TaskKeepsRetryInv == IInv /\ RetryInv /\ TaskStep => RetryInv'
<1> SUFFICES ASSUME IInv, RetryInv, TaskStep PROVE RetryInv'
  OBVIOUS
<1>0. /\ sinceCheck \in Nat /\ sinceLoop \in Nat /\ sinceWall \in Nat
      /\ waited \in Nat /\ AgeCap \in Nat
  BY AgeCapType DEF IInv, TypeOK
<1> USE <1>0, Durations
<1> USE DEF RetryInv, Unanswered, At, ToWait, EnterMonitor, CookieReady,
      IterationEnds, StopCancelled, wall
<1>1. CASE ReadCookie BY <1>1 DEF ReadCookie, RefreshCookie, IInv, CallerPlace
<1>2. CASE ProbeValid BY <1>2 DEF ProbeValid, RestartVpn
<1>3. CASE ProbeUnreachable
  BY <1>3 DEF ProbeUnreachable, Least, IInv, CallerPlace
<1>4. CASE ProbeInvalid BY <1>4 DEF ProbeInvalid, RefreshCookie
<1>5. CASE BackoffEnds BY <1>5 DEF BackoffEnds, IInv, CallerPlace
<1>6. CASE FetchPush BY <1>6 DEF FetchPush, task, clocks, wall
<1>7. CASE FetchCapture BY <1>7 DEF FetchCapture
<1>8. CASE FetchFails BY <1>8 DEF FetchFails
<1>9. CASE FetchWrites BY <1>9 DEF FetchWrites, RestartVpn
<1>10. CASE FetchWriteFails BY <1>10 DEF FetchWriteFails
<1>11. CASE StartVpn BY <1>11 DEF StartVpn, StartReturns
<1>12. CASE StartVpnFails BY <1>12 DEF StartVpnFails, StartReturns, clocks, wall
<1>13. CASE StopVpn \/ StopVpnKills
  BY <1>13 DEF StopVpn, StopVpnKills, StopReturns
<1>14. CASE WaitWake
  BY <1>14, UnansweredIsChecked DEF WaitWake, Iterate
<1>15. CASE WaitTimeout
  BY <1>15, UnansweredIsChecked DEF WaitTimeout, Iterate
<1>16. CASE WaitStop BY <1>16 DEF WaitStop
<1>17. CASE CloseDone BY <1>17 DEF CloseDone
<1> QED
  BY <1>1, <1>2, <1>3, <1>4, <1>5, <1>6, <1>7, <1>8, <1>9, <1>10, <1>11, <1>12,
     <1>13, <1>14, <1>15, <1>16, <1>17
  DEF TaskStep, Validation, Login, Child, Loop

LEMMA OthersKeepRetryInv ==
  ASSUME IInv, RetryInv, Services \/ Environment \/ Tick \/ Over \/ UNCHANGED vars
  PROVE  RetryInv'
<1>0. /\ sinceCheck \in Nat /\ sinceLoop \in Nat /\ sinceWall \in Nat
      /\ waited \in Nat /\ AgeCap \in Nat
  BY AgeCapType DEF IInv, TypeOK
<1>1. CASE Tick
  BY <1>0, <1>1, Durations
  DEF Tick, RetryInv, Unanswered, Older, Least, task, StopCancelled
<1>2. ASSUME NEW d \in SuspendLengths, Suspend(d) PROVE RetryInv'
  BY <1>0, <1>2, TimeAssumption
  DEF Suspend, RetryInv, Unanswered, Older, Least, task, StopCancelled, IInv, TypeOK
<1>3. ASSUME NEW k \in Signal, FirstSignal(k) PROVE RetryInv'
  BY <1>3 DEF FirstSignal, RetryInv, Unanswered, task, clocks, wall, StopCancelled
<1>4. ASSUME NEW k \in Signal, SecondSignal(k) PROVE RetryInv'
  BY <1>4 DEF SecondSignal, RetryInv, Unanswered, clocks, wall
<1>5. CASE UNCHANGED <<task, signals, clocks>>
  BY <1>5 DEF RetryInv, Unanswered, task, clocks, wall, StopCancelled
<1> QED
  BY <1>1, <1>2, <1>3, <1>4, <1>5
  DEF Services, ServiceEnds, Environment, GatewayChanges, CookieRemoved,
      WatcherSubscribes, WatcherExits, SessionExpires, CookieSupplied, ChildExits, Over, vars

(* For every check_interval, and because the suspend threshold never exceeds
   the retry period: after an unreachable gateway the next poll validates
   again.                                                                   *)
THEOREM UnreachableIsRetried == Spec => UnreachableRetriedNextPoll
<1>1. IInv /\ RetryInv /\ [Next]_vars => RetryInv'
  BY TaskKeepsRetryInv, OthersKeepRetryInv DEF Next
<1>2. Spec => []RetryInv
  BY <1>1, InitRetryInv, Strengthened, PTL DEF Spec
<1>3. IInv /\ RetryInv =>
        [IterationStarts /\ caller \in {"periodic", "forced"}
           /\ rc = "NetworkError" /\ VpnAlive /\ ~StopCancelled
           => pc' = "read"]_vars
  BY UnansweredIsChecked DEF IterationStarts, Unanswered
<1> QED BY <1>2, <1>3, Strengthened, PTL DEF UnreachableRetriedNextPoll

-----------------------------------------------------------------------------
(* A suspend is noticed.                                                    *)

(* A suspend shows in the age of last_wall until the loop reads the clock.   *)
SleptInv == slept = "yes" => sinceWall > SuspendThreshold

LEMMA TaskKeepsSleptInv == IInv /\ SleptInv /\ TaskStep => SleptInv'
<1> SUFFICES ASSUME IInv, SleptInv, TaskStep PROVE SleptInv'
  OBVIOUS
<1>1. UNCHANGED wall \/ slept' = "no"
  BY DEF TaskStep, Validation, Login, Child, Loop, ReadCookie, ProbeValid,
     ProbeUnreachable, ProbeInvalid, BackoffEnds, FetchPush, FetchCapture, FetchFails,
     FetchWrites, FetchWriteFails, StartVpn, StartVpnFails, StopVpn, StopVpnKills,
     WaitWake, WaitTimeout, WaitStop, CloseDone, RestartVpn, RefreshCookie,
     StartReturns, StopReturns, Iterate, At, ToWait, EnterMonitor, CookieReady,
     IterationEnds, clocks
<1> QED BY <1>1 DEF SleptInv, wall

LEMMA OthersKeepSleptInv ==
  ASSUME IInv, SleptInv, Services \/ Environment \/ Tick \/ Over \/ UNCHANGED vars
  PROVE  SleptInv'
<1>1. sinceWall \in Nat /\ sinceWall <= AgeCap /\ AgeCap \in Nat
  BY AgeCapType DEF IInv, TypeOK
<1>2. CASE Tick
  BY <1>1, <1>2, Durations DEF Tick, SleptInv, Older, Least
<1>3. ASSUME NEW d \in SuspendLengths, Suspend(d) PROVE SleptInv'
  <2>1. d \in Nat
    BY TimeAssumption
  <2> QED BY <1>1, <1>3, <2>1, Durations DEF Suspend, SleptInv, Older, Least
<1>4. CASE UNCHANGED wall
  BY <1>4 DEF SleptInv, wall
<1> QED
  BY <1>2, <1>3, <1>4
  DEF Services, ServiceEnds, Environment, GatewayChanges, CookieRemoved,
      WatcherSubscribes, WatcherExits, SessionExpires, CookieSupplied, ChildExits,
      FirstSignal, SecondSignal, Over, vars, clocks

(* Whatever the loop was doing when the machine slept, the first poll after a
   suspend beyond the threshold validates the cookie as after a resume, for
   all lengths of suspends, logins and back-offs.                           *)
THEOREM SuspendIsNoticed == Spec => SuspendNoticed
<1>1. Init => SleptInv
  BY DEF Init, SleptInv
<1>2. IInv /\ SleptInv /\ [Next]_vars => SleptInv'
  BY TaskKeepsSleptInv, OthersKeepSleptInv DEF Next
<1>3. IInv /\ SleptInv =>
        [IterationStarts /\ slept = "yes"
           => pc' = "read" /\ caller' \in {"forced", "vpn_down"}]_vars
  BY DEF SleptInv, IterationStarts, WaitTimeout, WaitWake, Iterate
<1> QED BY <1>1, <1>2, <1>3, Strengthened, PTL DEF Spec, SuspendNoticed

-----------------------------------------------------------------------------
(* A stop advances.                                                         *)

(* Waits that a stop does not cut short are cut short by their timeout.     *)
WaitedInv ==
  /\ pc = "probe" => waited <= ProbeTimeout
  /\ pc = "stopping" => waited <= TermTimeout
  /\ pc = "fetch" /\ StopCancelled => waited <= LoginStopMax

(* t of await p is over, within the bounds of WaitedInv.                    *)
WithinBounds(p, t) ==
  /\ p = "probe" => t <= ProbeTimeout
  /\ p = "stopping" => t <= TermTimeout
  /\ p = "fetch" => t <= LoginStopMax

(* The awaits in the order in which a stop passes them, and the first number
   of steps that belongs to each.                                           *)
Stage(p, c) ==
  CASE p \in Final                      -> 0
    [] p = "stopping" /\ c = "shutdown" -> 1
    [] p = "closing"                    -> 2
    [] p = "wait"                       -> 3
    [] p \in {"start", "backoff"}       -> 4
    [] p = "stopping" /\ c # "shutdown" -> 5
    [] p = "write"                      -> 6
    [] p = "fetch"                      -> 7
    [] p = "probe"                      -> 8
    [] p = "read"                       -> 9
Base(l) ==
  CASE l = 0 -> 0
    [] l = 1 -> 1
    [] l = 2 -> TermTimeout + 2
    [] l = 3 -> TermTimeout + 3
    [] l = 4 -> TermTimeout + 4
    [] l = 5 -> TermTimeout + 5
    [] l = 6 -> 2 * TermTimeout + 6
    [] l = 7 -> 2 * TermTimeout + 7
    [] l = 8 -> 2 * TermTimeout + 8 + MaxPush + LoginStopMax
    [] l = 9 -> 2 * TermTimeout + 9 + MaxPush + LoginStopMax + ProbeTimeout
    [] l = 10 -> 2 * TermTimeout + 10 + MaxPush + LoginStopMax + ProbeTimeout

LEMMA ShutDownDurations ==
  /\ TermTimeout \in Nat /\ ProbeTimeout \in Nat /\ LoginStopMax \in Nat
  /\ MaxPush \in Nat /\ MaxSuspends \in Nat
  /\ ToShutDown = TermTimeout + 3 /\ ToReplace = 2 * TermTimeout + 7
  /\ ToLogIn = 2 * TermTimeout + 8 + MaxPush + LoginStopMax + ProbeTimeout
BY TimeAssumption DEF ToShutDown, ToReplace, ToLogIn

LEMMA BaseMonotone ==
  ASSUME NEW l \in 0..10, NEW m \in 0..10, l <= m
  PROVE  Base(l) \in Nat /\ Base(m) \in Nat /\ Base(l) <= Base(m)
BY ShutDownDurations DEF Base

(* The steps of an await lie in its stage.                                  *)
LEMMA StepsInStage ==
  ASSUME NEW p \in Pc, NEW c, NEW t \in Nat, NEW n \in 0..MaxPush,
         WithinBounds(p, t)
  PROVE  /\ Stage(p, c) \in 0..9 /\ StepsFrom(p, c, t, n) \in Nat
         /\ Base(Stage(p, c)) <= StepsFrom(p, c, t, n)
         /\ StepsFrom(p, c, t, n) < Base(Stage(p, c) + 1)
<1> USE ShutDownDurations DEF WithinBounds
<1>1. CASE p \in Final
  <2>1. Stage(p, c) = 0 /\ StepsFrom(p, c, t, n) = 0
    BY <1>1 DEF Stage, StepsFrom, Final
  <2>2. Base(0) = 0 /\ Base(0 + 1) = 1
    BY DEF Base
  <2> QED BY <2>1, <2>2
<1>2. CASE p = "stopping" /\ c = "shutdown"
  <2>1. Stage(p, c) = 1 /\ StepsFrom(p, c, t, n) = TermTimeout + 1 - t
    BY <1>2 DEF Stage, StepsFrom, Final
  <2>2. t <= TermTimeout
    BY <1>2
  <2>3. Base(1) = 1 /\ Base(1 + 1) = TermTimeout + 2
    BY DEF Base
  <2> QED BY <2>1, <2>2, <2>3
<1>3. CASE p = "stopping" /\ c # "shutdown"
  BY <1>3 DEF Stage, StepsFrom, Base, Final
<1>4. CASE p = "closing"
  BY <1>4 DEF Stage, StepsFrom, Base, Final
<1>5. CASE p = "wait"
  BY <1>5 DEF Stage, StepsFrom, Base, Final
<1>6. CASE p \in {"start", "backoff"}
  BY <1>6 DEF Stage, StepsFrom, Base, Final
<1>7. CASE p = "write"
  BY <1>7 DEF Stage, StepsFrom, Base, Final
<1>8. CASE p = "fetch"
  BY <1>8 DEF Stage, StepsFrom, Base, Final
<1>9. CASE p = "probe"
  BY <1>9 DEF Stage, StepsFrom, Base, Final
<1>10. CASE p = "read"
  <2>1. Stage(p, c) = 9 /\ StepsFrom(p, c, t, n) = ToLogIn + 1
    BY <1>10 DEF Stage, StepsFrom, Final
  <2> QED BY <2>1 DEF Base
<1> QED
  BY <1>1, <1>2, <1>3, <1>4, <1>5, <1>6, <1>7, <1>8, <1>9, <1>10 DEF Pc

(* An earlier stage is fewer steps.                                         *)
LEMMA FewerSteps ==
  ASSUME NEW p \in Pc, NEW c, NEW t \in Nat, NEW n \in 0..MaxPush,
         WithinBounds(p, t),
         NEW q \in Pc, NEW d, NEW u \in Nat, NEW m \in 0..MaxPush,
         WithinBounds(q, u),
         Stage(q, d) < Stage(p, c)
  PROVE  StepsFrom(q, d, u, m) < StepsFrom(p, c, t, n)
<1>1. /\ Stage(p, c) \in 0..9 /\ StepsFrom(p, c, t, n) \in Nat
      /\ Base(Stage(p, c)) <= StepsFrom(p, c, t, n)
  BY StepsInStage
<1>2. /\ Stage(q, d) \in 0..9 /\ StepsFrom(q, d, u, m) \in Nat
      /\ StepsFrom(q, d, u, m) < Base(Stage(q, d) + 1)
  BY StepsInStage
<1>3. Stage(q, d) + 1 \in 0..10 /\ Stage(p, c) \in 0..10 /\ Stage(q, d) + 1 <= Stage(p, c)
  BY <1>1, <1>2
<1>4. /\ Base(Stage(q, d) + 1) \in Nat /\ Base(Stage(p, c)) \in Nat
      /\ Base(Stage(q, d) + 1) <= Base(Stage(p, c))
  BY <1>3, BaseMonotone
<1> QED BY <1>1, <1>2, <1>4

(* Within a stage: time that passes and a push that is spent.               *)
LEMMA FewerStepsWithin ==
  ASSUME NEW c, NEW t \in Nat, NEW n \in 0..MaxPush
  PROVE  /\ StepsFrom("probe", c, t + 1, n) < StepsFrom("probe", c, t, n)
         /\ StepsFrom("stopping", c, t + 1, n) < StepsFrom("stopping", c, t, n)
         /\ StepsFrom("fetch", c, t + 1, n) < StepsFrom("fetch", c, t, n)
         /\ n < MaxPush => StepsFrom("fetch", c, t, n + 1) < StepsFrom("fetch", c, t, n)
BY ShutDownDurations DEF StepsFrom, Final

(* No more wake-ups than before, unless one suspends less than it permits.  *)
LEMMA FewerWakes ==
  ASSUME NEW p, NEW t \in Nat, NEW g \in BOOLEAN, NEW r \in 0..MaxSuspends,
         NEW q, NEW u \in Nat, NEW h \in BOOLEAN, NEW s \in 0..MaxSuspends,
         q = "wait" /\ u >= PollInterval => p = "wait" /\ t >= PollInterval
  PROVE  /\ Wakes(p, t, g, r) \in Nat /\ Wakes(q, u, h, s) \in Nat
         /\ r <= s /\ (h => g \/ r < s) => Wakes(q, u, h, s) <= Wakes(p, t, g, r)
         /\ r <= s /\ g /\ ~h => Wakes(q, u, h, s) < Wakes(p, t, g, r)
<1>1. /\ MaxSuspends \in Nat
  BY ShutDownDurations
<1>2. PICK k \in 0..1 : k = IF p = "wait" /\ t >= PollInterval THEN 1 ELSE 0
  OBVIOUS
<1>3. PICK l \in 0..1 : l = IF q = "wait" /\ u >= PollInterval THEN 1 ELSE 0
  OBVIOUS
<1>4. l <= k
  BY <1>2, <1>3
<1>5. /\ Wakes(p, t, g, r) = (MaxSuspends - r) + (IF g THEN 1 ELSE 0) + k
      /\ Wakes(q, u, h, s) = (MaxSuspends - s) + (IF h THEN 1 ELSE 0) + l
  BY <1>2, <1>3 DEF Wakes
<1> QED BY <1>1, <1>4, <1>5

(* A poll that was due is due no more.                                      *)
LEMMA PollUsesWake ==
  ASSUME NEW t \in Nat, NEW q, NEW g \in BOOLEAN, NEW r \in 0..MaxSuspends,
         t >= PollInterval
  PROVE  Wakes(q, 0, g, r) < Wakes("wait", t, g, r)
BY Durations, ShutDownDurations DEF Wakes

(* One number out of two: fewer wake-ups outweigh any steps.                *)
LEMMA Outweighs ==
  ASSUME NEW w \in Nat, NEW v \in Nat, NEW k \in Nat, NEW x \in Nat, NEW y \in Nat,
         x < k, y < k, v < w \/ (v <= w /\ y < x)
  PROVE  v * k + y < w * k + x
<1>1. CASE v < w
  <2>1. w * k = (w - 1) * k + k
    OBVIOUS
  <2>2. v * k <= (w - 1) * k
    BY <1>1
  <2> QED BY <2>1, <2>2
<1>2. CASE v <= w /\ y < x
  <2>1. v * k <= w * k
    BY <1>2
  <2> QED BY <1>2, <2>1
<1> QED BY <1>1, <1>2

-----------------------------------------------------------------------------
(* What each step does to the two numbers.                                  *)

Steps == StepsFrom(pc, caller, waited, attempts)
WakesLeft == Wakes(pc, waited, permit, suspends)

LEMMA TaskKeepsWaitedInv == WaitedInv /\ TaskStep => WaitedInv'
<1> SUFFICES ASSUME WaitedInv, TaskStep PROVE WaitedInv'
  OBVIOUS
<1> USE TimeAssumption DEF WaitedInv, At, ToWait, EnterMonitor, CookieReady, IterationEnds,
      RestartVpn, RefreshCookie, StartReturns, StopReturns, StopCancelled, task, clocks,
      Final
<1>1. CASE Validation
  BY <1>1 DEF Validation, ReadCookie, ProbeValid, ProbeUnreachable, ProbeInvalid,
     BackoffEnds
<1>2. CASE Login
  BY <1>2 DEF Login, FetchPush, FetchCapture, FetchFails, FetchWrites, FetchWriteFails
<1>3. CASE Child
  BY <1>3 DEF Child, StartVpn, StartVpnFails, StopVpn, StopVpnKills
<1>4. CASE Loop
  BY <1>4 DEF Loop, WaitWake, WaitTimeout, WaitStop, CloseDone, Iterate
<1> QED BY <1>1, <1>2, <1>3, <1>4 DEF TaskStep

(* The task alone suspends nothing and permits nothing.                     *)
LEMMA TaskUsesNoWake ==
  ASSUME TaskStep, ~WaitWake, ~WaitTimeout
  PROVE  UNCHANGED power /\ (pc' = "wait" => waited' = 0)
<1> USE DEF At, ToWait, EnterMonitor, CookieReady, IterationEnds,
      RestartVpn, RefreshCookie, StartReturns, StopReturns, task
<1>1. CASE Validation
  BY <1>1 DEF Validation, ReadCookie, ProbeValid, ProbeUnreachable, ProbeInvalid,
     BackoffEnds
<1>2. CASE Login
  BY <1>2 DEF Login, FetchPush, FetchCapture, FetchFails, FetchWrites, FetchWriteFails
<1>3. CASE Child
  BY <1>3 DEF Child, StartVpn, StartVpnFails, StopVpn, StopVpnKills
<1>4. CASE WaitStop \/ CloseDone
  BY <1>4 DEF WaitStop, CloseDone
<1> QED BY <1>1, <1>2, <1>3, <1>4 DEF TaskStep, Loop

(* What the task does moves it on by a stage, but for a push.               *)
LEMMA TaskMovesOn ==
  ASSUME IInv, StopCancelled, TaskStep, ~WaitWake, ~WaitTimeout, ~FetchPush
  PROVE  Stage(pc', caller') < Stage(pc, caller)
<1> USE DEF At, ToWait, EnterMonitor, CookieReady, IterationEnds,
      RestartVpn, StartReturns, StopReturns, task, Stage, Final
<1>1. CASE ReadCookie
  BY <1>1 DEF ReadCookie, RefreshCookie
<1>2. CASE ProbeValid
  BY <1>2 DEF ProbeValid, IInv, CallerPlace
<1>3. CASE ProbeUnreachable
  BY <1>3 DEF ProbeUnreachable
<1>4. CASE ProbeInvalid
  BY <1>4 DEF ProbeInvalid, RefreshCookie
<1>5. CASE BackoffEnds
  BY <1>5 DEF BackoffEnds
<1>6. CASE FetchCapture \/ FetchFails
  BY <1>6 DEF FetchCapture, FetchFails
<1>7. CASE FetchWrites
  BY <1>7 DEF FetchWrites, IInv, CallerPlace
<1>8. CASE FetchWriteFails
  BY <1>8 DEF FetchWriteFails
<1>9. CASE StartVpn \/ StartVpnFails
  BY <1>9 DEF StartVpn, StartVpnFails
<1>10. CASE StopVpn \/ StopVpnKills
  BY <1>10 DEF StopVpn, StopVpnKills
<1>11. CASE WaitStop
  BY <1>11 DEF WaitStop
<1>12. CASE CloseDone
  BY <1>12 DEF CloseDone
<1> QED
  BY <1>1, <1>2, <1>3, <1>4, <1>5, <1>6, <1>7, <1>8, <1>9, <1>10, <1>11, <1>12
  DEF TaskStep, Validation, Login, Child, Loop

LEMMA NoMore ==
  ASSUME NEW w \in Nat, NEW v \in Nat, NEW k \in Nat, NEW x \in Nat, NEW y \in Nat,
         v <= w, y = x \/ y = 0
  PROVE  v * k + y <= w * k + x
<1>1. v * k <= w * k
  OBVIOUS
<1>2. v * k \in Nat /\ w * k \in Nat
  OBVIOUS
<1> QED BY <1>1, <1>2

(* No step of the task takes a signal back.                                 *)
LEMMA StopStays == StopCancelled /\ TaskStep => StopCancelled'
BY DEF StopCancelled, TaskStep, Validation, Login, Child, Loop, ReadCookie, ProbeValid,
   ProbeUnreachable, ProbeInvalid, BackoffEnds, FetchPush, FetchCapture, FetchFails,
   FetchWrites, FetchWriteFails, StartVpn, StartVpnFails, StopVpn, StopVpnKills,
   StartReturns, StopReturns, WaitWake, WaitTimeout, WaitStop, CloseDone, Iterate

LEMMA TaskAdvances ==
  ASSUME IInv, IInv', WaitedInv, WaitedInv', StopCancelled, TaskStep
  PROVE  \/ WakesLeft' < WakesLeft
         \/ WakesLeft' <= WakesLeft /\ Steps' < Steps
<1> USE DEF WakesLeft, Steps
<1>0. /\ waited \in Nat /\ waited' \in Nat /\ permit \in BOOLEAN /\ permit' \in BOOLEAN
      /\ suspends \in 0..MaxSuspends /\ suspends' \in 0..MaxSuspends
      /\ attempts \in 0..MaxPush /\ attempts' \in 0..MaxPush /\ pc \in Pc /\ pc' \in Pc
  BY DEF IInv, TypeOK
<1>1. CASE WaitWake
  <2>1. permit /\ ~permit' /\ suspends' = suspends /\ pc = "wait" /\ waited' = 0
    BY <1>1 DEF WaitWake, Iterate
  <2>2. ~(waited' >= PollInterval)
    BY <2>1, Durations
  <2>3. suspends <= suspends'
    BY <1>0, <2>1
  <2> QED BY <1>0, <2>1, <2>2, <2>3, FewerWakes
<1>2. CASE WaitTimeout
  <2>1. /\ UNCHANGED <<permit, suspends>> /\ pc = "wait" /\ waited' = 0
        /\ waited >= PollInterval
    BY <1>2 DEF WaitTimeout, Iterate
  <2> QED BY <1>0, <2>1, PollUsesWake
<1>3. CASE ~WaitWake /\ ~WaitTimeout
  <2>1. UNCHANGED <<permit, suspends>> /\ (pc' = "wait" => waited' = 0)
    BY <1>3, TaskUsesNoWake DEF power
  <2>2. pc' = "wait" /\ waited' >= PollInterval => pc = "wait" /\ waited >= PollInterval
    BY <2>1, Durations
  <2>3. suspends <= suspends' /\ (permit' => permit)
    BY <1>0, <2>1
  <2>4. WakesLeft' <= WakesLeft
    BY <1>0, <2>2, <2>3, FewerWakes
  <2>5. CASE FetchPush
    <3>1. /\ pc = "fetch" /\ attempts < MaxPush /\ attempts' = attempts + 1
          /\ UNCHANGED <<pc, caller, waited>>
      BY <1>0, <2>5, ShutDownDurations DEF FetchPush, IsExhausted, task, clocks
    <3> QED BY <1>0, <2>4, <3>1, FewerStepsWithin
  <2>6. CASE ~FetchPush
    <3>1. Stage(pc', caller') < Stage(pc, caller)
      BY <1>3, <2>6, TaskMovesOn
    <3>2. StopCancelled'
      BY <1>3, StopStays
    <3>3. WithinBounds(pc, waited) /\ WithinBounds(pc', waited')
      BY <3>2 DEF WaitedInv, WithinBounds
    <3> QED BY <1>0, <2>4, <3>1, <3>3, FewerSteps
  <2> QED BY <2>5, <2>6
<1> QED BY <1>1, <1>2, <1>3

LEMMA TickAdvances ==
  ASSUME IInv, IInv', StopCancelled, Tick
  PROVE  WakesLeft' <= WakesLeft /\ Steps' < Steps /\ (WaitedInv => WaitedInv')
<1>0. /\ waited \in Nat /\ waited' \in Nat /\ permit \in BOOLEAN /\ permit' \in BOOLEAN
      /\ suspends \in 0..MaxSuspends /\ suspends' \in 0..MaxSuspends
      /\ attempts \in 0..MaxPush /\ attempts' \in 0..MaxPush
  BY DEF IInv, TypeOK
<1>1. /\ waited < Patience /\ waited' = waited + 1
      /\ UNCHANGED <<pc, caller, attempts, permit, suspends>>
  BY DEF Tick, task, power
<1>2. /\ pc \in {"probe", "stopping", "fetch"}
      /\ pc = "probe" => Patience = ProbeTimeout
      /\ pc = "stopping" => Patience = TermTimeout
      /\ pc = "fetch" => Patience = LoginStopMax
  BY <1>0, <1>1 DEF Patience
<1>3. Steps' < Steps
  BY <1>0, <1>1, <1>2, FewerStepsWithin DEF Steps
<1>4. suspends <= suspends' /\ (permit' => permit) /\ pc' # "wait"
  BY <1>0, <1>1, <1>2
<1>5. WakesLeft' <= WakesLeft
  BY <1>0, <1>4, FewerWakes DEF WakesLeft
<1>6. WaitedInv'
  BY <1>0, <1>1, <1>2, ShutDownDurations DEF WaitedInv
<1> QED BY <1>3, <1>5, <1>6

(* Nobody else sets the task back.                                          *)
LEMMA OthersDoNotSetBack ==
  ASSUME IInv, IInv', Services \/ Environment \/ Over \/ UNCHANGED vars
  PROVE  /\ WaitedInv => WaitedInv'
         /\ StopCancelled => WakesLeft' <= WakesLeft /\ (Steps' = Steps \/ Steps' = 0)
<1>0. /\ waited \in Nat /\ waited' \in Nat /\ permit \in BOOLEAN /\ permit' \in BOOLEAN
      /\ suspends \in 0..MaxSuspends /\ suspends' \in 0..MaxSuspends
  BY DEF IInv, TypeOK
<1>1. ASSUME NEW d \in SuspendLengths, Suspend(d)
      PROVE  WakesLeft' <= WakesLeft /\ Steps' = Steps /\ (WaitedInv => WaitedInv')
  <2>1. /\ UNCHANGED <<pc, caller, waited, attempts, signals>> /\ suspends' = suspends + 1
    BY <1>1 DEF Suspend, task
  <2>2. suspends <= suspends' /\ suspends < suspends'
    BY <1>0, <2>1
  <2>3. WakesLeft' <= WakesLeft
    BY <1>0, <2>1, <2>2, FewerWakes DEF WakesLeft
  <2> QED BY <2>1, <2>3 DEF Steps, WaitedInv, StopCancelled
<1>2. ASSUME NEW k \in Signal, SecondSignal(k)
      PROVE  WakesLeft' <= WakesLeft /\ Steps' = 0 /\ (WaitedInv => WaitedInv')
  <2>1. pc' = "killed" /\ UNCHANGED <<waited, permit, suspends>>
    BY <1>2 DEF SecondSignal, power, clocks
  <2>2. suspends <= suspends' /\ (permit' => permit)
    BY <1>0, <2>1
  <2>3. WakesLeft' <= WakesLeft
    BY <1>0, <2>1, <2>2, FewerWakes DEF WakesLeft
  <2> QED BY <2>1, <2>3 DEF Steps, StepsFrom, Final, WaitedInv
<1>3. CASE UNCHANGED <<pc, caller, attempts, waited, permit, suspends>>
             /\ (WaitedInv => WaitedInv')
  <2>1. suspends <= suspends' /\ (permit' => permit)
    BY <1>0, <1>3
  <2>2. WakesLeft' <= WakesLeft
    BY <1>0, <1>3, <2>1, FewerWakes DEF WakesLeft
  <2> QED BY <1>3, <2>2 DEF Steps
<1>4. ASSUME NEW k \in Signal, FirstSignal(k)
      PROVE  /\ WaitedInv => WaitedInv'
             /\ StopCancelled => UNCHANGED <<pc, caller, attempts, waited, permit, suspends>>
  <2>1. /\ UNCHANGED <<pc, caller, attempts, permit, suspends>>
        /\ waited' = IF pc = "fetch" /\ ~StopCancelled THEN 0 ELSE waited
    BY <1>4 DEF FirstSignal, task, power
  <2>2. StopCancelled => waited' = waited
    BY <2>1
  <2>3. WaitedInv => WaitedInv'
    BY <2>1, ShutDownDurations DEF WaitedInv
  <2> QED BY <2>1, <2>2, <2>3
<1>5. CASE UNCHANGED <<pc, caller, attempts, waited, permit, suspends, signals>>
  BY <1>3, <1>5 DEF WaitedInv, StopCancelled
<1>6. CASE \E k \in Signal : FirstSignal(k)
  BY <1>3, <1>4, <1>6
<1> QED
  BY <1>1, <1>2, <1>5, <1>6
  DEF Services, ServiceEnds, Environment, GatewayChanges, CookieRemoved,
      WatcherSubscribes, WatcherExits, SessionExpires, CookieSupplied, ChildExits,
      Over, vars, task, power, clocks

(* The two numbers make up the rank.                                        *)
RankInv ==
  /\ WakesLeft \in Nat /\ Steps \in Nat /\ ToLogIn + 2 \in Nat /\ Steps < ToLogIn + 2
  /\ StopRank = WakesLeft * (ToLogIn + 2) + Steps /\ StopRank \in Nat

LEMMA StopRankType == IInv /\ WaitedInv /\ StopCancelled => RankInv
<1> SUFFICES ASSUME IInv, WaitedInv, StopCancelled PROVE RankInv
  OBVIOUS
<1>1. WakesLeft \in Nat
  BY FewerWakes DEF IInv, TypeOK, WakesLeft
<1>2. /\ Stage(pc, caller) \in 0..9 /\ Steps \in Nat
      /\ Steps < Base(Stage(pc, caller) + 1)
  BY StepsInStage DEF IInv, TypeOK, WaitedInv, WithinBounds, Steps
<1>3. Base(Stage(pc, caller) + 1) \in Nat /\ Base(Stage(pc, caller) + 1) <= Base(10)
  <2>1. Stage(pc, caller) + 1 \in 0..10 /\ 10 \in 0..10 /\ Stage(pc, caller) + 1 <= 10
    BY <1>2
  <2> QED BY <2>1, BaseMonotone
<1>4. Base(10) = ToLogIn + 2 /\ ToLogIn + 2 \in Nat
  BY ShutDownDurations DEF Base
<1>5. WakesLeft * (ToLogIn + 2) + Steps \in Nat
  BY <1>1, <1>2, <1>4
<1> QED BY <1>1, <1>2, <1>3, <1>4, <1>5 DEF RankInv, StopRank, WakesLeft, Steps

LEMMA NoStepTakesStopBack == StopCancelled /\ [Next]_vars => StopCancelled'
<1>1. CASE TaskStep
  BY <1>1, StopStays
<1>2. CASE Services \/ Environment \/ Tick \/ Over \/ UNCHANGED vars
  BY <1>2 DEF StopCancelled, Services, ServiceEnds, Environment, GatewayChanges,
     CookieRemoved, WatcherSubscribes, WatcherExits, SessionExpires, CookieSupplied,
     ChildExits, Suspend, FirstSignal, SecondSignal, Tick, Over, vars
<1> QED BY <1>1, <1>2 DEF Next

(* The argument behind StopTerminates for all durations, push limits and
   suspends: from wherever the stop finds the supervisor, the number of steps
   and ticks to its end is bounded, every one of them brings it nearer, and
   no gateway, other command, child or suspend adds to it.                  *)
THEOREM StopsAdvance == Spec => StopAdvances
<1>1. Init => WaitedInv
  BY DEF Init, WaitedInv
<1>2. IInv /\ IInv' /\ WaitedInv /\ [Next]_vars => WaitedInv'
  <2>1. IInv /\ Tick /\ WaitedInv => WaitedInv'
    <3> SUFFICES ASSUME IInv, Tick, WaitedInv PROVE WaitedInv'
      OBVIOUS
    <3>1. /\ waited < Patience /\ waited' = waited + 1 /\ waited \in Nat
          /\ pc' = pc /\ (StopCancelled' <=> StopCancelled)
      BY DEF Tick, task, IInv, TypeOK, StopCancelled
    <3>2. /\ pc = "probe" => Patience = ProbeTimeout
          /\ pc = "stopping" => Patience = TermTimeout
          /\ pc = "fetch" /\ StopCancelled => Patience = LoginStopMax
      BY DEF Patience
    <3> QED BY <3>1, <3>2, ShutDownDurations DEF WaitedInv
  <2> QED BY <2>1, TaskKeepsWaitedInv, OthersDoNotSetBack DEF Next
<1>3. IInv /\ IInv' /\ WaitedInv /\ WaitedInv' /\ [Next]_vars =>
        [StopCancelled =>
           /\ StopRank \in Nat
           /\ IF TaskStep \/ Tick THEN StopRank' < StopRank
                                  ELSE StopRank' <= StopRank]_vars
  <2> SUFFICES ASSUME IInv, IInv', WaitedInv, WaitedInv', [Next]_vars, StopCancelled
               PROVE  /\ StopRank \in Nat
                      /\ IF TaskStep \/ Tick THEN StopRank' < StopRank
                                             ELSE StopRank' <= StopRank
    OBVIOUS
  <2>0. StopCancelled'
    BY NoStepTakesStopBack
  <2>1. /\ WakesLeft \in Nat /\ Steps \in Nat /\ ToLogIn + 2 \in Nat /\ Steps < ToLogIn + 2
        /\ StopRank = WakesLeft * (ToLogIn + 2) + Steps /\ StopRank \in Nat
    BY StopRankType DEF RankInv
  <2>2. RankInv'
    BY <2>0, StopRankType, PTL
  <2>3. /\ WakesLeft' \in Nat /\ Steps' \in Nat /\ Steps' < ToLogIn + 2
        /\ StopRank' = WakesLeft' * (ToLogIn + 2) + Steps' /\ StopRank' \in Nat
    BY <2>2 DEF RankInv
  <2>4. CASE TaskStep \/ Tick
    <3>1. \/ WakesLeft' < WakesLeft
          \/ WakesLeft' <= WakesLeft /\ Steps' < Steps
      BY <2>4, TaskAdvances, TickAdvances
    <3>2. WakesLeft' * (ToLogIn + 2) + Steps' < WakesLeft * (ToLogIn + 2) + Steps
      BY <2>1, <2>3, <3>1, Outweighs
    <3> QED BY <2>1, <2>3, <2>4, <3>2
  <2>5. CASE ~(TaskStep \/ Tick)
    <3>1. WakesLeft' <= WakesLeft /\ (Steps' = Steps \/ Steps' = 0)
      BY <2>5, OthersDoNotSetBack DEF Next
    <3>2. WakesLeft' * (ToLogIn + 2) + Steps' <= WakesLeft * (ToLogIn + 2) + Steps
      BY <2>1, <2>3, <3>1, NoMore
    <3> QED BY <2>1, <2>3, <2>5, <3>2
  <2> QED BY <2>4, <2>5
<1> QED BY <1>1, <1>2, <1>3, Strengthened, PTL DEF Spec, StopAdvances
=============================================================================
