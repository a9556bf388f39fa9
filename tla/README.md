# vpn-jumphost, specified in TLA+

`vpn-jumphost` keeps a company VPN up without putting the machine on it: a
supervisor owns an `openconnect` child (with `ocproxy` as its SOCKS listener),
obtains the gateway's MRHSession cookie by driving a browser through the
Microsoft login, and serves a local routing proxy and a PAC file.  This
directory models the parts where order, time and failure matter, checks them
with TLC and proves the central safety properties with TLAPS.

All paths below are relative to the repository (`src/*.rs` is the crate).

## 1. Inventory

| part | code | state it keeps | operations | model |
|---|---|---|---|---|
| supervisor | `src/jumphost.rs` | `vpn` slot, `MfaAttemptBudget`, cancel token, service handles; in the loop `last_check`, `last_mono`, `last_wall` | `run`, `monitor_loop`, `ensure_valid_cookie`, `refresh_cookie`, `validate_cookie_with_retry`, `start_vpn`, `stop_vpn`, `restart_vpn`, `shutdown` | `Supervisor` |
| openconnect child | `src/vpn.rs` | a process | `start`, `is_alive`, `stop` | `Supervisor` |
| cookie file and validation | `src/cookie.rs` | one file, also written by other commands | `validate_file`, `validate_cookie`, `write_cookie_file` | `Supervisor` |
| browser login | `src/cookie.rs` | locals of `fetch_inner`: MFA state, notification, stuck counter, deadline; the shared push budget | `fetch`, `launch_and_fetch`, `fetch_inner` | `MfaFetch` |
| signals | `src/main.rs` | a token, a "seen once" flag per kind | first signal cancels, second exits | `Supervisor` |
| sleep/wake watcher | `src/sleepwake/` | D-Bus subscription, a `Notify` permit | subscribe, report a resume, end | `Supervisor` |
| routing proxy | `src/routing.rs` | per connection: handshake stage | `run`, `handle_client_inner`, `client_greeting`, `client_request`, `connect_direct`, `connect_upstream`, `handle_http_connect`, `relay` | `RoutingProxy` |
| routing decision | `src/routing.rs`, `src/pac.rs`, `src/config.rs` | none (pure) | `route_for`, `generate` (the script's decision), `route_label_for_host` | `DomainRouting` |
| one-shot commands | `src/main.rs` | none of their own; they share keyring, cookie file and browser profile | `authenticate`, `refresh_token`, `validate`, `deauthenticate` | `Credentials`; their effect on the cookie file also in `Supervisor` |
| credential store | `src/credential_store.rs`, `src/config.rs` | two keyring entries, two secret files | store, load, delete; `vpn_credentials` | `Credentials` |
| configuration | `src/config.rs`, `src/config_file.rs` | values read once | accessors | the precedences in `Credentials` and `Diagnostics`, the lists in `DomainRouting`, durations as constants |
| probes and test-tunnel | `src/probe.rs`, `src/test_tunnel.rs` | per probe: attempt, stage of the SOCKS handshake | `run_probes`, `probe_once`, the verdict | `Diagnostics` |
| doctor | `src/doctor.rs` | the lines so far | its checks, one after the other | `Diagnostics` |
| log viewer | `src/logs.rs` | a child and the pipe from it | choice of the source, spawn, filter, kill and wait | `Diagnostics` |
| logging set-up, packaging | `src/logging.rs`, `contrib/`, `flake.nix` | none | none that changes state | not modelled |

How they interact.  The supervisor is one sequential tokio task; everything it
waits for is an await.  It calls the login and the child directly, learns of a
resume through a `Notify` and of a stop through a `CancellationToken`, and
shares the cookie file with other processes.  It spawns the routing proxy and
the PAC server and joins them at shutdown.  The routing proxy never talks to the
supervisor: it reaches the tunnel through `ocproxy`'s port, whether openconnect
runs or not.  The one-shot commands are processes of their own; they meet the
supervisor and each other only in the keyring, the cookie file and the browser
profile, none of which is locked.  The diagnostic commands read and never write.

What is hard here, and therefore what the properties are about: a verdict used
after an await during which the file, the gateway or the child changed; a
budget shared by successive sessions and reset from two places; timers that
measure a whole iteration although they are meant to detect a suspend; a
network that stays away; a paused login that must still notice a cookie
somebody else supplies; shutdown while any await is outstanding; a pair of
credentials written, read or deleted in two calls that anything may come
between; a command's report of success that was true of something else; a
child that outlives the command that started it.
PROJECT.json lists these hazards at their lines.

## 2. Modules

| module | is | extends / uses |
|---|---|---|
| `AuthSession` | abstract contract of automatic login: a session starts only while the push allowance lasts and never refills it | |
| `Tunnel` | abstract promise about openconnect: nothing starts before the last child is reaped, nothing at all once the supervisor closes | |
| `ProxyContract` | abstract promise of the routing proxy to each client: one destination, one answer, success only once linked, nothing after the end | |
| `Supervisor` | supervisor task, child, cookie file, signals, watcher, time | `AuthSession` as `Contract`, `Tunnel` as `Promise` |
| `MfaFetch` | one process's successive login sessions and their poll loop | `AuthSession` as `Contract` |
| `RoutingProxy` | client connections of the routing proxy, handshake, relay and shutdown | `ProxyContract` as `Promise` |
| `DomainRouting` | the routing decisions as operators on label sequences | |
| `Credentials` | the commands of one machine and what they share | |
| `Diagnostics` | test-tunnel, doctor and logs, on a machine that changes | |
| `*Proofs` | theorems about the module they extend; `DiagnosticsBoundsProofs` builds on the invariant of `DiagnosticsProofs` | the module, `TLAPS` |
| `MC*` | symmetry sets and instances for TLC | the module, `TLC` |

`Supervisor` and `MfaFetch` meet in `AuthSession`: the supervisor sees a login
only as "may spend from the allowance, then captures a cookie or fails", and
`MfaFetch` shows that a login does no more than that.  `Tunnel` is the other
side of the supervisor: of all its awaits only the intent towards openconnect is
left (`Intent`: keep, replace, close, over, abandoned), and `Supervisor`
implements it.  `ProxyContract` is what a client may rely on without knowing the
handshake, the tunnel or the shutdown.  All four refinements (`Supervisor` of
`AuthSession` and of `Tunnel`, `MfaFetch` of `AuthSession`, `RoutingProxy` of
`ProxyContract`) are checked by TLC and proved.

### 2.1 Supervisor

`pc` is the await the task is parked at and `caller` why it is there, so one
action is the code between two awaits, including what happens after the awaited
call returns in its caller.

| `pc` | await | code |
|---|---|---|
| `read` | a validation is about to read the file | `validate_file` |
| `probe` | the HTTP probe of the cookie in `probing` | `validate_cookie` |
| `backoff` | sleep between two probes of a forced check | `validate_cookie_with_retry` |
| `fetch` | the browser login | `cookie::fetch` |
| `write` | a cookie was captured, the file is not written yet | end of `fetch` |
| `start` | `vpn::start` | `start_vpn` |
| `stopping` | the child was sent SIGTERM | `VpnProcess::stop` |
| `wait` | `wait_for_stop_or_wake` | `monitor_loop` |
| `closing` | joining the services | `shutdown` |
| `stopped`, `failed`, `killed` | `run` returned `Ok`, `Err`, or `exit(1)` | |

| `caller` | branch |
|---|---|
| `startup` | `run` before the loop |
| `vpn_down` | the loop found no live child |
| `forced` | a reported resume, or a wall-clock delta above the threshold |
| `periodic` | `check_interval` is over |
| `shutdown` | |

The continuation operators (`ToWait`, `EnterMonitor`, `IterationEnds`,
`CookieReady`, `RestartVpn`, `RefreshCookie`) are the pieces of code several
branches end in.  Time is discrete: `sinceCheck`, `sinceLoop`, `sinceWall` are
the ages of `last_check`, the iteration's `now_mono` and `last_wall`; `waited`
is the time at the current await.  `slept` is history: whether a suspend beyond
the threshold has happened since `last_wall` was read.  Ages stop at `AgeCap`, one above every
threshold they are compared with, so saturation is not observable.  `Tick` may
pass only while the current await may still last (`Patience`).  A suspend moves
the wall clock and not the monotonic ones.

A stop does not end a login at once.  `fetch_inner` looks at the token at the top
of its poll loop, while it lists the cookies and in the pause between two polls
(`cookie.rs:389`, `397-403`, `547-553`); launching the browser, opening the page,
filling in forms, evaluating scripts, validating a captured cookie (10 s) and
closing the browser (5 s) go on regardless.  The model has a limit of its own for
all of that together, `LoginStopMax`, counted from the stop: `FirstSignal` starts
`waited` afresh at `fetch`.  The login may still spend the allowance, capture a
cookie or fail in that time, as the code may.

The environment may at any time change the gateway's state, expire sessions, let
another command write or delete the cookie file, let a child exit, suspend the
machine, or send signals.

### 2.2 MfaFetch

`pc` follows `fetch_inner`: `launch`, `open` (before the first form fill),
`poll` (cookie jar, stop check), `detect` (stuck page, MFA phase), `fill`
(re-fill, deadline), `sleep`, `save` (browser closed, cookie not written).
`page` is what `detect_mfa_phase` and the form filler can tell apart.  The site
and the user change pages between any two steps.  `clicks` and `sent` are
history variables: pushes this code clicked for, and pushes it caused in any
way, since the budget was last reset.
`LostAnswers` says whether a click may reach the page although its CDP answer is
lost (the code treats that as a miss, so nothing is charged); the passing runs
and the two theorems that need it exclude it, by name.

### 2.3 RoutingProxy

`conn[c]` is one record per client connection; its `stage` is the await the
handler is parked at.

| `stage` | code |
|---|---|
| `none`, `backlog` | not connected; connected but not accepted |
| `peek` | `client.peek` in `handle_client_inner` |
| `greeting`, `request` | `client_greeting`, `client_request` (SOCKS) |
| `head` | the read loop of `handle_http_connect` |
| `dial` | `TcpStream::connect` of `connect_direct` or `connect_upstream` |
| `upgreet`, `upreply` | the two `read_exact`s on ocproxy in `connect_upstream` |
| `answer` | writing the success reply to the client |
| `relay`, `closed` | `relay`; the handler has returned |

Data is counted in chunks per direction (`sent`, `unread`, `delivered`); a chunk
is data behind the request, which a client may send before it is answered.
`reached` and `confirmed` are history: the ways on which the target's name went
out and the one on which it was connected.  `VpnTarget` stands for the names
`route_for` sends upstream, which `DomainRouting` models.  Handlers are detached
tasks; the accept loop never waits for one.

A write waits while its socket is full, so `Copy` is never forced: a client or a
destination that does not read keeps its chunks `unread`.  `RelayEnds` is the end
of a copy that has seen the end of its source and passed on everything, and is
certain to come; `RelayBreaks` is that of a copy which fails because a side is gone
with data still to pass on, and need not come: after a FIN of ocproxy a copy that
waits in its write to a client that does not read sees nothing at all, and the
other copy waits for that client to speak.  `LossEndsConnection` therefore speaks
of connections whose client has taken what came back.

`View` maps a connection's record to a call of `ProxyContract`, `Phase` its stage
to idle, asked, reached, linked, connected or over.  A call is linked when the
destination was confirmed on the target's own way (`confirmed`), not when the
handler believes so: a handler that writes its success reply too early breaks
`Tell`.  `TunnelEnds` touches every connection through the tunnel and yet ends no
call by itself; only the handler's reaction does.  A call that has asked for
nothing may end unanswered (`TurnAway`): its client left or sent nonsense, or the
listener closed while it was in the backlog.

The environment lets clients connect, send, half-close and vanish, destinations
do the same, the tunnel come and go (all of ocproxy's sockets with it), and the
supervisor cancel the token.  `StopClosesListener` is what entitles
`Supervisor` to assume that a cancelled routing task returns.

### 2.4 DomainRouting

A name is the sequence of its labels, so "equal, or ends with a dot and the
pattern" is `IsSuffix`.  `RouteFor` is `route_for` with `domain_matches`;
`FindProxyForURL` is what the browser computes from the text that `pac.rs`
emits: `host === d || dnsDomainIs(host, ".d")` or `shExpMatch(host, "*.d")` for
the condition, and `url.indexOf(d)` for direct domains.  A browser hands the
script a lower-case host, a SOCKS client sends whatever was typed, so only the
proxy folds case of both sides.  `isIp` tells whether the proxy sees an address;
`mentioned` are the direct patterns found in the URL, at least those the host
contains as whole labels.  The two lists are read once and then cached
(`OnceLock`), so no action changes them.  `RouteLabel` is
`route_label_for_host`, a second copy of the rules that `test-tunnel` prints as
the route of a host; it matches with its own comparison (`SameOrBelow`), which
folds the case of both sides and has no special case for an address.

### 2.5 Credentials

Any number of processes run one command after the other; `cmd[p].pc` is the call
another process can come between.

| `pc` | call | code |
|---|---|---|
| `putUsername`, `putPassword` | `set_password` of one entry | `store_credentials` |
| `checkUsername`, `checkPassword` | reading one entry, before the login | `cmd_refresh_token` |
| `launch` | starting Chromium on the profile directory | `fetch` |
| `readUsername`, `readPassword` | reading one entry, in the login | `vpn_credentials` |
| `login` | the login with the pair that was found (`MfaFetch` has the inside) | `launch_and_fetch` |
| `truncate`, `save` | `fs::write` and the mode that is set by name | `write_cookie_file` |
| `deleteUsername`, `deletePassword`, `removeCookie`, `removeProfile` | one deletion each | `cmd_deauthenticate` |
| `validate`, `probe` | reading the file, the HTTP probe | `cmd_validate_cookie` |

A credential is the account it belongs to, so a username and a password fit
together when they are equal.  Every call may fail, and every process may be
killed between two calls; its browser may survive it.  `unlinked` are the
processes that write to a cookie file whose name was removed.  History: `mark`
tells per item whether the command changed it last or others have since, `keys`
whether the keyring was left alone while the command read it, `failed` what
`deauthenticate` could not remove, `torn` that a pair of keyring calls was cut
off or overtaken.  `authenticate --from-env` is modelled with environments that
hold one account; the prompt is an input.

### 2.6 Diagnostics

One process runs one of three commands; they do not touch each other's state.

| command | `pc` | code |
|---|---|---|
| test-tunnel | `listen` | `routing_proxy_up` |
| | `connect`, `hello`, `greeting`, `ask`, `header`, `length`, `tail` | the awaits of one SOCKS probe, each under its own timeout: connect (`probe.rs:86`), write and read of the greeting (91, 97), write of the request (120), read of the reply's head (126), of a name's length (148), of the rest (135, 142 or 153); a reply without a name skips `length` |
| doctor | `config`, `file`, `read`, `validate` | `check_config`, `check_cookie` (existence, content, gateway) |
| | `routing`, `ocproxy`, `pac` | `listener_up` |
| logs | `select`, `open`, `spawn` | choice of the source, existence of log file and program, spawn |
| | `stream`, `giveUp`, `wait` | `filter_output`, kill after a failed filter, `wait` |

`link` is the probe's connection as both ends see it, `elapsed` the time
`test-tunnel` has taken; `reached` is history: the hosts the routing proxy has
connected.  `was` is history for `doctor`: what was in order at some moment since
it started, and whether the gateway erred (`Holds`, `Fact`).  `validate_cookie`
takes every answer but a redirect and 404 for consent, a 5xx too (`cookie.rs:111`),
though `cookie.rs:41` documents an accepted cookie as one answered with 2xx.  So
`doctor.rs:118` may call a cookie ok that the gateway does not accept;
`DoctorTellsTruth` has exactly that exception, a cookie line while the gateway
erred, and the run `gateway_errors` shows the same answer doing harm to the push
budget.  `due` and `shown` count the matching lines the program printed and those
that were shown.  Only a `Fail` line makes `doctor` fail; `check_credentials` and
`check_proxychains` warn at most, so their lines are not modelled.
`check_credentials` does read the keyring (`doctor.rs:104`), see 4.  The proxy's
side of a probe is what `RoutingProxy!SuccessIsTrue` allows: success only of a
target that is connected, silence at any time.

## 3. Runs

One model time unit stands for about 15 s, the smallest interval between the
supervisor's polls.

| run | checks | bounds and why they are enough |
|---|---|---|
| `supervisor_safety` | `StopAdvances`, `OneTunnel`, `ExitLeavesNothing`, `FatalExitKeepsLimit`, `TearDownJustified`, `UnreachableRetriedNextPoll`, `SuspendNoticed`, `ImplementsContract`, `ImplementsTunnel` | `MaxPush = 2` so that the budget is neither fresh nor spent at one value; two process identities, as many as a restart overlaps; one cookie value, accepted or not, in the file or not; one suspend longer than the threshold; `RetryWait` of 4 polls and a login of up to 6, longer than the suspend threshold of 4, and of up to 2 after a stop; other timeouts of one unit |
| `supervisor_liveness` | `StopTerminates`, `UsableCookieBringsTunnel`, `ResumeReplacesTunnel` | one of each; spawning succeeds (otherwise nothing could bring a tunnel up); `CheckInterval = 2`, a login of at most one unit, and one more after a stop |
| `fetch` | `SessionAdvances`, `ClicksCounted`, `NotificationCurrent`, `NoClickWhilePending`, `ImplementsContract`, `SessionEnds` | two numbers (a challenge can be replaced), two pushes, a deadline of 5 s so that several polls with 2 s sleeps fit, one poll on a stuck page before it is reloaded |
| `proxy` | `ImplementsProxyContract`, `NamesStayOnRoute`, `SuccessIsTrue`, `UnderstoodIsAnswered`, `NothingSwallowed`, `DrainedBeforeEnd`, `LossEndsConnection`, `StopClosesListener` | one connection, because handlers share nothing but the tunnel and the token (the theorems are for any number); a VPN and a public destination, three chunks per direction: one early, one late, one in flight; any of them may stay unread |
| `routing_rules` | `PacAgrees`, `PortalStaysDirect`, `LabelTellsRoute` | every pair of lists over four patterns (general, specific, wildcard, upper case), every host of one to three labels |
| `credentials` | `KeyringPaired`, `OneSource`, `LoginFindsCredentials`, `SuccessIsDone`, `DeauthenticateErases` | two processes, as many as one race needs, running every pair of commands again and again; two accounts, so that a mixed pair shows; a half and a whole environment, no or whole secret files |
| `diagnostics` | `TestTellsTruth`, `TestBounded`, `DoctorTellsTruth`, `NoProgramLeft`, `LogsComplete`, `CommandEnds` | two hosts and one too long for SOCKS, lists with a rejected entry and empty ones; one retry; timeouts of one unit, up to seven waits an attempt; a pipe of one line and a log of three, so that the program blocks; one cookie |
| `supplied_cookie`, `slow_login`, `gateway_errors`, `push_limit`, `rules_in_sync` | one statement of the documentation each, violated | see 6 |

Ages stop at `AgeCap`, history counters at `MaxPush + 1`, suspends at
`MaxSuspends`, chunks at `MaxData`, log lines at `MaxLines`, retries at
`MaxRetries`; every bound is a constant or named in the
module.  Deadlock is checked in every run: a process that has ended stutters
explicitly (`Over`), and everything else always has an environment step.

The type invariants have no run: they are theorems, and conjuncts of the
inductive invariants in 5.

Facts the runs show that are easy to lose in a change:

- A check that was forced by a resume and finds the gateway unreachable is not
  remembered as forced.  It is repeated by the next poll only because its own
  retry period (60 s) is as long as the suspend threshold at its default
  (`max(4 * 15 s, 30 s)`).  `RetryAssumption` states this, and both
  `UnreachableRetriedNextPoll` and `ResumeReplacesTunnel` depend on it.
- `SuspendNoticed` holds through logins and back-offs only because `last_wall` is
  read where the iteration starts.  The price is `slow_login`.
- Nothing repairs a keyring whose pair was cut off half-way: `KeyringPaired` and
  `OneSource` say exactly when a login may be given two accounts' halves.
- A `deauthenticate` that races a login reports success truthfully, and yet the
  login saves its cookie afterwards: what is left was put there by others.
- `relay` ends with the first direction that ends.  What that direction carried
  was passed on (`DrainedBeforeEnd`); what the other one still carries is lost,
  so a client that half-closes after its request does not get the answer.
- A tunnel that is lost ends a relay only if its client reads.  One that leaves
  data unread and sends nothing keeps its handler for ever, since `relay` has no
  timeout and its two copies wait for that client.
- The cookie that was probed need not be the one openconnect is given: `start_vpn`
  reads the file again.  No property says it is; a tunnel started with a cookie
  nobody probed dies, and the next liveness check repairs it.
- A notification stays on the screen between a challenge that was denied or
  replaced by a page without a number and the next number; `NotificationCurrent`
  speaks only of the time a number is displayed, and of the session's end.

## 4. Fairness

- `Supervisor!FairSpec`: weak fairness of the task's steps and of time, because
  the tokio runtime runs a ready task and its timers fire, and of a cancelled
  service task's return.  The last is what `StopClosesListener` establishes for
  the routing proxy; for the PAC server it would depend on axum's graceful
  shutdown and on the clients, so the liveness run has the routing proxy as its
  only service.  A probe, a back-off and a SIGTERM grace period are bounded by the
  code's own timeouts, a login by its deadline and after the stop by
  `LoginStopMax` (`Patience`).
- `MfaFetch!FairSpec`: weak fairness of the session's steps.  CDP calls are
  bounded by chromiumoxide's request timeout and closing the browser by 5 s.
- `RoutingProxy!FairSpec`: the accept loop and the handlers are scheduled when
  what they wait for has happened.  There is none of `Copy` and `RelayBreaks`: a
  sink need not read, and a side may go without a reset.  Nothing is promised of
  a client that stays silent or an ocproxy that does not answer: no await of the
  handshake has a timeout.  The few bytes of a reply to the client are taken to
  fit into its socket's buffer.
- `Diagnostics!FairSpec`: the process's steps and time, and that a log program
  which is not to follow prints its lines and ends while its pipe is read.  There
  is none of `ReadFails`: reading the pipe need not ever fail, and `CommandEnds`
  does not depend on it.  Whoever reads the output of `logs` is taken to read it
  or to close it.  Nothing is promised of the routing proxy, the gateway or the
  listeners.
- The keyring.  A call to it may block on the user's unlock dialogue for as long
  as the user likes; it is synchronous and has no timeout.  The login makes one
  before its deadline is set (`cookie.rs:371`), and so does `check_credentials`
  (`doctor.rs:104`).  `StopTerminates`, `StopAdvances`, `SessionEnds` and
  `CommandEnds` assume that these calls return; while one of them blocks, neither
  a stop nor the deadline is seen.  `Credentials` has no liveness: a login ends by
  `MfaFetch!SessionEnds`, a command there may wait for the keyring for ever.
- Nothing is assumed of users, pages, the gateway, signals or the network.

## 5. Proofs

The theorems hold for all values of the constants that satisfy the named
assumptions of the modules (`NoValueAssumption`, `KindAssumption`,
`TimeAssumption`, `RetryAssumption`; `NumberAssumption`, `BoundAssumption`;
`TargetAssumption`, `DataAssumption`; `LowerAssumption`, `NameAssumption`;
`AccountAssumption`, `SourceAssumption`; `HostAssumption`, `NumberAssumption`,
`FileAssumption`, `ParsedAssumption`).  The last one says that dropping the
rejected entries of a list of hosts leaves a list of hosts: the prover has no
induction over sequences, and TLC evaluates it for the lists of the run.
`BoundAssumption` has `StuckLimit > 0` (5 in the code): reloading a stuck page
skips the deadline, so with 0 a login would reload for ever and `SessionsAdvance`
would be false.

| theorem | property | argument |
|---|---|---|
| `TypeCorrect` | type correctness (no run) | conjunct of `IInv` |
| `SingleTunnel`, `CleanExit`, `FatalExitSpendsNothing` | `OneTunnel`, `ExitLeavesNothing`, `FatalExitKeepsLimit` | `IInv` |
| `TearDownIsJustified` | `TearDownJustified` | `IInv` and one case per action that empties the slot |
| `UnreachableIsRetried` | `UnreachableRetriedNextPoll` | `IInv` and `RetryInv` |
| `SuspendIsNoticed` | `SuspendNoticed` | `SleptInv`: a suspend shows in the age of `last_wall` until that is read |
| `StopsAdvance` | `StopAdvances` | a rank, under `IInv` and `WaitedInv`; a login counts for `LoginStopMax` ticks and the allowance that is left |
| `KeepsTunnelPromise` | `ImplementsTunnel` | step by step refinement of `Tunnel` under `IInv` |
| `KeepsLoginContract`, `FetchKeepsContract` | `ImplementsContract` | step by step refinement of `AuthSession` |
| `SessionsAdvance` | `SessionAdvances` | a rank, under `MInv` and `RankInv` |
| `FetchTypeCorrect` | type correctness (no run) | conjunct of `MInv` |
| `ClicksAreCounted`, `NotificationIsCurrent`, `NoSecondClick` | `ClicksCounted`, `NotificationCurrent`, `NoClickWhilePending` | `MInv` |
| `ProxyKeepsContract` | `ImplementsProxyContract` | step by step refinement of `ProxyContract` under `PInv` |
| `ProxyTypeCorrect` | type correctness (no run) | conjunct of `PInv` |
| `NamesKeepTheirRoute`, `SuccessIsReal`, `RequestsAreAnswered`, `DataSurvivesHandshake` | `NamesStayOnRoute`, `SuccessIsTrue`, `UnderstoodIsAnswered`, `NothingSwallowed` | `PInv` |
| `RelayDrains` | `DrainedBeforeEnd` | `PInv`, and only `RelayEnds` closes a relay |
| `RoutingTypeCorrect` | type correctness (no run) | lists and request stay in their ranges |
| `PacAgreement`, `PortalReachable`, `LabelTrue` | `PacAgrees`, `PortalStaysDirect`, `LabelTellsRoute` | folding a plain pattern changes nothing; suffixes |
| `CredentialsTypeCorrect` | type correctness (no run) | conjunct of `CInv` |
| `KeyringStaysPaired`, `LoginPairFromOneSource`, `LoginFindsItsCredentials` | `KeyringPaired`, `OneSource`, `LoginFindsCredentials` | `CInv` |
| `SuccessMeansDone`, `DeauthenticationErases` | `SuccessIsDone`, `DeauthenticateErases` | `CInv`, and one case per way a command ends |
| `DiagnosticsTypeCorrect` | type correctness (no run) | conjunct of `Inv` |
| `TestIsTruthful`, `DoctorIsTruthful`, `LogsLeavesNothing` | `TestTellsTruth`, `DoctorTellsTruth`, `NoProgramLeft` | `Inv` |
| `LogsShowsAll` | `LogsComplete` | `CountInv`: counting by cardinality instead of recursion |
| `TestEndsInTime` | `TestBounded` | `TimeInv`: the time is bounded by the timeouts of the waits already behind, seven to an attempt |

Why the invariants are stronger than the properties:

- `IInv` (Supervisor) adds where the child can be (`TunnelPlace`: in the slot,
  or in `stop_vpn`'s hands while `pc = "stopping"`), that start-up has neither a
  child nor a spent push before its first login (`StartupClean`), and which
  awaits each caller can reach (`CallerPlace`).  `OneTunnel` alone is not
  inductive: `StartVpn` keeps it only when the slot is the sole place.
- `RetryInv` relates the ages to the verdict: after an unanswered check the next
  poll finds either `last_check` old enough or a wall-clock delta above the
  threshold.
- `MInv` (MfaFetch) adds that locals exist only inside a session, that a clicked
  picker still in the DOM is remembered as `Triggered`, that a number page has a
  number and which number a notification was sent for.  `NoSecondClick` assumes
  `~LostAnswers`: a click whose answer is lost is clicked again.
- `PInv` (RoutingProxy) is one predicate `Good` on a connection's record, since
  connections do not touch each other: what each stage knows of the target, the
  peer and the answer.  A step of one handler keeps it for one record; only
  `TunnelEnds` and `ListenerCloses` touch all.
- `CInv` (Credentials) says of each running command what its own record lets it
  conclude about what is shared: which items it has changed and are still as it
  left them (`Kept`), and what it may still believe of the keyring while nobody
  disturbed it (`Sound`).  A step of one process keeps the record of another
  because `Changes` notes it there; two lemmas (`OneMoves`, `OneChanges`) cover
  all actions, so a case per action has to speak of one process only.
- `Inv` (Diagnostics) adds which await belongs to which command, that a probe
  under way has a target left, that `connected` is said only of a target reached,
  that a cookie under validation is in the history if the gateway accepts it now,
  that what was called ok is `Backed` by the history, and where the log program
  can be.

- `PInv` further has the target's name in `reached` from `upreply` on, which the
  refinement needs: `ProxyContract` says of every linked call where its name went.
  The refinement has one lemma per change of a call (`CallAsks` to `CallLeaves`)
  and two for the actions that touch many (`CallsOutliveTunnel`,
  `CallsTurnedAway`); all other connections keep their view (`OneCall`).
- `WaitedInv` (Supervisor) bounds the time already spent at an await, so that the
  time left is a natural number; `RankInv` (MfaFetch) says that a poll is slept
  over only before the deadline and that nothing stuck has been counted before
  the first poll, so that a new browser costs a known number of awaits.
- `CountInv` (Diagnostics) says that the lines due are those shown and those that
  match in the pipe; `Count` is the cardinality of the matching positions, and
  the lemmas `CountAppend`, `CountTail` give it the two facts a recursive
  definition would give.
- `TimeInv` (Diagnostics) bounds `elapsed` by the timeouts of the attempts and
  steps already behind plus the time at the present await; the last step is
  arithmetic on products, in lemmas of its own.

What the two ranks are for.  `StopTerminates` and `SessionEnds` are liveness, but
only their last step is: that a task which can go on does so.  What could really
be wrong is a cycle, a retry that forgets the stop or a reload that skips the
deadline for ever, and that is excluded for every value of the constants by a
number that each step of the task (and each tick of its waiting) decreases and
nobody else increases.  `StopRank` counts the wake-ups that may still win against
the stop (the suspends to come, a stored permit, a poll that is due: `select!` may
take any ready branch), each worth a whole detour through validation, login and
restart.  A login in such a detour costs up to `LoginStopMax` ticks and every push
that is left.  How long the services take to return is theirs to say: joining them
is one step of the rank.  `SessionRank` counts one relaunch with a visible browser, the rounds
until the deadline, and a reload that cannot come twice in a row.

TLC alone covers: the liveness properties (fairness and `ENABLED` are outside the
prover's reach), for `StopTerminates` and `SessionEnds` only what the ranks leave
open, and the violated statements.

## 6. Where documents and code differ

| run | the document says | the code does |
|---|---|---|
| `supplied_cookie` | `docs/architecture.md:103`: after a failed refresh a supplied cookie lets the monitor start the VPN | after a resume the old, stale openconnect still runs, and a valid cookie restarts it only when a push was counted |
| `slow_login` | `spec.md:431`: the fallback looks for wall-clock skew against the monotonic clock | it compares the wall clock with its own last value over a whole iteration, so a long login looks like a suspend |
| `gateway_errors` | `cookie.rs:41`, `spec.md:197`: valid means 200/2xx; a valid cookie resets the push counter | every answer but 3xx and 404 is valid, 5xx included |
| `push_limit` | `README.md:84`: at most three push notifications per run | a push sent by submitting the password, or one that replaces a push, is not counted |
| `rules_in_sync` | `config.rs:58`, `spec.md:22`: one list keeps script and proxy in sync | `*.x` is a wildcard for the script only |

Seen while modelling, without a run of its own:

- `spec.md:277` and `config_file.rs:139-142` offer `[credentials]` values in the
  configuration file; `config.rs:197-204` reads only the `*_file` paths.
- `test_tunnel.rs:32`: "Pass only when every probe succeeds"; an entry that
  `parse_probe_target` rejects is dropped without a word and counts for neither
  side, as the lists with `BadHost` show.
- `spec.md:242`: "Pass `--retries N` to poll until the tunnel is ready"; a refused
  connection is retried at once, so the retries are over in no time.
- With a unit known to systemd, `logs` selects the journal although `journalctl`
  is missing, and fails; without one it would have looked for it first.

## 7. Not modelled

- A wall clock that is set back: `duration_since` fails and counts as zero, which
  hides a suspend of at most the same length for one iteration.
- The scripts injected into the login pages, the bytes of SOCKS and HTTP
  messages, reply codes, log lines, command-line arguments.
- What a second Chromium does with a profile directory that is deleted under it
  beyond writing it again, and what the keyring's daemon does with two writers of
  one entry: both are outside this code.
- `doctor`'s reading of proxychains.conf (it looks for the port as a substring
  and can only warn), bind addresses that do not parse, which words the log
  filter matches, and the set-up of tracing (`logging.rs`): data, not order.
- The PAC server's HTTP is the axum library's; shutdown joins it without a
  timeout, so a client that never ends its request delays the exit until a second
  signal.  `Supervisor` has it as a service that may or may not return.
- Packaging and service files: no program state.
- `pac.rs:11-13` speaks of configuration changes picked up without a restart;
  the configuration is read once (`config_file::get`), which the models follow.

## 8. Plan

Done: `AuthSession`, `Supervisor`, `MfaFetch`, `RoutingProxy`, `DomainRouting`,
`Credentials`, `Tunnel`, `Diagnostics`, `ProxyContract` and their theorems, in that
order.  Left:

1. Ranks for the other liveness properties, where the code bounds the wait:
   `CommandEnds` (timeouts and retries of `test-tunnel`, lines of a log that is
   not followed), then `LossEndsConnection` under its condition.
2. Composition of `RoutingProxy` with the supervisor's tunnel: a restart as seen
   by a client, from request to answer; and with `DomainRouting` for `VpnTarget`.
3. A wall clock that is set back, once something in the code remembers that a
   forced check is still owed; today such a clock simply loses it.
