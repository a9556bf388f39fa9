----------------------------- MODULE Diagnostics -----------------------------
(***************************************************************************)
(* The commands that look and tell: test-tunnel, doctor and logs.  The      *)
(* process of this module runs one of them, while the machine it looks at   *)
(* changes.  They write nothing the rest of jumphost reads, so they are     *)
(* independent of each other.                                               *)
(*                                                                         *)
(* `pc` is the await or the call the process is at; an action is the code   *)
(* up to the next one.                                                      *)
(***************************************************************************)
EXTENDS Integers, Sequences

CONSTANTS
  Host,            \* names that test-tunnel may probe
  LongHost,        \* those too long for a SOCKS request (255 bytes)
  BadHost,         \* an entry that parse_probe_target rejects
  HostLists,       \* what -H and [probe].hosts may hold
  MaxRetries,      \* bound on --retries and probe.retries
  ProbeTimeout,    \* --timeout, or probe.timeout_secs: one wait of a probe
  ListenTimeout,   \* listener_up, routing_proxy_up (2 s)
  ValidateTimeout, \* reqwest timeout of a validation (10 s)
  Cookie, Absent, Empty, \* what the cookie file may be
  PipeSize,        \* lines that fit into the pipe from the log program
  MaxLines         \* bound on the lines the log program prints

ASSUME HostAssumption ==
  /\ LongHost \subseteq Host /\ BadHost \notin Host
  /\ HostLists \subseteq Seq(Host \cup {BadHost})
ASSUME NumberAssumption ==
  {MaxRetries, ProbeTimeout, ListenTimeout, ValidateTimeout, PipeSize, MaxLines}
    \subseteq Nat
ASSUME FileAssumption == Absent \notin Cookie /\ Empty \notin Cookie

VARIABLES
  command, pc, exit, waited,     \* exit is -1 while the process runs
  listening,                     \* the listeners that run
  file, accepted, gateway,       \* as in Supervisor
  targets, retries, needAll,     \* test-tunnel: what to probe and how
  attempt, results, link,        \*   the probe under way
  reached, elapsed,              \*   history: hosts connected; time taken
  configured, servePac, held,    \* doctor: the configuration, the cookie read
  ok, failing, was,              \*   lines so far; history: facts ever so
  source, follow, filtered,      \* logs: the arguments
  known, tools, logFiles,        \*   what the machine has
  child, pipe, output,           \*   the log program and where lines go
  left, due, shown               \*   lines to come; history: matching, shown

process == <<command, pc, exit, waited>>
session == <<file, accepted, gateway>>
world   == <<listening, session>>
request == <<targets, retries, needAll>>
probe   == <<attempt, results, link, reached>>
test    == <<request, probe, elapsed>>
doctor  == <<configured, servePac, held, ok, failing, was>>
logArgs == <<source, follow, filtered>>
machine == <<known, tools, logFiles>>
stream  == <<child, pipe, output, left, due, shown>>
logs    == <<logArgs, machine, stream>>
vars    == <<process, world, test, doctor, logs>>

Listener == {"routing", "ocproxy", "pac"}
Item == Listener \cup {"config", "cookie"}
Running == pc # "ended"
Goes(p) == pc' = p /\ waited' = 0 /\ UNCHANGED <<command, exit>>
Exits(code) == pc' = "ended" /\ waited' = 0 /\ exit' = code /\ UNCHANGED command
-----------------------------------------------------------------------------
(* test-tunnel.                                                             *)

(* An argument of zero means the configured value.                          *)
Effective(argument, configuredValue) ==
  IF argument > 0 THEN argument ELSE configuredValue

(* parse_probe_target; what it rejects is dropped without a word.           *)
Parsed(list) == SelectSeq(list, LAMBDA h : h # BadHost)

(* Selecting from a list of entries leaves a list of hosts.                  *)
ASSUME ParsedAssumption == \A list \in HostLists : Parsed(list) \in Seq(Host)

ResolveTargets(cli, config) == Parsed(IF cli # <<>> THEN cli ELSE config)

Target == targets[Len(results) + 1]

Verdict(rs) ==
  IF needAll THEN IF \A i \in DOMAIN rs : rs[i] THEN 0 ELSE 1
             ELSE IF \E i \in DOMAIN rs : rs[i] THEN 0 ELSE 1

ProxyUp ==
  /\ pc = "listen" /\ "routing" \in listening
  /\ IF targets = <<>> THEN Exits(1) ELSE Goes("connect")
  /\ UNCHANGED <<world, test, doctor, logs>>

ProxyDown ==
  /\ pc = "listen" /\ ("routing" \notin listening \/ waited >= ListenTimeout)
  /\ Exits(2)
  /\ UNCHANGED <<world, test, doctor, logs>>

(* run_probes pushes a result and turns to the next target.                 *)
Record(passed) ==
  /\ results' = Append(results, passed) /\ attempt' = 0 /\ link' = "none"
  /\ IF Len(results') = Len(targets) THEN Exits(Verdict(results'))
                                     ELSE Goes("connect")

AttemptFails ==
  IF attempt < retries
    THEN /\ attempt' = attempt + 1 /\ link' = "none" /\ Goes("connect")
         /\ UNCHANGED results
    ELSE Record(FALSE)

Probes == UNCHANGED <<world, request, reached, elapsed, doctor, logs>>

(* The awaits of socks5_connect_via_routing, each under its own timeout: the
   connect, the writes of greeting and request, and the reads between them.  *)
ProbePcs == {"connect", "hello", "greeting", "ask", "header", "length", "tail"}

Connect ==
  /\ pc = "connect" /\ "routing" \in listening
  /\ link' = "open" /\ Goes("hello")
  /\ UNCHANGED <<attempt, results>> /\ Probes

(* A write may succeed though the connection is lost; the next read will not. *)
Hello ==
  /\ pc = "hello" /\ link' = IF link = "open" THEN "helloed" ELSE link
  /\ Goes("greeting")
  /\ UNCHANGED <<attempt, results>> /\ Probes

(* The answer offers no authentication, or something else.                  *)
Greeted ==
  /\ pc = "greeting" /\ link = "greeted"
  /\ \/ AttemptFails
     \/ /\ Target \notin LongHost
        /\ Goes("ask") /\ UNCHANGED <<attempt, results, link>>
  /\ Probes

Ask ==
  /\ pc = "ask" /\ link' = IF link = "greeted" THEN "asked" ELSE link
  /\ Goes("header")
  /\ UNCHANGED <<attempt, results>> /\ Probes

(* Mutant of HeaderRead: an answer is a success, whatever it says. *)
HeaderSuffices ==
  /\ pc = "header" /\ link \in {"connected", "refused"}
  /\ Record(TRUE) /\ Probes

(* The reply ends in an IP address, in a name after its length, or in
   something unknown.                                                       *)
HeaderRead ==
  /\ pc = "header" /\ link \in {"connected", "refused"}
  /\ \/ AttemptFails
     \/ \E p \in {"length", "tail"} :
          Goes(p) /\ UNCHANGED <<attempt, results, link>>
  /\ Probes

LengthRead ==
  /\ pc = "length" /\ link \in {"connected", "refused"}
  /\ Goes("tail") /\ UNCHANGED <<attempt, results, link>> /\ Probes

TailRead ==
  /\ pc = "tail" /\ link \in {"connected", "refused"}
  /\ IF link = "connected" THEN Record(TRUE) ELSE AttemptFails
  /\ Probes

(* Mutant of StepFails: a timeout is not counted as a failed attempt. *)
StepFailsUncounted ==
  /\ pc \in ProbePcs
  /\ \/ link = "lost" /\ AttemptFails
     \/ /\ waited >= ProbeTimeout /\ link' = "none" /\ Goes("connect")
        /\ UNCHANGED <<attempt, results>>
  /\ Probes

(* A timeout of one wait, a refused connect or a lost connection.           *)
StepFails ==
  /\ pc \in ProbePcs
  /\ \/ pc = "connect" /\ "routing" \notin listening
     \/ link = "lost"
     \/ waited >= ProbeTimeout
  /\ AttemptFails /\ Probes

Links == {"none", "open", "helloed", "greeted", "asked", "connected", "refused",
          "lost"}

(* The routing proxy at the other end: it says success only of a target it
   has connected (RoutingProxy!SuccessIsTrue), and may fall silent.         *)
Proxy ==
  /\ \/ link = "helloed" /\ link' = "greeted" /\ UNCHANGED reached
     \/ link = "asked" /\ link' = "connected" /\ reached' = reached \cup {Target}
     \/ link = "asked" /\ link' = "refused" /\ UNCHANGED reached
     \/ link \notin {"none", "lost"} /\ link' = "lost" /\ UNCHANGED reached
  /\ UNCHANGED <<process, world, request, attempt, results, elapsed, doctor, logs>>

TestTunnel == ProxyUp \/ ProxyDown \/ Connect \/ Hello \/ Greeted \/ Ask
                \/ HeaderRead \/ LengthRead \/ TailRead \/ StepFails
-----------------------------------------------------------------------------
(* doctor.                                                                  *)

Checks == UNCHANGED <<world, test, configured, servePac, was, logs>>
Finds(i, status) ==
  /\ ok' = IF status = "Ok" THEN ok \cup {i} ELSE ok
  /\ failing' = IF status = "Fail" THEN failing \cup {i} ELSE failing

(* check_config, and check_credentials, which only warns.  That one reads the
   keyring, which is taken to answer (see Credentials for what it holds).   *)
CheckConfig ==
  /\ pc = "config" /\ Goes("file")
  /\ Finds("config", IF configured THEN "Ok" ELSE "Fail")
  /\ UNCHANGED held /\ Checks

(* check_cookie looks whether the file is there, then reads it.             *)
CookieFile ==
  /\ pc = "file"
  /\ IF file = Absent THEN Goes("routing") ELSE Goes("read")
  /\ UNCHANGED <<held, ok, failing>> /\ Checks

CookieRead ==
  /\ pc = "read"
  /\ IF file \in {Absent, Empty}
       THEN /\ Goes("routing") /\ Finds("cookie", "Fail") /\ UNCHANGED held
       ELSE /\ held' = file /\ Goes("validate") /\ UNCHANGED <<ok, failing>>
  /\ Checks

(* Mutant of CookieAnswer: whoever answers has accepted the cookie. *)
CookieAnswerIsValid ==
  /\ pc = "validate" /\ Goes("routing")
  /\ Finds("cookie", IF gateway = "down" THEN "Warn" ELSE "Ok")
  /\ held' = Absent /\ Checks

(* validate_cookie: a redirect is Invalid, silence a network error and every
   other answer Valid, be it that of a gateway that errs.                   *)
CookieAnswer ==
  /\ pc = "validate" /\ Goes("routing")
  /\ Finds("cookie", CASE gateway = "down"                       -> "Warn"
                       [] gateway = "up" /\ held \notin accepted -> "Fail"
                       [] OTHER                                  -> "Ok")
  /\ held' = Absent /\ Checks

(* doctor's exit code, after check_proxychains, which only warns.           *)
Concludes == Exits(IF failing' = {} THEN 0 ELSE 1)

(* listener_up for one after the other; only the first one is critical.     *)
CheckListener(l, status) ==
  /\ pc = l /\ Finds(l, status)
  /\ CASE l = "routing"                -> Goes("ocproxy")
       [] l = "ocproxy" /\ servePac    -> Goes("pac")
       [] OTHER                        -> Concludes
  /\ UNCHANGED held /\ Checks
ListenerUp(l) == l \in listening /\ CheckListener(l, "Ok")
ListenerDown(l) ==
  /\ l \notin listening \/ waited >= ListenTimeout
  /\ CheckListener(l, IF l = "routing" THEN "Fail" ELSE "Warn")

Doctor == CheckConfig \/ CookieFile \/ CookieRead \/ CookieAnswer
            \/ \E l \in Listener : ListenerUp(l) \/ ListenerDown(l)
-----------------------------------------------------------------------------
(* logs.                                                                    *)

Looks == UNCHANGED <<world, test, doctor, follow, filtered, machine>>

SelectAuto ==
  CASE known                                                -> "systemd"
    [] ~known /\ "detached" \in logFiles                    -> "detached"
    [] ~known /\ logFiles = {"launchd"}                     -> "launchd"
    [] ~known /\ logFiles = {} /\ "journalctl" \in tools    -> "systemd"
    [] OTHER                                                -> "none"

SelectSource ==
  /\ pc = "select"
  /\ IF source # "auto"
       THEN Goes("open") /\ UNCHANGED source
       ELSE /\ source' = SelectAuto
            /\ IF SelectAuto = "none" THEN Exits(1) ELSE Goes("open")
  /\ UNCHANGED stream /\ Looks

(* run_systemd_logs and run_file_logs, up to the spawn.                     *)
Readable ==
  IF source = "systemd" THEN "journalctl" \in tools
                        ELSE source \in logFiles /\ "tail" \in tools
OpenLog ==
  /\ pc = "open"
  /\ IF Readable THEN Goes("spawn") ELSE Exits(1)
  /\ UNCHANGED <<source, stream>> /\ Looks

(* Mutant of Spawn: waits for the program before it reads its output. *)
SpawnAndWait ==
  /\ pc = "spawn" /\ child' = "running" /\ Goes("wait")
  /\ UNCHANGED <<source, pipe, output, left, due, shown>> /\ Looks

(* Without a filter the program writes to our output itself.                *)
Spawn ==
  /\ pc = "spawn" /\ child' = "running"
  /\ IF filtered THEN Goes("stream") ELSE Goes("wait")
  /\ UNCHANGED <<source, pipe, output, left, due, shown>> /\ Looks

SpawnFails ==
  /\ pc = "spawn" /\ Exits(1) /\ UNCHANGED <<source, stream>> /\ Looks

(* filter_output: one line.  Only a matching line touches the output.       *)
FilterLine ==
  /\ pc = "stream" /\ pipe # <<>>
  /\ pipe' = Tail(pipe)
  /\ IF ~Head(pipe)            THEN Goes("stream") /\ UNCHANGED shown
     ELSE IF output = "closed" THEN Goes("giveUp") /\ UNCHANGED shown
                               ELSE Goes("stream") /\ shown' = shown + 1
  /\ UNCHANGED <<source, child, output, left, due>> /\ Looks

(* Reading the pipe fails, which it need not ever do.                       *)
ReadFails ==
  /\ pc = "stream" /\ Goes("giveUp") /\ UNCHANGED <<source, stream>> /\ Looks

(* Mutant of EndOfOutput: stops when the program is gone. *)
EndOfProgram ==
  /\ pc = "stream" /\ child # "running" /\ Goes("wait")
  /\ UNCHANGED <<source, stream>> /\ Looks

EndOfOutput ==
  /\ pc = "stream" /\ pipe = <<>> /\ child # "running" /\ Goes("wait")
  /\ UNCHANGED <<source, stream>> /\ Looks

(* Mutant of GiveUp: returns without kill and wait. *)
GiveUpOnly ==
  /\ pc = "giveUp" /\ Exits(1) /\ UNCHANGED <<source, stream>> /\ Looks

(* Filtering failed: the program is killed and reaped.                      *)
GiveUp ==
  /\ pc = "giveUp" /\ child' = "reaped" /\ Exits(1)
  /\ UNCHANGED <<source, pipe, output, left, due, shown>> /\ Looks

(* status_to_exit_code: no success but the program's; 1 stands for every
   other code.                                                              *)
ExitCode(status) == IF status = "succeeded" THEN 0 ELSE 1

Reap ==
  /\ pc = "wait" /\ child # "running"
  /\ child' = "reaped" /\ Exits(ExitCode(child))
  /\ UNCHANGED <<source, pipe, output, left, due, shown>> /\ Looks

Logs == SelectSource \/ OpenLog \/ Spawn \/ SpawnFails \/ FilterLine
          \/ EndOfOutput \/ GiveUp \/ Reap

(* journalctl or tail.  A full pipe blocks it; it succeeds at the end of the
   log, which -f has not.                                                   *)
Prints(matching) ==
  /\ child = "running" /\ left > 0 /\ (filtered => Len(pipe) < PipeSize)
  /\ left' = left - 1
  /\ IF filtered THEN /\ pipe' = Append(pipe, matching)
                      /\ due' = IF matching THEN due + 1 ELSE due
                 ELSE UNCHANGED <<pipe, due>>
  /\ UNCHANGED <<process, child, output, shown, logArgs>>
  /\ UNCHANGED <<world, test, doctor, machine>>
ChildEnds(status) ==
  /\ child = "running" /\ child' = status
  /\ status = "succeeded" => left = 0 /\ ~follow
  /\ UNCHANGED <<process, pipe, output, left, due, shown, logArgs>>
  /\ UNCHANGED <<world, test, doctor, machine>>
ChildFinishes == (\E m \in BOOLEAN : Prints(m)) \/ ChildEnds("succeeded")

(* Whoever reads our output goes away.                                      *)
OutputCloses ==
  /\ Running /\ command = "logs" /\ output = "open" /\ output' = "closed"
  /\ UNCHANGED <<process, child, pipe, left, due, shown, logArgs>>
  /\ UNCHANGED <<world, test, doctor, machine>>
-----------------------------------------------------------------------------
(* The machine that is looked at.                                           *)

(* What may be so: that an item is in order, and that the gateway errs.      *)
Fact == Item \cup {"erring"}
Holds(i) ==
  CASE i = "config"    -> configured
    [] i = "cookie"    -> file \in accepted
    [] i = "erring"    -> gateway = "erring"
    [] i \in Listener  -> i \in listening

ListenerChanges(l) ==
  /\ listening' = IF l \in listening THEN listening \ {l} ELSE listening \cup {l}
  /\ UNCHANGED session
CookieRemoved ==
  file' \in {Absent, Empty} /\ UNCHANGED <<listening, accepted, gateway>>
CookieSupplied(c) ==
  /\ gateway = "up" /\ file' = c /\ accepted' = accepted \cup {c}
  /\ UNCHANGED <<listening, gateway>>
SessionExpires(c) ==
  /\ c \in accepted /\ accepted' = accepted \ {c}
  /\ UNCHANGED <<listening, file, gateway>>
GatewayChanges ==
  gateway' \in {"up", "down", "erring"} /\ UNCHANGED <<listening, file, accepted>>

(* What doctor looks at changes, and for test-tunnel the routing proxy.     *)
MachineChanges ==
  /\ Running
  /\ \/ command = "test-tunnel" /\ ListenerChanges("routing")
     \/ /\ command = "doctor"
        /\ \/ CookieRemoved \/ GatewayChanges
           \/ \E l \in Listener : ListenerChanges(l)
           \/ \E c \in Cookie : CookieSupplied(c) \/ SessionExpires(c)
  /\ UNCHANGED <<process, test, configured, servePac, held, ok, failing, logs>>
  /\ was' = was \cup {i \in Fact : Holds(i)'}

(* A log file appears or is rotated away.                                   *)
LogFileChanges ==
  /\ Running /\ command = "logs"
  /\ logFiles' \in SUBSET {"detached", "launchd"}
  /\ UNCHANGED <<process, world, test, doctor, logArgs, known, tools, stream>>

(* How much longer the process may stay where it is.                        *)
Patience ==
  CASE pc \in {"listen"} \cup Listener -> ListenTimeout
    [] pc \in ProbePcs                 -> ProbeTimeout
    [] pc = "validate"                 -> ValidateTimeout
    [] OTHER                           -> 0

Tick ==
  /\ waited < Patience /\ waited' = waited + 1
  /\ elapsed' = IF command = "test-tunnel" THEN elapsed + 1 ELSE elapsed
  /\ UNCHANGED <<command, pc, exit, world, request, probe, doctor, logs>>

Over == ~Running /\ UNCHANGED vars
-----------------------------------------------------------------------------
(* The process starts: the arguments, the configuration and the machine.    *)

StartsAs(c, p, list, n, all, readable, pac, from, f, g, total) ==
  /\ command = c /\ pc = p
  /\ targets = list /\ retries = n /\ needAll = all
  /\ configured = readable /\ servePac = pac
  /\ source = from /\ follow = f /\ filtered = g /\ left = total

TestTunnelStarts ==
  \E cli, config \in HostLists, argument, n \in 0..MaxRetries, all \in BOOLEAN :
    StartsAs("test-tunnel", "listen", ResolveTargets(cli, config),
             Effective(argument, n), all, TRUE, TRUE, "auto", FALSE, FALSE, 0)

DoctorStarts ==
  \E readable, pac \in BOOLEAN :
    StartsAs("doctor", "config", <<>>, 0, TRUE, readable, pac, "auto", FALSE,
             FALSE, 0)

LogsStarts ==
  \E from \in {"auto", "systemd", "detached", "launchd"},
     f, g \in BOOLEAN, total \in 0..MaxLines :
    StartsAs("logs", "select", <<>>, 0, TRUE, TRUE, TRUE, from, f, g, total)

(* What the command does not look at has a value of its own.                *)
Init ==
  /\ exit = -1 /\ waited = 0
  /\ TestTunnelStarts \/ DoctorStarts \/ LogsStarts
  /\ listening \in SUBSET Listener
  /\ file \in Cookie \cup {Absent, Empty} /\ accepted \in SUBSET Cookie
  /\ gateway \in {"up", "down", "erring"}
  /\ command = "test-tunnel" => {"ocproxy", "pac"} \subseteq listening
  /\ command = "logs" => listening = Listener
  /\ command # "doctor" => file = Absent /\ accepted = {} /\ gateway = "down"
  /\ attempt = 0 /\ results = <<>> /\ link = "none" /\ reached = {} /\ elapsed = 0
  /\ held = Absent /\ ok = {} /\ failing = {}
  /\ was = {i \in Fact : Holds(i)}
  /\ known \in BOOLEAN /\ tools \in SUBSET {"journalctl", "tail"}
  /\ logFiles \in SUBSET {"detached", "launchd"}
  /\ command # "logs" => known /\ tools = {} /\ logFiles = {}
  /\ child = "none" /\ pipe = <<>> /\ output = "open" /\ due = 0 /\ shown = 0

ProcessStep == TestTunnel \/ Doctor \/ Logs
Environment == Proxy \/ MachineChanges \/ LogFileChanges \/ ChildFinishes
                 \/ OutputCloses
                 \/ \E s \in {"failed", "signalled"} : ChildEnds(s)

Next == ProcessStep \/ ReadFails \/ Environment \/ Tick \/ Over

Spec == Init /\ [][Next]_vars

(* The process is scheduled, its timers fire, and a log program that is not
   to follow prints its lines and ends when its pipe is read.  Nothing is
   promised of the routing proxy, the gateway or the listeners.             *)
FairSpec == Spec /\ WF_vars(ProcessStep) /\ WF_vars(Tick)
                 /\ WF_vars(~follow /\ ChildFinishes)
-----------------------------------------------------------------------------
(* Properties.                                                              *)

(* Every variable stays in its range.                                       *)
TypeOK ==
  /\ command \in {"test-tunnel", "doctor", "logs"} /\ exit \in -1..2
  /\ pc \in {"listen", "config", "file", "read", "validate", "select", "open",
             "spawn", "stream", "giveUp", "wait", "ended"} \cup Listener \cup ProbePcs
  /\ waited \in Nat /\ elapsed \in Nat /\ listening \subseteq Listener
  /\ file \in Cookie \cup {Absent, Empty} /\ held \in Cookie \cup {Absent}
  /\ accepted \subseteq Cookie /\ gateway \in {"up", "down", "erring"}
  /\ targets \in Seq(Host) /\ retries \in 0..MaxRetries /\ needAll \in BOOLEAN
  /\ attempt \in 0..retries /\ results \in Seq(BOOLEAN) /\ reached \subseteq Host
  /\ link \in Links
  /\ configured \in BOOLEAN /\ servePac \in BOOLEAN
  /\ ok \subseteq Item /\ failing \subseteq Item /\ was \subseteq Fact
  /\ source \in {"auto", "systemd", "detached", "launchd", "none"}
  /\ follow \in BOOLEAN /\ filtered \in BOOLEAN /\ known \in BOOLEAN
  /\ tools \subseteq {"journalctl", "tail"} /\ logFiles \subseteq {"detached", "launchd"}
  /\ child \in {"none", "running", "succeeded", "failed", "signalled", "reaped"}
  /\ pipe \in Seq(BOOLEAN) /\ output \in {"open", "closed"}
  /\ left \in Nat /\ due \in Nat /\ shown \in Nat

(* test-tunnel's success is true: every host it counts as passed was really
   connected behind the routing proxy during the test, through retries, lost
   connections and late answers.                                            *)
TestTellsTruth ==
  /\ \A i \in DOMAIN results : results[i] => targets[i] \in reached
  /\ command = "test-tunnel" /\ exit = 0 =>
       /\ targets # <<>>
       /\ IF needAll THEN \A i \in DOMAIN targets : targets[i] \in reached
                     ELSE \E i \in DOMAIN targets : targets[i] \in reached

(* However silent the routing proxy is, and wherever in the exchange it falls
   silent, test-tunnel takes no longer than its timeouts and retries add up
   to: seven waits for each attempt, and no attempt too many.               *)
TestBound ==
  ListenTimeout + Len(targets) * (retries + 1) * 7 * ProbeTimeout
TestBounded == elapsed <= TestBound

(* What doctor calls ok was so at some moment since it started, although it
   looks at one thing after the other and the machine changes meanwhile; it
   passes only if the configuration and the routing proxy were.  One line
   may be false: validate_cookie takes the answer of a gateway that errs for
   consent, so if the gateway erred meanwhile any cookie may be called ok.  *)
DoctorTellsTruth ==
  /\ \A i \in ok : i \in was \/ (i = "cookie" /\ "erring" \in was)
  /\ command = "doctor" /\ exit = 0 => {"config", "routing"} \subseteq was

(* logs leaves no journalctl or tail behind, whichever side fails first.    *)
NoProgramLeft == ~Running => child \in {"none", "reaped"}

(* logs reports success only if the program succeeded and, with a filter,
   every matching line was shown, also those the program left in the pipe.  *)
LogsComplete == command = "logs" /\ exit = 0 => left = 0 /\ shown = due

(* Every command ends, though the routing proxy, the gateway or the log
   program's pipe is stuck, except logs that are to be followed.  The keyring
   and whoever reads the output are taken to answer.                        *)
CommandEnds == <>(~Running \/ (command = "logs" /\ follow))
=============================================================================
