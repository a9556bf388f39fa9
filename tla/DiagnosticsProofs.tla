------------------------- MODULE DiagnosticsProofs -------------------------
(***************************************************************************)
(* What test-tunnel, doctor and logs report is true and what they start     *)
(* ends with them: for all lists of hosts, retries, timeouts, cookies and   *)
(* lengths of output.                                                       *)
(***************************************************************************)
EXTENDS Diagnostics, TLAPS

TestPcs == ProbePcs \cup {"listen"}
DoctorPcs == {"config", "file", "read", "validate"} \cup Listener
LogsPcs == {"select", "open", "spawn", "stream", "giveUp", "wait"}

(* Each command keeps to its own awaits and has no exit code before the end. *)
Place ==
  /\ pc \in TestPcs => command = "test-tunnel"
  /\ pc \in DoctorPcs => command = "doctor"
  /\ pc \in LogsPcs => command = "logs"
  /\ Running => exit = -1

(* What the probe under way knows of its target.                            *)
TestInv ==
  /\ pc = "listen" => results = <<>>
  /\ Len(results) <= Len(targets)
  /\ pc \in ProbePcs => Len(results) < Len(targets)
  /\ link # "none" => pc \in ProbePcs \ {"connect"}
  /\ link = "connected" => Target \in reached
  /\ TestTellsTruth

(* What doctor may call ok: what was so, and any cookie once the gateway has
   erred.                                                                   *)
Backed == {i \in Fact : i \in was \/ (i = "cookie" /\ "erring" \in was)}

(* What doctor has seen, and the cookie it is about to ask the gateway for.  *)
DoctorInv ==
  /\ \A i \in Fact : Holds(i) => i \in was
  /\ ok \subseteq Backed
  /\ pc = "validate" => held \in Cookie /\ (held \in accepted => "cookie" \in was)
  /\ pc \in DoctorPcs \ {"config"} => "config" \in ok \cup failing
  /\ pc \in {"ocproxy", "pac"} => "routing" \in ok \cup failing
  /\ command = "doctor" /\ exit = 0 => {"config", "routing"} \subseteq was

(* Where the log program can be.                                            *)
LogsInv ==
  /\ command # "logs" => child = "none"
  /\ pc \in {"select", "open", "spawn"} => child = "none"
  /\ pc \in {"stream", "giveUp", "wait"} => child \notin {"none", "reaped"}
  /\ NoProgramLeft

Inv == TypeOK /\ Place /\ TestInv /\ DoctorInv /\ LogsInv
-----------------------------------------------------------------------------
(* The process starts.                                                      *)

LEMMA InitInv == Init => Inv
<1> SUFFICES ASSUME Init PROVE Inv
  OBVIOUS
<1>1. /\ command = "test-tunnel" /\ pc = "listen" /\ targets \in Seq(Host)
         /\ retries \in 0..MaxRetries /\ needAll \in BOOLEAN /\ configured \in BOOLEAN
         /\ servePac \in BOOLEAN /\ source = "auto" /\ follow \in BOOLEAN
         /\ filtered \in BOOLEAN /\ left \in Nat
      \/ /\ command = "doctor" /\ pc = "config" /\ targets \in Seq(Host)
         /\ retries \in 0..MaxRetries /\ needAll \in BOOLEAN /\ configured \in BOOLEAN
         /\ servePac \in BOOLEAN /\ source = "auto" /\ follow \in BOOLEAN
         /\ filtered \in BOOLEAN /\ left \in Nat
      \/ /\ command = "logs" /\ pc = "select" /\ targets \in Seq(Host)
         /\ retries \in 0..MaxRetries /\ needAll \in BOOLEAN /\ configured \in BOOLEAN
         /\ servePac \in BOOLEAN
         /\ source \in {"auto", "systemd", "detached", "launchd"}
         /\ follow \in BOOLEAN /\ filtered \in BOOLEAN /\ left \in Nat
  <2>1. CASE TestTunnelStarts
    <3>1. PICK cli \in HostLists, config \in HostLists, argument \in 0..MaxRetries,
               n \in 0..MaxRetries, all \in BOOLEAN :
            StartsAs("test-tunnel", "listen", ResolveTargets(cli, config),
                     Effective(argument, n), all, TRUE, TRUE, "auto", FALSE,
                     FALSE, 0)
      BY <2>1 DEF TestTunnelStarts
    <3>2. ResolveTargets(cli, config) \in Seq(Host)
      BY ParsedAssumption DEF ResolveTargets
    <3>3. Effective(argument, n) \in 0..MaxRetries
      BY DEF Effective
    <3> QED BY <3>1, <3>2, <3>3 DEF StartsAs
  <2>2. CASE DoctorStarts
    <3>1. PICK readable \in BOOLEAN, pac \in BOOLEAN :
            StartsAs("doctor", "config", <<>>, 0, TRUE, readable, pac, "auto",
                     FALSE, FALSE, 0)
      BY <2>2 DEF DoctorStarts
    <3>2. <<>> \in Seq(Host) /\ 0 \in 0..MaxRetries
      BY NumberAssumption
    <3> QED BY <3>1, <3>2 DEF StartsAs
  <2>3. CASE LogsStarts
    <3>1. PICK from \in {"auto", "systemd", "detached", "launchd"}, f \in BOOLEAN,
               g \in BOOLEAN, total \in 0..MaxLines :
            StartsAs("logs", "select", <<>>, 0, TRUE, TRUE, TRUE, from, f, g, total)
      BY <2>3 DEF LogsStarts
    <3>2. <<>> \in Seq(Host) /\ 0 \in 0..MaxRetries
      BY NumberAssumption
    <3> QED BY <3>1, <3>2 DEF StartsAs
  <2> QED BY <2>1, <2>2, <2>3 DEF Init
<1>2. known \in BOOLEAN
  BY Zenon DEF Init
<1>3. TypeOK
  BY <1>1, <1>2 DEF Init, TypeOK, Item, Fact, Listener, Links
<1>4. Place /\ LogsInv
  BY <1>1 DEF Init, Place, LogsInv, NoProgramLeft, Running, TestPcs, ProbePcs,
     DoctorPcs, LogsPcs, Listener
<1>5. TestInv
  BY <1>1 DEF Init, TestInv, TestTellsTruth, ProbePcs
<1>6. DoctorInv
  BY <1>1 DEF Init, DoctorInv, DoctorPcs, Listener
<1> QED BY <1>3, <1>4, <1>5, <1>6 DEF Inv
-----------------------------------------------------------------------------
(* test-tunnel.                                                             *)

(* What an action of test-tunnel leaves alone.                              *)
TestFrame == UNCHANGED <<world, request, elapsed, doctor, logs, command>>

(* A recorded result is in order: it is true only of a host that was reached,
   and the exit code that the last one brings is the verdict on all.        *)
LEMMA RecordKeepsInv ==
  ASSUME Inv, pc \in ProbePcs, NEW passed \in BOOLEAN, passed => Target \in reached,
         Record(passed), TestFrame, UNCHANGED reached
  PROVE  Inv'
<1> USE DEF TestFrame, world, session, request, doctor, logs, logArgs, machine, stream
<1>1. /\ command = "test-tunnel" /\ exit = -1
      /\ results \in Seq(BOOLEAN) /\ targets \in Seq(Host)
      /\ Len(results) < Len(targets)
  BY DEF Inv, Place, TypeOK, TestPcs, TestInv, ProbePcs, Running
<1>2. /\ results' \in Seq(BOOLEAN) /\ Len(results') = Len(results) + 1
      /\ \A i \in DOMAIN results' : results'[i] => targets[i] \in reached
  BY <1>1 DEF Inv, TestInv, TestTellsTruth, Record, Target
<1>3. \/ pc' = "ended" /\ exit' = Verdict(results') /\ Len(results') = Len(targets)
      \/ pc' = "connect" /\ exit' = -1 /\ Len(results') < Len(targets)
  BY <1>1, <1>2 DEF Record, Exits, Goes
<1>4. Verdict(results') \in {0, 1}
  BY DEF Verdict
<1>5. waited' = 0 /\ attempt' = 0 /\ link' = "none"
  BY DEF Record, Exits, Goes
<1>6. TypeOK'
  BY <1>2, <1>3, <1>4, <1>5 DEF Inv, TypeOK, ProbePcs, Links
<1>7. Place' /\ LogsInv'
  BY <1>1, <1>3 DEF Inv, LogsInv, NoProgramLeft, Place, Running, TestPcs, ProbePcs,
     DoctorPcs, LogsPcs, Listener
<1>8. DoctorInv'
  BY <1>1, <1>3 DEF Inv, DoctorInv, Backed, Holds, DoctorPcs, Listener
<1>9. TestInv'
  <2>1. exit' = 0 => targets # <<>>
    BY <1>1, <1>2, <1>3
  <2>2. exit' = 0 => IF needAll THEN \A i \in DOMAIN targets : targets[i] \in reached
                                ELSE \E i \in DOMAIN targets : targets[i] \in reached
    <3>1. exit' = 0 => Verdict(results') = 0 /\ DOMAIN results' = DOMAIN targets
      BY <1>1, <1>2, <1>3
    <3> QED BY <3>1, <1>2 DEF Verdict
  <2>3. TestTellsTruth'
    BY <2>1, <2>2, <1>2 DEF TestTellsTruth
  <2> QED BY <2>3, <1>1, <1>2, <1>3, <1>5 DEF TestInv, ProbePcs
<1> QED BY <1>6, <1>7, <1>8, <1>9 DEF Inv

(* A step that records nothing and does not end the probe.                  *)
LEMMA ProbeStepKeepsInv ==
  ASSUME Inv, pc \in TestPcs, TestFrame, UNCHANGED <<results, reached>>,
         pc' \in ProbePcs, Len(results) < Len(targets), waited' = 0,
         exit' = exit, attempt' \in 0..retries,
         link' \in Links,
         link' # "none" => pc' # "connect",
         link' = "connected" => link = "connected"
  PROVE  Inv'
<1> USE DEF TestFrame, world, session, request, doctor, logs, logArgs, machine, stream
<1>1. command = "test-tunnel" /\ exit = -1
  BY DEF Inv, Place, TestPcs, ProbePcs, Running
<1>2. TypeOK'
  BY DEF Inv, TypeOK, ProbePcs
<1>3. Place' /\ LogsInv'
  BY <1>1 DEF Inv, LogsInv, NoProgramLeft, Place, Running, TestPcs, ProbePcs,
     DoctorPcs, LogsPcs, Listener
<1>4. DoctorInv'
  BY <1>1 DEF Inv, DoctorInv, Backed, Holds, DoctorPcs, ProbePcs, Listener
<1>5. TestTellsTruth'
  BY <1>1 DEF Inv, TestInv, TestTellsTruth
<1>6. TestInv'
  BY <1>5 DEF Inv, TestInv, ProbePcs, Target
<1> QED BY <1>2, <1>3, <1>4, <1>6 DEF Inv

(* test-tunnel gives up before it has probed anything.                      *)
LEMMA TestEndsKeepsInv ==
  ASSUME Inv, pc = "listen", NEW code \in {1, 2}, Exits(code),
         UNCHANGED <<world, test, doctor, logs>>
  PROVE  Inv'
<1> USE DEF Exits, test, probe, request, world, session, doctor, logs, logArgs,
        machine, stream
<1>1. command = "test-tunnel" /\ pc' = "ended" /\ exit' = code
  BY DEF Inv, Place, TestPcs
<1>2. TypeOK'
  BY <1>1 DEF Inv, TypeOK
<1>3. Place' /\ LogsInv'
  BY <1>1 DEF Inv, LogsInv, NoProgramLeft, Place, Running, TestPcs, ProbePcs,
     DoctorPcs, LogsPcs, Listener
<1>4. DoctorInv'
  BY <1>1 DEF Inv, DoctorInv, Backed, Holds, DoctorPcs, Listener
<1>5. TestInv'
  BY <1>1 DEF Inv, TestInv, TestTellsTruth, ProbePcs, Target
<1> QED BY <1>2, <1>3, <1>4, <1>5 DEF Inv

LEMMA AttemptFailsKeepsInv ==
  ASSUME Inv, pc \in ProbePcs, AttemptFails, Probes
  PROVE  Inv'
<1>1. TestFrame /\ UNCHANGED reached
  BY DEF Probes, TestFrame, AttemptFails, Record, Goes, Exits
<1>2. CASE attempt < retries
  <2>1. /\ pc' \in ProbePcs /\ waited' = 0 /\ exit' = exit /\ UNCHANGED results
        /\ attempt' \in 0..retries /\ link' = "none" /\ link' \in Links
    BY <1>2 DEF AttemptFails, Goes, ProbePcs, Links, Inv, TypeOK
  <2>2. pc \in TestPcs /\ Len(results) < Len(targets)
    BY DEF TestPcs, Inv, TestInv
  <2> QED BY <1>1, <2>1, <2>2, ProbeStepKeepsInv
<1>3. CASE ~(attempt < retries)
  <2>1. Record(FALSE)
    BY <1>3 DEF AttemptFails
  <2> QED BY <1>1, <2>1, RecordKeepsInv
<1> QED BY <1>2, <1>3

LEMMA TestTunnelKeepsInv == Inv /\ TestTunnel => Inv'
<1> SUFFICES ASSUME Inv, TestTunnel PROVE Inv'
  OBVIOUS
<1>0. ASSUME pc \in ProbePcs, pc' \in ProbePcs \ {"connect"}, waited' = 0,
             exit' = exit, TestFrame, UNCHANGED <<results, reached, attempt>>,
             link' \in Links, link' = "connected" => link = "connected"
      PROVE  Inv'
  <2>1. attempt' \in 0..retries /\ Len(results) < Len(targets) /\ pc \in TestPcs
    BY <1>0 DEF Inv, TypeOK, TestInv, TestPcs
  <2> QED BY <1>0, <2>1, ProbeStepKeepsInv
<1>1. CASE ProxyUp
  <2>1. CASE targets = <<>>
    BY <1>1, <2>1, TestEndsKeepsInv DEF ProxyUp
  <2>2. CASE targets # <<>>
    <3>1. /\ pc \in TestPcs /\ pc' \in ProbePcs /\ waited' = 0 /\ exit' = exit
          /\ TestFrame /\ UNCHANGED <<results, reached, attempt, link>>
      BY <1>1, <2>2 DEF ProxyUp, Goes, TestPcs, ProbePcs, TestFrame, test, probe
    <3>2. attempt' \in 0..retries /\ link' = "none" /\ link' \in Links
      BY <3>1, <1>1 DEF ProxyUp, Inv, TypeOK, TestInv, ProbePcs, Links
    <3>3. Len(results) < Len(targets)
      BY <1>1, <2>2 DEF ProxyUp, Inv, TypeOK, TestInv
    <3> QED BY <3>1, <3>2, <3>3, ProbeStepKeepsInv
  <2> QED BY <2>1, <2>2
<1>2. CASE ProxyDown
  BY <1>2, TestEndsKeepsInv DEF ProxyDown
<1>3. CASE Connect \/ Hello \/ Ask
  <2>1. /\ pc \in ProbePcs /\ pc' \in ProbePcs \ {"connect"} /\ waited' = 0
        /\ exit' = exit /\ TestFrame /\ UNCHANGED <<results, reached, attempt>>
    BY <1>3 DEF Connect, Hello, Ask, Probes, Goes, ProbePcs, TestFrame
  <2>2. link' \in Links /\ (link' = "connected" => link = "connected")
    BY <1>3 DEF Connect, Hello, Ask, Inv, TypeOK, Links
  <2> QED BY <1>0, <2>1, <2>2
<1>4. CASE Greeted
  <2>1. CASE AttemptFails
    BY <1>4, <2>1, AttemptFailsKeepsInv DEF Greeted, ProbePcs
  <2>2. CASE ~AttemptFails
    <3>1. /\ pc \in ProbePcs /\ pc' \in ProbePcs \ {"connect"} /\ waited' = 0
          /\ exit' = exit /\ TestFrame /\ UNCHANGED <<results, reached, attempt, link>>
      BY <1>4, <2>2 DEF Greeted, Probes, Goes, ProbePcs, TestFrame
    <3> QED BY <1>0, <3>1 DEF Inv, TypeOK
  <2> QED BY <2>1, <2>2
<1>5. CASE HeaderRead \/ LengthRead
  <2>1. CASE HeaderRead /\ AttemptFails
    BY <2>1, AttemptFailsKeepsInv DEF HeaderRead, ProbePcs
  <2>2. CASE ~AttemptFails \/ LengthRead
    <3>1. /\ pc \in ProbePcs /\ pc' \in ProbePcs \ {"connect"} /\ waited' = 0
          /\ exit' = exit /\ TestFrame /\ UNCHANGED <<results, reached, attempt, link>>
      BY <1>5, <2>2 DEF HeaderRead, LengthRead, Probes, Goes, ProbePcs, TestFrame
    <3> QED BY <1>0, <3>1 DEF Inv, TypeOK
  <2> QED BY <1>5, <2>1, <2>2
<1>6. CASE TailRead
  <2>1. CASE link = "connected"
    <3>1. /\ Record(TRUE) /\ pc \in ProbePcs /\ TestFrame /\ UNCHANGED reached
      BY <1>6, <2>1 DEF TailRead, Probes, ProbePcs, TestFrame, Record, Goes, Exits
    <3>2. Target \in reached
      BY <2>1 DEF Inv, TestInv
    <3> QED BY <3>1, <3>2, RecordKeepsInv
  <2>2. CASE link # "connected"
    BY <1>6, <2>2, AttemptFailsKeepsInv DEF TailRead, ProbePcs
  <2> QED BY <2>1, <2>2
<1>7. CASE StepFails
  BY <1>7, AttemptFailsKeepsInv DEF StepFails, ProbePcs
<1> QED BY <1>1, <1>2, <1>3, <1>4, <1>5, <1>6, <1>7 DEF TestTunnel
-----------------------------------------------------------------------------
(* doctor.                                                                  *)

(* A check adds a line that is true and turns to the next or concludes.     *)
LEMMA CheckKeepsInv ==
  ASSUME Inv, pc \in DoctorPcs, Checks, command' = command, waited' = 0,
         ok' \subseteq Backed, ok' \subseteq Item, ok \subseteq ok',
         failing' \subseteq Item, failing \subseteq failing',
         held' \in Cookie \cup {Absent},
         pc' = "validate" =>
           held' \in Cookie /\ (held' \in accepted => "cookie" \in was),
         (pc' \in DoctorPcs \ {"config"} /\ exit' = exit) \/ Concludes,
         "config" \in ok' \cup failing',
         pc' \in {"ocproxy", "pac", "ended"} => "routing" \in ok' \cup failing'
  PROVE  Inv'
<1> USE DEF Checks, world, session, test, request, probe, logs, logArgs, machine, stream
<1>1. command = "doctor" /\ exit = -1
  BY DEF Inv, Place, DoctorPcs, Listener, Running
<1>2. exit' \in -1..2 /\ (pc' \in DoctorPcs \ {"config"} \/ pc' = "ended")
  BY <1>1 DEF Concludes, Exits
<1>3. TypeOK'
  BY <1>2 DEF Inv, TypeOK, DoctorPcs, Listener
<1>4. Place' /\ LogsInv'
  <2>1. pc' \in DoctorPcs => exit' = -1
    BY <1>1 DEF Concludes, Exits, DoctorPcs, Listener
  <2> QED
    BY <1>1, <1>2, <2>1 DEF Inv, LogsInv, NoProgramLeft, Place, Running, TestPcs,
       ProbePcs, DoctorPcs, LogsPcs, Listener
<1>5. TestInv'
  <2>1. link = "none" /\ link' = "none"
    BY <1>1 DEF Inv, TestInv, Place, TestPcs, ProbePcs, DoctorPcs, Listener
  <2> QED BY <1>1, <1>2, <2>1 DEF Inv, TestInv, TestTellsTruth, ProbePcs,
             DoctorPcs, Listener
<1>6. DoctorInv'
  <2>1. \A i \in Fact : Holds(i)' => i \in was'
    BY DEF Inv, DoctorInv, Backed, Holds
  <2>2. exit' = 0 => {"config", "routing"} \subseteq was'
    <3>1. exit' = 0 => pc' = "ended" /\ failing' = {}
      BY <1>1 DEF Concludes, Exits
    <3> QED BY <3>1 DEF Backed
  <2> QED BY <2>1, <2>2 DEF DoctorInv, Backed
<1> QED BY <1>3, <1>4, <1>5, <1>6 DEF Inv

(* A line adds its item to those that are ok or to those that fail, or warns. *)
LEMMA FindsAdds ==
  ASSUME Inv, NEW i \in Item, NEW status, Finds(i, status),
         status = "Ok" => i \in Backed
  PROVE  /\ ok' \subseteq Backed /\ ok' \subseteq Item /\ ok \subseteq ok'
         /\ failing' \subseteq Item /\ failing \subseteq failing'
         /\ status \in {"Ok", "Fail"} => i \in ok' \cup failing'
<1>1. ok \subseteq Backed /\ ok \subseteq Item /\ failing \subseteq Item
  BY DEF Inv, TypeOK, DoctorInv
<1> QED BY <1>1 DEF Finds

(* Whatever is so now is in the history.                                    *)
LEMMA WasIsComplete ==
  ASSUME Inv
  PROVE  /\ configured => "config" \in was
         /\ file \in accepted => "cookie" \in was
         /\ gateway = "erring" => "erring" \in was
         /\ \A l \in Listener : l \in listening => l \in was
<1>1. \A i \in Fact : Holds(i) => i \in was
  BY DEF Inv, DoctorInv
<1>2. /\ {"config", "cookie", "erring"} \subseteq Fact /\ Listener \subseteq Fact
      /\ {"config", "cookie", "erring"} \cap Listener = {}
  BY DEF Fact, Item, Listener
<1>3. Holds("config") <=> configured
  <2>1. configured \in BOOLEAN
    BY DEF Inv, TypeOK
  <2> QED BY <1>2, <2>1 DEF Holds
<1>4. /\ Holds("cookie") <=> file \in accepted
      /\ Holds("erring") <=> gateway = "erring"
  BY <1>2 DEF Holds
<1>5. \A l \in Listener : Holds(l) <=> l \in listening
  BY <1>2 DEF Holds
<1> QED BY <1>1, <1>2, <1>3, <1>4, <1>5

LEMMA DoctorKeepsInv == Inv /\ Doctor => Inv'
<1> SUFFICES ASSUME Inv, Doctor PROVE Inv'
  OBVIOUS
<1>1. ok \subseteq Backed /\ ok \subseteq Item /\ failing \subseteq Item /\ held \in Cookie \cup {Absent}
  BY DEF Inv, TypeOK, DoctorInv
<1>2. CASE CheckConfig
  <2>1. /\ pc \in DoctorPcs /\ pc' = "file" /\ Checks /\ command' = command
        /\ waited' = 0 /\ exit' = exit /\ held' = held
    BY <1>2 DEF CheckConfig, Goes, DoctorPcs
  <2>2. PICK status \in {"Ok", "Fail"} :
          Finds("config", status) /\ (status = "Ok" => configured)
    BY <1>2 DEF CheckConfig
  <2>3. "config" \in Item /\ (configured => "config" \in Backed)
    BY WasIsComplete DEF Item, Fact, Backed
  <2>4. /\ ok' \subseteq Backed /\ ok' \subseteq Item /\ ok \subseteq ok'
        /\ failing' \subseteq Item /\ failing \subseteq failing'
        /\ "config" \in ok' \cup failing'
    BY <2>2, <2>3, FindsAdds
  <2> QED BY <1>1, <2>1, <2>4, CheckKeepsInv DEF DoctorPcs
<1>3. CASE CookieFile
  <2>1. /\ pc = "file" /\ pc' \in {"routing", "read"} /\ Checks /\ command' = command
        /\ waited' = 0 /\ exit' = exit /\ UNCHANGED <<held, ok, failing>>
    BY <1>3 DEF CookieFile, Goes
  <2>2. "config" \in ok' \cup failing'
    BY <2>1 DEF Inv, DoctorInv, DoctorPcs
  <2> QED BY <1>1, <2>1, <2>2, CheckKeepsInv DEF DoctorPcs, Listener
<1>4. CASE CookieRead
  <2>1. /\ pc = "read" /\ Checks /\ command' = command /\ waited' = 0 /\ exit' = exit
    BY <1>4 DEF CookieRead, Goes
  <2>2. "config" \in ok \cup failing
    BY <2>1 DEF Inv, DoctorInv, DoctorPcs
  <2>3. CASE file \in {Absent, Empty}
    <3>1. pc' = "routing" /\ Finds("cookie", "Fail") /\ held' = held
      BY <1>4, <2>3 DEF CookieRead, Goes
    <3>2. /\ ok' \subseteq Backed /\ ok' \subseteq Item /\ ok \subseteq ok'
          /\ failing' \subseteq Item /\ failing \subseteq failing'
      BY <3>1, FindsAdds DEF Item
    <3> QED BY <1>1, <2>1, <2>2, <3>1, <3>2, CheckKeepsInv DEF DoctorPcs, Listener
  <2>4. CASE file \notin {Absent, Empty}
    <3>1. pc' = "validate" /\ held' = file /\ UNCHANGED <<ok, failing>>
      BY <1>4, <2>4 DEF CookieRead, Goes
    <3>2. held' \in Cookie
      BY <3>1, <2>4 DEF Inv, TypeOK
    <3>3. held' \in accepted => "cookie" \in was
      BY <3>1, WasIsComplete
    <3> QED BY <1>1, <2>1, <2>2, <3>1, <3>2, <3>3, CheckKeepsInv DEF DoctorPcs
  <2> QED BY <2>3, <2>4
<1>5. CASE CookieAnswer
  <2>1. /\ pc = "validate" /\ pc' = "routing" /\ Checks /\ command' = command
        /\ waited' = 0 /\ exit' = exit /\ held' = Absent
    BY <1>5 DEF CookieAnswer, Goes
  <2>2. "config" \in ok \cup failing
    BY <2>1 DEF Inv, DoctorInv, DoctorPcs
  <2>3. held \in accepted \/ gateway = "erring" => "cookie" \in Backed
    BY <2>1, WasIsComplete DEF Inv, DoctorInv, Backed, Fact, Item
  <2>4. gateway \in {"up", "down", "erring"}
    BY DEF Inv, TypeOK
  <2>5. PICK status \in {"Ok", "Warn", "Fail"} :
          /\ Finds("cookie", status)
          /\ status = "Ok" => held \in accepted \/ gateway = "erring"
    BY <1>5, <2>4 DEF CookieAnswer
  <2>6. /\ ok' \subseteq Backed /\ ok' \subseteq Item /\ ok \subseteq ok'
        /\ failing' \subseteq Item /\ failing \subseteq failing'
    BY <2>3, <2>5, FindsAdds DEF Item
  <2> QED BY <1>1, <2>1, <2>2, <2>6, CheckKeepsInv DEF DoctorPcs, Listener
<1>6. CASE \E l \in Listener : ListenerUp(l) \/ ListenerDown(l)
  <2>1. PICK l \in Listener : ListenerUp(l) \/ ListenerDown(l)
    BY <1>6
  <2>2. PICK status \in {"Ok", "Warn", "Fail"} :
          /\ CheckListener(l, status)
          /\ status = "Ok" => l \in listening
          /\ l = "routing" => status # "Warn"
    BY <2>1 DEF ListenerUp, ListenerDown
  <2>3. l \in Item /\ (l \in listening => l \in Backed)
    BY WasIsComplete DEF Item, Fact, Backed
  <2>4. /\ pc = l /\ Finds(l, status) /\ Checks /\ held' = held
        /\ \/ l = "routing" /\ Goes("ocproxy")
           \/ l = "ocproxy" /\ Goes("pac")
           \/ l # "routing" /\ Concludes
    BY <2>2 DEF CheckListener, Listener
  <2>5. "config" \in ok \cup failing /\ (l # "routing" => "routing" \in ok \cup failing)
    BY <2>4 DEF Inv, DoctorInv, DoctorPcs, Listener
  <2>6. /\ ok' \subseteq Backed /\ ok' \subseteq Item /\ ok \subseteq ok'
        /\ failing' \subseteq Item /\ failing \subseteq failing'
        /\ l = "routing" => "routing" \in ok' \cup failing'
    BY <2>2, <2>3, <2>4, FindsAdds
  <2>7. /\ command' = command /\ waited' = 0
        /\ (pc' \in DoctorPcs \ {"config", "validate"} /\ exit' = exit) \/ Concludes
        /\ pc' # "validate"
    BY <2>4 DEF Goes, Concludes, Exits, DoctorPcs, Listener
  <2> QED BY <1>1, <2>4, <2>5, <2>6, <2>7, CheckKeepsInv DEF DoctorPcs
<1> QED BY <1>2, <1>3, <1>4, <1>5, <1>6 DEF Doctor
-----------------------------------------------------------------------------
(* logs.                                                                    *)

(* A step of logs moves on with the program where it should be, or exits
   with no program left.                                                    *)
LEMMA LogStepKeepsInv ==
  ASSUME Inv, pc \in LogsPcs, Looks, command' = command, waited' = 0,
         source' \in {"auto", "systemd", "detached", "launchd", "none"},
         pipe' \in Seq(BOOLEAN), UNCHANGED <<output, left, due>>, shown' \in Nat,
         \/ pc' \in {"open", "spawn"} /\ exit' = exit /\ child' = "none"
         \/ /\ pc' \in {"stream", "giveUp", "wait"} /\ exit' = exit
            /\ child' \in {"running", "succeeded", "failed", "signalled"}
         \/ pc' = "ended" /\ exit' \in {0, 1} /\ child' \in {"none", "reaped"}
  PROVE  Inv'
<1> USE DEF Looks, world, session, test, request, probe, doctor, machine
<1>1. command = "logs" /\ exit = -1
  BY DEF Inv, Place, LogsPcs, Running
<1>2. TypeOK'
  BY <1>1 DEF Inv, TypeOK
<1>3. Place' /\ LogsInv'
  BY <1>1 DEF LogsInv, NoProgramLeft, Place, Running, TestPcs, ProbePcs,
     DoctorPcs, LogsPcs, Listener
<1>4. TestInv'
  <2>1. link = "none"
    BY DEF Inv, TestInv, LogsPcs, ProbePcs
  <2> QED BY <1>1, <2>1 DEF Inv, TestInv, TestTellsTruth, ProbePcs, Target
<1>5. DoctorInv'
  BY <1>1 DEF Inv, DoctorInv, Backed, Holds, DoctorPcs, Listener
<1> QED BY <1>2, <1>3, <1>4, <1>5 DEF Inv

LEMMA LogsKeepsInv == Inv /\ (Logs \/ ReadFails) => Inv'
<1> SUFFICES ASSUME Inv, Logs \/ ReadFails PROVE Inv'
  OBVIOUS
<1> USE DEF Goes, Exits, stream, LogsPcs
<1>1. /\ source \in {"auto", "systemd", "detached", "launchd", "none"}
      /\ pipe \in Seq(BOOLEAN) /\ shown \in Nat
      /\ child \in {"none", "running", "succeeded", "failed", "signalled", "reaped"}
      /\ pc \in {"select", "open", "spawn"} => child = "none"
      /\ pc \in {"stream", "giveUp", "wait"} => child \notin {"none", "reaped"}
  BY DEF Inv, TypeOK, LogsInv
<1>2. CASE SelectSource
  <2>1. SelectAuto \in {"systemd", "detached", "launchd", "none"}
    BY DEF SelectAuto
  <2> QED BY <1>1, <1>2, <2>1, LogStepKeepsInv DEF SelectSource
<1>3. CASE OpenLog
  BY <1>1, <1>3, LogStepKeepsInv DEF OpenLog
<1>4. CASE Spawn
  BY <1>1, <1>4, LogStepKeepsInv DEF Spawn
<1>5. CASE SpawnFails
  BY <1>1, <1>5, LogStepKeepsInv DEF SpawnFails
<1>6. CASE FilterLine
  <2>1. pipe' \in Seq(BOOLEAN)
    <3>1. pipe # <<>> /\ pipe' = Tail(pipe)
      BY <1>6, Zenon DEF FilterLine
    <3> QED BY <1>1, <3>1
  <2>2. shown' \in {shown, shown + 1}
    BY <1>6, Zenon DEF FilterLine
  <2>3. shown' \in Nat
    BY <1>1, <2>2
  <2> QED BY <1>1, <1>6, <2>1, <2>3, LogStepKeepsInv DEF FilterLine
<1>7. CASE ReadFails
  BY <1>1, <1>7, LogStepKeepsInv DEF ReadFails
<1>8. CASE EndOfOutput
  BY <1>1, <1>8, LogStepKeepsInv DEF EndOfOutput
<1>9. CASE GiveUp
  BY <1>1, <1>9, LogStepKeepsInv DEF GiveUp
<1>10. CASE Reap
  BY <1>1, <1>10, LogStepKeepsInv DEF Reap, ExitCode
<1> QED BY <1>2, <1>3, <1>4, <1>5, <1>6, <1>7, <1>8, <1>9, <1>10 DEF Logs
-----------------------------------------------------------------------------
(* The rest of the world.                                                   *)

LEMMA PlaceFrame ==
  ASSUME Inv, UNCHANGED <<command, pc, exit>> PROVE Place'
BY DEF Inv, Place, Running

LEMMA TestInvFrame ==
  ASSUME Inv, UNCHANGED <<command, pc, exit, targets, needAll, results, link, reached>>
  PROVE  TestInv'
<1>1. TestTellsTruth'
  BY DEF Inv, TestInv, TestTellsTruth
<1> QED BY <1>1 DEF Inv, TestInv, Target

LEMMA DoctorInvFrame ==
  ASSUME Inv, UNCHANGED <<command, pc, exit, world, configured, held, ok, failing, was>>
  PROVE  DoctorInv'
<1>1. \A i \in Fact : Holds(i)' <=> Holds(i)
  BY DEF world, session, Holds
<1> QED BY <1>1 DEF Inv, DoctorInv, Backed, world, session

LEMMA LogsInvFrame ==
  ASSUME Inv, UNCHANGED <<command, pc, child>> PROVE LogsInv'
BY DEF Inv, LogsInv, NoProgramLeft, Running

LEMMA ProxyKeepsInv == Inv /\ Proxy => Inv'
<1> SUFFICES ASSUME Inv, Proxy PROVE Inv'
  OBVIOUS
<1> USE DEF Proxy, process, world, session, request, doctor, logs, logArgs, machine,
        stream
<1>1. /\ pc \in ProbePcs /\ link # "none"
      /\ Len(results) < Len(targets)
  BY DEF Inv, TestInv, ProbePcs
<1>2. Target \in Host
  BY <1>1 DEF Inv, TypeOK, Target
<1>3. /\ reached' = reached \/ reached' = reached \cup {Target}
      /\ link' \in {"greeted", "connected", "refused", "lost"}
      /\ link' = "connected" => Target \in reached'
  BY DEF Inv, TypeOK
<1>4. TypeOK'
  BY <1>2, <1>3 DEF Inv, TypeOK, Links
<1>5. Place' /\ LogsInv' /\ DoctorInv'
  BY DEF Inv, Place, Running, LogsInv, NoProgramLeft, DoctorInv, Backed, Holds
<1>6. TestTellsTruth'
  BY <1>1, <1>3 DEF Inv, TestInv, TestTellsTruth, Place, Running
<1>7. TestInv'
  BY <1>1, <1>3, <1>6 DEF Inv, TestInv, Target
<1> QED BY <1>4, <1>5, <1>7 DEF Inv

(* The machine changes under doctor: what it was stays in the history.      *)
LEMMA MachineChangesKeepsInv == Inv /\ MachineChanges => Inv'
<1> SUFFICES ASSUME Inv, MachineChanges PROVE Inv'
  OBVIOUS
<1> USE DEF MachineChanges, process, test, request, probe, logs, logArgs, machine, stream
<1>1. /\ Running /\ listening' \subseteq Listener
      /\ file' \in Cookie \cup {Absent, Empty} /\ accepted' \subseteq Cookie
      /\ gateway' \in {"up", "down", "erring"}
  BY DEF Inv, TypeOK, ListenerChanges, CookieRemoved, GatewayChanges, CookieSupplied,
     SessionExpires, session, Listener
<1>2. was' \subseteq Fact /\ was \subseteq was' /\ \A i \in Fact : Holds(i)' => i \in was'
  BY DEF Inv, TypeOK
<1>3. TypeOK'
  BY <1>1, <1>2 DEF Inv, TypeOK
<1>4. Place' /\ LogsInv' /\ TestInv'
  BY DEF Inv, Place, Running, LogsInv, NoProgramLeft, TestInv, TestTellsTruth, Target
<1>5. pc = "validate" => (held \in accepted' => "cookie" \in was')
  <2>1. CASE held \in accepted
    BY <2>1, <1>2 DEF Inv, DoctorInv
  <2>2. CASE held \notin accepted /\ held \in accepted' /\ held \in Cookie
    <3>1. file' = held
      <4>1. \A l : ListenerChanges(l) => accepted' = accepted
        BY DEF ListenerChanges, session
      <4> QED
        BY <2>2, <4>1 DEF CookieRemoved, GatewayChanges, CookieSupplied, SessionExpires
    <3>2. file' \in accepted' => Holds("cookie")'
      BY DEF Holds, Listener
    <3> QED BY <2>2, <3>1, <3>2, <1>2 DEF Fact, Item
  <2> QED BY <2>1, <2>2 DEF Inv, DoctorInv
<1>6. DoctorInv'
  BY <1>2, <1>5 DEF Inv, DoctorInv, Backed
<1> QED BY <1>3, <1>4, <1>6 DEF Inv

LEMMA ChildKeepsInv ==
  ASSUME Inv,
         (\E matching \in BOOLEAN : Prints(matching))
           \/ \E s \in {"succeeded", "failed", "signalled"} : ChildEnds(s)
  PROVE  Inv'
<1> USE DEF Prints, ChildEnds, process, world, session, test, request, probe, doctor,
        logArgs, machine
<1>1. /\ child = "running" /\ child' \in {"running", "succeeded", "failed", "signalled"}
      /\ UNCHANGED <<process, world, test, doctor, logArgs, machine, output, shown>>
  OBVIOUS
<1>2. pipe' \in Seq(BOOLEAN) /\ left' \in Nat /\ due' \in Nat
  <2>1. pipe \in Seq(BOOLEAN) /\ left \in Nat /\ due \in Nat
    BY DEF Inv, TypeOK
  <2>2. CASE \E matching \in BOOLEAN : Prints(matching)
    <3>1. PICK matching \in BOOLEAN : Prints(matching)
      BY <2>2
    <3>2. left' = left - 1 /\ left > 0
      BY <3>1
    <3>3. pipe' = pipe \/ pipe' = Append(pipe, matching)
      BY <3>1, Zenon
    <3>4. due' = due \/ due' = due + 1
      BY <3>1, Zenon
    <3> QED BY <2>1, <3>1, <3>2, <3>3, <3>4
  <2> QED BY <2>1, <2>2
<1>3. TypeOK'
  BY <1>1, <1>2 DEF Inv, TypeOK
<1>4. Place' /\ TestInv' /\ DoctorInv'
  BY <1>1, PlaceFrame, TestInvFrame, DoctorInvFrame
<1>5. LogsInv'
  BY <1>1 DEF Inv, LogsInv, NoProgramLeft, Running
<1> QED BY <1>3, <1>4, <1>5 DEF Inv

LEMMA EnvironmentKeepsInv == Inv /\ Environment => Inv'
<1> SUFFICES ASSUME Inv, Environment PROVE Inv'
  OBVIOUS
<1>1. CASE Proxy
  BY <1>1, ProxyKeepsInv
<1>2. CASE MachineChanges
  BY <1>2, MachineChangesKeepsInv
<1>3. CASE LogFileChanges
  <2>1. TypeOK'
    BY <1>3 DEF LogFileChanges, Inv, TypeOK, process, world, session, test, request,
       probe, doctor, logArgs, stream
  <2> QED
    BY <1>3, <2>1, PlaceFrame, TestInvFrame, DoctorInvFrame, LogsInvFrame
    DEF LogFileChanges, Inv, process, test, request, probe, doctor, stream
<1>4. CASE ChildFinishes \/ \E s \in {"failed", "signalled"} : ChildEnds(s)
  BY <1>4, ChildKeepsInv DEF ChildFinishes
<1>5. CASE OutputCloses
  <2>1. TypeOK'
    BY <1>5 DEF OutputCloses, Inv, TypeOK, process, world, session, test, request,
       probe, doctor, logArgs, machine
  <2> QED
    BY <1>5, <2>1, PlaceFrame, TestInvFrame, DoctorInvFrame, LogsInvFrame
    DEF OutputCloses, Inv, process, test, request, probe, doctor
<1> QED BY <1>1, <1>2, <1>3, <1>4, <1>5 DEF Environment

LEMMA TickKeepsInv == Inv /\ Tick => Inv'
<1> SUFFICES ASSUME Inv, Tick PROVE Inv'
  OBVIOUS
<1> USE DEF Tick, world, session, request, probe, doctor, logs, logArgs, machine, stream
<1>1. waited' \in Nat /\ elapsed' \in Nat
  BY DEF Inv, TypeOK
<1>2. TypeOK'
  BY <1>1 DEF Inv, TypeOK
<1>3. Place' /\ TestInv' /\ DoctorInv' /\ LogsInv'
  BY PlaceFrame, TestInvFrame, DoctorInvFrame, LogsInvFrame
<1> QED BY <1>2, <1>3 DEF Inv

LEMMA StutterKeepsInv == Inv /\ UNCHANGED vars => Inv'
<1> SUFFICES ASSUME Inv, UNCHANGED vars PROVE Inv'
  OBVIOUS
<1> USE DEF vars, process, test, request, probe, doctor, logs, logArgs, machine, stream
<1>1. TypeOK'
  BY DEF Inv, TypeOK, world, session
<1> QED BY <1>1, PlaceFrame, TestInvFrame, DoctorInvFrame, LogsInvFrame DEF Inv

LEMMA NextKeepsInv == Inv /\ [Next]_vars => Inv'
BY TestTunnelKeepsInv, DoctorKeepsInv, LogsKeepsInv, EnvironmentKeepsInv,
   TickKeepsInv, StutterKeepsInv DEF Next, ProcessStep, Over

LEMMA SpecKeepsInv == Spec => []Inv
BY InitInv, NextKeepsInv, PTL DEF Spec
-----------------------------------------------------------------------------
(* Theorems.                                                                *)

(* Every variable of the three commands stays in its range, for every number
   of hosts, retries and lines: what run_probes, doctor's checks and
   filter_output hold while they wait.                                      *)
THEOREM DiagnosticsTypeCorrect == Spec => []TypeOK
<1>1. Inv => TypeOK
  BY DEF Inv
<1> QED BY <1>1, SpecKeepsInv, PTL

(* The exit code 0 of test-tunnel, and every probe it counts as passed, is
   backed by a connection the routing proxy has made to that very host, for
   every list of hosts and however often run_probes retries.                *)
THEOREM TestIsTruthful == Spec => []TestTellsTruth
<1>1. Inv => TestTellsTruth
  BY DEF Inv, TestInv
<1> QED BY <1>1, SpecKeepsInv, PTL

(* Nothing doctor's checks call ok was never so, whatever the gateway, the
   cookie file and the listeners do between them, but for the cookie, and for
   that only if the gateway erred meanwhile; and its exit code 0 means that
   it found the configuration and the routing proxy in order.               *)
THEOREM DoctorIsTruthful == Spec => []DoctorTellsTruth
<1>1. Inv => DoctorTellsTruth
  BY DEF Inv, DoctorInv, DoctorTellsTruth, Backed
<1> QED BY <1>1, SpecKeepsInv, PTL

(* logs never exits and leaves the program it started running or unreaped,
   whichever of the two ends first (run_systemd_logs, run_file_logs).       *)
THEOREM LogsLeavesNothing == Spec => []NoProgramLeft
<1>1. Inv => NoProgramLeft
  BY DEF Inv, LogsInv
<1> QED BY <1>1, SpecKeepsInv, PTL
=============================================================================
