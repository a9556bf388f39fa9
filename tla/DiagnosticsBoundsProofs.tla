----------------------- MODULE DiagnosticsBoundsProofs -----------------------
(***************************************************************************)
(* How much and how long: logs with a filter shows every matching line, and *)
(* test-tunnel takes no longer than its timeouts add up to; for pipes and   *)
(* logs of every length, all lists of hosts, retries and timeouts.          *)
(***************************************************************************)
EXTENDS DiagnosticsProofs, FiniteSetTheorems

-----------------------------------------------------------------------------
(* How many lines of a pipe match.                                          *)

Matching(s) == {i \in DOMAIN s : s[i]}
Count(s) == Cardinality(Matching(s))

LEMMA CountType ==
  ASSUME NEW s \in Seq(BOOLEAN)
  PROVE  IsFiniteSet(Matching(s)) /\ Count(s) \in Nat
<1>1. IsFiniteSet(1..Len(s)) /\ Matching(s) \subseteq 1..Len(s)
  BY FS_Interval DEF Matching
<1> QED BY <1>1, FS_Subset, FS_CardinalityType DEF Count

(* An empty pipe holds none.                                                *)
LEMMA CountEmpty == Count(<<>>) = 0
<1>1. Matching(<<>>) = {}
  BY DEF Matching
<1> QED BY <1>1, FS_EmptySet DEF Count

(* A line printed adds itself if it matches.                                *)
LEMMA CountAppend ==
  ASSUME NEW s \in Seq(BOOLEAN), NEW b \in BOOLEAN
  PROVE  Count(Append(s, b)) = IF b THEN Count(s) + 1 ELSE Count(s)
<1>1. IsFiniteSet(Matching(s)) /\ Len(s) + 1 \notin Matching(s)
  BY CountType DEF Matching
<1>2. CASE b
  <2>1. Matching(Append(s, b)) = Matching(s) \cup {Len(s) + 1}
    BY <1>2 DEF Matching
  <2> QED BY <1>1, <1>2, <2>1, FS_AddElement DEF Count
<1>3. CASE ~b
  <2>1. Matching(Append(s, b)) = Matching(s)
    BY <1>3 DEF Matching
  <2> QED BY <1>3, <2>1 DEF Count
<1> QED BY <1>2, <1>3

(* A line read takes itself away if it matches.                             *)
LEMMA CountTail ==
  ASSUME NEW s \in Seq(BOOLEAN), s # <<>>
  PROVE  Count(s) = IF Head(s) THEN Count(Tail(s)) + 1 ELSE Count(Tail(s))
<1> DEFINE T == Matching(Tail(s))
           S == Matching(s) \ {1}
           f == [i \in T |-> i + 1]
<1>1. Tail(s) \in Seq(BOOLEAN)
  OBVIOUS
<1>2. IsFiniteSet(Matching(s)) /\ IsFiniteSet(T) /\ Count(s) \in Nat
        /\ Count(Tail(s)) \in Nat
  BY <1>1, CountType
<1>3. /\ Len(s) \in Nat /\ Len(s) > 0 /\ DOMAIN s = 1..Len(s)
      /\ Head(s) = s[1] /\ s[1] \in BOOLEAN
      /\ DOMAIN Tail(s) = 1..Len(s) - 1
      /\ Len(Tail(s)) = Len(s) - 1
      /\ \A i \in 1..Len(s) - 1 : Tail(s)[i] = s[i + 1]
  OBVIOUS
<1>4. T = {i \in 1..Len(s) - 1 : s[i + 1]}
  BY <1>3 DEF Matching
<1>5. S = {i \in 2..Len(s) : s[i]}
  BY <1>3 DEF Matching
<1>6. f \in Bijection(T, S)
  <2>1. f \in [T -> S]
    BY <1>3, <1>4, <1>5
  <2>2. \A i, j \in T : f[i] = f[j] => i = j
    BY <1>4, <1>3
  <2>3. \A j \in S : \E i \in T : f[i] = j
    <3>1. SUFFICES ASSUME NEW j \in S PROVE j - 1 \in T /\ f[j - 1] = j
      OBVIOUS
    <3> QED BY <1>3, <1>4, <1>5
  <2>4. IsInjective(f)
    BY <2>2 DEF IsInjective
  <2> HIDE DEF f, S, T
  <2>5. f \in Injection(T, S) /\ f \in Surjection(T, S)
    BY <2>1, <2>3, <2>4 DEF Injection, Surjection
  <2> QED BY <2>5 DEF Bijection
<1>7. Cardinality(S) = Count(Tail(s))
  BY <1>2, <1>6, FS_Bijection DEF ExistsBijection, Count
<1>8. 1 \in Matching(s) <=> Head(s)
  <2>1. 1 \in DOMAIN s
    BY <1>3
  <2> QED BY <1>3, <2>1, Zenon DEF Matching
<1>9. Cardinality(S) = IF Head(s) THEN Count(s) - 1 ELSE Count(s)
  BY <1>2, <1>8, FS_RemoveElement DEF Count
<1>10. CASE Head(s)
  <2>1. Cardinality(S) = Count(s) - 1
    BY <1>9, <1>10, Zenon
  <2>2. Count(s) = Count(Tail(s)) + 1
    BY <1>2, <1>7, <2>1
  <2> QED BY <1>10, <2>2, Zenon
<1>11. CASE ~Head(s)
  BY <1>7, <1>9, <1>11, Zenon
<1> QED BY <1>10, <1>11
-----------------------------------------------------------------------------
(* logs: every line due has been shown or is still in the pipe.             *)

CountInv ==
  /\ pc \in {"select", "open", "spawn"} \/ ~filtered =>
       pipe = <<>> /\ due = 0 /\ shown = 0
  /\ pc = "stream" => filtered /\ due = shown + Count(pipe)
  /\ pc = "wait" => shown = due /\ (filtered => child # "running")
  /\ child = "succeeded" => left = 0
  /\ LogsComplete

LEMMA InitCountInv == Init => CountInv
BY DEF Init, TestTunnelStarts, DoctorStarts, LogsStarts, StartsAs, CountInv,
   LogsComplete

(* One step of the filter: a line that matches moves from the pipe to what
   was shown, any other is dropped.                                         *)
LEMMA FilterKeepsCount ==
  ASSUME Inv, CountInv, FilterLine
  PROVE  CountInv'
<1>1. /\ pipe \in Seq(BOOLEAN) /\ pipe # <<>> /\ pipe' = Tail(pipe)
      /\ shown \in Nat /\ due \in Nat /\ pc = "stream" /\ filtered
      /\ due = shown + Count(pipe) /\ exit = -1 /\ child # "reaped"
  BY DEF FilterLine, CountInv, Inv, TypeOK, Place, Running, LogsInv
<1>2. /\ UNCHANGED <<child, due, left, filtered, command, exit>>
      /\ pc' \in {"stream", "giveUp"}
  BY DEF FilterLine, Looks, Goes
<1>3. Tail(pipe) \in Seq(BOOLEAN)
  BY <1>1
<1>4. Count(Tail(pipe)) \in Nat /\ Count(pipe) \in Nat
  BY <1>1, <1>3, CountType
<1>5. pc' = "stream" => due' = shown' + Count(pipe')
  <2>1. CASE ~Head(pipe)
    <3>1. shown' = shown
      BY <2>1, Zenon DEF FilterLine, Goes
    <3>2. Count(pipe) = Count(Tail(pipe))
      BY <1>1, <2>1, CountTail, Zenon
    <3> QED BY <1>1, <1>2, <3>1, <3>2
  <2>2. CASE Head(pipe)
    <3>1. pc' = "stream" => shown' = shown + 1
      <4>1. output = "closed" => pc' = "giveUp"
        BY <2>2, Zenon DEF FilterLine, Goes
      <4>2. output # "closed" => shown' = shown + 1
        BY <2>2, Zenon DEF FilterLine
      <4> QED BY <4>1, <4>2
    <3>2. Count(pipe) = Count(Tail(pipe)) + 1
      BY <1>1, <2>2, CountTail, Zenon
    <3> QED BY <1>1, <1>2, <1>4, <3>1, <3>2
  <2> QED BY <2>1, <2>2
<1> QED BY <1>1, <1>2, <1>5 DEF CountInv, LogsComplete

LEMMA LogsKeepCount == Inv /\ CountInv /\ (Logs \/ ReadFails) => CountInv'
<1> SUFFICES ASSUME Inv, CountInv, Logs \/ ReadFails PROVE CountInv'
  OBVIOUS
<1> USE DEF Looks, Goes, Exits, stream
<1>1. pc \in LogsPcs /\ exit = -1 /\ command = "logs"
  BY DEF Logs, SelectSource, OpenLog, Spawn, SpawnFails, FilterLine, ReadFails,
     EndOfOutput, GiveUp, Reap, LogsPcs, Inv, Place, Running
<1>2. CASE SelectSource
  BY <1>1, <1>2 DEF SelectSource, CountInv, LogsComplete
<1>3. CASE OpenLog
  BY <1>1, <1>3 DEF OpenLog, CountInv, LogsComplete
<1>4. CASE Spawn
  <2>1. pipe' = <<>> /\ due' = 0 /\ shown' = 0 /\ UNCHANGED filtered
    BY <1>4 DEF Spawn, CountInv
  <2>2. child' = "running" /\ exit' = -1
        /\ (filtered => pc' = "stream") /\ (~filtered => pc' = "wait")
    BY <1>1, <1>4 DEF Spawn
  <2> QED BY <2>1, <2>2, CountEmpty DEF CountInv, LogsComplete
<1>5. CASE SpawnFails
  BY <1>1, <1>5 DEF SpawnFails, CountInv, LogsComplete
<1>6. CASE FilterLine
  BY <1>6, FilterKeepsCount
<1>7. CASE ReadFails
  BY <1>1, <1>7 DEF ReadFails, CountInv, LogsComplete
<1>8. CASE EndOfOutput
  <2>1. due = shown + 0 /\ due \in Nat /\ shown \in Nat
    BY <1>8, CountEmpty DEF EndOfOutput, CountInv, Inv, TypeOK
  <2> QED BY <1>1, <1>8, <2>1 DEF EndOfOutput, CountInv, LogsComplete
<1>9. CASE GiveUp
  BY <1>1, <1>9 DEF GiveUp, CountInv, LogsComplete
<1>10. CASE Reap
  <2>1. exit' = 0 => child = "succeeded"
    BY <1>10 DEF Reap, ExitCode
  <2> QED BY <1>1, <1>10, <2>1 DEF Reap, CountInv, LogsComplete
<1> QED BY <1>2, <1>3, <1>4, <1>5, <1>6, <1>7, <1>8, <1>9, <1>10 DEF Logs

(* The log program prints or ends; after it has ended nothing is due.       *)
LEMMA ChildKeepsCount ==
  ASSUME Inv, CountInv,
         (\E matching \in BOOLEAN : Prints(matching))
           \/ \E s \in {"succeeded", "failed", "signalled"} : ChildEnds(s)
  PROVE  CountInv'
<1> USE DEF process, logArgs
<1>1. CASE \E s \in {"succeeded", "failed", "signalled"} : ChildEnds(s)
  BY <1>1 DEF ChildEnds, CountInv, LogsComplete
<1>2. CASE \E matching \in BOOLEAN : Prints(matching)
  <2>1. PICK m \in BOOLEAN : Prints(m)
    BY <1>2
  <2>2. /\ UNCHANGED <<pc, exit, command, child, shown, filtered>>
        /\ child = "running" /\ pipe \in Seq(BOOLEAN) /\ due \in Nat /\ shown \in Nat
        /\ Running
    BY <2>1 DEF Prints, Inv, TypeOK, LogsInv, NoProgramLeft
  <2>3. exit' = -1 /\ child' # "succeeded"
    BY <2>2 DEF Inv, Place
  <2>4. CASE ~filtered
    <3>1. UNCHANGED <<pipe, due>>
      BY <2>1, <2>4, Zenon DEF Prints
    <3> QED BY <2>2, <2>3, <2>4, <3>1 DEF CountInv, LogsComplete
  <2>5. CASE filtered
    <3>1. pipe' = Append(pipe, m) /\ due' = IF m THEN due + 1 ELSE due
      BY <2>1, <2>5, Zenon DEF Prints
    <3>2. pc' \notin {"select", "open", "spawn", "wait"}
      BY <2>2, <2>5 DEF CountInv, Inv, LogsInv
    <3>3. Count(pipe) \in Nat
      BY <2>2, CountType
    <3>4. Count(pipe') = IF m THEN Count(pipe) + 1 ELSE Count(pipe)
      BY <2>2, <3>1, CountAppend
    <3>5. pc = "stream" => due' = shown' + Count(pipe')
      <4>1. CASE m
        <5>1. due' = due + 1 /\ Count(pipe') = Count(pipe) + 1
          BY <4>1, <3>1, <3>4, Zenon
        <5> QED BY <5>1, <2>2, <3>3 DEF CountInv
      <4>2. CASE ~m
        <5>1. due' = due /\ Count(pipe') = Count(pipe)
          BY <4>2, <3>1, <3>4, Zenon
        <5> QED BY <5>1, <2>2, <3>3 DEF CountInv
      <4> QED BY <4>1, <4>2
    <3> QED BY <2>2, <2>3, <2>5, <3>2, <3>5 DEF CountInv, LogsComplete
  <2> QED BY <2>4, <2>5
<1> QED BY <1>1, <1>2

LEMMA CountFrame ==
  ASSUME CountInv, UNCHANGED <<command, pc, exit, filtered, child, pipe, left, due, shown>>
  PROVE  CountInv'
BY DEF CountInv, LogsComplete

(* The steps of the other two commands find no log program.                 *)
LEMMA OthersKeepCount ==
  ASSUME Inv, Inv', CountInv, pc \in TestPcs \cup DoctorPcs,
         UNCHANGED <<command, logs>>
  PROVE  CountInv'
<1>1. command' # "logs" /\ child = "none"
  BY DEF Inv, Place, LogsInv
<1>2. pc' \notin LogsPcs
  BY <1>1 DEF Inv, Place
<1> QED BY <1>1, <1>2 DEF CountInv, LogsComplete, LogsPcs, logs, logArgs, stream

LEMMA EnvironmentKeepsCount == Inv /\ CountInv /\ Environment => CountInv'
<1> SUFFICES ASSUME Inv, CountInv, Environment PROVE CountInv'
  OBVIOUS
<1>1. CASE ChildFinishes \/ \E s \in {"failed", "signalled"} : ChildEnds(s)
  BY <1>1, ChildKeepsCount DEF ChildFinishes
<1>2. CASE Proxy \/ MachineChanges \/ LogFileChanges \/ OutputCloses
  BY <1>2, CountFrame DEF Proxy, MachineChanges, LogFileChanges, OutputCloses,
     process, logs, logArgs, stream
<1> QED BY <1>1, <1>2 DEF Environment

LEMMA NextKeepsCount == Inv /\ Inv' /\ CountInv /\ [Next]_vars => CountInv'
<1> SUFFICES ASSUME Inv, Inv', CountInv, [Next]_vars PROVE CountInv'
  OBVIOUS
<1>1. CASE TestTunnel
  <2>1. pc \in TestPcs
    BY <1>1 DEF TestTunnel, ProxyUp, ProxyDown, Connect, Hello, Greeted, Ask,
       HeaderRead, LengthRead, TailRead, StepFails, TestPcs, ProbePcs
  <2>2. UNCHANGED <<command, logs>>
    BY <1>1 DEF TestTunnel, ProxyUp, ProxyDown, Connect, Hello, Greeted, Ask,
       HeaderRead, LengthRead, TailRead, StepFails, AttemptFails, Record, Probes, Goes, Exits
  <2> QED BY <2>1, <2>2, OthersKeepCount
<1>2. CASE Doctor
  <2>1. pc \in DoctorPcs /\ UNCHANGED <<command, logs>>
    BY <1>2 DEF Doctor, CheckConfig, CookieFile, CookieRead, CookieAnswer,
       ListenerUp, ListenerDown, CheckListener, Checks, Concludes, Goes, Exits,
       DoctorPcs
  <2> QED BY <2>1, OthersKeepCount
<1>3. CASE Logs \/ ReadFails
  BY <1>3, LogsKeepCount
<1>4. CASE Environment
  BY <1>4, EnvironmentKeepsCount
<1>5. CASE Tick
  BY <1>5, CountFrame DEF Tick, logs, logArgs, stream
<1>6. CASE UNCHANGED vars
  BY <1>6, CountFrame DEF vars, process, logs, logArgs, stream
<1> QED BY <1>1, <1>2, <1>3, <1>4, <1>5, <1>6 DEF Next, ProcessStep, Over

(* A filtered log that was read to its end and whose program succeeded has
   been shown completely, for every pipe and whichever lines match: no line
   is left in the pipe, and none was skipped (filter_output).                *)
THEOREM LogsShowsAll == Spec => []LogsComplete
<1>1. Spec => []CountInv
  BY InitCountInv, NextKeepsCount, SpecKeepsInv, PTL DEF Spec
<1>2. CountInv => LogsComplete
  BY DEF CountInv
<1> QED BY <1>1, <1>2, PTL
-----------------------------------------------------------------------------
(* test-tunnel: each attempt has seven waits, each under its own timeout.   *)

(* Waits over within the attempt under way, and attempts over before it.    *)
StepsDone == CASE pc = "connect" -> 0 [] pc = "hello" -> 1 [] pc = "greeting" -> 2
               [] pc = "ask" -> 3 [] pc = "header" -> 4 [] pc = "length" -> 5
               [] pc = "tail" -> 6 [] OTHER -> 0
AttemptsDone == Len(results) * (retries + 1) + attempt
Spent(a, s) == ListenTimeout + (a * 7 + s) * ProbeTimeout

TimeInv ==
  /\ command # "test-tunnel" => elapsed = 0
  /\ pc = "listen" => elapsed = waited /\ waited <= ListenTimeout /\ attempt = 0
  /\ pc \in ProbePcs => /\ waited <= ProbeTimeout
                        /\ elapsed <= Spent(AttemptsDone, StepsDone) + waited
  /\ TestBounded

(* Products of natural numbers grow with their factors.                     *)
LEMMA ProductType == \A x, y \in Nat : x * y \in Nat
  OBVIOUS

LEMMA ProductStep == \A x, z \in Nat : (x + 1) * z = x * z + z
  OBVIOUS

LEMMA ProductMonotone ==
  ASSUME NEW x \in Nat, NEW y \in Nat, NEW z \in Nat, x <= y
  PROVE  x * z <= y * z
<1>1. y - x \in Nat /\ (y - x) * z \in Nat
  BY ProductType
<1>2. y * z = x * z + (y - x) * z
  OBVIOUS
<1> QED BY <1>1, <1>2, ProductType

(* Up to `a` attempts and `s` further waits take no longer than more do.    *)
LEMMA SpentType ==
  ASSUME NEW a \in Nat, NEW s \in Nat PROVE Spent(a, s) \in Nat
  BY NumberAssumption, ProductType DEF Spent

LEMMA SpentMonotone ==
  ASSUME NEW a \in Nat, NEW b \in Nat, NEW s \in Nat, NEW t \in Nat,
         a * 7 + s <= b * 7 + t
  PROVE  Spent(a, s) <= Spent(b, t)
<1>1. (a * 7 + s) * ProbeTimeout <= (b * 7 + t) * ProbeTimeout
  BY NumberAssumption, ProductMonotone
<1>2. (a * 7 + s) * ProbeTimeout \in Nat /\ (b * 7 + t) * ProbeTimeout \in Nat
  BY NumberAssumption, ProductType
<1> QED BY <1>1, <1>2, NumberAssumption DEF Spent

(* One wait more costs one timeout more.                                    *)
LEMMA SpentStep ==
  ASSUME NEW a \in Nat, NEW s \in Nat
  PROVE  Spent(a, s + 1) = Spent(a, s) + ProbeTimeout
<1>1. (a * 7 + (s + 1)) * ProbeTimeout = (a * 7 + s) * ProbeTimeout + ProbeTimeout
  BY NumberAssumption, ProductStep
<1>2. (a * 7 + s) * ProbeTimeout \in Nat
  BY NumberAssumption, ProductType
<1> QED BY <1>1, <1>2, NumberAssumption DEF Spent

LEMMA AttemptsType ==
  ASSUME Inv
  PROVE  /\ AttemptsDone \in Nat /\ StepsDone \in 0..6
         /\ Len(results) \in Nat /\ Len(targets) \in Nat
         /\ retries \in Nat /\ attempt \in 0..retries
<1>1. Len(results) \in Nat /\ Len(targets) \in Nat /\ retries \in Nat
      /\ attempt \in 0..retries
  BY NumberAssumption DEF Inv, TypeOK
<1>2. Len(results) * (retries + 1) \in Nat
  BY <1>1, ProductType
<1> QED BY <1>1, <1>2 DEF AttemptsDone, StepsDone

(* The attempt under way ends in time, and there is room left for it.       *)
LEMMA AttemptInTime ==
  ASSUME Inv, TimeInv, pc \in ProbePcs
  PROVE  /\ elapsed <= Spent(AttemptsDone + 1, 0)
         /\ waited < ProbeTimeout => elapsed + 1 <= Spent(AttemptsDone + 1, 0)
<1>1. /\ AttemptsDone \in Nat /\ AttemptsDone + 1 \in Nat /\ StepsDone \in 0..6
      /\ StepsDone \in Nat /\ StepsDone + 1 \in Nat
  BY AttemptsType
<1>2. elapsed <= Spent(AttemptsDone, StepsDone) + waited /\ waited <= ProbeTimeout
  BY DEF TimeInv
<1>3. Spent(AttemptsDone, StepsDone + 1) = Spent(AttemptsDone, StepsDone) + ProbeTimeout
  BY <1>1, SpentStep
<1>4. Spent(AttemptsDone, StepsDone + 1) <= Spent(AttemptsDone + 1, 0)
  BY <1>1, SpentMonotone
<1>5. Spent(AttemptsDone, StepsDone) \in Nat /\ Spent(AttemptsDone + 1, 0) \in Nat
  BY <1>1, SpentType
<1>6. elapsed \in Nat /\ waited \in Nat /\ ProbeTimeout \in Nat
  BY NumberAssumption DEF Inv, TypeOK
<1> QED BY <1>2, <1>3, <1>4, <1>5, <1>6

(* The attempts that fit into the targets probed and the one under way.     *)
LEMMA AttemptsBounded ==
  ASSUME Inv
  PROVE  /\ AttemptsDone + 1 <= (Len(results) + 1) * (retries + 1)
         /\ Len(results) < Len(targets) =>
              Spent(AttemptsDone + 1, 0) <= TestBound
<1> DEFINE k == Len(results)
           R == retries + 1
           n == Len(targets)
<1>1. /\ k \in Nat /\ R \in Nat /\ n \in Nat /\ attempt \in 0..retries
      /\ retries \in Nat /\ AttemptsDone \in Nat
  BY AttemptsType
<1>2. (k + 1) * R = k * R + R /\ k * R \in Nat /\ (k + 1) * R \in Nat /\ n * R \in Nat
  BY <1>1, ProductStep, ProductType
<1>3. AttemptsDone + 1 <= (k + 1) * R
  BY <1>1, <1>2 DEF AttemptsDone
<1>4. ASSUME k < n PROVE Spent(AttemptsDone + 1, 0) <= TestBound
  <2>1. (k + 1) * R <= n * R
    BY <1>1, <1>4, ProductMonotone
  <2>2. AttemptsDone + 1 <= n * R
    BY <1>1, <1>2, <1>3, <2>1
  <2>3. Spent(AttemptsDone + 1, 0) <= Spent(n * R, 0)
    BY <1>1, <1>2, <2>2, SpentMonotone
  <2>4. Spent(n * R, 0) = TestBound
    BY <1>2, NumberAssumption DEF Spent, TestBound
  <2> QED BY <2>3, <2>4
<1> QED BY <1>3, <1>4

LEMMA InitTimeInv == Init => TimeInv
<1> SUFFICES ASSUME Init PROVE TimeInv
  OBVIOUS
<1>1. Inv
  BY InitInv
<1>2. elapsed = 0 /\ waited = 0 /\ attempt = 0 /\ pc \notin ProbePcs
  BY DEF Init, TestTunnelStarts, DoctorStarts, LogsStarts, StartsAs, ProbePcs
<1>3. /\ ListenTimeout \in Nat /\ Len(targets) * (retries + 1) \in Nat
      /\ ProbeTimeout \in Nat
  BY <1>1, AttemptsType, ProductType, NumberAssumption
<1>4. 0 <= TestBound
  <2>1. Len(targets) * (retries + 1) * 7 \in Nat
    BY <1>3
  <2>2. Len(targets) * (retries + 1) * 7 * ProbeTimeout \in Nat
    BY <1>3, <2>1, ProductType
  <2> QED BY <1>3, <2>2 DEF TestBound
<1> QED BY <1>2, <1>3, <1>4 DEF TimeInv, TestBounded

(* A failed attempt is followed by the next one, or by the next target.     *)
LEMMA AttemptFailsInTime ==
  ASSUME Inv, Inv', TimeInv, pc \in ProbePcs, UNCHANGED <<command, elapsed, targets, retries>>,
         \/ AttemptFails
         \/ \E passed \in BOOLEAN : Record(passed)
  PROVE  TimeInv'
<1>1. /\ retries \in Nat /\ attempt \in 0..retries /\ Len(results) \in Nat
      /\ AttemptsDone \in Nat /\ AttemptsDone + 1 \in Nat
      /\ results \in Seq(BOOLEAN) /\ elapsed \in Nat
  BY AttemptsType DEF Inv, TypeOK
<1>2. command = "test-tunnel" /\ waited' = 0 /\ pc' \in {"connect", "ended"}
  BY DEF Inv, Place, TestPcs, AttemptFails, Record, Goes, Exits
<1>3. AttemptsDone' \in Nat /\ AttemptsDone + 1 <= AttemptsDone'
  <2>1. CASE \E passed \in BOOLEAN : Record(passed)
    <3>1. Len(results') = Len(results) + 1 /\ attempt' = 0
      BY <1>1, <2>1 DEF Record
    <3>2. AttemptsDone' = (Len(results) + 1) * (retries + 1)
      BY <1>1, <3>1, ProductType DEF AttemptsDone
    <3> QED BY <1>1, <3>2, AttemptsBounded, ProductType
  <2>2. CASE AttemptFails /\ attempt < retries
    <3>1. attempt' = attempt + 1 /\ UNCHANGED results
      BY <2>2 DEF AttemptFails
    <3>2. Len(results) * (retries + 1) \in Nat
      BY <1>1, ProductType
    <3> QED BY <1>1, <3>1, <3>2 DEF AttemptsDone
  <2>3. CASE AttemptFails /\ ~(attempt < retries)
    BY <2>1, <2>3 DEF AttemptFails
  <2> QED BY <2>1, <2>2, <2>3
<1>4. elapsed <= Spent(AttemptsDone', 0)
  <2>1. Spent(AttemptsDone + 1, 0) <= Spent(AttemptsDone', 0)
    BY <1>1, <1>3, SpentMonotone
  <2>2. /\ Spent(AttemptsDone + 1, 0) \in Nat /\ Spent(AttemptsDone', 0) \in Nat
        /\ elapsed \in Nat
    BY <1>1, <1>3, SpentType
  <2> QED BY <2>1, <2>2, AttemptInTime
<1>5. pc' = "connect" => elapsed' <= Spent(AttemptsDone, StepsDone)' + waited'
  <2>1. pc' = "connect" => StepsDone' = 0
    BY DEF StepsDone
  <2>2. Spent(AttemptsDone', 0) \in Nat
    BY <1>3, SpentType
  <2> QED BY <1>2, <1>4, <2>1, <2>2 DEF Spent
<1>6. TestBounded'
  BY DEF TimeInv, TestBounded, TestBound
<1> QED BY <1>2, <1>5, <1>6, NumberAssumption DEF TimeInv, ProbePcs

(* A later wait of the same attempt; the reply need not have them all.      *)
LEMMA NextWaitInTime ==
  ASSUME Inv, TimeInv, pc \in ProbePcs,
         UNCHANGED <<command, elapsed, targets, retries, results, attempt>>,
         waited' = 0, pc' \in ProbePcs, StepsDone' > StepsDone
  PROVE  TimeInv'
<1>1. /\ AttemptsDone \in Nat /\ StepsDone \in Nat /\ StepsDone' \in 0..6
      /\ StepsDone' \in Nat /\ StepsDone + 1 \in Nat /\ AttemptsDone' = AttemptsDone
  BY AttemptsType DEF AttemptsDone, StepsDone, ProbePcs
<1>2. elapsed <= Spent(AttemptsDone, StepsDone) + waited /\ waited <= ProbeTimeout
  BY DEF TimeInv
<1>3. Spent(AttemptsDone, StepsDone + 1) = Spent(AttemptsDone, StepsDone) + ProbeTimeout
  BY <1>1, SpentStep
<1>4. Spent(AttemptsDone, StepsDone + 1) <= Spent(AttemptsDone, StepsDone')
  BY <1>1, SpentMonotone
<1>5. /\ Spent(AttemptsDone, StepsDone) \in Nat /\ Spent(AttemptsDone, StepsDone') \in Nat
      /\ ProbeTimeout \in Nat /\ elapsed \in Nat /\ waited \in Nat
  BY <1>1, SpentType, NumberAssumption DEF Inv, TypeOK
<1>6. elapsed' <= Spent(AttemptsDone', StepsDone') + waited'
  BY <1>1, <1>2, <1>3, <1>4, <1>5
<1>7. command = "test-tunnel" /\ TestBounded'
  BY DEF Inv, Place, TestPcs, ProbePcs, TimeInv, TestBounded, TestBound
<1> QED BY <1>5, <1>6, <1>7 DEF TimeInv, ProbePcs, Spent

LEMMA TestTunnelInTime == Inv /\ Inv' /\ TimeInv /\ TestTunnel => TimeInv'
<1> SUFFICES ASSUME Inv, Inv', TimeInv, TestTunnel PROVE TimeInv'
  OBVIOUS
<1>1. ASSUME pc \in ProbePcs, Probes, AttemptFails PROVE TimeInv'
  <2>1. UNCHANGED <<command, elapsed, targets, retries>>
    BY <1>1 DEF Probes, AttemptFails, Record, Goes, Exits, request
  <2> QED BY <1>1, <2>1, AttemptFailsInTime
<1>2. ASSUME pc \in ProbePcs, Probes, NEW passed \in BOOLEAN, Record(passed)
      PROVE  TimeInv'
  <2>1. UNCHANGED <<command, elapsed, targets, retries>>
    BY <1>2 DEF Probes, Record, Goes, Exits, request
  <2> QED BY <1>2, <2>1, AttemptFailsInTime
<1>3. CASE ProxyUp \/ ProxyDown
  <2> USE DEF Goes, Exits, Probes, request, test, probe
  <2>1. /\ pc = "listen" /\ pc' \in {"connect", "ended"} /\ waited' = 0
        /\ UNCHANGED <<command, elapsed, targets, retries, results, attempt>>
    BY <1>3 DEF ProxyUp, ProxyDown
  <2>2. AttemptsDone' = 0
    BY <2>1, AttemptsType DEF AttemptsDone, Inv, TestInv, TimeInv
  <2>3. pc' = "connect" => elapsed' <= Spent(AttemptsDone, StepsDone)' + waited'
    <3>1. pc' = "connect" => StepsDone' = 0
      BY DEF StepsDone
    <3>2. (0 * 7 + 0) * ProbeTimeout = 0
      BY NumberAssumption
    <3>3. pc' = "connect" => Spent(AttemptsDone, StepsDone)' = ListenTimeout
      BY <2>2, <3>1, <3>2, NumberAssumption DEF Spent
    <3> QED BY <2>1, <3>3, NumberAssumption DEF TimeInv, Inv, TypeOK
  <2>4. TestBounded'
    BY <2>1 DEF TimeInv, TestBounded, TestBound
  <2>5. command = "test-tunnel"
    BY <2>1 DEF Inv, Place, TestPcs
  <2> QED BY <2>1, <2>3, <2>4, <2>5, NumberAssumption DEF TimeInv, ProbePcs
<1>4. CASE Connect \/ Hello \/ Ask \/ LengthRead
  <2>1. /\ pc \in ProbePcs /\ pc' \in ProbePcs /\ StepsDone' > StepsDone /\ waited' = 0
        /\ UNCHANGED <<command, elapsed, targets, retries, results, attempt>>
    BY <1>4 DEF Connect, Hello, Ask, LengthRead, Goes, Probes, request, ProbePcs,
       StepsDone
  <2> QED BY <2>1, NextWaitInTime
<1>5. CASE Greeted \/ HeaderRead
  <2>1. CASE AttemptFails
    BY <1>5, <2>1, <1>1 DEF Greeted, HeaderRead, ProbePcs
  <2>2. CASE ~AttemptFails
    <3>1. /\ pc \in ProbePcs /\ pc' \in ProbePcs /\ StepsDone' > StepsDone
          /\ waited' = 0
          /\ UNCHANGED <<command, elapsed, targets, retries, results, attempt>>
      BY <1>5, <2>2 DEF Greeted, HeaderRead, Goes, Probes, request, ProbePcs,
         StepsDone
    <3> QED BY <3>1, NextWaitInTime
  <2> QED BY <2>1, <2>2
<1>6. CASE TailRead
  BY <1>6, <1>1, <1>2 DEF TailRead, ProbePcs
<1>7. CASE StepFails
  BY <1>7, <1>1 DEF StepFails, ProbePcs
<1> QED BY <1>3, <1>4, <1>5, <1>6, <1>7 DEF TestTunnel

(* Time passes only while the wait at hand may still last.                  *)
LEMMA TickInTime == Inv /\ TimeInv /\ Tick => TimeInv'
<1> SUFFICES ASSUME Inv, TimeInv, Tick PROVE TimeInv'
  OBVIOUS
<1> USE DEF Tick, request, probe
<1>1. /\ waited < Patience /\ waited' = waited + 1 /\ waited \in Nat /\ elapsed \in Nat
      /\ UNCHANGED <<command, pc, targets, retries, results, attempt>>
  BY DEF Inv, TypeOK
<1>2. AttemptsDone' = AttemptsDone /\ StepsDone' = StepsDone /\ TestBound' = TestBound
  BY <1>1 DEF AttemptsDone, StepsDone, TestBound
<1>3. CASE command # "test-tunnel"
  <2>1. pc \notin TestPcs /\ UNCHANGED elapsed
    BY <1>3 DEF Inv, Place
  <2> QED BY <1>1, <1>2, <1>3, <2>1 DEF TimeInv, TestBounded, TestPcs, ProbePcs
<1>4. CASE command = "test-tunnel" /\ pc = "listen"
  <2>1. Patience = ListenTimeout
    BY <1>4 DEF Patience, ProbePcs, Listener
  <2>2. elapsed' = waited' /\ waited' <= ListenTimeout
    BY <1>1, <1>4, <2>1, NumberAssumption DEF TimeInv
  <2>3. ListenTimeout <= TestBound
    <3>1. Len(targets) * (retries + 1) \in Nat
      BY AttemptsType, ProductType
    <3>2. Len(targets) * (retries + 1) * 7 * ProbeTimeout \in Nat
      BY <3>1, NumberAssumption, ProductType
    <3> QED BY <3>2, NumberAssumption DEF TestBound
  <2>4. TestBounded'
    <3>1. TestBound \in Int
      <4>1. Len(targets) * (retries + 1) \in Nat
        BY AttemptsType, ProductType
      <4> QED BY <4>1, NumberAssumption, ProductType DEF TestBound
    <3> QED BY <1>1, <1>2, <2>2, <2>3, <3>1, NumberAssumption DEF TestBounded
  <2> QED BY <1>1, <1>4, <2>2, <2>4 DEF TimeInv, ProbePcs
<1>5. CASE command = "test-tunnel" /\ pc \in ProbePcs
  <2>1. Patience = ProbeTimeout
    BY <1>5 DEF Patience, ProbePcs, Listener
  <2>2. waited' <= ProbeTimeout /\ elapsed' = elapsed + 1
    BY <1>1, <1>5, <2>1, NumberAssumption
  <2>3. elapsed' <= Spent(AttemptsDone, StepsDone)' + waited'
    <3>1. Spent(AttemptsDone, StepsDone) \in Nat
      <4>1. AttemptsDone \in Nat /\ StepsDone \in Nat
        BY AttemptsType
      <4> QED BY <4>1, SpentType
    <3>2. elapsed <= Spent(AttemptsDone, StepsDone) + waited
      BY <1>5 DEF TimeInv
    <3> QED BY <1>1, <1>2, <2>2, <3>1, <3>2 DEF Spent
  <2>4. TestBounded'
    <3>1. Len(results) < Len(targets)
      BY <1>5 DEF Inv, TestInv
    <3>2. elapsed + 1 <= Spent(AttemptsDone + 1, 0)
      BY <1>1, <1>5, <2>1, AttemptInTime
    <3>3. Spent(AttemptsDone + 1, 0) <= TestBound
      BY <3>1, AttemptsBounded
    <3>4. AttemptsDone + 1 \in Nat /\ Len(targets) * (retries + 1) \in Nat
      BY AttemptsType, ProductType
    <3>5. Spent(AttemptsDone + 1, 0) \in Nat
      BY <3>4, SpentType
    <3>6. TestBound \in Int
      BY <3>4, NumberAssumption, ProductType DEF TestBound
    <3> QED BY <1>1, <1>2, <2>2, <3>2, <3>3, <3>5, <3>6 DEF TestBounded
  <2> QED BY <1>1, <1>5, <2>2, <2>3, <2>4 DEF TimeInv, ProbePcs
<1>6. CASE command = "test-tunnel" /\ pc \notin TestPcs
  <2>1. pc = "ended"
    BY <1>6 DEF Inv, TypeOK, Place, TestPcs, ProbePcs, DoctorPcs, LogsPcs
  <2>2. Patience = 0
    BY <2>1 DEF Patience, ProbePcs, Listener
  <2> QED BY <1>1, <2>2
<1> QED BY <1>3, <1>4, <1>5, <1>6 DEF TestPcs

LEMMA TimeFrame ==
  ASSUME TimeInv, UNCHANGED <<command, pc, waited, elapsed, targets, retries, results, attempt>>
  PROVE  TimeInv'
BY DEF TimeInv, TestBounded, TestBound, Spent, AttemptsDone, StepsDone

(* The steps of the other two commands take none of test-tunnel's time.     *)
LEMMA OthersInTime ==
  ASSUME Inv', TimeInv, command # "test-tunnel",
         UNCHANGED <<command, elapsed, targets, retries>>
  PROVE  TimeInv'
<1>1. pc' \notin TestPcs
  BY DEF Inv, Place
<1> QED BY <1>1 DEF TimeInv, TestBounded, TestBound, TestPcs

LEMMA NextInTime == Inv /\ Inv' /\ TimeInv /\ [Next]_vars => TimeInv'
<1> SUFFICES ASSUME Inv, Inv', TimeInv, [Next]_vars PROVE TimeInv'
  OBVIOUS
<1> USE DEF test, request, probe
<1>1. CASE TestTunnel
  BY <1>1, TestTunnelInTime
<1>2. CASE Doctor
  <2>1. pc \in DoctorPcs /\ UNCHANGED <<command, test>>
    BY <1>2 DEF Doctor, CheckConfig, CookieFile, CookieRead, CookieAnswer,
       ListenerUp, ListenerDown, CheckListener, Checks, Concludes, Goes, Exits,
       DoctorPcs
  <2> QED BY <2>1, OthersInTime DEF Inv, Place
<1>3. CASE Logs \/ ReadFails
  <2>1. pc \in LogsPcs /\ UNCHANGED <<command, test>>
    BY <1>3 DEF Logs, SelectSource, OpenLog, Spawn, SpawnFails, FilterLine,
       ReadFails, EndOfOutput, GiveUp, Reap, Looks, Goes, Exits, LogsPcs
  <2> QED BY <2>1, OthersInTime DEF Inv, Place
<1>4. CASE Environment
  BY <1>4, TimeFrame DEF Environment, Proxy, MachineChanges, LogFileChanges,
     ChildFinishes, Prints, ChildEnds, OutputCloses, process
<1>5. CASE Tick
  BY <1>5, TickInTime
<1>6. CASE UNCHANGED vars
  BY <1>6, TimeFrame DEF vars, process
<1> QED BY <1>1, <1>2, <1>3, <1>4, <1>5, <1>6 DEF Next, ProcessStep, Over

(* run_probes gives every attempt at every target at most seven waits, each
   under a timeout of its own (the connect, the greeting, its answer, the
   request, and the reply in two or three reads), and test-tunnel as a whole
   takes no longer than that, whatever the routing proxy answers and when it
   falls silent.                                                            *)
THEOREM TestEndsInTime == Spec => []TestBounded
<1>1. Spec => []TimeInv
  BY InitTimeInv, NextInTime, SpecKeepsInv, PTL DEF Spec
<1>2. TimeInv => TestBounded
  BY DEF TimeInv
<1> QED BY <1>1, <1>2, PTL
=============================================================================
