--------------------------- MODULE PillarCheckProofs ---------------------------
(***************************************************************************)
(* The pillar check never runs more than a batch; each pillar is rendered  *)
(* as its own host or one it shares a directory with; the exit code makes  *)
(* up no error and hides none that stands in a directory of its own; and   *)
(* no step is in vain, nor the script ever stuck: for any roster, with     *)
(* host names that collide or not.                                         *)
(***************************************************************************)
EXTENDS PillarCheck, FiniteSetTheorems, TLAPS

(* A loop of the script begins with all hosts, and ends with none.           *)
Loops ==
    /\ main = "wait" => todo = Hosts
    /\ main = "done" => todo = {}
    /\ main \in {"prepare", "spawn", "collect"} => todo # {}

CheckInv == TypeOK /\ Loops

(* The checks that are started, at each phase of the script.                 *)
Started ==
    /\ main = "prepare" => \A h \in Hosts : job[h] = "none"
    /\ main = "spawn" => \A h \in Hosts : job[h] = "none" <=> h \in todo
    /\ main \in {"wait", "collect", "done"} => \A h \in Hosts : job[h] # "none"

(* Each directory that was prepared has the name of a host it belongs to.    *)
GrainsOfDirectory ==
    /\ \A e \in Envs : grains[e] # None => EnvOf[grains[e]] = e
    /\ \A h \in Hosts :
          (main # "prepare" \/ h \notin todo) => grains[EnvOf[h]] # None

(* What is on stdout or in a log was found by a check.                       *)
NoneMadeUp ==
    /\ \A e \in Envs : \A g \in stderr[e] : Found(g)
    /\ \A g \in stdout : Found(g)

(* An error nobody else can empty out of the log.                            *)
Kept(h) == Found(h) /\ (OwnDirectory(h) \/ pillar[h] = "data")

(* What a check leaves behind it at each of its phases.                      *)
Log(h) ==
    /\ job[h] \in {"none", "started", "open"} => rendered[h] = None
    /\ (job[h] = "ended" /\ Found(h)) =>
          /\ pillar[h] = "data" => h \in stdout
          /\ (pillar[h] = "trace" /\ OwnDirectory(h)) => stderr[EnvOf[h]] # {}
    /\ job[h] = "passed" => ~Kept(h)
    /\ job[h] = "failed" => \E g \in Hosts : Found(g)

Logs == \A h \in Hosts : Log(h)

(* Failed checks are counted as they are collected.                          *)
Counted ==
    IF main \in {"collect", "done"}
    THEN failed >= 1 <=> \E h \in Hosts \ todo : job[h] = "failed"
    ELSE failed = 0

ReportInv ==
    CheckInv /\ Started /\ GrainsOfDirectory /\ NoneMadeUp /\ Logs /\ Counted
             /\ RendersOwnHost

-----------------------------------------------------------------------------
(* Types, and the batch *)

LEMMA RunningFinite ==
  /\ IsFiniteSet(Running) /\ Cardinality(Running) \in Nat
  /\ IsFiniteSet(Running)' /\ (Cardinality(Running) \in Nat)'
<1>1. Running \subseteq Hosts /\ Running' \subseteq Hosts
  BY DEF Running
<1>2. IsFiniteSet(Running) /\ IsFiniteSet(Running')
  BY <1>1, HostsAssumption, FS_Subset
<1> QED BY <1>2, FS_CardinalityType

LEMMA InitCheckInv == Init => CheckInv
  BY HostsAssumption DEF Init, CheckInv, TypeOK, Loops, Pillars, Phases, JobPhases

(* Types of a step of the script that starts or collects nothing.            *)
LEMMA PrepareCheckInv ==
  ASSUME CheckInv, NEW h \in Hosts, Prepare(h)
  PROVE  CheckInv'
  BY HostsAssumption
     DEF CheckInv, TypeOK, Loops, Prepare, LoopOver, Environment, Phases

LEMMA SpawnCheckInv ==
  ASSUME CheckInv, NEW h \in Hosts, Spawn(h)
  PROVE  CheckInv'
<1> USE DEF CheckInv, Spawn, LoopOver
<1>1. sampled' \in Nat
  BY RunningFinite
<1>2. main' \in {"spawn", "wait"}
  OBVIOUS
<1>3. TypeOK'
  BY <1>1, <1>2 DEF TypeOK, Phases, JobPhases
<1>4. Loops'
  BY <1>2 DEF Loops
<1> QED BY <1>3, <1>4

LEMMA LeaveWaitCheckInv ==
  ASSUME CheckInv, LeaveWait
  PROVE  CheckInv'
  BY HostsAssumption DEF CheckInv, TypeOK, Loops, LeaveWait, Phases

LEMMA CollectCheckInv ==
  ASSUME CheckInv, NEW h \in Hosts, Collect(h)
  PROVE  CheckInv'
<1> USE DEF CheckInv, Collect, Over
<1>1. failed' \in Nat
  BY DEF TypeOK
<1>2. TypeOK'
  BY <1>1 DEF TypeOK, Phases
<1>3. Loops'
  BY DEF Loops
<1> QED BY <1>2, <1>3

LEMMA JobCheckInv ==
  ASSUME CheckInv, NEW h \in Hosts, Check(h)
  PROVE  CheckInv'
<1> USE DEF CheckInv
<1>1. CASE Open(h)
  BY <1>1, HostsAssumption DEF Open, TypeOK, Loops, JobPhases, Environment
<1>2. CASE SaltCall(h)
  <2>1. /\ stderr' \in [Envs -> SUBSET Hosts]
        /\ rendered' \in [Hosts -> Hosts \cup {None}]
    BY <1>2, HostsAssumption DEF SaltCall, TypeOK, Environment
  <2> QED BY <1>2, <2>1 DEF SaltCall, TypeOK, Loops, JobPhases
<1>3. CASE Killed(h)
  BY <1>3 DEF Killed, TypeOK, Loops, JobPhases
<1>4. CASE Judge(h)
  BY <1>4 DEF Judge, TypeOK, Loops, JobPhases
<1> QED BY <1>1, <1>2, <1>3, <1>4 DEF Check

LEMMA NextCheckInv ==
  ASSUME CheckInv, [Next]_vars
  PROVE  CheckInv'
<1>1. CASE Script
  BY <1>1, PrepareCheckInv, SpawnCheckInv, LeaveWaitCheckInv, CollectCheckInv
     DEF Script
<1>2. CASE \E h \in Hosts : Check(h)
  BY <1>2, JobCheckInv
<1>3. CASE Exited \/ UNCHANGED vars
  BY <1>3 DEF Exited, CheckInv, TypeOK, Loops, vars
<1> QED BY <1>1, <1>2, <1>3 DEF Next

LEMMA CheckInvHolds == Spec => []CheckInv
  BY InitCheckInv, NextCheckInv, PTL DEF Spec

(* The script collects a check only when it is over (lines 105-109).          *)
THEOREM CheckTypeCorrect == Spec => []TypeOK
<1>1. CheckInv => TypeOK
  BY DEF CheckInv
<1> QED BY <1>1, CheckInvHolds, PTL

LEMMA FewerRunning ==
  ASSUME Running' \subseteq Running, AtMostBatch
  PROVE  AtMostBatch'
<1>1. Cardinality(Running') <= Cardinality(Running)
  BY RunningFinite, FS_Subset
<1> QED BY <1>1, RunningFinite, BatchAssumption DEF AtMostBatch

(* However late the throttle loop reads the job table, no more than a batch  *)
(* of checks run at once (lines 90-93).                                      *)
THEOREM BatchIsKept == Spec => []AtMostBatch
<1>1. Init => AtMostBatch
  <2> SUFFICES ASSUME Init PROVE AtMostBatch
    OBVIOUS
  <2>1. Running = {}
    BY DEF Init, Running
  <2> QED BY <2>1, FS_EmptySet, BatchAssumption DEF AtMostBatch
<1>2. ASSUME CheckInv, AtMostBatch, [Next]_vars PROVE AtMostBatch'
  <2>1. ASSUME NEW h \in Hosts, Spawn(h) PROVE AtMostBatch'
    <3>1. Running' \subseteq Running \cup {h}
      BY <1>2, <2>1 DEF Running, Spawn, CheckInv, TypeOK
    <3>2. /\ IsFiniteSet(Running \cup {h})
          /\ Cardinality(Running \cup {h}) =
                IF h \in Running THEN Cardinality(Running)
                                 ELSE Cardinality(Running) + 1
      <4>1. IsFiniteSet(Running)
        BY RunningFinite
      <4> QED BY <4>1, FS_AddElement, Zenon
    <3>3. Cardinality(Running') <= Cardinality(Running \cup {h})
      BY <3>1, <3>2, FS_Subset
    <3>4. Cardinality(Running \cup {h}) \in Nat
      BY <3>2, FS_CardinalityType
    <3>5. Cardinality(Running) < Batch
      BY <2>1 DEF Spawn, MaySpawn
    <3> QED BY <3>2, <3>3, <3>4, <3>5, RunningFinite, BatchAssumption
            DEF AtMostBatch
  <2>2. ASSUME NEW h \in Hosts, Check(h) PROVE AtMostBatch'
    <3>1. Running' \subseteq Running
      BY <1>2, <2>2 DEF Check, Open, SaltCall, Killed, Judge, Running, CheckInv,
         TypeOK
    <3> QED BY <1>2, <3>1, FewerRunning
  <2>3. ASSUME job' = job PROVE AtMostBatch'
    BY <1>2, <2>3 DEF AtMostBatch, Running
  <2>4. ASSUME LeaveWait \/ Exited \/ UNCHANGED vars
               \/ \E h \in Hosts : Prepare(h) \/ Collect(h)
        PROVE  job' = job
    BY <2>4 DEF LeaveWait, Exited, Prepare, Collect, vars
  <2> QED BY <1>2, <2>1, <2>2, <2>3, <2>4 DEF Next, Script
<1> QED BY <1>1, <1>2, CheckInvHolds, PTL DEF Spec

-----------------------------------------------------------------------------
(* What is found is reported *)

LEMMA InitReportInv == Init => ReportInv
<1> SUFFICES ASSUME Init PROVE ReportInv
  OBVIOUS
<1>1. CheckInv
  BY InitCheckInv
<1> QED BY <1>1, HostsAssumption
        DEF Init, ReportInv, Started, GrainsOfDirectory, NoneMadeUp, Logs, Log,
            Kept, Found, Counted, RendersOwnHost

(* A step that leaves checks, logs and what was rendered alone.              *)
LEMMA LogsUntouched ==
  ASSUME Logs, UNCHANGED <<job, rendered, stdout, pillar, stderr>>
  PROVE  Logs'
  BY DEF Logs, Log, Kept, Found, OwnDirectory

LEMMA PrepareReportInv ==
  ASSUME ReportInv, NEW h \in Hosts, Prepare(h)
  PROVE  ReportInv'
<1> USE DEF ReportInv, Prepare, LoopOver, Environment
<1>1. CheckInv'
  BY PrepareCheckInv
<1>2. EnvOf[h] \in Envs /\ h # None
  BY HostsAssumption
<1>3. GrainsOfDirectory'
  BY <1>2, HostsAssumption DEF GrainsOfDirectory, CheckInv, TypeOK
<1>4. Started' /\ Counted'
  BY DEF Started, Counted
<1>5. NoneMadeUp'
  <2>1. \A e \in Envs : stderr'[e] \subseteq stderr[e]
    BY <1>2 DEF CheckInv, TypeOK
  <2> QED BY <2>1 DEF NoneMadeUp, Found
<1>6. Logs'
  <2>1. \A g \in Hosts : job[g] = "none" /\ Log(g)
    BY DEF Started, Logs
  <2> QED BY <2>1 DEF Logs, Log
<1>7. RendersOwnHost'
  BY DEF RendersOwnHost
<1> QED BY <1>1, <1>3, <1>4, <1>5, <1>6, <1>7

LEMMA SpawnReportInv ==
  ASSUME ReportInv, NEW h \in Hosts, Spawn(h)
  PROVE  ReportInv'
<1> USE DEF ReportInv, Spawn, LoopOver
<1>1. CheckInv'
  BY SpawnCheckInv
<1>2. /\ job[h] = "none" /\ job'[h] = "started"
      /\ \A g \in Hosts : g # h => job'[g] = job[g]
  BY DEF Started, CheckInv, TypeOK
<1>3. GrainsOfDirectory' /\ NoneMadeUp' /\ RendersOwnHost'
  BY DEF GrainsOfDirectory, NoneMadeUp, Found, RendersOwnHost
<1>4. Started'
  BY <1>2 DEF Started, CheckInv, TypeOK
<1>5. Counted'
  BY DEF Counted
<1>6. Logs'
  <2>1. ASSUME NEW g \in Hosts PROVE Log(g)'
    BY <1>2 DEF Logs, Log, Kept, Found, OwnDirectory
  <2> QED BY <2>1 DEF Logs
<1> QED BY <1>1, <1>3, <1>4, <1>5, <1>6

LEMMA LeaveWaitReportInv ==
  ASSUME ReportInv, LeaveWait
  PROVE  ReportInv'
<1> USE DEF ReportInv, LeaveWait
<1>1. CheckInv'
  BY LeaveWaitCheckInv
<1>2. Started' /\ GrainsOfDirectory' /\ NoneMadeUp' /\ RendersOwnHost'
  BY DEF Started, GrainsOfDirectory, NoneMadeUp, Found, RendersOwnHost
<1>3. Logs'
  BY LogsUntouched
<1>4. Counted'
  BY DEF Counted, CheckInv, Loops
<1> QED BY <1>1, <1>2, <1>3, <1>4

LEMMA CollectReportInv ==
  ASSUME ReportInv, NEW h \in Hosts, Collect(h)
  PROVE  ReportInv'
<1> USE DEF ReportInv, Collect, Over
<1>1. CheckInv'
  BY CollectCheckInv
<1>2. Started' /\ GrainsOfDirectory' /\ NoneMadeUp' /\ RendersOwnHost'
  BY DEF Started, GrainsOfDirectory, NoneMadeUp, Found, RendersOwnHost
<1>3. Logs'
  BY LogsUntouched
<1>4. Counted'
  <2>1. main' \in {"collect", "done"} /\ Hosts \ todo' = (Hosts \ todo) \cup {h}
    BY DEF CheckInv, TypeOK
  <2>2. failed >= 1 <=> \E g \in Hosts \ todo : job[g] = "failed"
    BY DEF Counted
  <2>3. CASE job[h] = "failed"
    <3>1. failed' >= 1
      BY <2>3 DEF CheckInv, TypeOK
    <3> QED BY <2>1, <2>3, <3>1 DEF Counted
  <2>4. CASE job[h] # "failed"
    BY <2>1, <2>2, <2>4 DEF Counted
  <2> QED BY <2>3, <2>4
<1> QED BY <1>1, <1>2, <1>3, <1>4

(* Rendering and logging keep to what was found, and to the directory.       *)
LEMMA SaltCallFinds ==
  ASSUME ReportInv, NEW h \in Hosts, SaltCall(h)
  PROVE  /\ NoneMadeUp' /\ RendersOwnHost' /\ rendered'[h] # None
         /\ \A g \in Hosts : g # h => rendered'[g] = rendered[g]
         /\ pillar[h] = "trace" => h \in stderr'[EnvOf[h]]
         /\ pillar[h] = "data" => h \in stdout'
         /\ \A e \in Envs : stderr[e] \subseteq stderr'[e]
<1> USE DEF ReportInv, SaltCall, Environment
<1>1. EnvOf[h] \in Envs
  BY HostsAssumption
<1>2. main # "prepare" /\ ~(main = "spawn" /\ h \in todo)
  BY DEF Started
<1>3. rendered'[h] # None /\ EnvOf[rendered'[h]] = EnvOf[h]
  BY <1>1, <1>2 DEF GrainsOfDirectory, CheckInv, TypeOK
<1>4. \A g \in Hosts : g # h => rendered'[g] = rendered[g]
  BY DEF CheckInv, TypeOK
<1>5. /\ \A e \in Envs : stderr[e] \subseteq stderr'[e]
      /\ \A e \in Envs : stderr'[e] \subseteq stderr[e] \cup {h}
      /\ pillar[h] = "trace" => h \in stderr'[EnvOf[h]]
      /\ pillar[h] # "trace" => stderr' = stderr
  BY <1>1 DEF CheckInv, TypeOK
<1>6. /\ pillar[h] = "data" => stdout' = stdout \cup {h}
      /\ pillar[h] # "data" => stdout' = stdout
  OBVIOUS
<1>7. \A g \in Hosts : Found(g) => Found(g)'
  BY <1>3, <1>4 DEF Found
<1>8. pillar[h] # "fine" => Found(h)'
  BY <1>3 DEF Found
<1>9. NoneMadeUp'
  BY <1>5, <1>6, <1>7, <1>8 DEF NoneMadeUp, CheckInv, TypeOK
<1> QED BY <1>3, <1>4, <1>5, <1>6, <1>9 DEF RendersOwnHost

LEMMA JobReportInv ==
  ASSUME ReportInv, NEW h \in Hosts, Check(h)
  PROVE  ReportInv'
<1> USE DEF ReportInv
<1>1. CheckInv'
  BY JobCheckInv
<1>2. /\ main' = main /\ todo' = todo /\ failed' = failed /\ grains' = grains
      /\ pillar' = pillar
  BY DEF Check, Open, SaltCall, Killed, Judge
<1>3. job[h] \in {"started", "open", "ended"}
  BY DEF Check, Open, SaltCall, Killed, Judge
<1>4. \A g \in Hosts : g # h => job'[g] = job[g]
  BY DEF Check, Open, SaltCall, Killed, Judge, CheckInv, TypeOK
<1>5. GrainsOfDirectory'
  BY <1>2 DEF GrainsOfDirectory
<1>6. Started'
  <2>1. job'[h] # "none"
    BY DEF Check, Open, SaltCall, Killed, Judge, CheckInv, TypeOK
  <2> QED BY <1>2, <1>3, <1>4, <2>1 DEF Started, CheckInv, TypeOK
<1>7. Counted'
  <2>1. main \in {"collect", "done"} => h \in todo
    BY <1>3 DEF CheckInv, TypeOK
  <2> QED BY <2>1, <1>2, <1>4 DEF Counted
<1>8. EnvOf[h] \in Envs /\ \A g \in Hosts : EnvOf[g] \in Envs
  BY HostsAssumption
<1>9. CASE Open(h)
  <2>1. \A e \in Envs : e # EnvOf[h] => stderr'[e] = stderr[e]
    BY <1>9 DEF Open, Environment, CheckInv, TypeOK
  <2>2. \A e \in Envs : stderr'[e] \subseteq stderr[e]
    BY <1>8, <1>9 DEF Open, Environment, CheckInv, TypeOK
  <2>3. NoneMadeUp' /\ RendersOwnHost'
    BY <1>2, <1>9, <2>2 DEF Open, NoneMadeUp, Found, RendersOwnHost
  <2>4. ASSUME NEW g \in Hosts, g # h PROVE Log(g)'
    <3>1. OwnDirectory(g) => stderr'[EnvOf[g]] = stderr[EnvOf[g]]
      BY <1>8, <2>1, <2>4 DEF OwnDirectory
    <3> QED BY <1>2, <1>4, <1>9, <2>4, <3>1
            DEF Open, Logs, Log, Kept, Found, OwnDirectory
  <2>5. Log(h)'
    BY <1>9 DEF Open, Logs, Log, CheckInv, TypeOK
  <2> QED BY <1>1, <1>5, <1>6, <1>7, <2>3, <2>4, <2>5 DEF Logs
<1>10. CASE SaltCall(h)
  <2>1. /\ NoneMadeUp' /\ RendersOwnHost'
        /\ \A g \in Hosts : g # h => rendered'[g] = rendered[g]
        /\ pillar[h] = "trace" => h \in stderr'[EnvOf[h]]
        /\ pillar[h] = "data" => h \in stdout'
        /\ \A e \in Envs : stderr[e] \subseteq stderr'[e]
        /\ rendered'[h] # None
    BY <1>10, SaltCallFinds
  <2>2. job'[h] = "ended" /\ stdout \subseteq stdout'
    BY <1>10 DEF SaltCall, CheckInv, TypeOK
  <2>3. ASSUME NEW g \in Hosts, g # h PROVE Log(g)'
    <3>1. Found(g)' <=> Found(g)
      BY <1>2, <2>1, <2>3 DEF Found
    <3>2. (\E k \in Hosts : Found(k)) => (\E k \in Hosts : Found(k)')
      BY <1>2, <2>1 DEF Found
    <3>3. /\ stderr[EnvOf[g]] # {} => stderr'[EnvOf[g]] # {}
          /\ g \in stdout => g \in stdout'
          /\ rendered'[g] = rendered[g] /\ job'[g] = job[g]
          /\ Kept(g)' <=> Kept(g)
      BY <1>2, <1>4, <1>8, <2>1, <2>2, <2>3, <3>1 DEF Kept, OwnDirectory
    <3> QED BY <1>2, <3>1, <3>2, <3>3 DEF Logs, Log, OwnDirectory
  <2>4. Log(h)'
    BY <1>2, <2>1, <2>2 DEF Log, Kept, Found
  <2> QED BY <1>1, <1>5, <1>6, <1>7, <2>1, <2>3, <2>4 DEF Logs
<1>11. CASE Killed(h)
  <2>1. NoneMadeUp' /\ RendersOwnHost'
    BY <1>2, <1>11 DEF Killed, NoneMadeUp, Found, RendersOwnHost
  <2>2. rendered[h] = None /\ job'[h] = "ended" /\ rendered' = rendered
    BY <1>11 DEF Killed, Logs, Log, CheckInv, TypeOK
  <2>3. Log(h)'
    BY <2>2 DEF Log, Kept, Found
  <2>4. ASSUME NEW g \in Hosts, g # h PROVE Log(g)'
    BY <1>2, <1>4, <1>11, <2>4 DEF Killed, Logs, Log, Kept, Found, OwnDirectory
  <2> QED BY <1>1, <1>5, <1>6, <1>7, <2>1, <2>3, <2>4 DEF Logs
<1>12. CASE Judge(h)
  <2>1. NoneMadeUp' /\ RendersOwnHost'
    BY <1>2, <1>12 DEF Judge, NoneMadeUp, Found, RendersOwnHost
  <2>2. UNCHANGED <<stderr, stdout, rendered, pillar>>
    BY <1>12 DEF Judge
  <2>3. Log(h)'
    <3>1. LooksBad(h) => \E g \in Hosts : Found(g)
      BY <1>8 DEF LooksBad, Environment, NoneMadeUp, CheckInv, TypeOK
    <3>2. Kept(h) => LooksBad(h)
      BY <1>12 DEF Judge, LooksBad, Environment, Logs, Log, Kept, Found,
                   CheckInv, TypeOK, Pillars
    <3>3. job'[h] = IF LooksBad(h) THEN "failed" ELSE "passed"
      BY <1>12 DEF Judge, CheckInv, TypeOK
    <3> QED BY <2>2, <3>1, <3>2, <3>3 DEF Log, Kept, Found, OwnDirectory
  <2>4. ASSUME NEW g \in Hosts, g # h PROVE Log(g)'
    BY <1>4, <2>2, <2>4 DEF Logs, Log, Kept, Found, OwnDirectory
  <2> QED BY <1>1, <1>5, <1>6, <1>7, <2>1, <2>3, <2>4 DEF Logs
<1> QED BY <1>9, <1>10, <1>11, <1>12 DEF Check

LEMMA ReportInvHolds == Spec => []ReportInv
<1>1. ASSUME ReportInv, [Next]_vars PROVE ReportInv'
  <2>1. CASE Script
    BY <1>1, <2>1, PrepareReportInv, SpawnReportInv, LeaveWaitReportInv,
       CollectReportInv DEF Script
  <2>2. CASE \E h \in Hosts : Check(h)
    BY <1>1, <2>2, JobReportInv
  <2>3. CASE Exited \/ UNCHANGED vars
    <3>1. CheckInv'
      BY <1>1, NextCheckInv DEF ReportInv
    <3>2. UNCHANGED vars
      BY <2>3 DEF Exited
    <3> QED BY <1>1, <3>1, <3>2 DEF vars, ReportInv, Started, GrainsOfDirectory,
            NoneMadeUp, Logs, Log, Kept, Found, OwnDirectory, Counted,
            RendersOwnHost
  <2> QED BY <1>1, <2>1, <2>2, <2>3 DEF Next
<1> QED BY <1>1, InitReportInv, PTL DEF Spec

(* Each pillar is rendered as its own host, or one it shares a directory     *)
(* with, whichever checks run at the same time (lines 15-27 and 76-84).      *)
THEOREM EachAsItself == Spec => []RendersOwnHost
<1>1. ReportInv => RendersOwnHost
  BY DEF ReportInv
<1> QED BY <1>1, ReportInvHolds, PTL

(* The exit code makes up no error, and hides none of a host that has its    *)
(* directory for itself (lines 54-62 and 105-116).                           *)
THEOREM ErrorsAreReported == Spec => []ErrorsReported
<1>1. ASSUME ReportInv PROVE ErrorsReported
  <2> SUFFICES ASSUME main = "done"
               PROVE  /\ ExitCode = 1 => \E h \in Hosts : Found(h)
                      /\ \A h \in Hosts : Kept(h) => ExitCode = 1
    BY DEF ErrorsReported, Kept
  <2>1. todo = {} /\ \A h \in Hosts : job[h] \in {"passed", "failed"}
    BY <1>1 DEF ReportInv, CheckInv, TypeOK, Loops
  <2>2. failed >= 1 <=> \E h \in Hosts : job[h] = "failed"
    BY <1>1, <2>1 DEF ReportInv, Counted
  <2>3. \A h \in Hosts : /\ job[h] = "passed" => ~Kept(h)
                         /\ job[h] = "failed" => \E g \in Hosts : Found(g)
    BY <1>1 DEF ReportInv, Logs, Log
  <2>4. ExitCode = 1 <=> failed >= 1
    BY DEF ExitCode
  <2> QED BY <2>1, <2>2, <2>3, <2>4
<1> QED BY <1>1, ReportInvHolds, PTL
-----------------------------------------------------------------------------
(* The script comes to its end, but for fairness *)

LEMMA SetsFinite ==
  /\ IsFiniteSet(Hosts) /\ Cardinality(Hosts) \in Nat
  /\ \A P : /\ IsFiniteSet(At(P)) /\ Cardinality(At(P)) \in Nat
            /\ Cardinality(At(P)') \in Nat
<1>1. IsFiniteSet(Hosts) /\ Cardinality(Hosts) \in Nat
  BY HostsAssumption, FS_CardinalityType
<1>2. ASSUME NEW P
      PROVE  /\ IsFiniteSet(At(P)) /\ Cardinality(At(P)) \in Nat
             /\ Cardinality(At(P)') \in Nat
  <2>1. At(P) \subseteq Hosts /\ At(P)' \subseteq Hosts
    BY DEF At
  <2>2. IsFiniteSet(At(P)) /\ IsFiniteSet(At(P)')
    BY <1>1, <2>1, FS_Subset
  <2> QED BY <2>2, FS_CardinalityType
<1> QED BY <1>1, <1>2

(* One check goes from one phase to a later one.                             *)
LEMMA OneMoves ==
  ASSUME CheckInv, NEW h \in Hosts, NEW to,
         job' = [job EXCEPT ![h] = to], NEW P, to \notin P
  PROVE  Cardinality(At(P)') =
            IF job[h] \in P THEN Cardinality(At(P)) - 1 ELSE Cardinality(At(P))
<1>1. At(P)' = At(P) \ {h}
  BY DEF At, CheckInv, TypeOK
<1>2. CASE job[h] \in P
  <2>1. h \in At(P)
    BY <1>2 DEF At
  <2>2. IsFiniteSet(At(P))
    BY SetsFinite
  <2>3. Cardinality(At(P) \ {h}) = Cardinality(At(P)) - 1
    BY <2>1, <2>2, FS_RemoveElement
  <2> QED BY <1>1, <1>2, <2>3
<1>3. CASE job[h] \notin P
  <2>1. At(P) \ {h} = At(P)
    BY <1>3 DEF At
  <2> QED BY <1>1, <1>3, <2>1
<1> QED BY <1>2, <1>3

LEMMA NoneMoves ==
  ASSUME CheckInv, NEW h \in Hosts, NEW to,
         job' = [job EXCEPT ![h] = to], NEW P, to \in P, job[h] \in P
  PROVE  Cardinality(At(P)') = Cardinality(At(P))
<1>1. At(P)' = At(P)
  BY DEF At, CheckInv, TypeOK
<1> QED BY <1>1

(* A check that goes one phase further leaves less to be done.               *)
LEMMA CheckWorkFalls ==
  ASSUME CheckInv, NEW h \in Hosts, NEW to,
         job' = [job EXCEPT ![h] = to],
         \/ job[h] = "none" /\ to = "started"
         \/ job[h] = "started" /\ to = "open"
         \/ job[h] = "open" /\ to = "ended"
         \/ job[h] = "ended" /\ to \in {"passed", "failed"}
  PROVE  CheckWork' = CheckWork - 1
<1> DEFINE P1 == {"none"}
           P2 == {"none", "started"}
           P3 == {"none", "started", "open"}
           P4 == {"none", "started", "open", "ended"}
<1>1. \A P \in {P1, P2, P3, P4} :
         Cardinality(At(P)') =
            IF job[h] \in P /\ to \notin P THEN Cardinality(At(P)) - 1
                                          ELSE Cardinality(At(P))
  <2> SUFFICES ASSUME NEW P \in {P1, P2, P3, P4}
               PROVE  Cardinality(At(P)') =
                         IF job[h] \in P /\ to \notin P
                         THEN Cardinality(At(P)) - 1 ELSE Cardinality(At(P))
    OBVIOUS
  <2>1. CASE to \notin P
    BY <2>1, OneMoves, Zenon
  <2>2. CASE to \in P
    <3>1. job[h] \in P
      BY <2>2
    <3>2. Cardinality(At(P)') = Cardinality(At(P))
      BY <2>2, <3>1, NoneMoves, Zenon
    <3> QED BY <2>2, <3>2
  <2> QED BY <2>1, <2>2
<1>2. \A P \in {P1, P2, P3, P4} : Cardinality(At(P)) \in Nat
  BY SetsFinite, Zenon
<1>3. CheckWork = Cardinality(At(P1)) + Cardinality(At(P2))
                    + Cardinality(At(P3)) + Cardinality(At(P4))
  BY DEF CheckWork
<1>4. CheckWork' = Cardinality(At(P1)') + Cardinality(At(P2)')
                     + Cardinality(At(P3)') + Cardinality(At(P4)')
  BY DEF CheckWork
<1>5. ASSUME NEW P \in {P1, P2, P3, P4}
      PROVE  /\ (job[h] \in P /\ to \notin P) =>
                    Cardinality(At(P)') = Cardinality(At(P)) - 1
             /\ ~(job[h] \in P /\ to \notin P) =>
                    Cardinality(At(P)') = Cardinality(At(P))
  BY <1>1
<1>6. \/ /\ job[h] \in P1 /\ to \notin P1 /\ to \in P2 /\ to \in P3 /\ to \in P4
      \/ /\ job[h] \notin P1 /\ job[h] \in P2 /\ to \notin P2 /\ to \in P3 /\ to \in P4
      \/ /\ job[h] \notin P1 /\ job[h] \notin P2 /\ job[h] \in P3 /\ to \notin P3
         /\ to \in P4
      \/ /\ job[h] \notin P1 /\ job[h] \notin P2 /\ job[h] \notin P3 /\ job[h] \in P4
         /\ to \notin P4
  OBVIOUS
<1> HIDE DEF P1, P2, P3, P4
<1> QED BY <1>2, <1>3, <1>4, <1>5, <1>6

LEMMA CheckWorkSame ==
  ASSUME UNCHANGED job
  PROVE  CheckWork' = CheckWork
<1>1. ASSUME NEW P PROVE At(P)' = At(P)
  BY DEF At
<1> QED BY <1>1 DEF CheckWork

(* The loops of the script have less to do when one of them goes on.         *)
LEMMA LoopWorkFalls ==
  ASSUME CheckInv, NEW h \in todo,
         \/ main \in {"prepare", "spawn"} /\ todo # {h}
               /\ main' = main /\ todo' = todo \ {h}
         \/ main = "prepare" /\ todo = {h} /\ main' = "spawn" /\ todo' = Hosts
         \/ main = "spawn" /\ todo = {h} /\ main' = "wait" /\ todo' = Hosts
         \/ main = "collect" /\ main' \in {"collect", "done"} /\ todo' = todo \ {h}
  PROVE  LoopWork' \in Int /\ LoopWork \in Int /\ LoopWork' < LoopWork
<1>1. IsFiniteSet(todo) /\ Cardinality(todo) \in Nat
  BY SetsFinite, FS_Subset, FS_CardinalityType DEF CheckInv, TypeOK
<1>2. Cardinality(todo \ {h}) = Cardinality(todo) - 1
  BY <1>1, FS_RemoveElement
<1>3. Cardinality(Hosts) \in Nat
  BY SetsFinite
<1>4. CASE todo' = todo \ {h} /\ LoopsLeft' = LoopsLeft
  <2>1. LoopsLeft \in {0, 1, 2, 3}
    BY DEF LoopsLeft
  <2> QED BY <1>1, <1>2, <1>3, <1>4, <2>1 DEF LoopWork
<1>5. CASE main = "prepare" /\ main' = "spawn" /\ todo' = Hosts
  BY <1>1, <1>3, <1>5 DEF LoopWork, LoopsLeft
<1>6. CASE main = "spawn" /\ main' = "wait" /\ todo' = Hosts /\ todo = {h}
  BY <1>1, <1>3, <1>6 DEF LoopWork, LoopsLeft
<1> QED BY <1>4, <1>5, <1>6 DEF LoopsLeft

(* The loops have less to do, and the checks no more.                        *)
LEMMA WorkFalls ==
  ASSUME LoopWork \in Int, LoopWork' \in Int, LoopWork' < LoopWork,
         CheckWork \in Int, CheckWork' \in {CheckWork, CheckWork - 1}
  PROVE  WorkLeft' < WorkLeft
<1>1. ASSUME NEW l \in Int, NEW m \in Int, NEW c \in Int, NEW d \in {c, c - 1},
             m < l
      PROVE  m + d < l + c
  BY <1>1
<1>2. LoopWork' + CheckWork' < LoopWork + CheckWork
  BY <1>1
<1> QED BY <1>2 DEF WorkLeft

LEMMA ScriptWorkFalls ==
  ASSUME ReportInv, Script
  PROVE  WorkLeft' < WorkLeft
<1> CheckInv /\ Started
  BY DEF ReportInv
<1>1. CheckWork \in Int
  BY SetsFinite DEF CheckWork
<1>2. CASE LeaveWait
  <2>1. CheckWork' = CheckWork
    BY <1>2, CheckWorkSame DEF LeaveWait
  <2>2. Cardinality(todo) \in Nat /\ Cardinality(Hosts) \in Nat
    BY SetsFinite, FS_Subset, FS_CardinalityType DEF CheckInv, TypeOK
  <2>3. LoopsLeft = 1 /\ LoopsLeft' = 0 /\ todo' = todo
    BY <1>2 DEF LeaveWait, LoopsLeft
  <2>4. LoopWork' < LoopWork /\ LoopWork \in Int /\ LoopWork' \in Int
    BY <2>2, <2>3 DEF LoopWork
  <2> QED BY <1>1, <2>1, <2>4, WorkFalls
<1>3. ASSUME NEW h \in Hosts, Prepare(h) \/ Collect(h)
      PROVE  WorkLeft' < WorkLeft
  <2>1. CheckWork' = CheckWork
    BY <1>3, CheckWorkSame DEF Prepare, Collect
  <2>2. h \in todo
    BY <1>3 DEF Prepare, Collect
  <2>3. \/ main = "prepare" /\ todo # {h} /\ main' = main /\ todo' = todo \ {h}
        \/ main = "prepare" /\ todo = {h} /\ main' = "spawn" /\ todo' = Hosts
        \/ /\ main = "collect" /\ main' \in {"collect", "done"}
           /\ todo' = todo \ {h}
    BY <1>3 DEF Prepare, Collect, LoopOver
  <2>4. LoopWork' < LoopWork /\ LoopWork \in Int /\ LoopWork' \in Int
    BY <2>2, <2>3, LoopWorkFalls
  <2> QED BY <1>1, <2>1, <2>4, WorkFalls
<1>4. ASSUME NEW h \in Hosts, Spawn(h)
      PROVE  WorkLeft' < WorkLeft
  <2>1. job[h] = "none" /\ job' = [job EXCEPT ![h] = "started"] /\ h \in todo
    BY <1>4 DEF Spawn, Started
  <2>2. CheckWork' = CheckWork - 1
    BY <2>1, CheckWorkFalls
  <2>3. \/ main = "spawn" /\ todo # {h} /\ main' = main /\ todo' = todo \ {h}
        \/ main = "spawn" /\ todo = {h} /\ main' = "wait" /\ todo' = Hosts
    BY <1>4 DEF Spawn, LoopOver
  <2>4. LoopWork' < LoopWork /\ LoopWork \in Int /\ LoopWork' \in Int
    BY <2>1, <2>3, LoopWorkFalls
  <2> QED BY <1>1, <2>2, <2>4, WorkFalls
<1> QED BY <1>2, <1>3, <1>4 DEF Script

LEMMA JobWorkFalls ==
  ASSUME CheckInv, NEW h \in Hosts, Check(h)
  PROVE  WorkLeft' < WorkLeft
<1>1. PICK to \in {"open", "ended", "passed", "failed"} :
         /\ job' = [job EXCEPT ![h] = to]
         /\ \/ job[h] = "started" /\ to = "open"
            \/ job[h] = "open" /\ to = "ended"
            \/ job[h] = "ended" /\ to \in {"passed", "failed"}
  <2>1. CASE Open(h)
    BY <2>1 DEF Open
  <2>2. CASE SaltCall(h) \/ Killed(h)
    BY <2>2 DEF SaltCall, Killed
  <2>3. CASE Judge(h) /\ LooksBad(h)
    BY <2>3 DEF Judge
  <2>4. CASE Judge(h) /\ ~LooksBad(h)
    BY <2>4 DEF Judge
  <2> QED BY <2>1, <2>2, <2>3, <2>4 DEF Check
<1>2. CheckWork' = CheckWork - 1
  BY <1>1, CheckWorkFalls
<1>3. CheckWork \in Int
  BY SetsFinite DEF CheckWork
<1>4. main' = main /\ todo' = todo
  BY DEF Check, Open, SaltCall, Killed, Judge
<1>5. LoopWork' = LoopWork
  BY <1>4 DEF LoopWork, LoopsLeft
<1>6. LoopWork \in Int
  <2>1. Cardinality(todo) \in Nat /\ Cardinality(Hosts) \in Nat
    BY SetsFinite, FS_Subset, FS_CardinalityType DEF CheckInv, TypeOK
  <2>2. LoopsLeft \in {0, 1, 2, 3}
    BY DEF LoopsLeft
  <2> QED BY <2>1, <2>2 DEF LoopWork
<1> QED BY <1>2, <1>3, <1>5, <1>6 DEF WorkLeft

(* Every step of the script and of a check leaves less to be done: no host   *)
(* is prepared, started, run, judged or collected twice (lines 50-109).      *)
THEOREM NothingTwice == Spec => WorkShrinks
<1>1. ASSUME ReportInv, [Next]_vars PROVE [WorkLeft' < WorkLeft]_vars
  <2>1. CASE Script
    BY <1>1, <2>1, ScriptWorkFalls
  <2>2. CASE \E h \in Hosts : Check(h)
    BY <1>1, <2>2, JobWorkFalls DEF ReportInv
  <2>3. CASE Exited \/ UNCHANGED vars
    BY <2>3 DEF Exited
  <2> QED BY <1>1, <2>1, <2>2, <2>3 DEF Next
<1> QED BY <1>1, ReportInvHolds, PTL DEF Spec, WorkShrinks

(* With no check running, the script waits for nothing (lines 88-109).       *)
THEOREM ScriptNeverStuck == Spec => []NeverStuck
<1>1. ASSUME ReportInv PROVE NeverStuck
  <2> SUFFICES ASSUME main # "done", Running = {}
               PROVE  \/ main = "prepare" /\ todo # {}
                      \/ main = "spawn" /\ todo # {} /\ MaySpawn
                      \/ main = "wait" /\ StoppedWaiting
                      \/ main = "collect" /\ \E h \in todo : Over(h)
    BY DEF NeverStuck
  <2>1. main \in {"prepare", "spawn", "collect"} => todo # {}
    BY <1>1 DEF ReportInv, CheckInv, Loops
  <2>2. MaySpawn /\ StoppedWaiting
    BY FS_EmptySet, BatchAssumption DEF MaySpawn, StoppedWaiting
  <2>3. main = "collect" => \A h \in todo : Over(h)
    BY <1>1 DEF ReportInv, CheckInv, TypeOK, Started, Running, Over, JobPhases
  <2> QED BY <1>1, <2>1, <2>2, <2>3 DEF ReportInv, CheckInv, TypeOK, Phases
<1> QED BY <1>1, ReportInvHolds, PTL
=============================================================================
