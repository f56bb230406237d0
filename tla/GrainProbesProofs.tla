--------------------------- MODULE GrainProbesProofs ---------------------------
(***************************************************************************)
(* A probe that says a server is local names a process that was one, and   *)
(* one that is over is right about a server that held still: for any       *)
(* process ids and any number of things that happen beside it.             *)
(***************************************************************************)
EXTENDS GrainProbes, TLAPS

(* What a probe knows at each place, of a machine that may have moved on.    *)
Early == pc \in {"scan", "client", "first"}

Answered == pc \in {"pidfile", "comm"}

(* Queries: the plain one is mysql's, and follows the first.                 *)
Asked ==
    /\ Early => waited = 0
    /\ pc = "plain" => waited \in 0..1 /\ kind = "mysql"
    /\ Early \/ pc = "plain" => ~grain.available
    /\ Early => ~grain.auth_required
    /\ Answered => grain.available
    /\ pc # "done" => ~grain.local

(* The process id that will be looked up is the one that is reported.        *)
ToldPid == pc = "comm" => told = grain.pid

(* Servers of this machine are taken down from the answer on.                *)
Noted == Answered => Servers \subseteq mine

(* The pidfile of a server that runs here is its own.                        *)
OwnPidfile == here /\ pid # None => pidfile = pid

(* What follows from a server that has held still.                           *)
Steady ==
    steady =>
      /\ pc = "plain" => mood # "rich"
      /\ Answered => mood = "rich" /\ pid # None
      /\ pc = "comm" /\ here => told = pid
      /\ pc \notin {"scan", "client"} => client \/ pc = "done"

ProbeInv ==
    /\ TypeOK
    /\ Asked /\ ToldPid /\ Noted /\ OwnPidfile /\ Steady
    /\ LiveMeansAvailable /\ LocalIsServer /\ HereMeansLocal

LEMMA InitProbeInv == Init => ProbeInv
<1> SUFFICES ASSUME Init PROVE ProbeInv
  OBVIOUS
<1> USE ProbeAssumption DEF Init, NothingFound
<1>1. TypeOK
  <2>1. events \in 0..MaxEvents /\ waited \in 0..Queries
    BY DEF Queries
  <2>2. grain \in [available : BOOLEAN, local : BOOLEAN,
                   flavor : Flavors \cup {None}, pid : Pids \cup {None},
                   process : BOOLEAN, auth_required : BOOLEAN]
    OBVIOUS
  <2>3. mood \in Moods[kind] /\ (pid = None => mood = "refuse")
    BY DEF Moods
  <2>4. pid \in Pids \cup {None} /\ ((here /\ pid # None) => proc[pid] = "server")
    BY DEF Servers
  <2>5. {client, here, steady} \subseteq BOOLEAN
    OBVIOUS
  <2> QED BY <2>1, <2>2, <2>3, <2>4, <2>5 DEF TypeOK
<1>2. Asked /\ ToldPid /\ Noted /\ OwnPidfile /\ Steady
  BY DEF Asked, ToldPid, Noted, OwnPidfile, Steady, Early, Answered
<1>3. LiveMeansAvailable /\ LocalIsServer /\ HereMeansLocal
  BY DEF LiveMeansAvailable, LocalIsServer, HereMeansLocal
<1> QED BY <1>1, <1>2, <1>3 DEF ProbeInv

-----------------------------------------------------------------------------
(* Steps of the probe *)

GrainType ==
    [available : BOOLEAN, local : BOOLEAN, flavor : Flavors \cup {None},
     pid : Pids \cup {None}, process : BOOLEAN, auth_required : BOOLEAN]

(* A step of the probe leaves the machine as it is; the type of the rest.    *)
LEMMA ProbeTypes ==
  ASSUME TypeOK, UNCHANGED machine, steady' = steady,
         pc' \in {"scan", "client", "first", "plain", "pidfile", "comm", "done"},
         grain' \in GrainType, waited' \in 0..Queries,
         told' \in Pids \cup {None}, mine' \subseteq Pids,
         grain'.available <=> grain'.flavor # None,
         grain'.local => grain'.available /\ grain'.pid # None /\ pc' = "done",
         grain'.auth_required => kind = "redis" /\ ~grain'.available
  PROVE  TypeOK'
  BY DEF TypeOK, GrainType, machine, Queries

LEMMA ScanProbeInv ==
  ASSUME ProbeInv, Scan
  PROVE  ProbeInv'
<1> USE DEF ProbeInv, Scan, machine
<1>1. /\ grain' \in GrainType
      /\ grain'.available = grain.available /\ grain'.local = grain.local
      /\ grain'.flavor = grain.flavor /\ grain'.pid = grain.pid
      /\ grain'.auth_required = grain.auth_required
  BY DEF TypeOK, GrainType
<1>2. TypeOK'
  BY <1>1, ProbeTypes DEF TypeOK, Asked
<1>3. Asked' /\ ToldPid' /\ Noted' /\ OwnPidfile' /\ Steady'
  BY <1>1 DEF Asked, ToldPid, Noted, OwnPidfile, Steady, Early, Answered
<1>4. LiveMeansAvailable' /\ LocalIsServer' /\ HereMeansLocal'
  BY <1>1 DEF LiveMeansAvailable, LocalIsServer, HereMeansLocal, Asked
<1> QED BY <1>2, <1>3, <1>4

LEMMA FindClientProbeInv ==
  ASSUME ProbeInv, FindClient
  PROVE  ProbeInv'
<1> USE DEF ProbeInv, FindClient, machine
<1>1. grain \in GrainType /\ ~grain.local /\ ~grain.available
  BY DEF TypeOK, GrainType, Asked, Early
<1>2. TypeOK'
  BY <1>1, ProbeTypes DEF TypeOK
<1>3. Asked' /\ ToldPid' /\ Noted' /\ OwnPidfile' /\ Steady'
  BY <1>1 DEF Asked, ToldPid, Noted, OwnPidfile, Steady, Early, Answered, TypeOK
<1>4. LiveMeansAvailable' /\ LocalIsServer' /\ HereMeansLocal'
  BY <1>1 DEF LiveMeansAvailable, LocalIsServer, HereMeansLocal
<1> QED BY <1>2, <1>3, <1>4

(* The fields of an available grain.                                         *)
LEMMA FoundFields ==
  ASSUME TypeOK, NEW p \in Pids \cup {None}, NEW next, Found(p, next)
  PROVE  /\ grain' \in GrainType
         /\ grain'.available /\ grain'.flavor # None
         /\ grain'.pid = IF kind = "redis" THEN p ELSE None
         /\ grain'.local = grain.local
         /\ grain'.auth_required = grain.auth_required
         /\ told' = p /\ pc' = next /\ mine' = Servers
<1>1. Flavor \in Flavors /\ Flavor # None
  BY ProbeAssumption DEF Flavor, Flavors
<1> QED BY <1>1 DEF Found, TypeOK, GrainType

LEMMA RichServedProbeInv ==
  ASSUME ProbeInv, RichServed
  PROVE  ProbeInv'
<1> USE DEF ProbeInv, RichServed, machine
<1>1. Found(pid, IF kind = "mysql" THEN "pidfile" ELSE "comm") /\ pid \in Pids \cup {None}
  BY DEF TypeOK
<1>2. /\ grain' \in GrainType
      /\ grain'.available /\ grain'.flavor # None
      /\ grain'.pid = IF kind = "redis" THEN pid ELSE None
      /\ grain'.local = grain.local
      /\ grain'.auth_required = grain.auth_required
      /\ told' = pid /\ mine' = Servers
      /\ pc' = IF kind = "mysql" THEN "pidfile" ELSE "comm"
  BY <1>1, FoundFields
<1>3. ~grain'.local /\ ~grain'.auth_required
  BY <1>2 DEF Asked, Early, Answered
<1>4. pid # None /\ kind \in {"mysql", "redis"}
  BY DEF TypeOK
<1>5. TypeOK'
  BY <1>2, <1>3, ProbeTypes DEF TypeOK, Servers
<1>6. Asked' /\ ToldPid' /\ OwnPidfile' /\ Steady'
  BY <1>2, <1>3, <1>4 DEF Asked, ToldPid, OwnPidfile, Steady, Early, Answered
<1>7. Noted'
  BY <1>2 DEF Noted, Servers
<1>8. LiveMeansAvailable' /\ LocalIsServer' /\ HereMeansLocal'
  BY <1>2, <1>3 DEF LiveMeansAvailable, LocalIsServer, HereMeansLocal
<1> QED BY <1>5, <1>6, <1>7, <1>8

LEMMA FirstFailsProbeInv ==
  ASSUME ProbeInv, FirstFails
  PROVE  ProbeInv'
<1> USE DEF ProbeInv, FirstFails, machine
<1>1. /\ grain' \in GrainType
      /\ grain'.available = grain.available /\ grain'.local = grain.local
      /\ grain'.flavor = grain.flavor /\ grain'.pid = grain.pid
      /\ grain'.auth_required = Locked
  BY DEF TypeOK, GrainType, Locked
<1>2. ~grain'.available /\ ~grain'.local /\ waited = 0
  BY <1>1 DEF Asked, Early, Answered
<1>3. Locked => kind = "redis"
  BY DEF Locked
<1>4. pc' = IF kind = "mysql" THEN "plain" ELSE "done"
  BY DEF AfterFailure
<1>5. TypeOK'
  BY <1>1, <1>2, <1>3, <1>4, ProbeTypes DEF TypeOK
<1>6. Asked' /\ ToldPid' /\ Noted' /\ OwnPidfile'
  BY <1>1, <1>2, <1>4 DEF Asked, ToldPid, Noted, OwnPidfile, Early, Answered
<1>7. Steady'
  BY <1>3, <1>4 DEF Steady, Answered
<1>8. LiveMeansAvailable'
  BY <1>2, <1>4 DEF LiveMeansAvailable, Locked, TypeOK, Moods
<1>9. LocalIsServer' /\ HereMeansLocal'
  BY <1>2 DEF LocalIsServer, HereMeansLocal
<1> QED BY <1>5, <1>6, <1>7, <1>8, <1>9

LEMMA TimesOutProbeInv ==
  ASSUME ProbeInv, TimesOut
  PROVE  ProbeInv'
<1> USE DEF ProbeInv, TimesOut, machine
<1>1. grain \in GrainType /\ ~grain.available /\ ~grain.local
  BY DEF TypeOK, GrainType, Asked, Early
<1>2. pc' = IF pc = "first" /\ kind = "mysql" THEN "plain" ELSE "done"
  BY DEF AfterFailure
<1>3. mood = "hang"
  BY DEF Killed
<1>4. /\ waited' \in 0..Queries
      /\ pc' = "plain" => waited' \in 0..1
  BY <1>2 DEF Asked, Early, Answered, Queries
<1>5. TypeOK'
  BY <1>1, <1>2, <1>4, ProbeTypes DEF TypeOK
<1>6. Asked'
  BY <1>1, <1>2, <1>4 DEF Asked, Early, Answered
<1>7. ToldPid' /\ Noted' /\ OwnPidfile' /\ Steady'
  BY <1>2, <1>3 DEF ToldPid, Noted, OwnPidfile, Steady, Answered
<1>8. LiveMeansAvailable' /\ LocalIsServer' /\ HereMeansLocal'
  BY <1>1, <1>3 DEF LiveMeansAvailable, LocalIsServer, HereMeansLocal
<1> QED BY <1>5, <1>6, <1>7, <1>8

LEMMA PlainServedProbeInv ==
  ASSUME ProbeInv, PlainServed
  PROVE  ProbeInv'
<1> USE DEF ProbeInv, PlainServed, machine
<1>1. /\ grain' \in GrainType
      /\ grain'.available /\ grain'.flavor # None
      /\ grain'.local = grain.local
      /\ grain'.auth_required = grain.auth_required
      /\ told' = None /\ pc' = "done" /\ mine' = Servers
  BY FoundFields
<1>2. ~grain'.local /\ kind = "mysql"
  BY <1>1 DEF Asked
<1>3. ~grain'.auth_required
  BY <1>1, <1>2 DEF TypeOK
<1>4. TypeOK'
  BY <1>1, <1>2, <1>3, ProbeTypes DEF TypeOK, Servers
<1>5. Asked' /\ ToldPid' /\ Noted' /\ OwnPidfile' /\ Steady'
  BY <1>1, <1>2 DEF Asked, ToldPid, Noted, OwnPidfile, Steady, Early, Answered
<1>6. LiveMeansAvailable' /\ LocalIsServer' /\ HereMeansLocal'
  BY <1>1, <1>2 DEF LiveMeansAvailable, LocalIsServer, HereMeansLocal, Steady
<1> QED BY <1>4, <1>5, <1>6

LEMMA PlainFailsProbeInv ==
  ASSUME ProbeInv, PlainFails
  PROVE  ProbeInv'
<1> USE DEF ProbeInv, PlainFails, machine
<1>1. grain \in GrainType /\ ~grain.available /\ ~grain.local
  BY DEF TypeOK, GrainType, Asked
<1>2. TypeOK'
  BY <1>1, ProbeTypes DEF TypeOK
<1>3. Asked' /\ ToldPid' /\ Noted' /\ OwnPidfile' /\ Steady'
  BY <1>1 DEF Asked, ToldPid, Noted, OwnPidfile, Steady, Early, Answered
<1>4. LiveMeansAvailable' /\ LocalIsServer' /\ HereMeansLocal'
  BY <1>1 DEF LiveMeansAvailable, LocalIsServer, HereMeansLocal
<1> QED BY <1>2, <1>3, <1>4

LEMMA ReadPidfileProbeInv ==
  ASSUME ProbeInv, ReadPidfile
  PROVE  ProbeInv'
<1> USE DEF ProbeInv, ReadPidfile, machine
<1>1. /\ grain' \in GrainType
      /\ grain'.available = grain.available /\ grain'.local = grain.local
      /\ grain'.flavor = grain.flavor /\ grain'.pid = pidfile
      /\ grain'.auth_required = grain.auth_required
  BY DEF TypeOK, GrainType
<1>2. ~grain'.local
  BY <1>1 DEF Asked
<1>3. TypeOK'
  BY <1>1, <1>2, ProbeTypes DEF TypeOK
<1>4. Asked' /\ ToldPid' /\ OwnPidfile'
  BY <1>1, <1>2 DEF Asked, ToldPid, OwnPidfile, Early, Answered
<1>5. Noted'
  BY DEF Noted, Servers, Answered
<1>6. Steady'
  BY <1>1 DEF Steady, Answered, OwnPidfile
<1>7. LiveMeansAvailable' /\ LocalIsServer' /\ HereMeansLocal'
  BY <1>1, <1>2 DEF LiveMeansAvailable, LocalIsServer, HereMeansLocal
<1> QED BY <1>3, <1>4, <1>5, <1>6, <1>7

LEMMA ReadCommProbeInv ==
  ASSUME ProbeInv, ReadComm
  PROVE  ProbeInv'
<1> USE DEF ProbeInv, ReadComm, machine
<1>1. /\ grain' \in GrainType
      /\ grain'.available = grain.available
      /\ grain'.local <=> told # None /\ proc[told] = "server"
      /\ grain'.flavor = grain.flavor /\ grain'.pid = grain.pid
      /\ grain'.auth_required = grain.auth_required
  BY DEF TypeOK, GrainType, PidIsServer
<1>2. told = grain.pid /\ Servers \subseteq mine
  BY DEF ToldPid, Noted, Answered
<1>3. grain'.local => grain'.pid \in mine /\ grain'.pid # None
  BY <1>1, <1>2 DEF TypeOK, Servers
<1>4. grain.available
  BY DEF Asked, Answered
<1>5. TypeOK'
  BY <1>1, <1>3, <1>4, ProbeTypes DEF TypeOK
<1>6. Asked' /\ ToldPid' /\ Noted' /\ OwnPidfile' /\ Steady'
  BY <1>1 DEF Asked, ToldPid, Noted, OwnPidfile, Steady, Early, Answered
<1>7. LiveMeansAvailable'
  BY <1>1, <1>4 DEF LiveMeansAvailable, Steady, Answered
<1>8. LocalIsServer'
  BY <1>1, <1>2, <1>3 DEF LocalIsServer, Steady
<1>9. HereMeansLocal'
  BY <1>1 DEF HereMeansLocal, Steady, Answered, TypeOK
<1> QED BY <1>5, <1>6, <1>7, <1>8, <1>9

-----------------------------------------------------------------------------
(* What happens beside it *)

LEMMA HappensTypes ==
  ASSUME TypeOK, Happens
  PROVE  events' \in 0..MaxEvents
  BY ProbeAssumption DEF TypeOK, Happens

LEMMA ServerStopsProbeInv ==
  ASSUME ProbeInv, ServerStops
  PROVE  ProbeInv'
<1> USE DEF ProbeInv, ServerStops
<1>1. events' \in 0..MaxEvents /\ pc # "done"
  BY HappensTypes DEF Happens
<1>2. proc' \in [Pids -> {"free", "server", "other"}] /\ Servers' \subseteq Servers
  BY DEF TypeOK, Servers
<1>3. pidfile' \in Pids \cup {None}
  BY DEF TypeOK
<1>4. mood' \in Moods[kind]
  BY DEF TypeOK, Moods
<1>5. TypeOK'
  BY <1>1, <1>2, <1>3, <1>4 DEF TypeOK, Queries
<1>6. Asked' /\ ToldPid' /\ Noted' /\ OwnPidfile' /\ Steady'
  BY <1>2 DEF Asked, ToldPid, Noted, OwnPidfile, Steady, Early, Answered
<1>7. LiveMeansAvailable' /\ LocalIsServer' /\ HereMeansLocal'
  BY <1>1 DEF LiveMeansAvailable, LocalIsServer, HereMeansLocal, Asked
<1> QED BY <1>5, <1>6, <1>7

LEMMA ServerStartsProbeInv ==
  ASSUME ProbeInv, ServerStarts
  PROVE  ProbeInv'
<1> USE DEF ProbeInv, ServerStarts
<1>1. events' \in 0..MaxEvents /\ pc # "done"
  BY HappensTypes DEF Happens
<1>2. PICK p \in Pids :
        /\ here => proc[p] = "free"
        /\ pid' = p
        /\ proc' = IF here THEN [proc EXCEPT ![p] = "server"] ELSE proc
        /\ pidfile' = IF here THEN p ELSE pidfile
        /\ mine' = IF here THEN mine \cup {p} ELSE mine
  OBVIOUS
<1>3. /\ proc' \in [Pids -> {"free", "server", "other"}]
      /\ here => proc'[p] = "server"
      /\ pidfile' \in Pids \cup {None} /\ mine' \subseteq Pids
  BY <1>2 DEF TypeOK
<1>4. pid' \in Pids /\ pid' # None
  BY <1>2, ProbeAssumption
<1>5. TypeOK'
  BY <1>1, <1>2, <1>3, <1>4 DEF TypeOK, Queries
<1>6. Noted'
  BY <1>2 DEF Noted, Servers, Answered, TypeOK
<1>7. Asked' /\ ToldPid' /\ OwnPidfile' /\ Steady'
  BY <1>2 DEF Asked, ToldPid, OwnPidfile, Steady, Early, Answered
<1>8. LiveMeansAvailable' /\ LocalIsServer' /\ HereMeansLocal'
  BY <1>1 DEF LiveMeansAvailable, LocalIsServer, HereMeansLocal, Asked
<1> QED BY <1>5, <1>6, <1>7, <1>8

LEMMA MoodChangesProbeInv ==
  ASSUME ProbeInv, MoodChanges
  PROVE  ProbeInv'
<1> USE DEF ProbeInv, MoodChanges
<1>1. events' \in 0..MaxEvents /\ pc # "done"
  BY HappensTypes DEF Happens
<1>2. TypeOK'
  BY <1>1 DEF TypeOK, Queries
<1>3. Asked' /\ ToldPid' /\ Noted' /\ OwnPidfile' /\ Steady'
  BY DEF Asked, ToldPid, Noted, OwnPidfile, Steady, Early, Answered, Servers
<1>4. LiveMeansAvailable' /\ LocalIsServer' /\ HereMeansLocal'
  BY <1>1 DEF LiveMeansAvailable, LocalIsServer, HereMeansLocal, Asked
<1> QED BY <1>2, <1>3, <1>4

LEMMA OtherStartsProbeInv ==
  ASSUME ProbeInv, OtherStarts
  PROVE  ProbeInv'
<1> USE DEF ProbeInv, OtherStarts
<1>1. events' \in 0..MaxEvents /\ pc # "done"
  BY HappensTypes DEF Happens
<1>2. PICK p \in Pids :
        /\ proc[p] = "free"
        /\ proc' = [proc EXCEPT ![p] = "server"]
        /\ mine' = mine \cup {p}
        /\ pidfile' \in IF here THEN {pidfile} ELSE {pidfile, p}
  OBVIOUS
<1>3. /\ proc' \in [Pids -> {"free", "server", "other"}]
      /\ \A q \in Pids : proc[q] = "server" => proc'[q] = "server"
      /\ pidfile' \in Pids \cup {None} /\ mine' \subseteq Pids
  BY <1>2 DEF TypeOK
<1>4. TypeOK'
  BY <1>1, <1>3 DEF TypeOK, Queries
<1>5. Noted'
  BY <1>2 DEF Noted, Servers, Answered, TypeOK
<1>6. Asked' /\ ToldPid' /\ OwnPidfile' /\ Steady'
  BY <1>2 DEF Asked, ToldPid, OwnPidfile, Steady, Early, Answered
<1>7. LiveMeansAvailable' /\ LocalIsServer' /\ HereMeansLocal'
  BY <1>1 DEF LiveMeansAvailable, LocalIsServer, HereMeansLocal, Asked
<1> QED BY <1>4, <1>5, <1>6, <1>7

LEMMA StandsProbeInv ==
  ASSUME ProbeInv, UNCHANGED vars
  PROVE  ProbeInv'
<1> USE DEF ProbeInv, vars
<1>1. TypeOK'
  BY DEF TypeOK, Queries
<1>2. Asked' /\ ToldPid' /\ Noted' /\ OwnPidfile' /\ Steady'
  BY DEF Asked, ToldPid, Noted, OwnPidfile, Steady, Early, Answered, Servers
<1>3. LiveMeansAvailable' /\ LocalIsServer' /\ HereMeansLocal'
  BY DEF LiveMeansAvailable, LocalIsServer, HereMeansLocal
<1> QED BY <1>1, <1>2, <1>3

LEMMA ProbeInvHolds == Spec => []ProbeInv
<1>1. ASSUME ProbeInv, [Next]_vars PROVE ProbeInv'
  <2>1. CASE Probe
    BY <1>1, <2>1, ScanProbeInv, FindClientProbeInv, RichServedProbeInv,
       FirstFailsProbeInv, TimesOutProbeInv, PlainServedProbeInv,
       PlainFailsProbeInv, ReadPidfileProbeInv, ReadCommProbeInv DEF Probe
  <2>2. CASE Beside
    BY <1>1, <2>2, ServerStopsProbeInv, ServerStartsProbeInv,
       MoodChangesProbeInv, OtherStartsProbeInv DEF Beside
  <2>3. CASE Stands \/ UNCHANGED vars
    BY <1>1, <2>3, StandsProbeInv DEF Stands
  <2> QED BY <1>1, <2>1, <2>2, <2>3 DEF Next
<1> QED BY <1>1, InitProbeInv, PTL DEF Spec

-----------------------------------------------------------------------------
(* Theorems *)

(* A grain that is not available says nothing about the server, only a probe *)
(* that is over says local, and no query is repeated.                        *)
THEOREM ProbeTypeCorrect == Spec => []TypeOK
<1>1. ProbeInv => TypeOK
  BY DEF ProbeInv
<1> QED BY <1>1, ProbeInvHolds, PTL

(* The grain is right about the availability of a server that held still.    *)
THEOREM LiveIsAvailable == Spec => []LiveMeansAvailable
<1>1. ProbeInv => LiveMeansAvailable
  BY DEF ProbeInv
<1> QED BY <1>1, ProbeInvHolds, PTL

(* A local server was one, whatever pidfiles are left over and pids are used *)
(* again while it is asked.                                                  *)
THEOREM LocalServersAreServers == Spec => []LocalIsServer
<1>1. ProbeInv => LocalIsServer
  BY DEF ProbeInv
<1> QED BY <1>1, ProbeInvHolds, PTL

(* A server here that answers and runs on is found to be local.              *)
THEOREM ServersHereAreLocal == Spec => []HereMeansLocal
<1>1. ProbeInv => HereMeansLocal
  BY DEF ProbeInv
<1> QED BY <1>1, ProbeInvHolds, PTL
=============================================================================
