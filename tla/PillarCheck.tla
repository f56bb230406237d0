----------------------------- MODULE PillarCheck -----------------------------
(***************************************************************************)
(* .check_pillar_for_roster.sh: the pillar of every host of the roster is  *)
(* rendered by a salt-call of its own, at most Batch of them at a time,    *)
(* each in a copy of /etc/salt whose directory name is made from the       *)
(* host's name.  The script exits with 1 when any of the checks did.       *)
(***************************************************************************)
EXTENDS Integers, FiniteSets

CONSTANTS
    Hosts,      \* the names in /etc/salt/roster
    Envs,       \* directories under /tmp
    EnvOf,      \* fqdn//[-.]/_ : not injective, a-b.c and a.b-c meet
    Batch,      \* the script's argument, 10 by default
    Kills,      \* a salt-call may be killed (no memory left, container stop)
    None

(* With a batch of 0 the script never starts a check.                        *)
ASSUME BatchAssumption == Batch \in Nat \ {0}
ASSUME HostsAssumption ==
    /\ IsFiniteSet(Hosts) /\ Hosts # {} /\ None \notin Hosts
    /\ EnvOf \in [Hosts -> Envs]
    /\ Kills \in BOOLEAN

VARIABLES
    pillar,     \* what is wrong with the pillar of each host
    main,       \* phase of the script
    todo,       \* hosts the current loop of the script has not reached
    sampled,    \* size of job_pids, as last read
    failed,     \* failed_checks_count
    job,        \* phase of each background check
    grains,     \* the fqdn in the grains file of each environment
    stderr,     \* hosts whose errors are in stderr.log of each environment
    stdout,     \* hosts for which salt-call printed _errors
    rendered    \* history: the host as which each pillar was rendered

vars == <<pillar, main, todo, sampled, failed, job, grains, stderr, stdout,
          rendered>>

(* "data": salt lists the error in the pillar's _errors.                     *)
(* "trace": salt-call ends with a traceback or a warning on stderr.          *)
Pillars == {"fine", "data", "trace"}

Phases == {"prepare", "spawn", "wait", "collect", "done"}

JobPhases == {"none", "started", "open", "ended", "passed", "failed"}

Running == {h \in Hosts : job[h] \in {"started", "open", "ended"}}

(* A host is collected only when its check is over.                          *)
TypeOK ==
    /\ pillar \in [Hosts -> Pillars]
    /\ main \in Phases
    /\ todo \subseteq Hosts
    /\ sampled \in Nat
    /\ failed \in Nat
    /\ job \in [Hosts -> JobPhases]
    /\ grains \in [Envs -> Hosts \cup {None}]
    /\ stderr \in [Envs -> SUBSET Hosts]
    /\ stdout \subseteq Hosts
    /\ rendered \in [Hosts -> Hosts \cup {None}]
    /\ main \in {"collect", "done"} =>
           \A h \in Hosts \ todo : job[h] \in {"passed", "failed"}

Init ==
    /\ pillar \in [Hosts -> Pillars]
    /\ main = "prepare"
    /\ todo = Hosts
    /\ sampled = 0
    /\ failed = 0
    /\ job = [h \in Hosts |-> "none"]
    /\ grains = [e \in Envs |-> None]
    /\ stderr = [e \in Envs |-> {}]
    /\ stdout = {}
    /\ rendered = [h \in Hosts |-> None]

-----------------------------------------------------------------------------
(* Helpers *)

(* All checks in one directory; each in its own.                             *)
OneEnvironment(h) == EnvOf[CHOOSE g \in Hosts : TRUE]

Environment(h) == EnvOf[h]

(* One job too many; as many as the batch allows.                            *)
MaySpawnOneMore == Cardinality(Running) <= Batch

MaySpawn == Cardinality(Running) < Batch

(* job_pids is not read again; it is.                                        *)
StoppedWaitingBlind == sampled = 0

StoppedWaiting == sampled = 0 \/ Running = {}

(* The loop does not wait for the pid; it does.                              *)
OverAnyway(h) == TRUE

Over(h) == job[h] \in {"passed", "failed"}

(* Only what salt reports on stdout counts; stderr counts as well.           *)
LooksBadOnStdout(h) == h \in stdout

LooksBad(h) == stderr[Environment(h)] # {} \/ h \in stdout

(* The loop goes to the next host, or the script to the next phase.          *)
LoopOver(h, next) ==
    IF todo = {h} THEN main' = next /\ todo' = Hosts
                  ELSE UNCHANGED main /\ todo' = todo \ {h}

-----------------------------------------------------------------------------
(* The script *)

(* prepare_salt_call_environment: an empty copy, with the host's fqdn.       *)
Prepare(h) ==
    /\ main = "prepare"
    /\ h \in todo
    /\ grains' = [grains EXCEPT ![Environment(h)] = h]
    /\ stderr' = [stderr EXCEPT ![Environment(h)] = {}]
    /\ LoopOver(h, "spawn")
    /\ UNCHANGED <<pillar, sampled, failed, job, stdout, rendered>>

Spawn(h) ==
    /\ main = "spawn"
    /\ h \in todo
    /\ MaySpawn
    /\ sampled' = Cardinality(Running)
    /\ job' = [job EXCEPT ![h] = "started"]
    /\ LoopOver(h, "wait")
    /\ UNCHANGED <<pillar, failed, grains, stderr, stdout, rendered>>

LeaveWait ==
    /\ main = "wait"
    /\ StoppedWaiting
    /\ main' = "collect"
    /\ UNCHANGED <<pillar, todo, sampled, failed, job, grains, stderr, stdout,
                   rendered>>

Collect(h) ==
    /\ main = "collect"
    /\ h \in todo
    /\ Over(h)
    /\ failed' = IF job[h] = "failed" THEN failed + 1 ELSE failed
    /\ IF todo = {h} THEN main' = "done" ELSE UNCHANGED main
    /\ todo' = todo \ {h}
    /\ UNCHANGED <<pillar, sampled, job, grains, stderr, stdout, rendered>>

ExitCode == IF failed >= 1 THEN 1 ELSE 0

-----------------------------------------------------------------------------
(* check_pillars, a background job per host *)

(* The shell opens, and so empties, stderr.log.                              *)
Open(h) ==
    /\ job[h] = "started"
    /\ job' = [job EXCEPT ![h] = "open"]
    /\ stderr' = [stderr EXCEPT ![Environment(h)] = {}]
    /\ UNCHANGED <<pillar, main, todo, sampled, failed, grains, stdout, rendered>>

SaltCall(h) ==
    /\ job[h] = "open"
    /\ job' = [job EXCEPT ![h] = "ended"]
    /\ rendered' = [rendered EXCEPT ![h] = grains[Environment(h)]]
    /\ stdout' = IF pillar[h] = "data" THEN stdout \cup {h} ELSE stdout
    /\ stderr' = IF pillar[h] = "trace"
                 THEN [stderr EXCEPT ![Environment(h)] = @ \cup {h}]
                 ELSE stderr
    /\ UNCHANGED <<pillar, main, todo, sampled, failed, grains>>

(* salt-call dies without a word; its exit code is not looked at.            *)
Killed(h) ==
    /\ Kills
    /\ job[h] = "open"
    /\ job' = [job EXCEPT ![h] = "ended"]
    /\ UNCHANGED <<pillar, main, todo, sampled, failed, grains, stderr,
                   stdout, rendered>>

(* A check that failed is run again; it is failed for good.                  *)
JudgeAgain(h) ==
    /\ job[h] = "ended"
    /\ job' = [job EXCEPT ![h] = IF LooksBad(h) THEN "started" ELSE "passed"]
    /\ UNCHANGED <<pillar, main, todo, sampled, failed, grains, stderr,
                   stdout, rendered>>

Judge(h) ==
    /\ job[h] = "ended"
    /\ job' = [job EXCEPT ![h] = IF LooksBad(h) THEN "failed" ELSE "passed"]
    /\ UNCHANGED <<pillar, main, todo, sampled, failed, grains, stderr,
                   stdout, rendered>>

-----------------------------------------------------------------------------
(* Specification *)

Script == LeaveWait \/ \E h \in Hosts : Prepare(h) \/ Spawn(h) \/ Collect(h)

Check(h) == Open(h) \/ SaltCall(h) \/ Killed(h) \/ Judge(h)

(* The script has exited.                                                    *)
Exited == main = "done" /\ UNCHANGED vars

Next == Script \/ (\E h \in Hosts : Check(h)) \/ Exited

Spec == Init /\ [][Next]_vars

(* The shell runs on, and every salt-call ends.                              *)
FairSpec ==
    Spec /\ WF_vars(Script) /\ \A h \in Hosts : WF_vars(Check(h))

-----------------------------------------------------------------------------
(* Properties *)

(* No more than Batch checks run at once, although the throttle loop (lines  *)
(* 90-93) reads the job table long before the last check it starts ends.     *)
AtMostBatch == Cardinality(Running) <= Batch

(* A check ran to its end and found an error in its host's pillar.          *)
Found(h) == rendered[h] # None /\ pillar[h] # "fine"

(* No other host's name becomes the same directory.                          *)
OwnDirectory(h) == \A g \in Hosts : EnvOf[g] = EnvOf[h] => g = h

(* The script fails only when a check found an error, and it does so for     *)
(* every error that salt lists in the pillar and for every other one of a    *)
(* host that has its directory for itself: "it fails on any render error"    *)
(* (README.md.example:70).  Hosts that share a directory empty each other's  *)
(* stderr.log (line 54), and neither raise a false alarm by it nor hide an   *)
(* error of a third one.                                                     *)
ErrorsReported ==
    main = "done" =>
        /\ ExitCode = 1 => \E h \in Hosts : Found(h)
        /\ \A h \in Hosts :
              (Found(h) /\ (OwnDirectory(h) \/ pillar[h] = "data")) => ExitCode = 1

(* A pillar is rendered as its own host's, or as that of a host it shares    *)
(* its directory with, whichever checks run at the same time and however     *)
(* they end (set_fqdn, lines 15-27).                                         *)
RendersOwnHost ==
    \A h \in Hosts : rendered[h] # None => EnvOf[rendered[h]] = EnvOf[h]

(* A check that passes "renders every host's pillar" (README.md.example:69). *)
RendersEveryHost ==
    (main = "done" /\ ExitCode = 0) => \A h \in Hosts : rendered[h] = h

(* What is left of the script: its loops after this one, the hosts this one  *)
(* has still to reach, and the phases each check has before it.              *)
LoopsLeft ==
    CASE main = "prepare" -> 3 [] main = "spawn" -> 2 [] main = "wait" -> 1
      [] OTHER -> 0

At(phases) == {h \in Hosts : job[h] \in phases}

LoopWork == LoopsLeft * (Cardinality(Hosts) + 1) + Cardinality(todo)

CheckWork ==
    Cardinality(At({"none"})) + Cardinality(At({"none", "started"}))
        + Cardinality(At({"none", "started", "open"}))
        + Cardinality(At({"none", "started", "open", "ended"}))

WorkLeft == LoopWork + CheckWork

(* Nothing is done twice: every step of the script (lines 88-109) and of a   *)
(* check (lines 50-64) leaves less to be done.                               *)
WorkShrinks == [][WorkLeft' < WorkLeft]_vars

(* When no check runs any more, the script waits for nothing: it has a check *)
(* to start, the wait is over (lines 90-99), or it has one to collect.       *)
NeverStuck ==
    (main # "done" /\ Running = {}) =>
        \/ main = "prepare" /\ todo # {}
        \/ main = "spawn" /\ todo # {} /\ MaySpawn
        \/ main = "wait" /\ StoppedWaiting
        \/ main = "collect" /\ \E h \in todo : Over(h)

(* The script comes to an end.                                               *)
ScriptEnds == <>(main = "done")
=============================================================================
