---------------------------- MODULE DrunContainer ----------------------------
(***************************************************************************)
(* The shared working container of one project and user: drun and dbuild   *)
(* of .docker-misc.bash, and entrypoint.sh inside the container.           *)
(*                                                                         *)
(* Every call of drun looks whether the container is up, creates it when   *)
(* it is not, and runs its command in it with docker exec.  The entrypoint *)
(* of a new container works in the background: roster, ssh key, sync of    *)
(* the sdb driver into extension_modules, and a marker file.  A call with  *)
(* grains= runs the entrypoint once more, in the running container.        *)
(***************************************************************************)
EXTENDS Naturals, FiniteSets

CONSTANTS
    Runs,       \* calls of drun
    WithGrains, \* those with a grains= argument
    Stops,      \* the container may stop: dbuild, docker stop, its two hours
    Fails,      \* docker run and saltutil.sync_sdb may fail
    MaxBorn,    \* bound on the containers created
    None

ASSUME RunsAssumption ==
    /\ IsFiniteSet(Runs) /\ WithGrains \subseteq Runs
    /\ {Stops, Fails} \subseteq BOOLEAN
    /\ MaxBorn \in Nat
    /\ None \notin Runs \cup Nat /\ {"template", "plain"} \cap Runs = {}

VARIABLES
    alone,      \* which calls the user makes one after the other: all, those
                \* with grains=, or none; the others overlap
    up,         \* the container exists
    born,       \* how many were created
    entry,      \* phase of the entrypoint of the container
    roster,     \* its roster: with __GRAINS__ lines, without, or of a call
    modules,    \* the sdb driver is in extension_modules
    marker,     \* /tmp/.entrypoint-sdb-synced
    pc,         \* phase of each call
    created     \* the container a call waited for, None when it did not wait

vars == <<alone, up, born, entry, roster, modules, marker, pc, created>>

EntryPhases == {"none", "roster", "sync", "touch", "sleep"}

(* In the order of the code; rerun to retouch is the entrypoint of a call    *)
(* with grains=.                                                             *)
Phases == {"start", "look", "run", "wait", "copy", "exec", "rerun", "resync",
           "retouch", "command", "ended", "failed"}

Rosters == {"template", "plain"} \cup Runs

(* A container that is not there has no files and no processes.              *)
TypeOK ==
    /\ alone \in {"all", "grains", "none"}
    /\ up \in BOOLEAN
    /\ born \in Nat
    /\ entry \in EntryPhases
    /\ roster \in Rosters
    /\ modules \in BOOLEAN
    /\ marker \in BOOLEAN
    /\ pc \in [Runs -> Phases]
    /\ created \in [Runs -> Nat \cup {None}]
    /\ up <=> entry # "none"
    /\ marker => up
    /\ \A r \in Runs :
           pc[r] \in {"rerun", "resync", "retouch", "command"} => up

Init ==
    /\ alone \in {"all", "grains", "none"}
    /\ up = FALSE /\ born = 0
    /\ entry = "none" /\ roster = "template"
    /\ modules = FALSE /\ marker = FALSE
    /\ pc = [r \in Runs |-> "start"]
    /\ created = [r \in Runs |-> None]

-----------------------------------------------------------------------------
(* Helpers *)

Goto(r, phase) == pc' = [pc EXCEPT ![r] = phase]

(* The wait loop is left out; test -f of the marker.                         *)
MarkerNotAwaited == TRUE

MarkerSeen == up /\ marker

(* sed leaves the file as it is when it has no __GRAINS__ line.              *)
Filled(content) == IF roster = "template" THEN content ELSE roster

(* The roster is not restored before the entrypoint runs again; docker cp.   *)
CopiedNothing == roster

CopiedRoster == IF up THEN "template" ELSE roster

(* The entrypoint leaves no marker; it does.                                 *)
NoMarker == marker

Marked == TRUE

(* A process outlives its container; docker exec ends with it.               *)
Survivor(phase) == phase

AfterStop(phase) ==
    IF phase \in {"rerun", "resync", "retouch", "command"} THEN "failed"
    ELSE phase

WaitThen(r) == IF r \in WithGrains THEN "copy" ELSE "exec"

(* Processes of /var/cache/salt: the syncs of the entrypoints, and commands  *)
(* (drun is mostly given salt-call or salt-ssh).                             *)
SaltProcesses ==
    {r \in Runs : pc[r] \in {"resync", "command"}}
        \cup (IF entry = "sync" THEN {None} ELSE {})

-----------------------------------------------------------------------------
(* drun *)

(* The calls that have ended before this one is made.                       *)
MayStart(r) ==
    \A q \in Runs \ {r} :
        \/ pc[q] \in {"start", "ended", "failed"}
        \/ alone = "grains" /\ {q, r} \cap WithGrains # {q, r}
        \/ alone = "none"

(* top.sls is put together.                                                  *)
Start(r) ==
    /\ pc[r] = "start"
    /\ MayStart(r)
    /\ Goto(r, "look")
    /\ UNCHANGED <<alone, up, born, entry, roster, modules, marker, created>>

(* docker ps: the wait is part of the branch that creates the container.     *)
Look(r) ==
    /\ pc[r] = "look"
    /\ Goto(r, IF up THEN WaitThen(r) ELSE "run")
    /\ UNCHANGED <<alone, up, born, entry, roster, modules, marker, created>>

(* docker run --detach, from the image: nothing is left of the last one.     *)
RunNew(r) ==
    /\ pc[r] = "run"
    /\ ~up
    /\ born < MaxBorn
    /\ up' = TRUE /\ born' = born + 1
    /\ entry' = "roster" /\ roster' = "template"
    /\ modules' = FALSE /\ marker' = FALSE
    /\ created' = [created EXCEPT ![r] = born + 1]
    /\ Goto(r, "wait")
    /\ UNCHANGED alone

(* Another call was faster: docker run fails, and drun waits all the same.   *)
RunConflict(r) ==
    /\ pc[r] = "run"
    /\ up
    /\ created' = [created EXCEPT ![r] = born]
    /\ Goto(r, "wait")
    /\ UNCHANGED <<alone, up, born, entry, roster, modules, marker>>

(* No container is made, and the exit code of docker run is not looked at.   *)
RunFails(r) ==
    /\ pc[r] = "run"
    /\ Fails
    /\ ~up
    /\ Goto(r, "wait")
    /\ UNCHANGED <<alone, up, born, entry, roster, modules, marker, created>>

(* until test -f of the marker; sleep 0.2                                    *)
Wait(r) ==
    /\ pc[r] = "wait"
    /\ IF MarkerSeen THEN Goto(r, WaitThen(r)) ELSE UNCHANGED pc
    /\ UNCHANGED <<alone, up, born, entry, roster, modules, marker, created>>

(* docker cp of etc/salt, whose errors are not looked at.                    *)
Copy(r) ==
    /\ pc[r] = "copy"
    /\ roster' = CopiedRoster
    /\ Goto(r, "exec")
    /\ UNCHANGED <<alone, up, born, entry, modules, marker, created>>

(* docker exec fails without a container.                                    *)
Exec(r) ==
    /\ pc[r] = "exec"
    /\ Goto(r, IF ~up THEN "failed"
               ELSE IF r \in WithGrains THEN "rerun"
               ELSE "command")
    /\ UNCHANGED <<alone, up, born, entry, roster, modules, marker, created>>

Command(r) ==
    /\ pc[r] = "command"
    /\ Goto(r, "ended")
    /\ UNCHANGED <<alone, up, born, entry, roster, modules, marker, created>>

-----------------------------------------------------------------------------
(* entrypoint.sh, run by docker exec with grains= *)

RerunRoster(r) ==
    /\ pc[r] = "rerun"
    /\ roster' = Filled(r)
    /\ Goto(r, "resync")
    /\ UNCHANGED <<alone, up, born, entry, modules, marker, created>>

RerunSync(r) ==
    /\ pc[r] = "resync"
    /\ \/ modules' = TRUE /\ Goto(r, "retouch")
       \/ Fails /\ UNCHANGED modules /\ Goto(r, "failed")   \* set -e
    /\ UNCHANGED <<alone, up, born, entry, roster, marker, created>>

RerunTouch(r) ==
    /\ pc[r] = "retouch"
    /\ marker' = Marked
    /\ Goto(r, "command")
    /\ UNCHANGED <<alone, up, born, entry, roster, modules, created>>

-----------------------------------------------------------------------------
(* The container: its own entrypoint, and its end *)

EntryRoster ==
    /\ entry = "roster"
    /\ roster' = Filled("plain")
    /\ entry' = "sync"
    /\ UNCHANGED <<alone, up, born, modules, marker, pc, created>>

EntrySync ==
    /\ entry = "sync"
    /\ modules' = TRUE
    /\ entry' = "touch"
    /\ UNCHANGED <<alone, up, born, roster, marker, pc, created>>

EntryTouch ==
    /\ entry = "touch"
    /\ marker' = Marked
    /\ entry' = "sleep"
    /\ UNCHANGED <<alone, up, born, roster, modules, pc, created>>

(* The container is gone (--rm), with whatever runs in it.                   *)
Gone ==
    /\ up' = FALSE /\ entry' = "none" /\ marker' = FALSE /\ modules' = FALSE
    /\ roster' = "template"
    /\ pc' = [r \in Runs |-> AfterStop(pc[r])]
    /\ UNCHANGED <<alone, born, created>>

(* set -e: the entrypoint is the first process of the container.             *)
EntryFails == Fails /\ entry = "sync" /\ Gone

Stop == Stops /\ up /\ Gone

-----------------------------------------------------------------------------
(* Specification *)

Drun(r) ==
    \/ Start(r) \/ Look(r) \/ RunNew(r) \/ RunConflict(r) \/ RunFails(r)
    \/ Wait(r) \/ Copy(r) \/ Exec(r)
    \/ RerunRoster(r) \/ RerunSync(r) \/ RerunTouch(r)
    \/ Command(r)

Entrypoint == EntryRoster \/ EntrySync \/ EntryTouch \/ EntryFails

Finished ==
    (\A r \in Runs : pc[r] \in {"ended", "failed"}) /\ UNCHANGED vars

Next == (\E r \in Runs : Drun(r)) \/ Entrypoint \/ Stop \/ Finished

Spec == Init /\ [][Next]_vars

(* Processes run on, and commands end.  Nobody has to stop the container.    *)
FairSpec ==
    Spec /\ WF_vars(Entrypoint) /\ \A r \in Runs : WF_vars(Drun(r))

-----------------------------------------------------------------------------
(* Properties *)

(* No command of a drun starts before the sdb driver is in place: the race   *)
(* with sync_sdb that the wait is there for (.docker-misc.bash, 82-87).      *)
NoCommandBeforeSync == \A r \in Runs : pc[r] = "command" => modules

(* It holds for calls made one after the other, whatever became of the       *)
(* containers of the earlier ones; and for overlapping calls it holds for    *)
(* those that waited for the very container they run in, although docker run *)
(* fails for all of them but one.                                            *)
CommandAfterSync ==
    \A r \in Runs :
        (pc[r] = "command" /\ (alone = "all" \/ created[r] = born)) => modules

(* Calls made one after the other never have two salt processes at work on   *)
(* /var/cache/salt (88-90, and entrypoint.sh 46-49).                         *)
OneSaltAtATime == alone = "all" => Cardinality(SaltProcesses) <= 1

(* A command with grains= sees these grains in the roster, not those of an   *)
(* earlier call in the same container, nor none because the entrypoint of a  *)
(* new one removed their lines (entrypoint.sh 4, 21-27).  If ordinary calls  *)
(* overlap it, this is so when it waited for its container.                  *)
OwnGrains ==
    \A r \in WithGrains :
        (/\ pc[r] = "command"
         /\ alone = "all" \/ (alone = "grains" /\ created[r] = born))
            => roster = r

(* A drun ends if the container lasts, whoever created it and however often  *)
(* it was lost before: the marker that the wait polls for is set at last.    *)
DrunsEnd ==
    (<>[]up) => \A r \in Runs : <>(pc[r] \in {"ended", "failed"})
=============================================================================
