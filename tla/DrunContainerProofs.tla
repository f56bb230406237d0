-------------------------- MODULE DrunContainerProofs --------------------------
(***************************************************************************)
(* What drun promises its caller, for any number of calls and containers:  *)
(* no command before the sdb driver is in place, and, for calls made one   *)
(* after the other, one salt process at a time and the caller's own        *)
(* grains.                                                                 *)
(***************************************************************************)
EXTENDS DrunContainer, FiniteSetTheorems, TLAPS

Idle(r) == pc[r] \in {"start", "ended", "failed"}

Inside(r) == pc[r] \in {"rerun", "resync", "retouch", "command"}

(* The marker, and all that comes after the sync, mean that it was made.     *)
Synced ==
    /\ marker \/ entry \in {"touch", "sleep"} => modules
    /\ \A r \in Runs : pc[r] = "retouch" => modules

(* A call that waited did so for the last container or an earlier one, and   *)
(* saw its sync.                                                             *)
Waited ==
    \A r \in Runs :
        /\ pc[r] \in {"start", "look", "run"} => created[r] = None
        /\ created[r] # None => created[r] <= born
        /\ (up /\ created[r] = born /\ (pc[r] \in {"copy", "exec"} \/ Inside(r)))
              => modules

(* Calls that are made one after the other.  As long as a container has no   *)
(* marker, the one who created it waits for it; with a marker it sleeps.     *)
Alone ==
    alone = "all" =>
      /\ \A r, q \in Runs : r # q => Idle(r) \/ Idle(q)
      /\ up => marker \/ \E r \in Runs : pc[r] = "wait"
      /\ marker => entry = "sleep"

(* The roster of a call with grains=, from the copy to the command.          *)
Lines ==
    alone = "all" =>
      \A r \in WithGrains :
        /\ (pc[r] = "exec" /\ up) \/ pc[r] = "rerun" => roster = "template"
        /\ pc[r] \in {"resync", "retouch", "command"} => roster = r

(* Only calls with grains= touch the roster and the marker; where these are  *)
(* made one after the other, no two of them are under way.                   *)
Turns ==
    /\ \A r \in Runs : pc[r] \in {"copy", "rerun", "resync", "retouch"} =>
           r \in WithGrains
    /\ alone # "none" =>
           \A r, q \in WithGrains : r # q => Idle(r) \/ Idle(q)

(* The marker a call with grains= waits for is left by the entrypoint of the *)
(* container, which sleeps from then on.                                     *)
Awaits(r) ==
    (/\ up /\ marker
     /\ pc[r] = "run" \/ (pc[r] = "wait" /\ created[r] = born))
        => entry = "sleep"

(* After the wait nobody but the call itself touches the roster.             *)
Owns(r) ==
    (up /\ created[r] = born) =>
      /\ pc[r] \in {"copy", "exec"} \/ Inside(r) => entry = "sleep"
      /\ pc[r] \in {"exec", "rerun"} => roster = "template"
      /\ pc[r] \in {"resync", "retouch", "command"} => roster = r

Grains == alone # "none" => \A r \in WithGrains : Awaits(r) /\ Owns(r)

DrunInv == TypeOK /\ Synced /\ Waited /\ Alone /\ Lines /\ Turns /\ Grains

LEMMA InitDrunInv == Init => DrunInv
<1> SUFFICES ASSUME Init PROVE DrunInv
  OBVIOUS
<1> USE RunsAssumption DEF Init
<1>1. TypeOK
  BY DEF TypeOK, EntryPhases, Rosters, Phases
<1>2. Synced /\ Waited /\ Alone /\ Lines /\ Turns /\ Grains
  BY DEF Synced, Waited, Alone, Lines, Turns, Grains, Awaits, Owns, Idle,
         Inside
<1> QED BY <1>1, <1>2 DEF DrunInv

-----------------------------------------------------------------------------
(* Steps of a call *)

LEMMA StartDrunInv ==
  ASSUME DrunInv, NEW r \in Runs, Start(r)
  PROVE  DrunInv'
<1> USE RunsAssumption DEF DrunInv, Start, MayStart, Goto
<1>1. TypeOK'
  BY DEF TypeOK, EntryPhases, Rosters, Phases
<1>2. Synced'
  BY DEF Synced, TypeOK
<1>3. Waited'
  BY DEF Waited, Inside, Synced, TypeOK
<1>4. Alone'
  BY DEF Alone, Idle, TypeOK
<1>5. Lines'
  BY DEF Lines, Alone, Idle, TypeOK
<1>6. Turns'
  BY DEF Turns, Idle, TypeOK
<1>7. Grains'
  BY DEF Grains, Awaits, Owns, Waited, Turns, Idle, Inside, TypeOK
<1> QED BY <1>1, <1>2, <1>3, <1>4, <1>5, <1>6, <1>7

LEMMA LookDrunInv ==
  ASSUME DrunInv, NEW r \in Runs, Look(r)
  PROVE  DrunInv'
<1> USE RunsAssumption DEF DrunInv, Look, Goto, WaitThen
<1>1. TypeOK'
  BY DEF TypeOK, EntryPhases, Rosters, Phases
<1>2. Synced'
  BY DEF Synced, TypeOK
<1>3. Waited'
  BY DEF Waited, Inside, Synced, TypeOK
<1>4. Alone'
  BY DEF Alone, Idle, TypeOK
<1>5. Lines'
  BY DEF Lines, Alone, Idle, TypeOK
<1>6. Turns'
  BY DEF Turns, Idle, TypeOK
<1>7. Grains'
  BY DEF Grains, Awaits, Owns, Waited, Turns, Idle, Inside, TypeOK
<1> QED BY <1>1, <1>2, <1>3, <1>4, <1>5, <1>6, <1>7

LEMMA RunNewDrunInv ==
  ASSUME DrunInv, NEW r \in Runs, RunNew(r)
  PROVE  DrunInv'
<1> USE RunsAssumption DEF DrunInv, RunNew, Goto
<1>1. TypeOK'
  <2>1. born' \in Nat /\ born + 1 \in Nat
    BY DEF TypeOK
  <2>2. created' \in [Runs -> Nat \cup {None}]
    BY <2>1 DEF TypeOK
  <2> QED BY <2>1, <2>2 DEF TypeOK, EntryPhases, Rosters, Phases
<1>2. Synced'
  BY DEF Synced, TypeOK
<1>3. Waited'
  BY DEF Waited, Inside, Synced, TypeOK
<1>4. Alone'
  BY DEF Alone, Idle, TypeOK
<1>5. Lines'
  BY DEF Lines, Alone, Idle, TypeOK
<1>6. Turns'
  BY DEF Turns, Idle, TypeOK
<1>7. Grains'
  BY DEF Grains, Awaits, Owns, Waited, Turns, Idle, Inside, TypeOK
<1> QED BY <1>1, <1>2, <1>3, <1>4, <1>5, <1>6, <1>7

LEMMA RunConflictDrunInv ==
  ASSUME DrunInv, NEW r \in Runs, RunConflict(r)
  PROVE  DrunInv'
<1> USE RunsAssumption DEF DrunInv, RunConflict, Goto
<1>1. TypeOK'
  BY DEF TypeOK, EntryPhases, Rosters, Phases
<1>2. Synced'
  BY DEF Synced, TypeOK
<1>3. Waited'
  BY DEF Waited, Inside, Synced, TypeOK
<1>4. Alone'
  BY DEF Alone, Idle, TypeOK
<1>5. Lines'
  BY DEF Lines, Alone, Idle, TypeOK
<1>6. Turns'
  BY DEF Turns, Idle, TypeOK
<1>7. Grains'
  BY DEF Grains, Awaits, Owns, Waited, Turns, Idle, Inside, TypeOK
<1> QED BY <1>1, <1>2, <1>3, <1>4, <1>5, <1>6, <1>7

LEMMA RunFailsDrunInv ==
  ASSUME DrunInv, NEW r \in Runs, RunFails(r)
  PROVE  DrunInv'
<1> USE RunsAssumption DEF DrunInv, RunFails, Goto
<1>1. TypeOK'
  BY DEF TypeOK, EntryPhases, Rosters, Phases
<1>2. Synced'
  BY DEF Synced, TypeOK
<1>3. Waited'
  BY DEF Waited, Inside, Synced, TypeOK
<1>4. Alone'
  BY DEF Alone, Idle, TypeOK
<1>5. Lines'
  BY DEF Lines, Alone, Idle, TypeOK
<1>6. Turns'
  BY DEF Turns, Idle, TypeOK
<1>7. Grains'
  BY DEF Grains, Awaits, Owns, Waited, Turns, Idle, Inside, TypeOK
<1> QED BY <1>1, <1>2, <1>3, <1>4, <1>5, <1>6, <1>7

LEMMA WaitDrunInv ==
  ASSUME DrunInv, NEW r \in Runs, Wait(r)
  PROVE  DrunInv'
<1> USE RunsAssumption DEF DrunInv, Wait, Goto, WaitThen, MarkerSeen
<1>1. TypeOK'
  BY DEF TypeOK, EntryPhases, Rosters, Phases
<1>2. Synced'
  BY DEF Synced, TypeOK
<1>3. Waited'
  BY DEF Waited, Inside, Synced, TypeOK
<1>4. Alone'
  BY DEF Alone, Idle, TypeOK
<1>5. Lines'
  BY DEF Lines, Alone, Idle, TypeOK
<1>6. Turns'
  BY DEF Turns, Idle, TypeOK
<1>7. Grains'
  BY DEF Grains, Awaits, Owns, Waited, Turns, Idle, Inside, TypeOK
<1> QED BY <1>1, <1>2, <1>3, <1>4, <1>5, <1>6, <1>7

LEMMA CopyDrunInv ==
  ASSUME DrunInv, NEW r \in Runs, Copy(r)
  PROVE  DrunInv'
<1> USE RunsAssumption DEF DrunInv, Copy, Goto, CopiedRoster
<1>1. TypeOK'
  BY DEF TypeOK, EntryPhases, Rosters, Phases
<1>2. Synced'
  BY DEF Synced, TypeOK
<1>3. Waited'
  BY DEF Waited, Inside, Synced, TypeOK
<1>4. Alone'
  BY DEF Alone, Idle, TypeOK
<1>5. Lines'
  BY DEF Lines, Alone, Idle, TypeOK
<1>6. Turns'
  BY DEF Turns, Idle, TypeOK
<1>7. Grains'
  BY DEF Grains, Awaits, Owns, Waited, Turns, Idle, Inside, TypeOK
<1> QED BY <1>1, <1>2, <1>3, <1>4, <1>5, <1>6, <1>7

LEMMA ExecDrunInv ==
  ASSUME DrunInv, NEW r \in Runs, Exec(r)
  PROVE  DrunInv'
<1> USE RunsAssumption DEF DrunInv, Exec, Goto
<1>1. TypeOK'
  BY DEF TypeOK, EntryPhases, Rosters, Phases
<1>2. Synced'
  BY DEF Synced, TypeOK
<1>3. Waited'
  BY DEF Waited, Inside, Synced, TypeOK
<1>4. Alone'
  BY DEF Alone, Idle, TypeOK
<1>5. Lines'
  BY DEF Lines, Alone, Idle, TypeOK
<1>6. Turns'
  BY DEF Turns, Idle, TypeOK
<1>7. Grains'
  BY DEF Grains, Awaits, Owns, Waited, Turns, Idle, Inside, TypeOK
<1> QED BY <1>1, <1>2, <1>3, <1>4, <1>5, <1>6, <1>7

LEMMA CommandDrunInv ==
  ASSUME DrunInv, NEW r \in Runs, Command(r)
  PROVE  DrunInv'
<1> USE RunsAssumption DEF DrunInv, Command, Goto
<1>1. TypeOK'
  BY DEF TypeOK, EntryPhases, Rosters, Phases
<1>2. Synced'
  BY DEF Synced, TypeOK
<1>3. Waited'
  BY DEF Waited, Inside, Synced, TypeOK
<1>4. Alone'
  BY DEF Alone, Idle, TypeOK
<1>5. Lines'
  BY DEF Lines, Alone, Idle, TypeOK
<1>6. Turns'
  BY DEF Turns, Idle, TypeOK
<1>7. Grains'
  BY DEF Grains, Awaits, Owns, Waited, Turns, Idle, Inside, TypeOK
<1> QED BY <1>1, <1>2, <1>3, <1>4, <1>5, <1>6, <1>7

LEMMA RerunRosterDrunInv ==
  ASSUME DrunInv, NEW r \in Runs, RerunRoster(r)
  PROVE  DrunInv'
<1> USE RunsAssumption DEF DrunInv, RerunRoster, Goto, Filled
<1>1. TypeOK'
  BY DEF TypeOK, EntryPhases, Rosters, Phases
<1>2. Synced'
  BY DEF Synced, TypeOK
<1>3. Waited'
  BY DEF Waited, Inside, Synced, TypeOK
<1>4. Alone'
  BY DEF Alone, Idle, TypeOK
<1>5. Lines'
  BY DEF Lines, Alone, Idle, TypeOK
<1>6. Turns'
  BY DEF Turns, Idle, TypeOK
<1>7. Grains'
  BY DEF Grains, Awaits, Owns, Waited, Turns, Idle, Inside, TypeOK
<1> QED BY <1>1, <1>2, <1>3, <1>4, <1>5, <1>6, <1>7

LEMMA RerunSyncDrunInv ==
  ASSUME DrunInv, NEW r \in Runs, RerunSync(r)
  PROVE  DrunInv'
<1> USE RunsAssumption DEF DrunInv, RerunSync, Goto
<1>1. TypeOK'
  BY DEF TypeOK, EntryPhases, Rosters, Phases
<1>2. Synced'
  BY DEF Synced, TypeOK
<1>3. Waited'
  BY DEF Waited, Inside, Synced, TypeOK
<1>4. Alone'
  BY DEF Alone, Idle, TypeOK
<1>5. Lines'
  BY DEF Lines, Alone, Idle, TypeOK
<1>6. Turns'
  BY DEF Turns, Idle, TypeOK
<1>7. Grains'
  BY DEF Grains, Awaits, Owns, Waited, Turns, Idle, Inside, TypeOK
<1> QED BY <1>1, <1>2, <1>3, <1>4, <1>5, <1>6, <1>7

LEMMA RerunTouchDrunInv ==
  ASSUME DrunInv, NEW r \in Runs, RerunTouch(r)
  PROVE  DrunInv'
<1> USE RunsAssumption DEF DrunInv, RerunTouch, Goto, Marked
<1>1. TypeOK'
  BY DEF TypeOK, EntryPhases, Rosters, Phases
<1>2. Synced'
  BY DEF Synced, TypeOK
<1>3. Waited'
  BY DEF Waited, Inside, Synced, TypeOK
<1>4. Alone'
  BY DEF Alone, Idle, TypeOK
<1>5. Lines'
  BY DEF Lines, Alone, Idle, TypeOK
<1>6. Turns'
  BY DEF Turns, Idle, TypeOK
<1>7. Grains'
  BY DEF Grains, Awaits, Owns, Waited, Turns, Idle, Inside, TypeOK
<1> QED BY <1>1, <1>2, <1>3, <1>4, <1>5, <1>6, <1>7

-----------------------------------------------------------------------------
(* Steps of the container *)

LEMMA EntryRosterDrunInv ==
  ASSUME DrunInv, EntryRoster
  PROVE  DrunInv'
<1> USE RunsAssumption DEF DrunInv, EntryRoster, Goto, Filled
<1>1. TypeOK'
  BY DEF TypeOK, EntryPhases, Rosters, Phases
<1>2. Synced'
  BY DEF Synced, TypeOK
<1>3. Waited'
  BY DEF Waited, Inside, Synced, TypeOK
<1>4. Alone'
  BY DEF Alone, Idle, TypeOK
<1>5. Lines'
  BY DEF Lines, Alone, Idle, TypeOK
<1>6. Turns'
  BY DEF Turns, Idle, TypeOK
<1>7. Grains'
  BY DEF Grains, Awaits, Owns, Waited, Turns, Idle, Inside, TypeOK
<1> QED BY <1>1, <1>2, <1>3, <1>4, <1>5, <1>6, <1>7

LEMMA EntrySyncDrunInv ==
  ASSUME DrunInv, EntrySync
  PROVE  DrunInv'
<1> USE RunsAssumption DEF DrunInv, EntrySync, Goto
<1>1. TypeOK'
  BY DEF TypeOK, EntryPhases, Rosters, Phases
<1>2. Synced'
  BY DEF Synced, TypeOK
<1>3. Waited'
  BY DEF Waited, Inside, Synced, TypeOK
<1>4. Alone'
  BY DEF Alone, Idle, TypeOK
<1>5. Lines'
  BY DEF Lines, Alone, Idle, TypeOK
<1>6. Turns'
  BY DEF Turns, Idle, TypeOK
<1>7. Grains'
  BY DEF Grains, Awaits, Owns, Waited, Turns, Idle, Inside, TypeOK
<1> QED BY <1>1, <1>2, <1>3, <1>4, <1>5, <1>6, <1>7

LEMMA EntryTouchDrunInv ==
  ASSUME DrunInv, EntryTouch
  PROVE  DrunInv'
<1> USE RunsAssumption DEF DrunInv, EntryTouch, Goto, Marked
<1>1. TypeOK'
  BY DEF TypeOK, EntryPhases, Rosters, Phases
<1>2. Synced'
  BY DEF Synced, TypeOK
<1>3. Waited'
  BY DEF Waited, Inside, Synced, TypeOK
<1>4. Alone'
  BY DEF Alone, Idle, TypeOK
<1>5. Lines'
  BY DEF Lines, Alone, Idle, TypeOK
<1>6. Turns'
  BY DEF Turns, Idle, TypeOK
<1>7. Grains'
  BY DEF Grains, Awaits, Owns, Waited, Turns, Idle, Inside, TypeOK
<1> QED BY <1>1, <1>2, <1>3, <1>4, <1>5, <1>6, <1>7

LEMMA GoneDrunInv ==
  ASSUME DrunInv, Gone
  PROVE  DrunInv'
<1> USE RunsAssumption DEF DrunInv, Gone, Goto, AfterStop
<1>1. TypeOK'
  BY DEF TypeOK, EntryPhases, Rosters, Phases
<1>2. Synced'
  BY DEF Synced, TypeOK
<1>3. Waited'
  BY DEF Waited, Inside, Synced, TypeOK
<1>4. Alone'
  BY DEF Alone, Idle, TypeOK
<1>5. Lines'
  BY DEF Lines, Alone, Idle, TypeOK
<1>6. Turns'
  BY DEF Turns, Idle, TypeOK
<1>7. Grains'
  BY DEF Grains, Awaits, Owns, Waited, Turns, Idle, Inside, TypeOK
<1> QED BY <1>1, <1>2, <1>3, <1>4, <1>5, <1>6, <1>7

LEMMA NextDrunInv ==
  ASSUME DrunInv, [Next]_vars
  PROVE  DrunInv'
<1>1. CASE \E r \in Runs : Drun(r)
  BY <1>1, StartDrunInv, LookDrunInv, RunNewDrunInv, RunConflictDrunInv,
     RunFailsDrunInv, WaitDrunInv, CopyDrunInv, ExecDrunInv,
     RerunRosterDrunInv, RerunSyncDrunInv, RerunTouchDrunInv, CommandDrunInv
     DEF Drun
<1>2. CASE Entrypoint \/ Stop
  BY <1>2, EntryRosterDrunInv, EntrySyncDrunInv, EntryTouchDrunInv, GoneDrunInv
     DEF Entrypoint, EntryFails, Stop
<1>3. CASE Finished \/ UNCHANGED vars
  BY <1>3 DEF Finished, vars, DrunInv, TypeOK, Synced, Waited, Alone, Lines,
     Turns, Grains, Awaits, Owns, Idle, Inside
<1> QED BY <1>1, <1>2, <1>3 DEF Next

LEMMA DrunInvHolds == Spec => []DrunInv
  BY InitDrunInv, NextDrunInv, PTL DEF Spec

-----------------------------------------------------------------------------
(* Theorems *)

(* No process runs in a container that is not there.                         *)
THEOREM DrunTypeCorrect == Spec => []TypeOK
<1>1. DrunInv => TypeOK
  BY DEF DrunInv
<1> QED BY <1>1, DrunInvHolds, PTL

(* No command starts before the sdb driver is in place, if its call comes    *)
(* after the others or waited for this container (.docker-misc.bash, 82-94). *)
THEOREM CommandsFollowTheSync == Spec => []CommandAfterSync
<1>1. ASSUME DrunInv PROVE CommandAfterSync
  <2> SUFFICES ASSUME NEW r \in Runs, pc[r] = "command", alone = "all" \/ created[r] = born
               PROVE  modules
    BY DEF CommandAfterSync
  <2>1. up
    BY <1>1 DEF DrunInv, TypeOK
  <2>2. CASE created[r] = born
    BY <1>1, <2>1, <2>2 DEF DrunInv, Waited, Inside
  <2>3. CASE alone = "all"
    <3>1. \A q \in Runs : pc[q] # "wait"
      BY <1>1, <2>3 DEF DrunInv, Alone, Idle
    <3> QED BY <1>1, <2>1, <2>3, <3>1 DEF DrunInv, Alone, Synced
  <2> QED BY <2>2, <2>3
<1> QED BY <1>1, DrunInvHolds, PTL

(* Of calls made one after the other never two salt processes work on        *)
(* /var/cache/salt (.docker-misc.bash, 88-90).                               *)
THEOREM SaltRunsAlone == Spec => []OneSaltAtATime
<1>1. ASSUME DrunInv, alone = "all" PROVE Cardinality(SaltProcesses) <= 1
  <2>1. ASSUME NEW r \in Runs, Inside(r)
        PROVE  /\ entry = "sleep"
               /\ \A q \in Runs : q # r => Idle(q)
    <3>1. up /\ \A q \in Runs : q # r => Idle(q)
      BY <1>1, <2>1 DEF DrunInv, TypeOK, Alone, Inside, Idle
    <3>2. \A q \in Runs : pc[q] # "wait"
      BY <2>1, <3>1 DEF Inside, Idle
    <3> QED BY <1>1, <3>1, <3>2 DEF DrunInv, Alone
  <2>2. PICK p : SaltProcesses \subseteq {p}
    <3>1. CASE \E r \in Runs : pc[r] \in {"resync", "command"}
      <4>1. PICK r \in Runs : Inside(r)
        BY <3>1 DEF Inside
      <4>2. SaltProcesses \subseteq {r}
        BY <2>1, <4>1 DEF SaltProcesses, Idle
      <4> QED BY <4>2
    <3>2. CASE ~\E r \in Runs : pc[r] \in {"resync", "command"}
      <4>1. SaltProcesses \subseteq {None}
        BY <3>2 DEF SaltProcesses
      <4> QED BY <4>1
    <3> QED BY <3>1, <3>2
  <2>3. IsFiniteSet({p}) /\ Cardinality({p}) = 1
    BY FS_Singleton
  <2>4. Cardinality(SaltProcesses) <= Cardinality({p})
    BY <2>2, <2>3, FS_Subset
  <2> QED BY <2>3, <2>4
<1>2. DrunInv => OneSaltAtATime
  BY <1>1 DEF OneSaltAtATime
<1> QED BY <1>2, DrunInvHolds, PTL

(* A command with grains= sees its own in the roster, not those of an        *)
(* earlier call in the same container, nor a roster without: if calls are    *)
(* made one after the other, or if those with grains= are and this one       *)
(* waited for its container (entrypoint.sh, 4 and 21-27).                    *)
THEOREM GrainsAreOwn == Spec => []OwnGrains
<1>1. ASSUME DrunInv PROVE OwnGrains
  <2>1. ASSUME NEW r \in WithGrains, pc[r] = "command" PROVE up
    BY <1>1, <2>1, RunsAssumption DEF DrunInv, TypeOK
  <2> QED BY <1>1, <2>1 DEF DrunInv, Lines, Grains, Owns, OwnGrains
<1> QED BY <1>1, DrunInvHolds, PTL
================================================================================
