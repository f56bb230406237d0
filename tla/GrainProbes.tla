------------------------------ MODULE GrainProbes ------------------------------
(***************************************************************************)
(* The grains mysql and redis: what a minion finds out about the database  *)
(* server that the default configuration of the client leads to, and       *)
(* whether that server runs on this machine.                               *)
(*                                                                         *)
(* One probe of one of the two grains.  It asks the server (mysql: a rich  *)
(* query, and a plain one when that fails; redis: INFO), and looks the     *)
(* process id it was told up in /proc (mysql: by way of the pidfile whose  *)
(* path it was told).  Nothing holds still meanwhile: servers stop and     *)
(* start, here and elsewhere, pids are used again, pidfiles are left over, *)
(* the server changes its mind or hangs.                                   *)
(***************************************************************************)
EXTENDS Naturals, FiniteSets

CONSTANTS
    Pids,       \* process ids, of this machine and of others
    MaxEvents,  \* bound on what happens beside the probe
    None

(* What the grain may call a server.                                         *)
Flavors == {"mariadb", "percona", "valkey", "mysql", "redis"}

ASSUME ProbeAssumption ==
    MaxEvents \in Nat /\ None \notin Pids /\ None \notin Flavors

(* Words in VERSION() and @@version_comment, or in the answer to INFO, that  *)
(* the code looks for; INFO also tells paths, which may be called anything.  *)
Names == {"mariadb", "percona", "valkey", "noauth"}

Banners == [mysql |-> SUBSET {"mariadb", "percona"},
            redis |-> {{}, {"valkey"}, {"noauth"}}]

VARIABLES
    (* the machine and the server *)
    kind,       \* "mysql" or "redis"
    client,     \* there is a client binary
    proc,       \* /proc: pid -> "free", "server" (of this kind) or "other"
    here,       \* the server the client is led to runs on this machine
    pid,        \* its process id, where it runs; None while it is stopped
    pidfile,    \* content, here, of the file at the path it reports
    mood,       \* what it does with queries
    banner,     \* the names it mentions
    events,
    (* the probe *)
    pc,
    grain,      \* what will be returned
    told,       \* the process id it was told; mysql: whether it has a path
    waited,     \* queries that ran into their timeout
    (* for the properties *)
    mine,       \* pids that were servers here since the answer came
    steady      \* the server has been answering the same way all along

machine == <<kind, client, proc, here, pid, pidfile, mood, banner, events>>
vars == <<kind, client, proc, here, pid, pidfile, mood, banner, events,
          pc, grain, told, waited, mine, steady>>

(* rich: all queries are served; plain: the rich one fails; refuse: none is; *)
(* locked: a password is asked for; hang: no answer comes.                   *)
Moods == [mysql |-> {"rich", "plain", "refuse", "hang"},
          redis |-> {"rich", "locked", "refuse", "hang"}]

-----------------------------------------------------------------------------
(* Helpers *)

(* mariadb is looked for first: it may mention its relatives.                *)
Flavor ==
    IF kind = "redis" THEN IF "valkey" \in banner THEN "valkey" ELSE "redis"
    ELSE IF "mariadb" \in banner THEN "mariadb"
    ELSE IF "percona" \in banner THEN "percona"
    ELSE "mysql"

(* Any process is taken for a server; mariadbd is not; comm is compared.     *)
PidExists(p) == p # None /\ proc[p] # "free"

PidIsMysqld(p) == p # None /\ proc[p] = "server" /\ "mariadb" \notin banner

PidIsServer(p) == p # None /\ proc[p] = "server"

(* There is no second query; the first is made again; mysql has a plain one, *)
(* redis none.                                                               *)
NoSecondQuery == "done"

FirstAgain == IF kind = "mysql" THEN "first" ELSE "done"

AfterFailure == IF kind = "mysql" THEN "plain" ELSE "done"

(* Nobody kills a client that hangs; subprocess does, after 5 seconds.       *)
NeverKilled == FALSE

Killed == mood = "hang"

(* "NOAUTH" in text.upper()                                                  *)
Locked == kind = "redis" /\ (mood = "locked" \/ (mood = "rich" /\ "noauth" \in banner))

Queries == IF kind = "mysql" THEN 2 ELSE 1

Servers == {p \in Pids : proc[p] = "server"}

-----------------------------------------------------------------------------
(* A grain that is not available says nothing about the server, and only a   *)
(* probe that is over says that it is local.                                 *)
TypeOK ==
    /\ kind \in {"mysql", "redis"}
    /\ {client, here, steady} \subseteq BOOLEAN
    /\ proc \in [Pids -> {"free", "server", "other"}]
    /\ pid \in Pids \cup {None} /\ pidfile \in Pids \cup {None}
    /\ (here /\ pid # None) => proc[pid] = "server"
    /\ mood \in Moods[kind] /\ (pid = None => mood = "refuse")
    /\ banner \in Banners[kind]
    /\ events \in 0..MaxEvents
    /\ pc \in {"scan", "client", "first", "plain", "pidfile", "comm", "done"}
    /\ grain \in [available : BOOLEAN, local : BOOLEAN, flavor : Flavors \cup {None},
                  pid : Pids \cup {None}, process : BOOLEAN,
                  auth_required : BOOLEAN]
    /\ waited \in 0..Queries
    /\ told \in Pids \cup {None}
    /\ mine \subseteq Pids
    /\ grain.available <=> grain.flavor # None
    /\ grain.local => grain.available /\ grain.pid # None /\ pc = "done"
    /\ grain.auth_required => kind = "redis" /\ ~grain.available

NothingFound ==
    [available |-> FALSE, local |-> FALSE, flavor |-> None, pid |-> None,
     process |-> FALSE, auth_required |-> FALSE]

(* A server elsewhere has a process id of its own namespace, and a pidfile   *)
(* there; the file at the same path here is another server's, or none.       *)
Init ==
    /\ kind \in {"mysql", "redis"}
    /\ client \in BOOLEAN
    /\ proc \in [Pids -> {"free", "server", "other"}]
    /\ here \in BOOLEAN
    /\ pid \in IF here THEN Servers \cup {None} ELSE Pids \cup {None}
    /\ pidfile \in Pids \cup {None}
    /\ here /\ pid # None => pidfile = pid
    /\ mood \in IF pid = None THEN {"refuse"} ELSE Moods[kind]
    /\ banner \in Banners[kind]
    /\ events = 0
    /\ pc = "scan" /\ grain = NothingFound
    /\ told = None /\ waited = 0
    /\ mine = {} /\ steady = TRUE

-----------------------------------------------------------------------------
(* The probe *)

(* _local_server_process, for information only.                              *)
Scan ==
    /\ pc = "scan"
    /\ grain' = [grain EXCEPT !.process = Servers # {}]
    /\ pc' = "client"
    /\ UNCHANGED <<machine, told, waited, mine, steady>>

FindClient ==
    /\ pc = "client"
    /\ pc' = IF client THEN "first" ELSE "done"
    /\ UNCHANGED <<machine, grain, told, waited, mine, steady>>

(* The grain becomes available, with what the answer says.  Of the process   *)
(* id mysql tells the file only, and only to the rich query.                 *)
Found(p, next) ==
    /\ grain' = [grain EXCEPT !.available = TRUE, !.flavor = Flavor,
                              !.pid = IF kind = "redis" THEN p ELSE None]
    /\ told' = p
    /\ pc' = next
    /\ mine' = Servers

RichServed ==
    /\ pc = "first"
    /\ mood = "rich" /\ ~Locked
    /\ Found(pid, IF kind = "mysql" THEN "pidfile" ELSE "comm")
    /\ UNCHANGED <<machine, waited, steady>>

(* information_schema is in the way, the server refuses, or is not there.    *)
FirstFails ==
    /\ pc = "first"
    /\ mood \in {"plain", "refuse"} \/ Locked
    /\ pc' = AfterFailure
    /\ grain' = [grain EXCEPT !.auth_required = Locked]
    /\ UNCHANGED <<machine, told, waited, mine, steady>>

TimesOut ==
    /\ pc \in {"first", "plain"}
    /\ Killed
    /\ waited' = waited + 1
    /\ pc' = IF pc = "first" THEN AfterFailure ELSE "done"
    /\ UNCHANGED <<machine, grain, told, mine, steady>>

PlainServed ==
    /\ pc = "plain"
    /\ mood \in {"rich", "plain"}
    /\ Found(None, "done")
    /\ UNCHANGED <<machine, waited, steady>>

PlainFails ==
    /\ pc = "plain"
    /\ mood = "refuse"
    /\ pc' = "done"
    /\ UNCHANGED <<machine, grain, told, waited, mine, steady>>

(* _pid_from_file, of the file here whatever the server meant.               *)
ReadPidfile ==
    /\ pc = "pidfile"
    /\ told' = pidfile
    /\ grain' = [grain EXCEPT !.pid = pidfile]
    /\ pc' = "comm"
    /\ UNCHANGED <<machine, waited, mine, steady>>

ReadComm ==
    /\ pc = "comm"
    /\ grain' = [grain EXCEPT !.local = PidIsServer(told)]
    /\ pc' = "done"
    /\ UNCHANGED <<machine, told, waited, mine, steady>>

-----------------------------------------------------------------------------
(* Beside the probe *)

Happens == events < MaxEvents /\ events' = events + 1 /\ pc # "done"

(* The server of the client stops; its pidfile may stay, and its process id  *)
(* may be used by another program at once.                                   *)
ServerStops ==
    /\ Happens
    /\ pid # None
    /\ pid' = None /\ mood' = "refuse" /\ steady' = FALSE
    /\ IF here
       THEN \E next \in {"free", "other"}, left \in {pid, None} :
                /\ proc' = [proc EXCEPT ![pid] = next]
                /\ pidfile' = left
       ELSE UNCHANGED <<proc, pidfile>>
    /\ UNCHANGED <<kind, client, here, banner, pc, grain, told, waited, mine>>

(* It starts, and answers in any way.                                        *)
ServerStarts ==
    /\ Happens
    /\ pid = None
    /\ \E p \in Pids :
           /\ here => proc[p] = "free"
           /\ pid' = p
           /\ proc' = IF here THEN [proc EXCEPT ![p] = "server"] ELSE proc
           /\ pidfile' = IF here THEN p ELSE pidfile
           /\ mine' = IF here THEN mine \cup {p} ELSE mine
    /\ mood' \in Moods[kind]
    /\ steady' = FALSE
    /\ UNCHANGED <<kind, client, here, banner, pc, grain, told, waited>>

(* A password is set, information_schema recovers, the disk hangs...         *)
MoodChanges ==
    /\ Happens
    /\ pid # None
    /\ mood' \in Moods[kind] \ {mood}
    /\ steady' = FALSE
    /\ UNCHANGED <<kind, client, proc, here, pid, pidfile, banner, pc, grain,
                   told, waited, mine>>

(* Another server of this kind starts here, on another port or in a          *)
(* namespace of its own that we see; its pidfile may have the same path.     *)
OtherStarts ==
    /\ Happens
    /\ \E p \in Pids :
           /\ proc[p] = "free"
           /\ proc' = [proc EXCEPT ![p] = "server"]
           /\ mine' = mine \cup {p}
           /\ pidfile' \in IF here THEN {pidfile} ELSE {pidfile, p}
    /\ UNCHANGED <<kind, client, here, pid, mood, banner, pc, grain, told, waited,
                   steady>>

-----------------------------------------------------------------------------
(* Specification *)

Probe ==
    \/ Scan \/ FindClient \/ RichServed \/ FirstFails \/ TimesOut
    \/ PlainServed \/ PlainFails \/ ReadPidfile \/ ReadComm

Beside == ServerStops \/ ServerStarts \/ MoodChanges \/ OtherStarts

(* The grain is returned; or nothing happens yet, since the server hangs.    *)
Stands ==
    /\ pc = "done" \/ (pc \in {"first", "plain"} /\ mood = "hang")
    /\ UNCHANGED vars

Next == Probe \/ Beside \/ Stands

Spec == Init /\ [][Next]_vars

(* The probe is a process of its own; nothing is assumed of the server.      *)
FairSpec == Spec /\ WF_vars(Probe)

-----------------------------------------------------------------------------
(* Properties *)

(* A server that goes on serving at least the plain query is found, and one  *)
(* that goes on refusing is not, so that a quirky information_schema cannot  *)
(* make a live server unavailable (mysql_available.py, 63-65).  A server     *)
(* whose INFO has the word noauth in a path is left out: it is not found.    *)
LiveMeansAvailable ==
    (pc = "done" /\ client /\ steady /\ "noauth" \notin banner) =>
        (grain.available <=> mood \in {"rich", "plain"})

(* Whatever pidfiles are left over and pids used again, a grain says local   *)
(* only if a server of this kind was running here when it was answered or    *)
(* since: with a server here that kept running, it is that server; else it   *)
(* may be a namesake of one elsewhere.                                       *)
LocalIsServer ==
    grain.local =>
        /\ grain.pid \in mine
        /\ (here /\ steady) => grain.pid = pid

(* A server here that serves the first query and runs on is found to be      *)
(* local.                                                                    *)
HereMeansLocal ==
    (pc = "done" /\ steady /\ here /\ mood = "rich" /\ grain.available) => grain.local

(* A probe ends, whatever the server does: all of Salt waits for it          *)
(* (mysql_available.py, 22-25).                                              *)
ProbeEnds == <>(pc = "done")
=============================================================================
