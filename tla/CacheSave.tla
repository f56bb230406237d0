------------------------------ MODULE CacheSave ------------------------------
(***************************************************************************)
(* _load_cache and _save_cache of salt/_sdb/vault_salt_sdb.py, step by     *)
(* step: several contexts read and replace one file while they may be      *)
(* killed, the disk may fill up and the machine may go down.               *)
(*                                                                         *)
(* A file is an inode that has a name: the path of the cache, or that of a *)
(* temporary file beside it.  A file that is open stays what it is when    *)
(* its name goes to another one.                                           *)
(***************************************************************************)
EXTENDS FiniteSets, Naturals

CONSTANTS
    Contexts,
    Versions,   \* the contents that are saved
    Inodes,     \* room on the disk
    MaxMishaps, \* bound on kills, outages and failing removals
    None

ASSUME CacheSaveAssumption ==
    /\ IsFiniteSet(Contexts) /\ IsFiniteSet(Inodes) /\ MaxMishaps \in Nat
    /\ None \notin Contexts \cup Versions \cup Inodes

VARIABLES
    store,   \* by inode: the cache that is written to it
    whole,   \* the inodes to which all of it was written
    path,    \* the inode under the path of the cache
    temps,   \* the inodes under names of temporary files
    disk,    \* path and temps as they are on the disk
    tmp,     \* by context: the temporary file of its save
    fd,      \* by context: the file it is reading
    loaded,  \* by context: the cache it has loaded, None for an empty one
    pc,      \* by context: where in _load_cache or _save_cache it is
    mishaps

vars == <<store, whole, path, temps, disk, tmp, fd, loaded, pc, mishaps>>

Phases == {"new", "read", "idle", "write", "replace", "clean"}
Saving == {"write", "replace", "clean"}

(* Types; a context has its temporary file while it saves and an open file   *)
(* while it reads, and no file under the path is a temporary one.            *)
TypeOK ==
    /\ store \in [Inodes -> Versions \cup {None}]
    /\ whole \subseteq Inodes
    /\ path \in Inodes \cup {None}
    /\ temps \subseteq Inodes
    /\ disk \in [path : Inodes \cup {None}, temps : SUBSET Inodes]
    /\ tmp \in [Contexts -> Inodes \cup {None}]
    /\ fd \in [Contexts -> Inodes \cup {None}]
    /\ loaded \in [Contexts -> Versions \cup {None}]
    /\ pc \in [Contexts -> Phases]
    /\ mishaps \in Nat
    /\ {path, disk.path} \cap temps = {} /\ disk.path \notin disk.temps
    /\ \A c \in Contexts :
          /\ IF pc[c] \in Saving THEN tmp[c] \in temps ELSE tmp[c] = None
          /\ IF pc[c] = "read" THEN fd[c] \in Inodes \ temps ELSE fd[c] = None
          /\ pc[c] \in {"new", "read"} => loaded[c] = None

(* No cache yet, and no context has looked for it.                           *)
Init ==
    /\ store = [i \in Inodes |-> None]
    /\ whole = {}
    /\ path = None
    /\ temps = {}
    /\ disk = [path |-> None, temps |-> {}]
    /\ tmp = [c \in Contexts |-> None]
    /\ fd = [c \in Contexts |-> None]
    /\ loaded = [c \in Contexts |-> None]
    /\ pc = [c \in Contexts |-> "new"]
    /\ mishaps = 0

-----------------------------------------------------------------------------
(* Helpers *)

(* A file cut short cannot be decrypted or parsed: an empty cache.           *)
Parsed(inode) == IF inode \in whole THEN store[inode] ELSE None

Named == {path, disk.path} \cup temps \cup disk.temps

Free == Inodes \ (Named \cup {fd[c] : c \in Contexts})

(* The file a save writes to: open(path, "wb"), or mkstemp.                  *)
InPlace == IF path = None THEN Free ELSE {path}

Target == Free

(* Without the finally clause; with it.                                      *)
NothingRemoved(c) == temps

Removed(c) == temps \ {tmp[c]}

Goto(c, label) == pc' = [pc EXCEPT ![c] = label]

-----------------------------------------------------------------------------
(* _load_cache *)

NotFound(c) ==
    /\ pc[c] = "new"
    /\ path = None
    /\ Goto(c, "idle")
    /\ UNCHANGED <<store, whole, path, temps, disk, tmp, fd, loaded, mishaps>>

Open(c) ==
    /\ pc[c] = "new"
    /\ path # None
    /\ fd' = [fd EXCEPT ![c] = path]
    /\ Goto(c, "read")
    /\ UNCHANGED <<store, whole, path, temps, disk, tmp, loaded, mishaps>>

(* What was read is kept in _CACHES, or an empty cache if reading failed.    *)
Read(c) ==
    /\ pc[c] = "read"
    /\ \E cache \in {Parsed(fd[c]), None} : loaded' = [loaded EXCEPT ![c] = cache]
    /\ fd' = [fd EXCEPT ![c] = None]
    /\ Goto(c, "idle")
    /\ UNCHANGED <<store, whole, path, temps, disk, tmp, mishaps>>

-----------------------------------------------------------------------------
(* _save_cache *)

(* The cache is serialised, and mkstemp makes an empty file.                 *)
MakeTemp(c, v) ==
    /\ pc[c] = "idle"
    /\ \E i \in Target :
          /\ store' = [store EXCEPT ![i] = v]
          /\ whole' = whole \ {i}
          /\ temps' = temps \cup {i}
          /\ tmp' = [tmp EXCEPT ![c] = i]
    /\ Goto(c, "write")
    /\ UNCHANGED <<path, disk, fd, loaded, mishaps>>

(* mkstemp fails: a warning is logged, and that is all.                      *)
NoRoom(c) ==
    /\ pc[c] = "idle"
    /\ Free = {}
    /\ UNCHANGED vars

(* write and close; chmod                                                    *)
Write(c) ==
    /\ pc[c] = "write"
    /\ whole' = whole \cup {tmp[c]}
    /\ Goto(c, "replace")
    /\ UNCHANGED <<store, path, temps, disk, tmp, fd, loaded, mishaps>>

Replace(c) ==
    /\ pc[c] = "replace"
    /\ path' = tmp[c]
    /\ temps' = temps \ {tmp[c]}
    /\ tmp' = [tmp EXCEPT ![c] = None]
    /\ Goto(c, "idle")
    /\ UNCHANGED <<store, whole, disk, fd, loaded, mishaps>>

(* The disk is full, chmod or replace is refused.                            *)
Fail(c) ==
    /\ pc[c] \in {"write", "replace"}
    /\ Goto(c, "clean")
    /\ UNCHANGED <<store, whole, path, temps, disk, tmp, fd, loaded, mishaps>>

Remove(c) ==
    /\ pc[c] = "clean"
    /\ temps' = Removed(c)
    /\ tmp' = [tmp EXCEPT ![c] = None]
    /\ Goto(c, "idle")
    /\ UNCHANGED <<store, whole, path, disk, fd, loaded, mishaps>>

(* os.remove raises OSError, which is passed over.                           *)
RemoveFails(c) ==
    /\ pc[c] = "clean"
    /\ mishaps < MaxMishaps
    /\ tmp' = [tmp EXCEPT ![c] = None]
    /\ Goto(c, "idle")
    /\ mishaps' = mishaps + 1
    /\ UNCHANGED <<store, whole, path, temps, disk, fd, loaded>>

-----------------------------------------------------------------------------
(* The world *)

(* The process ends or is killed, and another one begins.                    *)
Kill(c) ==
    /\ pc[c] # "new"
    /\ mishaps < MaxMishaps
    /\ tmp' = [tmp EXCEPT ![c] = None]
    /\ fd' = [fd EXCEPT ![c] = None]
    /\ loaded' = [loaded EXCEPT ![c] = None]
    /\ Goto(c, "new")
    /\ mishaps' = mishaps + 1
    /\ UNCHANGED <<store, whole, path, temps, disk>>

(* The file system writes the names back, when it likes: the driver does not *)
(* ask for it.                                                               *)
Sync ==
    /\ disk' = [path |-> path, temps |-> temps]
    /\ UNCHANGED <<store, whole, path, temps, tmp, fd, loaded, pc, mishaps>>

(* The machine goes down.  Names are back where they were when they were     *)
(* last written, saves and removals since then undone, and the file under    *)
(* the path may be cut short.                                                *)
PowerLoss ==
    /\ mishaps < MaxMishaps
    /\ path' = disk.path /\ temps' = disk.temps
    /\ whole' \in {whole, whole \ {disk.path}}
    /\ tmp' = [c \in Contexts |-> None]
    /\ fd' = [c \in Contexts |-> None]
    /\ loaded' = [c \in Contexts |-> None]
    /\ pc' = [c \in Contexts |-> "new"]
    /\ mishaps' = mishaps + 1
    /\ UNCHANGED <<store, disk>>

(* Somebody deletes the cache.                                               *)
Delete ==
    /\ path # None
    /\ path' = None
    /\ UNCHANGED <<store, whole, temps, disk, tmp, fd, loaded, pc, mishaps>>

-----------------------------------------------------------------------------
(* Specification *)

Step(c) ==
    \/ NotFound(c) \/ Open(c) \/ Read(c)
    \/ \E v \in Versions : MakeTemp(c, v)
    \/ NoRoom(c) \/ Write(c) \/ Replace(c) \/ Fail(c) \/ Remove(c) \/ RemoveFails(c)
    \/ Kill(c)

Next == (\E c \in Contexts : Step(c)) \/ Sync \/ PowerLoss \/ Delete

Spec == Init /\ [][Next]_vars

-----------------------------------------------------------------------------
(* Properties *)

(* Temporary files, which hold a token and perhaps secrets, do not pile up:  *)
(* whatever fails on the way, a save that ends takes its own with it, and    *)
(* each mishap leaves no more than one per context.                          *)
LeftoversBounded ==
    Cardinality(temps \ {tmp[c] : c \in Contexts})
        <= mishaps * Cardinality(Contexts)

(* What the file is, and what contexts are about to save and have loaded: a  *)
(* load happens when the file is opened, a save when it is replaced.         *)
FileValue == IF path = None THEN None ELSE Parsed(path)

KeptValue == IF disk.path = None THEN None ELSE Parsed(disk.path)

OfferOf(c) == IF pc[c] \in {"write", "replace"} THEN store[tmp[c]] ELSE None

ViewOf(c) == IF pc[c] = "read" THEN Parsed(fd[c]) ELSE loaded[c]

Atomic == INSTANCE AtomicFile WITH
    file <- FileValue,
    kept <- KeptValue,
    offered <- [c \in Contexts |-> OfferOf(c)],
    view <- [c \in Contexts |-> ViewOf(c)]

(* os.replace is "atomic" (line 257): whichever contexts load and save at    *)
(* the same time, and wherever they are killed, a load finds one whole cache *)
(* that some context meant to save, or none.                                 *)
ImplementsAtomicFile == Atomic!Spec
=============================================================================
