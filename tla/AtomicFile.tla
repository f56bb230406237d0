------------------------------ MODULE AtomicFile ------------------------------
(***************************************************************************)
(* What the cache file of vault_salt_sdb promises to the contexts that     *)
(* share it: a save takes effect at one moment or not at all, and a load   *)
(* is a look at the file at one moment.  VaultSaltSdb takes the file for   *)
(* such a one.                                                             *)
(***************************************************************************)
CONSTANTS Contexts, Versions, None

VARIABLES
    file,    \* what a load would give: a saved cache, or None
    kept,    \* what it would give after an outage
    offered, \* by context: the cache it is about to save
    view     \* by context: the cache it has loaded

vars == <<file, kept, offered, view>>

Init ==
    /\ file = None /\ kept = None
    /\ offered = [c \in Contexts |-> None]
    /\ view = [c \in Contexts |-> None]

Offer(c, v) ==
    /\ offered[c] = None
    /\ offered' = [offered EXCEPT ![c] = v]
    /\ UNCHANGED <<file, kept, view>>

Commit(c) ==
    /\ offered[c] # None
    /\ file' = offered[c]
    /\ offered' = [offered EXCEPT ![c] = None]
    /\ UNCHANGED <<kept, view>>

Load(c) ==
    /\ view[c] = None
    /\ view' = [view EXCEPT ![c] = file]
    /\ UNCHANGED <<file, kept, offered>>

(* A save or a load fails, or the context ends.                              *)
Drop(c) ==
    /\ offered' = [offered EXCEPT ![c] = None]
    /\ view' \in {view, [view EXCEPT ![c] = None]}
    /\ UNCHANGED <<file, kept>>

(* The file is gone, with or without the contexts.                           *)
Lose ==
    /\ file' = None
    /\ UNCHANGED <<kept, offered, view>>

Keep ==
    /\ kept' = file
    /\ UNCHANGED <<file, offered, view>>

(* What was saved last may be lost, for what was kept before it or for good. *)
Outage ==
    /\ file' \in {kept, None}
    /\ kept' = file'
    /\ offered' = [c \in Contexts |-> None]
    /\ view' = [c \in Contexts |-> None]

Next ==
    \/ \E c \in Contexts :
          \/ \E v \in Versions : Offer(c, v)
          \/ Commit(c) \/ Load(c) \/ Drop(c)
    \/ Lose \/ Keep \/ Outage

Spec == Init /\ [][Next]_vars
=============================================================================
