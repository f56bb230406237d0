----------------------------- MODULE SecretReads -----------------------------
(***************************************************************************)
(* What an sdb lookup promises to the pillar that asks for a secret,       *)
(* whatever happens between the driver, its caches and the Vault:          *)
(*                                                                         *)
(*   - a rendering context that got a value of a path keeps that value of  *)
(*     that path until it ends;                                            *)
(*   - a value given for the first time was the secret's value at some     *)
(*     moment of the call, or less than MaxAge before the call began;      *)
(*   - a call that gives no value changes nothing the context has seen.    *)
(***************************************************************************)
EXTENDS Integers

CONSTANTS Contexts, Paths, None, MaxAge, MaxVersion

VARIABLES
    now,        \* wall clock
    secret,     \* the current version of each secret
    retired,    \* when a version was superseded
    view,       \* the values each context has been given
    call,       \* the running call of each context
    result      \* what its last call gave

vars == <<now, secret, retired, view, call, result>>

NoValues == [s \in Paths |-> None]

(* Version v of secret s was current at some time after since - MaxAge.      *)
Recent(s, v, since) ==
    \/ v = secret[s]
    \/ v < secret[s] /\ retired[s][v] >= since
    \/ v < secret[s] /\ retired[s][v] + MaxAge > since

Init ==
    /\ now = 0
    /\ secret = [s \in Paths |-> 0]
    /\ retired = [s \in Paths |-> [v \in 0..MaxVersion |-> 0]]
    /\ view = [c \in Contexts |-> NoValues]
    /\ call = [c \in Contexts |-> None]
    /\ result = [c \in Contexts |-> None]

Begin(c, s) ==
    /\ call[c] = None
    /\ view[c][s] = None
    /\ call' = [call EXCEPT ![c] = [path |-> s, start |-> now]]
    /\ result' = [result EXCEPT ![c] = None]
    /\ UNCHANGED <<now, secret, retired, view>>

(* A path this context has already resolved.                                 *)
Again(c, s) ==
    /\ call[c] = None
    /\ view[c][s] # None
    /\ result' = [result EXCEPT ![c] = [path |-> s, data |-> view[c][s]]]
    /\ UNCHANGED <<now, secret, retired, view, call>>

Return(c, v) ==
    /\ call[c] # None
    /\ Recent(call[c].path, v, call[c].start)
    /\ view' = [view EXCEPT ![c][call[c].path] = v]
    /\ result' = [result EXCEPT ![c] = [path |-> call[c].path, data |-> v]]
    /\ call' = [call EXCEPT ![c] = None]
    /\ UNCHANGED <<now, secret, retired>>

Fail(c) ==
    /\ call[c] # None
    /\ result' = [result EXCEPT ![c] = [path |-> call[c].path, data |-> None]]
    /\ call' = [call EXCEPT ![c] = None]
    /\ UNCHANGED <<now, secret, retired, view>>

End(c) ==
    /\ view' = [view EXCEPT ![c] = NoValues]
    /\ call' = [call EXCEPT ![c] = None]
    /\ result' = [result EXCEPT ![c] = None]
    /\ UNCHANGED <<now, secret, retired>>

Tick ==
    /\ now' = now + 1
    /\ UNCHANGED <<secret, retired, view, call, result>>

Rotate(s) ==
    /\ secret[s] < MaxVersion
    /\ secret' = [secret EXCEPT ![s] = @ + 1]
    /\ retired' = [retired EXCEPT ![s][secret[s]] = now]
    /\ UNCHANGED <<now, view, call, result>>

Next ==
    \/ Tick
    \/ \E s \in Paths : Rotate(s)
    \/ \E c \in Contexts :
         \/ \E s \in Paths : Begin(c, s) \/ Again(c, s)
         \/ \E v \in 0..MaxVersion : Return(c, v)
         \/ Fail(c)
         \/ End(c)

Spec == Init /\ [][Next]_vars
=============================================================================
