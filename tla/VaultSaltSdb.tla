---------------------------- MODULE VaultSaltSdb ----------------------------
(***************************************************************************)
(* The Vault sdb driver, salt/_sdb/vault_salt_sdb.py: sdb lookups of       *)
(* several rendering contexts that share one cache file without a lock.    *)
(*                                                                         *)
(* A context is one loaded copy of the Python module: a salt-ssh render, a *)
(* salt-call of the pillar check, a worker of a salt master.  Its module   *)
(* globals are mem (_CACHES), render (_RENDER_SECRETS) and vdown           *)
(* (_VAULT_DOWN); they live until the context ends.  All contexts use one  *)
(* Vault base URL, one KV mount and one cache file.                        *)
(*                                                                         *)
(* A step is the code between two points at which another context, the     *)
(* Vault or the clock can be seen: reading the file, replacing it, sending *)
(* a request, receiving the answer, asking for the time.                   *)
(***************************************************************************)
EXTENDS Integers, FiniteSets

CONSTANTS
    Contexts,       \* rendering contexts
    Paths,          \* secret paths of the mount
    None,           \* absence of a value
    Static,         \* TRUE: auth:method is "token"; FALSE: approle or jwt
    CacheOn,        \* profile cache_secrets
    FreshFor,       \* profile cache_fresh_for
    OfflineMaxAge,  \* profile cache_offline_max_age
    Cooldown,       \* profile outage_cooldown
    PinnedKv,       \* profile kv_version, 0 when it is omitted
    TrueKv,         \* KV version of the mount at the Vault
    Lease,          \* lease_duration of an issued token, 0: never expires
    DefaultLease,   \* how long a token of lease 0 is cached (60 s)
    Margin,         \* a cached token is not reused this close to its end (10 s)
    Faults,         \* which faults happen: "crash", "save", "file"
    MaxTime,        \* bound on the clock
    MaxVersion,     \* bound on the rotations of one secret
    MaxEpoch        \* bound on the revocations of all tokens

ASSUME ConstantsAssumption ==
    /\ Static \in BOOLEAN /\ CacheOn \in BOOLEAN
    /\ FreshFor \in Nat /\ OfflineMaxAge \in Nat /\ Cooldown \in Nat
    /\ Lease \in Nat /\ DefaultLease \in Nat /\ Margin \in Nat
    /\ MaxTime \in Nat /\ MaxVersion \in Nat /\ MaxEpoch \in Nat
    /\ TrueKv \in {1, 2} /\ PinnedKv \in {0, TrueKv}
    /\ Faults \subseteq {"crash", "save", "file"}

VARIABLES
    now,        \* wall clock, time.time()
    secret,     \* Vault: the current version of each secret
    retired,    \* history: when a version of a secret was superseded
    epoch,      \* Vault: tokens of earlier epochs are revoked
    untold,     \* history: a detection was answered without a version
    lastFail,   \* history: time of the last failure seen by any context
    file,       \* the cache file, None when absent or unreadable
    mem,        \* _CACHES of each context, None before the first load
    render,     \* _RENDER_SECRETS of each context
    vdown,      \* _VAULT_DOWN of each context
    pc,         \* where each context is
    after,      \* where it goes on after the save it is about to make
    lookup,     \* the running call of get(), None when there is none
    outcome     \* how the last call of get() ended, None if it did not

vaultVars   == <<secret, retired, epoch, untold>>
contextVars == <<mem, render, vdown, pc, after, lookup, outcome>>
vars == <<now, secret, retired, epoch, untold, lastFail, file, mem, render,
          vdown, pc, after, lookup, outcome>>

-----------------------------------------------------------------------------
(* Data *)

Versions == 0..MaxVersion
Entry == [data : Versions, at : Nat]                  \* "secrets" section
Grant == [epoch : Nat, mint : Nat]                    \* a token, by its origin
CachedToken == [grant : Grant, exp : Nat]             \* "tokens" section

Cache == [tok     : CachedToken \cup {None},
          kv      : {0, 1, 2},
          secrets : [Paths -> Entry \cup {None}],
          down    : Nat \cup {None}]

EmptyCache == [tok |-> None, kv |-> 0,
               secrets |-> [s \in Paths |-> None], down |-> None]

Response == [status : {"ok", "bare", "denied", "fail", "odd"},
             data   : Versions \cup {None},
             grant  : Grant \cup {None}]

Lookup == [path  : Paths,
           start : Nat,                               \* now = time.time()
           goal  : {"detect", "read", "reread"},
           req   : {"login", "call"},
           ver   : {0, 1, 2},
           tok   : Grant \cup {None},
           resp  : Response \cup {None}]

Labels == {"idle", "load", "auth", "send", "wait", "got", "answer",
           "save", "unreach"}

Outcome == [kind  : {"dedup", "fresh", "vault", "stale", "denied", "error",
                     "down"},
            path  : Paths,
            start : Nat,
            data  : Versions \cup {None}]

StaticToken == [epoch |-> 0, mint |-> 0]

ASSUME NoneAssumption ==
    /\ None \notin Nat /\ None \notin Paths
    /\ None \notin Entry /\ None \notin Grant /\ None \notin CachedToken
    /\ None \notin Cache /\ None \notin Response
    /\ None \notin Lookup /\ None \notin Outcome
    /\ None \notin [path : Paths, start : Nat]

(* A context inside get(): every label but idle, and but the save that       *)
(* precedes the return.                                                      *)
Busy(c) == pc[c] # "idle" /\ ~(pc[c] = "save" /\ after[c] = "idle")

(* Every variable has its type, a lookup is there as long as its context is  *)
(* busy, and a context has its cache before it saves it or looks into it.    *)
TypeOK ==
    /\ now \in Nat
    /\ secret \in [Paths -> Versions]
    /\ retired \in [Paths -> [Versions -> Nat]]
    /\ epoch \in Nat
    /\ untold \in BOOLEAN
    /\ lastFail \in Nat \cup {None}
    /\ file \in Cache \cup {None}
    /\ mem \in [Contexts -> Cache \cup {None}]
    /\ render \in [Contexts -> [Paths -> Versions \cup {None}]]
    /\ vdown \in [Contexts -> BOOLEAN]
    /\ pc \in [Contexts -> Labels]
    /\ after \in [Contexts -> {"idle", "auth", "send", "answer", "unreach"}]
    /\ lookup \in [Contexts -> Lookup \cup {None}]
    /\ outcome \in [Contexts -> Outcome \cup {None}]
    /\ \A c \in Contexts :
         /\ Busy(c) <=> lookup[c] # None
         /\ pc[c] \notin {"idle", "load"} => mem[c] # None

-----------------------------------------------------------------------------
(* Init *)

Init ==
    /\ now = 0
    /\ secret = [s \in Paths |-> 0]
    /\ retired = [s \in Paths |-> [v \in Versions |-> 0]]
    /\ epoch = 0
    /\ untold = FALSE
    /\ lastFail = None
    /\ file = None
    /\ mem = [c \in Contexts |-> None]
    /\ render = [c \in Contexts |-> [s \in Paths |-> None]]
    /\ vdown = [c \in Contexts |-> FALSE]
    /\ pc = [c \in Contexts |-> "idle"]
    /\ after = [c \in Contexts |-> "idle"]
    /\ lookup = [c \in Contexts |-> None]
    /\ outcome = [c \in Contexts |-> None]

-----------------------------------------------------------------------------
(* Helpers *)

Goto(c, label) == pc' = [pc EXCEPT ![c] = label] /\ UNCHANGED after

(* _save_cache(profile), after which the context goes on at label.           *)
SaveThen(c, label) ==
    /\ pc' = [pc EXCEPT ![c] = "save"]
    /\ after' = [after EXCEPT ![c] = label]

(* get() ends, by a return or by an exception.                               *)
Finish(c, kind, data) ==
    /\ outcome' = [outcome EXCEPT ![c] =
           [kind |-> kind, path |-> lookup[c].path,
            start |-> lookup[c].start, data |-> data]]
    /\ lookup' = [lookup EXCEPT ![c] = None]

(* A fresh copy of the file, or what this context loaded before.             *)
LoadedCache(c) ==
    IF mem[c] # None THEN mem[c]
    ELSE IF file # None THEN file
    ELSE EmptyCache

(* An off-by-one in the age test.                                            *)
NotOlderThan(entry, limit, time) == time <= entry.at + limit

(* now - cached_at < limit                                                   *)
YoungerThan(entry, limit, time) == time < entry.at + limit

FreshEntry(c, cache) ==
    LET entry == cache.secrets[lookup[c].path]
    IN  /\ CacheOn
        /\ FreshFor > 0
        /\ entry # None
        /\ YoungerThan(entry, FreshFor, lookup[c].start)

StaleEntry(c) ==
    LET entry == mem[c].secrets[lookup[c].path]
    IN  /\ CacheOn
        /\ OfflineMaxAge > 0
        /\ entry # None
        /\ YoungerThan(entry, OfflineMaxAge, lookup[c].start)

(* The marker kept one second too long; the marker never consulted.          *)
BreakerOpenInclusive(c) ==
    vdown[c] \/ (mem[c].down # None /\ now <= mem[c].down + Cooldown)

BreakerOpenInProcess(c) == vdown[c]

(* The condition under which _request does not touch the network.            *)
BreakerOpen(c) ==
    \/ vdown[c]
    \/ mem[c].down # None /\ now < mem[c].down + Cooldown

(* force is ignored.                                                         *)
ReusableTokenUnforced(c) ==
    mem[c].tok # None /\ now + Margin < mem[c].tok.exp

(* _login returns the cached token.                                          *)
ReusableToken(c) ==
    /\ lookup[c].goal # "reread"                      \* force
    /\ mem[c].tok # None
    /\ now + Margin < mem[c].tok.exp

(* How long the driver believes a token is good for.                         *)
CachedFor == IF Lease = 0 THEN DefaultLease ELSE Lease

(* The Vault honours this token.                                             *)
Accepts(grant) ==
    /\ grant.epoch = epoch
    /\ Static \/ Lease = 0 \/ now < grant.mint + Lease

(* _RENDER_SECRETS is not written; it is.                                    *)
RememberNothing(c, data) == UNCHANGED render

Remember(c, data) == render' = [render EXCEPT ![c][lookup[c].path] = data]

(* The entry is stamped when it is stored; when get() began.                 *)
NewEntryStampedLate(c) == [data |-> lookup[c].resp.data, at |-> now]

NewEntry(c) == [data |-> lookup[c].resp.data, at |-> lookup[c].start]

(* The version in data.options, 2 when it is not there; 2 without an answer. *)
Version(c) == IF lookup[c].resp.status = "ok" THEN TrueKv ELSE 2

(* A version is always kept; it is after a 200, whatever that tells.         *)
AlwaysConfirmed(c) == TRUE

Confirmed(c) == lookup[c].resp.status \in {"ok", "bare"}

(* A 403 refreshes the token each time; once.                                *)
RefreshEachTime(c) == TRUE

RefreshOnce(c) == lookup[c].goal = "read"

(* _down records the failure and returns instead of raising.                 *)
MarkDownThenReturn(c) ==
    /\ vdown' = [vdown EXCEPT ![c] = TRUE]
    /\ mem' = [mem EXCEPT ![c].down = now]
    /\ lastFail' = now
    /\ SaveThen(c, "idle")
    /\ lookup' = [lookup EXCEPT ![c].resp = None]
    /\ UNCHANGED <<render, outcome>>

(* _VAULT_DOWN is forgotten.                                                 *)
MarkDownInFile(c) ==
    /\ mem' = [mem EXCEPT ![c].down = now]
    /\ lastFail' = now
    /\ SaveThen(c, "unreach")
    /\ lookup' = [lookup EXCEPT ![c].resp = None]
    /\ UNCHANGED <<render, vdown, outcome>>

(* _mark_down: both levels of the circuit breaker, then the file.            *)
MarkDown(c) ==
    /\ vdown' = [vdown EXCEPT ![c] = TRUE]
    /\ mem' = [mem EXCEPT ![c].down = now]
    /\ lastFail' = now
    /\ SaveThen(c, "unreach")
    /\ lookup' = [lookup EXCEPT ![c].resp = None]
    /\ UNCHANGED <<render, outcome>>

-----------------------------------------------------------------------------
(* get(): dedup, freshness window *)

LookupDedup(c, s) ==
    /\ pc[c] = "idle"
    /\ render[c][s] # None
    /\ outcome' = [outcome EXCEPT ![c] =
           [kind |-> "dedup", path |-> s, start |-> now,
            data |-> render[c][s]]]
    /\ UNCHANGED <<now, vaultVars, lastFail, file, mem, render, vdown, pc,
                   after, lookup>>

LookupBegin(c, s) ==
    /\ pc[c] = "idle"
    /\ render[c][s] = None
    /\ lookup' = [lookup EXCEPT ![c] =
           [path |-> s, start |-> now, goal |-> "read", req |-> "call",
            ver |-> 0, tok |-> None, resp |-> None]]
    /\ outcome' = [outcome EXCEPT ![c] = None]
    /\ Goto(c, "load")
    /\ UNCHANGED <<now, vaultVars, lastFail, file, mem, render, vdown>>

LoadFresh(c) ==
    LET cache == LoadedCache(c)
        data  == cache.secrets[lookup[c].path].data
    IN  /\ pc[c] = "load"
        /\ mem' = [mem EXCEPT ![c] = cache]
        /\ FreshEntry(c, cache)
        /\ Remember(c, data)
        /\ Finish(c, "fresh", data)
        /\ Goto(c, "idle")
        /\ UNCHANGED <<now, vaultVars, lastFail, file, vdown>>

(* No fresh entry: _read_secret, which needs the KV version first.           *)
LoadThenRead(c) ==
    LET cache == LoadedCache(c)
        known == IF PinnedKv # 0 THEN PinnedKv ELSE cache.kv
    IN  /\ pc[c] = "load"
        /\ mem' = [mem EXCEPT ![c] = cache]
        /\ ~FreshEntry(c, cache)
        /\ lookup' = [lookup EXCEPT ![c].ver = known,
                      ![c].goal = IF known = 0 THEN "detect" ELSE "read"]
        /\ Goto(c, "auth")
        /\ UNCHANGED <<now, vaultVars, lastFail, file, render, vdown, outcome>>

-----------------------------------------------------------------------------
(* _token and _login *)

UseToken(c) ==
    /\ pc[c] = "auth"
    /\ Static \/ ReusableToken(c)
    /\ lookup' = [lookup EXCEPT ![c].req = "call",
                  ![c].tok = IF Static THEN StaticToken
                             ELSE mem[c].tok.grant]
    /\ Goto(c, "send")
    /\ UNCHANGED <<now, vaultVars, lastFail, file, mem, render, vdown, outcome>>

NeedLogin(c) ==
    /\ pc[c] = "auth"
    /\ ~Static
    /\ ~ReusableToken(c)
    /\ lookup' = [lookup EXCEPT ![c].req = "login"]
    /\ Goto(c, "send")
    /\ UNCHANGED <<now, vaultVars, lastFail, file, mem, render, vdown, outcome>>

(* The auth file, the JWT or a setting is missing: an exception.             *)
NoCredentials(c) ==
    /\ pc[c] = "auth"
    /\ Finish(c, "error", None)
    /\ Goto(c, "idle")
    /\ UNCHANGED <<now, vaultVars, lastFail, file, mem, render, vdown>>

-----------------------------------------------------------------------------
(* _request *)

Skip(c) ==
    /\ pc[c] = "send"
    /\ BreakerOpen(c)
    /\ Goto(c, "unreach")
    /\ UNCHANGED <<now, vaultVars, lastFail, file, mem, render, vdown, lookup,
                   outcome>>

Send(c) ==
    /\ pc[c] = "send"
    /\ ~BreakerOpen(c)
    /\ Goto(c, "wait")
    /\ UNCHANGED <<now, vaultVars, lastFail, file, mem, render, vdown, lookup,
                   outcome>>

(* The Vault handles the request.  It may refuse any request (policy), fail  *)
(* any (sealed, 5xx) or answer any with something the driver does not        *)
(* expect; it grants a login the credentials allow and it serves a request   *)
(* that carries a token it honours and names the right API.  A detection may *)
(* be answered without the version (a v1 mount without options): "bare".     *)
VaultAnswers(c, status) ==
    LET call == lookup[c]
        detect  == call.req = "call" /\ call.goal = "detect"
        granted == status = "ok" /\ call.req = "login"
        served  == status = "ok" /\ call.req = "call" /\ call.goal # "detect"
    IN  /\ pc[c] = "wait"
        /\ status \in {"ok", "bare"} /\ call.req = "call" => Accepts(call.tok)
        /\ status = "bare" => detect
        /\ served => call.ver = TrueKv
        /\ untold' = (untold \/ status = "bare")
        /\ lookup' = [lookup EXCEPT ![c].resp =
               [status |-> status,
                data   |-> IF served THEN secret[call.path] ELSE None,
                grant  |-> IF granted THEN [epoch |-> epoch, mint |-> now]
                           ELSE None]]
        /\ Goto(c, "got")
        /\ UNCHANGED <<now, secret, retired, epoch, lastFail, file, mem,
                       render, vdown, outcome>>

(* No connection, a timeout, or an answer lost on its way.                   *)
NetworkFails(c) ==
    /\ pc[c] \in {"wait", "got"}
    /\ MarkDown(c)
    /\ UNCHANGED <<now, vaultVars, file>>

Receive(c) ==
    /\ pc[c] = "got"
    /\ vdown' = [vdown EXCEPT ![c] = FALSE]
    /\ mem' = [mem EXCEPT ![c].down = None]
    /\ IF mem[c].down # None THEN SaveThen(c, "answer") ELSE Goto(c, "answer")
    /\ UNCHANGED <<now, vaultVars, lastFail, file, render, lookup, outcome>>

-----------------------------------------------------------------------------
(* What the caller of _request does with the answer *)

HandleLogin(c) ==
    LET resp == lookup[c].resp
    IN  /\ pc[c] = "answer"
        /\ lookup[c].req = "login"
        /\ \/ /\ resp.status = "ok"
              /\ mem' = [mem EXCEPT ![c].tok =
                     [grant |-> resp.grant, exp |-> now + CachedFor]]
              /\ lookup' = [lookup EXCEPT ![c].req = "call",
                            ![c].tok = resp.grant, ![c].resp = None]
              /\ SaveThen(c, "send")
              /\ UNCHANGED <<lastFail, vdown, render, outcome>>
           \/ /\ resp.status = "denied"
              /\ Finish(c, "denied", None)
              /\ Goto(c, "idle")
              /\ UNCHANGED <<lastFail, mem, vdown, render>>
           \/ /\ resp.status = "odd"
              /\ Finish(c, "error", None)
              /\ Goto(c, "idle")
              /\ UNCHANGED <<lastFail, mem, vdown, render>>
           \/ /\ resp.status = "fail"
              /\ MarkDown(c)
        /\ UNCHANGED <<now, vaultVars, file>>

(* _detect_kv_version and the rest of _kv_version.                           *)
HandleDetect(c) ==
    LET version == Version(c)
    IN  /\ pc[c] = "answer"
        /\ lookup[c].req = "call"
        /\ lookup[c].goal = "detect"
        /\ lookup' = [lookup EXCEPT ![c].goal = "read", ![c].resp = None,
                      ![c].ver = version]
        /\ IF Confirmed(c)
           THEN mem' = [mem EXCEPT ![c].kv = version] /\ SaveThen(c, "auth")
           ELSE UNCHANGED mem /\ Goto(c, "auth")
        /\ UNCHANGED <<now, vaultVars, lastFail, file, render, vdown, outcome>>

HandleRead(c) ==
    LET resp == lookup[c].resp
    IN  /\ pc[c] = "answer"
        /\ lookup[c].req = "call"
        /\ lookup[c].goal \in {"read", "reread"}
        /\ \/ /\ resp.status = "ok"
              /\ Remember(c, resp.data)
              /\ Finish(c, "vault", resp.data)
              /\ IF CacheOn
                 THEN /\ mem' = [mem EXCEPT ![c].secrets =
                             [mem[c].secrets EXCEPT ![lookup[c].path] = NewEntry(c)]]
                      /\ SaveThen(c, "idle")
                 ELSE UNCHANGED mem /\ Goto(c, "idle")
              /\ UNCHANGED <<lastFail, vdown>>
           \/ /\ resp.status = "denied"
              /\ RefreshOnce(c)
              /\ lookup' = [lookup EXCEPT ![c].goal = "reread", ![c].resp = None]
              /\ Goto(c, "auth")
              /\ UNCHANGED <<lastFail, mem, vdown, render, outcome>>
           \/ /\ resp.status = "denied"
              /\ ~RefreshOnce(c)
              /\ Finish(c, "denied", None)
              /\ Goto(c, "idle")
              /\ UNCHANGED <<lastFail, mem, vdown, render>>
           \/ /\ resp.status = "odd"
              /\ Finish(c, "error", None)
              /\ Goto(c, "idle")
              /\ UNCHANGED <<lastFail, mem, vdown, render>>
           \/ /\ resp.status = "fail"
              /\ MarkDown(c)
        /\ UNCHANGED <<now, vaultVars, file>>

-----------------------------------------------------------------------------
(* _VaultUnreachable is caught: by the detection, or by get() *)

(* The detection is tried again; v2 is assumed.                              *)
DetectAgain(c) ==
    /\ pc[c] = "unreach"
    /\ lookup[c].goal = "detect"
    /\ Goto(c, "auth")
    /\ UNCHANGED <<now, vaultVars, lastFail, file, mem, render, vdown, lookup,
                   outcome>>

DetectUnreachable(c) ==
    /\ pc[c] = "unreach"
    /\ lookup[c].goal = "detect"
    /\ lookup' = [lookup EXCEPT ![c].goal = "read", ![c].ver = 2]
    /\ Goto(c, "auth")
    /\ UNCHANGED <<now, vaultVars, lastFail, file, mem, render, vdown, outcome>>

FallBack(c) ==
    LET data == mem[c].secrets[lookup[c].path].data
    IN  /\ pc[c] = "unreach"
        /\ lookup[c].goal # "detect"
        /\ StaleEntry(c)
        /\ Remember(c, data)
        /\ Finish(c, "stale", data)
        /\ Goto(c, "idle")
        /\ UNCHANGED <<now, vaultVars, lastFail, file, mem, vdown>>

GiveUp(c) ==
    /\ pc[c] = "unreach"
    /\ lookup[c].goal # "detect"
    /\ ~StaleEntry(c)
    /\ Finish(c, "down", None)
    /\ Goto(c, "idle")
    /\ UNCHANGED <<now, vaultVars, lastFail, file, mem, render, vdown>>

-----------------------------------------------------------------------------
(* _save_cache: the file is replaced as a whole; a failure is only logged    *)

Save(c) ==
    /\ pc[c] = "save"
    /\ \/ file' = mem[c]
       \/ "save" \in Faults /\ UNCHANGED file
    /\ pc' = [pc EXCEPT ![c] = after[c]]
    /\ after' = [after EXCEPT ![c] = "idle"]
    /\ UNCHANGED <<now, vaultVars, lastFail, mem, render, vdown, lookup, outcome>>

-----------------------------------------------------------------------------
(* The life of a context, and the world around *)

(* The process ends, or is killed in the middle of a lookup; another begins. *)
Restart(c) ==
    /\ pc[c] = "idle" \/ "crash" \in Faults
    /\ mem' = [mem EXCEPT ![c] = None]
    /\ render' = [render EXCEPT ![c] = [s \in Paths |-> None]]
    /\ vdown' = [vdown EXCEPT ![c] = FALSE]
    /\ lookup' = [lookup EXCEPT ![c] = None]
    /\ outcome' = [outcome EXCEPT ![c] = None]
    /\ pc' = [pc EXCEPT ![c] = "idle"]
    /\ after' = [after EXCEPT ![c] = "idle"]
    /\ UNCHANGED <<now, vaultVars, lastFail, file>>

Tick ==
    /\ now < MaxTime
    /\ now' = now + 1
    /\ UNCHANGED <<vaultVars, lastFail, file, contextVars>>

Rotate(s) ==
    /\ secret[s] < MaxVersion
    /\ secret' = [secret EXCEPT ![s] = @ + 1]
    /\ retired' = [retired EXCEPT ![s][secret[s]] = now]
    /\ UNCHANGED <<now, epoch, untold, lastFail, file, contextVars>>

Revoke ==
    /\ epoch < MaxEpoch
    /\ epoch' = epoch + 1
    /\ UNCHANGED <<now, secret, retired, untold, lastFail, file, contextVars>>

(* Someone removes or damages the file; the driver starts from nothing.      *)
LoseFile ==
    /\ "file" \in Faults
    /\ file # None
    /\ file' = None
    /\ UNCHANGED <<now, vaultVars, lastFail, contextVars>>

-----------------------------------------------------------------------------
(* Specification *)

Call(c) == \E s \in Paths : LookupDedup(c, s) \/ LookupBegin(c, s)

(* The steps a running lookup takes by itself.                               *)
Advance(c) ==
    \/ LoadFresh(c) \/ LoadThenRead(c)
    \/ UseToken(c) \/ NeedLogin(c) \/ NoCredentials(c)
    \/ Skip(c) \/ Send(c)
    \/ \E status \in {"ok", "bare", "denied", "fail", "odd"} :
           VaultAnswers(c, status)
    \/ NetworkFails(c) \/ Receive(c)
    \/ HandleLogin(c) \/ HandleDetect(c) \/ HandleRead(c)
    \/ DetectUnreachable(c) \/ FallBack(c) \/ GiveUp(c)
    \/ Save(c)

World == Tick \/ Revoke \/ LoseFile \/ \E s \in Paths : Rotate(s)

Next == World \/ \E c \in Contexts : Call(c) \/ Advance(c) \/ Restart(c)

Spec == Init /\ [][Next]_vars

(* A process that is scheduled goes on, and a request ends by an answer or   *)
(* by its timeout.  Nobody has to call, restart, rotate or revoke.           *)
FairSpec == Spec /\ \A c \in Contexts : WF_vars(Advance(c))

-----------------------------------------------------------------------------
(* Properties *)

(* Version v of secret s was its value at time t or later.                   *)
CurrentSince(s, v, t) ==
    v = secret[s] \/ (v < secret[s] /\ retired[s][v] >= t)

(* A cache entry never claims to be younger than it is: what it holds was    *)
(* still the secret's value when or after it says it was cached, in the file *)
(* and in every context, although contexts overwrite each other's file with  *)
(* older copies of it and read the Vault long after they looked at the clock *)
(* (get, lines 555 and 616).                                                 *)
TruthfulCache(cache) ==
    \A s \in Paths : cache.secrets[s] # None =>
        CurrentSince(s, cache.secrets[s].data, cache.secrets[s].at)

CacheTruthful ==
    /\ file # None => TruthfulCache(file)
    /\ \A c \in Contexts : mem[c] # None => TruthfulCache(mem[c])

(* How old a value may be at the beginning of the lookup that got it.        *)
AgeLimit(kind) ==
    CASE kind = "vault" -> 0
      [] kind = "fresh" -> FreshFor - 1
      [] kind = "stale" -> OfflineMaxAge - 1

(* A value read from the Vault was current during the call; one served from  *)
(* the cache was superseded less than cache_fresh_for seconds before it, or, *)
(* in an outage, less than cache_offline_max_age (get, lines 574-602).       *)
ServedWithinBound ==
    \A c \in Contexts : outcome[c] # None =>
        (outcome[c].kind \in {"vault", "fresh", "stale"} =>
            CurrentSince(outcome[c].path, outcome[c].data,
                         outcome[c].start - AgeLimit(outcome[c].kind)))

(* A lookup serves an old value, or gives up, as "Vault unreachable" only    *)
(* when this context met a failure itself or some context did less than      *)
(* outage_cooldown seconds before the lookup began or since: a marker that   *)
(* an old copy of the file brings back does not prolong an outage.           *)
OutageIsReal ==
    \A c \in Contexts : outcome[c] # None =>
        (outcome[c].kind \in {"stale", "down"} =>
            /\ lastFail # None
            /\ vdown[c] \/ outcome[c].start < lastFail + Cooldown)

(* A wrong KV version is in a cache, of a process or on disk, only when the  *)
(* Vault itself, asked with a token it honours, once told of the mount and   *)
(* left the version out: what is assumed after a failure, a refusal or a     *)
(* stale token is forgotten with its lookup, whatever the contexts, their    *)
(* crashes and their saves do meanwhile (_detect_kv_version, 451-475, and    *)
(* _kv_version, 485-488).                                                    *)
KvFromMount ==
    \A cache \in {file} \cup {mem[c] : c \in Contexts} :
        cache # None => cache.kv \in {0, TrueKv} \/ (untold /\ cache.kv = 2)

(* "Denied" is never the fault of a token that was cached before the lookup  *)
(* began, revoked or expired since: a 403 is retried with a token issued to  *)
(* this very lookup (_read_secret, 503-505).  A static token is not the      *)
(* driver's to renew.                                                        *)
DenialIsGenuine ==
    [][\A c \in Contexts :
         (outcome'[c] # None /\ outcome'[c].kind = "denied" /\ Busy(c)) =>
            \/ lookup[c].req = "login"
            \/ lookup[c].tok.mint >= lookup[c].start
            \/ Static]_vars

(* One timeout per breaker window: nothing is sent to a Vault that failed    *)
(* less than outage_cooldown seconds ago (docstring, lines 54-58).  One      *)
(* context at a time keeps this promise across its restarts.                 *)
OneTimeoutPerWindow ==
    [][\A c \in Contexts :
         (pc[c] = "send" /\ pc'[c] = "wait") =>
            (lastFail = None \/ now >= lastFail + Cooldown)]_vars

(* After a failure the Vault is skipped for outage_cooldown seconds          *)
(* (docstring, line 38), and the marker clears once it answers (line 58).    *)
SkipOnlyInWindow ==
    [][\A c \in Contexts :
         (pc[c] = "send" /\ pc'[c] = "unreach") =>
            (lastFail # None /\ now < lastFail + Cooldown)]_vars

(* Every lookup ends, whatever the Vault, the file and the clock do.         *)
LookupTerminates == \A c \in Contexts : pc[c] # "idle" ~> pc[c] = "idle"

-----------------------------------------------------------------------------
(* The lookups implement SecretReads *)

OldestServed ==
    IF ~CacheOn THEN 0
    ELSE IF FreshFor > OfflineMaxAge THEN FreshFor ELSE OfflineMaxAge

CallOf(c) ==
    IF lookup[c] = None THEN None
    ELSE [path |-> lookup[c].path, start |-> lookup[c].start]

ResultOf(c) ==
    IF outcome[c] = None THEN None
    ELSE [path |-> outcome[c].path, data |-> outcome[c].data]

Reads == INSTANCE SecretReads WITH
    MaxAge <- OldestServed,
    view   <- render,
    call   <- [c \in Contexts |-> CallOf(c)],
    result <- [c \in Contexts |-> ResultOf(c)]

(* The driver, with its two cache levels, its circuit breaker, its retry and *)
(* its shared file, behaves as the single read of SecretReads.               *)
ImplementsReads == Reads!Spec
=============================================================================
