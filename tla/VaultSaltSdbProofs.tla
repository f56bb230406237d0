------------------------- MODULE VaultSaltSdbProofs -------------------------
(***************************************************************************)
(* Proofs about VaultSaltSdb, its types, and what its lookups cost, for    *)
(* every set of contexts and paths and every value of the settings, the    *)
(* faults and the bounds.                                                  *)
(***************************************************************************)
EXTENDS LookupCost, TLAPS

-----------------------------------------------------------------------------
(* The type invariant, by parts *)

WorldTypes ==
    /\ now \in Nat
    /\ secret \in [Paths -> Versions]
    /\ retired \in [Paths -> [Versions -> Nat]]
    /\ epoch \in Nat
    /\ untold \in BOOLEAN
    /\ lastFail \in Nat \cup {None}
    /\ file \in Cache \cup {None}

GlobalsTypes ==
    /\ mem \in [Contexts -> Cache \cup {None}]
    /\ render \in [Contexts -> [Paths -> Versions \cup {None}]]
    /\ vdown \in [Contexts -> BOOLEAN]

ControlTypes ==
    /\ pc \in [Contexts -> Labels]
    /\ after \in [Contexts -> {"idle", "auth", "send", "answer", "unreach"}]

CallTypes ==
    /\ lookup \in [Contexts -> Lookup \cup {None}]
    /\ outcome \in [Contexts -> Outcome \cup {None}]

Links ==
    \A c \in Contexts :
      /\ Busy(c) <=> lookup[c] # None
      /\ pc[c] \notin {"idle", "load"} => mem[c] # None

(* A response is waiting to be handled.                                      *)
Answered(c) ==
    \/ pc[c] \in {"got", "answer"}
    \/ pc[c] = "save" /\ after[c] = "answer"

(* A positive answer to a read carries a value, to a login a token.          *)
Complete(call) ==
    /\ call.resp \in Response
    /\ call.resp.status = "ok" =>
         /\ call.req = "login" => call.resp.grant \in Grant
         /\ (call.req = "call" /\ call.goal # "detect") =>
                call.resp.data \in Versions

AnswerComplete == \A c \in Contexts : Answered(c) => Complete(lookup[c])

TypeInv ==
    WorldTypes /\ GlobalsTypes /\ ControlTypes /\ CallTypes /\ Links
      /\ AnswerComplete

LEMMA TypeInit == Init => TypeInv
<1> SUFFICES ASSUME Init PROVE TypeInv
  OBVIOUS
<1>1. WorldTypes /\ GlobalsTypes
  <2>1. untold \in BOOLEAN
    BY DEF Init
  <2>2. /\ secret \in [Paths -> Versions]
        /\ retired \in [Paths -> [Versions -> Nat]]
    BY ConstantsAssumption DEF Init, Versions
  <2> QED BY <2>1, <2>2 DEF Init, WorldTypes, GlobalsTypes
<1>2. ControlTypes /\ CallTypes
  BY DEF Init, ControlTypes, CallTypes, Labels
<1>3. Links /\ AnswerComplete
  BY DEF Init, Links, Busy, AnswerComplete, Answered
<1> QED BY <1>1, <1>2, <1>3 DEF TypeInv

-----------------------------------------------------------------------------
(* What the helpers return *)

(* A busy context has a lookup, and its cache once it is past the load.      *)
LEMMA BusyFacts ==
    ASSUME TypeInv, NEW c \in Contexts, pc[c] \notin {"idle", "save"}
    PROVE  /\ lookup[c] \in Lookup
           /\ pc[c] # "load" => mem[c] \in Cache
  BY DEF TypeInv, CallTypes, GlobalsTypes, Links, Busy

LEMMA LoadedCacheType ==
    ASSUME TypeInv, NEW c \in Contexts
    PROVE  LoadedCache(c) \in Cache
<1>1. EmptyCache \in Cache
  BY DEF EmptyCache, Cache
<1> QED BY <1>1 DEF LoadedCache, TypeInv, GlobalsTypes, WorldTypes

(* None is no record.                                                        *)
LEMMA FinishTypes ==
    ASSUME TypeInv, NEW c \in Contexts, lookup[c] \in Lookup,
           NEW kind \in {"dedup", "fresh", "vault", "stale", "denied",
                         "error", "down"},
           NEW data \in Versions \cup {None},
           Finish(c, kind, data)
    PROVE  CallTypes' /\ lookup'[c] = None
  BY DEF Finish, TypeInv, CallTypes, Outcome, Lookup

LEMMA MarkDownTypes ==
    ASSUME TypeInv, NEW c \in Contexts, pc[c] \notin {"idle", "load", "save"},
           MarkDown(c), UNCHANGED <<now, vaultVars, file>>
    PROVE  TypeInv'
<1> USE DEF MarkDown
<1>0. lookup[c] \in Lookup /\ mem[c] \in Cache
  BY BusyFacts
<1>1. WorldTypes'
  BY DEF TypeInv, WorldTypes, vaultVars
<1>2. [mem[c] EXCEPT !.down = now] \in Cache
  BY <1>0 DEF TypeInv, WorldTypes, Cache
<1>3. GlobalsTypes'
  BY <1>2 DEF TypeInv, GlobalsTypes
<1>4. ControlTypes'
  BY DEF TypeInv, ControlTypes, SaveThen, Labels
<1>5. [lookup[c] EXCEPT !.resp = None] \in Lookup
  BY <1>0 DEF Lookup
<1>6. CallTypes'
  BY <1>5 DEF TypeInv, CallTypes
<1>7. Links'
  BY <1>0, <1>2, <1>3, <1>4, <1>5, <1>6, NoneAssumption DEF TypeInv, Links, Busy, SaveThen, ControlTypes, GlobalsTypes, CallTypes
<1>8. AnswerComplete'
  BY DEF TypeInv, AnswerComplete, Answered, SaveThen, ControlTypes, CallTypes
<1> QED BY <1>1, <1>3, <1>4, <1>6, <1>7, <1>8 DEF TypeInv

-----------------------------------------------------------------------------
(* Each step keeps the type invariant *)

(* A step of context c leaves the others alone.                              *)
LEMMA TypeFrame ==
    ASSUME TypeInv, NEW c \in Contexts,
           WorldTypes', GlobalsTypes', ControlTypes', CallTypes',
           \A d \in Contexts \ {c} :
               /\ pc'[d] = pc[d] /\ after'[d] = after[d]
               /\ lookup'[d] = lookup[d] /\ mem'[d] = mem[d],
           (Busy(c) <=> lookup[c] # None)',
           (pc[c] \notin {"idle", "load"} => mem[c] # None)',
           (Answered(c) => Complete(lookup[c]))'
    PROVE  TypeInv'
<1>1. Links'
  BY DEF TypeInv, Links, Busy
<1>2. AnswerComplete'
  BY DEF TypeInv, AnswerComplete, Answered, Complete
<1> QED BY <1>1, <1>2 DEF TypeInv

LEMMA TypeCall ==
    ASSUME TypeInv, NEW c \in Contexts, NEW s \in Paths,
           LookupDedup(c, s) \/ LookupBegin(c, s)
    PROVE  TypeInv'
<1>1. CASE LookupDedup(c, s)
  <2> USE <1>1 DEF LookupDedup, vaultVars
  <2>1. WorldTypes' /\ GlobalsTypes' /\ ControlTypes'
    BY DEF TypeInv, WorldTypes, GlobalsTypes, ControlTypes
  <2>2. [kind |-> "dedup", path |-> s, start |-> now, data |-> render[c][s]]
            \in Outcome
    BY DEF TypeInv, WorldTypes, GlobalsTypes, Outcome
  <2>3. CallTypes'
    BY <2>2 DEF TypeInv, CallTypes
  <2>4. Links' /\ AnswerComplete'
    BY DEF TypeInv, Links, Busy, AnswerComplete, Answered, Complete
  <2> QED BY <2>1, <2>3, <2>4 DEF TypeInv
<1>2. CASE LookupBegin(c, s)
  <2> USE <1>2 DEF LookupBegin, Goto, vaultVars
  <2>1. WorldTypes' /\ GlobalsTypes' /\ ControlTypes'
    BY DEF TypeInv, WorldTypes, GlobalsTypes, ControlTypes, Labels
  <2>2. [path |-> s, start |-> now, goal |-> "read", req |-> "call",
         ver |-> 0, tok |-> None, resp |-> None] \in Lookup
    BY DEF TypeInv, WorldTypes, Lookup
  <2>3. CallTypes'
    BY <2>2 DEF TypeInv, CallTypes
  <2>4. pc'[c] = "load" /\ lookup'[c] \in Lookup
    BY <2>2 DEF TypeInv, ControlTypes, CallTypes
  <2> QED BY <2>1, <2>3, <2>4, TypeFrame, NoneAssumption
             DEF TypeInv, ControlTypes, CallTypes, Busy, Answered
<1> QED BY <1>1, <1>2

LEMMA TypeLoadFresh ==
    ASSUME TypeInv, NEW c \in Contexts, LoadFresh(c)
    PROVE  TypeInv'
<1> DEFINE cache == LoadedCache(c)
           data  == cache.secrets[lookup[c].path].data
<1> USE DEF LoadFresh
<1>1. cache \in Cache /\ lookup[c] \in Lookup
  BY LoadedCacheType, BusyFacts
<1>2. data \in Versions
  BY <1>1 DEF FreshEntry, Cache, Entry, Lookup
<1>3. CallTypes' /\ lookup'[c] = None
  BY <1>1, <1>2, FinishTypes
<1>4. WorldTypes'
  BY DEF TypeInv, WorldTypes, vaultVars
<1>5. GlobalsTypes'
  BY <1>1, <1>2 DEF TypeInv, GlobalsTypes, Remember, Lookup
<1>6. ControlTypes' /\ pc'[c] = "idle"
  BY DEF TypeInv, ControlTypes, Goto, Labels
<1> QED BY <1>3, <1>4, <1>5, <1>6, TypeFrame
           DEF TypeInv, ControlTypes, CallTypes, GlobalsTypes, Busy, Answered, Goto, Finish

LEMMA TypeLoadThenRead ==
    ASSUME TypeInv, NEW c \in Contexts, LoadThenRead(c)
    PROVE  TypeInv'
<1> DEFINE cache == LoadedCache(c)
           known == IF PinnedKv # 0 THEN PinnedKv ELSE cache.kv
           call  == [lookup[c] EXCEPT !.ver = known,
                         !.goal = IF known = 0 THEN "detect" ELSE "read"]
<1> USE DEF LoadThenRead
<1>1. cache \in Cache /\ lookup[c] \in Lookup
  BY LoadedCacheType, BusyFacts
<1>2. known \in {0, 1, 2}
  BY <1>1, ConstantsAssumption DEF Cache
<1>3. call \in Lookup
  BY <1>1, <1>2 DEF Lookup
<1>4. lookup' = [lookup EXCEPT ![c] = call]
  BY DEF TypeInv, CallTypes
<1>5. CallTypes' /\ lookup'[c] \in Lookup
  BY <1>3, <1>4 DEF TypeInv, CallTypes
<1>6. WorldTypes'
  BY DEF TypeInv, WorldTypes, vaultVars
<1>7. GlobalsTypes' /\ mem'[c] \in Cache
  BY <1>1 DEF TypeInv, GlobalsTypes
<1>8. ControlTypes' /\ pc'[c] = "auth"
  BY DEF TypeInv, ControlTypes, Goto, Labels
<1> HIDE DEF call, cache, known
<1> QED BY <1>4, <1>5, <1>6, <1>7, <1>8, TypeFrame, NoneAssumption
           DEF TypeInv, ControlTypes, CallTypes, GlobalsTypes, Busy, Answered, Goto

(* A step that moves context c inside its lookup and changes nothing else,   *)
(* but perhaps what the Vault has told.                                      *)
LEMMA TypeMove ==
    ASSUME TypeInv, NEW c \in Contexts, mem[c] \in Cache,
           NEW call \in Lookup, NEW label \in Labels \ {"idle", "load", "save"},
           lookup' = [lookup EXCEPT ![c] = call],
           Goto(c, label),
           label \in {"got", "answer"} => Complete(call),
           untold' \in BOOLEAN,
           UNCHANGED <<now, secret, retired, epoch, lastFail, file, mem,
                       render, vdown, outcome>>
    PROVE  TypeInv'
<1>1. WorldTypes' /\ GlobalsTypes'
  BY DEF TypeInv, WorldTypes, GlobalsTypes
<1>2. CallTypes' /\ lookup'[c] = call
  BY DEF TypeInv, CallTypes
<1>3. ControlTypes' /\ pc'[c] = label
  BY DEF TypeInv, ControlTypes, Goto
<1>4. (Answered(c) => Complete(lookup[c]))'
  BY <1>2, <1>3 DEF Answered, Complete
<1> QED BY <1>1, <1>2, <1>3, <1>4, TypeFrame, NoneAssumption
           DEF TypeInv, ControlTypes, CallTypes, Busy, Goto

LEMMA TypeSkipSend ==
    ASSUME TypeInv, NEW c \in Contexts, Skip(c) \/ Send(c)
    PROVE  TypeInv'
<1>1. lookup[c] \in Lookup /\ mem[c] \in Cache
  BY BusyFacts DEF Skip, Send
<1>2. lookup' = [lookup EXCEPT ![c] = lookup[c]]
  BY DEF Skip, Send, TypeInv, CallTypes
<1>3. untold' \in BOOLEAN /\ UNCHANGED <<secret, retired, epoch>>
  BY DEF Skip, Send, TypeInv, WorldTypes, vaultVars
<1> QED BY <1>1, <1>2, <1>3, TypeMove DEF Skip, Send, Labels

LEMMA TypeAuth ==
    ASSUME TypeInv, NEW c \in Contexts, UseToken(c) \/ NeedLogin(c)
    PROVE  TypeInv'
<1>1. lookup[c] \in Lookup /\ mem[c] \in Cache
  BY BusyFacts DEF UseToken, NeedLogin
<1>4. untold' \in BOOLEAN /\ UNCHANGED <<secret, retired, epoch>>
  BY DEF UseToken, NeedLogin, TypeInv, WorldTypes, vaultVars
<1>2. CASE UseToken(c)
  <2> DEFINE token == IF Static THEN StaticToken ELSE mem[c].tok.grant
             call  == [lookup[c] EXCEPT !.req = "call", !.tok = token]
  <2>1. token \in Grant
    BY <1>1, <1>2 DEF UseToken, ReusableToken, StaticToken, Cache,
                      CachedToken, Grant
  <2>2. call \in Lookup
    BY <1>1, <2>1 DEF Lookup
  <2>3. lookup' = [lookup EXCEPT ![c] = call]
    BY <1>2 DEF UseToken, TypeInv, CallTypes
  <2> QED BY <1>1, <1>2, <1>4, <2>2, <2>3, TypeMove DEF UseToken, Labels
<1>3. CASE NeedLogin(c)
  <2> DEFINE call == [lookup[c] EXCEPT !.req = "login"]
  <2>1. call \in Lookup
    BY <1>1 DEF Lookup
  <2>2. lookup' = [lookup EXCEPT ![c] = call]
    BY <1>3 DEF NeedLogin, TypeInv, CallTypes
  <2> QED BY <1>1, <1>3, <1>4, <2>1, <2>2, TypeMove DEF NeedLogin, Labels
<1> QED BY <1>2, <1>3

LEMMA TypeVaultAnswers ==
    ASSUME TypeInv, NEW c \in Contexts,
           NEW status \in {"ok", "bare", "denied", "fail", "odd"},
           VaultAnswers(c, status)
    PROVE  TypeInv'
<1> DEFINE granted == status = "ok" /\ lookup[c].req = "login"
           served  == /\ status = "ok" /\ lookup[c].req = "call"
                      /\ lookup[c].goal # "detect"
           resp == [status |-> status,
                    data   |-> IF served THEN secret[lookup[c].path] ELSE None,
                    grant  |-> IF granted THEN [epoch |-> epoch, mint |-> now]
                               ELSE None]
           call == [lookup[c] EXCEPT !.resp = resp]
<1>1. lookup[c] \in Lookup /\ mem[c] \in Cache
  BY BusyFacts DEF VaultAnswers
<1>2. secret[lookup[c].path] \in Versions
      /\ [epoch |-> epoch, mint |-> now] \in Grant
  BY <1>1 DEF TypeInv, WorldTypes, Lookup, Grant
<1>3. resp \in Response
  BY <1>2 DEF Response
<1>4. call \in Lookup
  BY <1>1, <1>3 DEF Lookup
<1>5. Complete(call)
  <2>1. call.resp = resp /\ call.req = lookup[c].req
        /\ call.goal = lookup[c].goal
    BY <1>1 DEF Lookup
  <2> QED BY <1>2, <1>3, <2>1 DEF Complete
<1>6. lookup' = [lookup EXCEPT ![c] = call]
  BY DEF VaultAnswers, TypeInv, CallTypes
<1>7. /\ Goto(c, "got") /\ untold' \in BOOLEAN
      /\ UNCHANGED <<now, secret, retired, epoch, lastFail, file, mem, render,
                     vdown, outcome>>
  BY DEF VaultAnswers, TypeInv, WorldTypes
<1> HIDE DEF call
<1> QED BY <1>1, <1>4, <1>5, <1>6, <1>7, TypeMove DEF Labels

LEMMA TypeDetectUnreachable ==
    ASSUME TypeInv, NEW c \in Contexts, DetectUnreachable(c)
    PROVE  TypeInv'
<1> DEFINE call == [lookup[c] EXCEPT !.goal = "read", !.ver = 2]
<1>1. lookup[c] \in Lookup /\ mem[c] \in Cache
  BY BusyFacts DEF DetectUnreachable
<1>2. call \in Lookup
  BY <1>1 DEF Lookup
<1>3. lookup' = [lookup EXCEPT ![c] = call]
  BY DEF DetectUnreachable, TypeInv, CallTypes
<1>4. untold' \in BOOLEAN /\ UNCHANGED <<secret, retired, epoch>>
  BY DEF DetectUnreachable, TypeInv, WorldTypes, vaultVars
<1> QED BY <1>1, <1>2, <1>3, <1>4, TypeMove DEF DetectUnreachable, Labels

(* A step that ends the lookup of context c.                                 *)
LEMMA TypeEnd ==
    ASSUME TypeInv, NEW c \in Contexts, lookup[c] \in Lookup,
           NEW kind \in {"dedup", "fresh", "vault", "stale", "denied",
                         "error", "down"},
           NEW data \in Versions \cup {None},
           Finish(c, kind, data),
           \/ Goto(c, "idle")
           \/ SaveThen(c, "idle") /\ mem'[c] # None,
           mem' \in [Contexts -> Cache \cup {None}],
           \A d \in Contexts \ {c} : mem'[d] = mem[d],
           Remember(c, data) \/ UNCHANGED render,
           UNCHANGED <<now, vaultVars, lastFail, file, vdown>>
    PROVE  TypeInv'
<1>1. WorldTypes'
  BY DEF TypeInv, WorldTypes, vaultVars
<1>2. GlobalsTypes'
  <2>1. lookup[c].path \in Paths
    BY DEF Lookup
  <2>2. render' \in [Contexts -> [Paths -> Versions \cup {None}]]
    BY <2>1 DEF TypeInv, GlobalsTypes, Remember
  <2> QED BY <2>2 DEF TypeInv, GlobalsTypes
<1>3. CallTypes' /\ lookup'[c] = None
  BY FinishTypes
<1>4. ControlTypes' /\ ~Busy(c)' /\ ~Answered(c)'
      /\ (pc'[c] # "idle" => mem'[c] # None)
  BY DEF TypeInv, ControlTypes, Labels, Goto, SaveThen, Busy, Answered
<1>5. \A d \in Contexts \ {c} :
          pc'[d] = pc[d] /\ after'[d] = after[d] /\ lookup'[d] = lookup[d]
  BY DEF TypeInv, ControlTypes, CallTypes, Goto, SaveThen, Finish
<1> QED BY <1>1, <1>2, <1>3, <1>4, <1>5, TypeFrame

LEMMA TypeGiveUp ==
    ASSUME TypeInv, NEW c \in Contexts,
           NoCredentials(c) \/ GiveUp(c) \/ FallBack(c)
    PROVE  TypeInv'
<1>1. lookup[c] \in Lookup /\ mem[c] \in Cache
  BY BusyFacts DEF NoCredentials, GiveUp, FallBack
<1>2. CASE NoCredentials(c)
  BY <1>1, <1>2, TypeEnd DEF NoCredentials, TypeInv, GlobalsTypes
<1>3. CASE GiveUp(c)
  BY <1>1, <1>3, TypeEnd DEF GiveUp, TypeInv, GlobalsTypes
<1>4. CASE FallBack(c)
  <2> DEFINE data == mem[c].secrets[lookup[c].path].data
  <2>1. data \in Versions
    BY <1>1, <1>4 DEF FallBack, StaleEntry, Cache, Entry, Lookup
  <2>2. Finish(c, "stale", data) /\ Remember(c, data) /\ Goto(c, "idle")
        /\ UNCHANGED <<now, vaultVars, lastFail, file, mem, vdown>>
    BY <1>4 DEF FallBack
  <2> HIDE DEF data
  <2> QED BY <1>1, <2>1, <2>2, TypeEnd DEF TypeInv, GlobalsTypes
<1> QED BY <1>2, <1>3, <1>4

LEMMA TypeReceive ==
    ASSUME TypeInv, NEW c \in Contexts, Receive(c)
    PROVE  TypeInv'
<1> USE DEF Receive
<1>1. lookup[c] \in Lookup /\ mem[c] \in Cache
  BY BusyFacts
<1>2. [mem[c] EXCEPT !.down = None] \in Cache
  BY <1>1 DEF Cache
<1>3. WorldTypes' /\ CallTypes'
  BY DEF TypeInv, WorldTypes, CallTypes, vaultVars
<1>4. GlobalsTypes' /\ mem'[c] \in Cache
  BY <1>2 DEF TypeInv, GlobalsTypes
<1>5. ControlTypes' /\ Busy(c)'
  BY DEF TypeInv, ControlTypes, Labels, Goto, SaveThen, Busy
<1>6. (Answered(c) => Complete(lookup[c]))'
  BY DEF TypeInv, AnswerComplete, Answered, Complete
<1>7. \A d \in Contexts \ {c} :
          pc'[d] = pc[d] /\ after'[d] = after[d] /\ mem'[d] = mem[d]
  BY DEF TypeInv, ControlTypes, GlobalsTypes, Goto, SaveThen
<1> QED BY <1>1, <1>3, <1>4, <1>5, <1>6, <1>7, TypeFrame, NoneAssumption

(* A step that records something in the cache and saves it, inside a lookup. *)
LEMMA TypeRecord ==
    ASSUME TypeInv, NEW c \in Contexts, NEW cache \in Cache,
           NEW call \in Lookup, NEW label \in {"auth", "send", "unreach"},
           mem' = [mem EXCEPT ![c] = cache],
           lookup' = [lookup EXCEPT ![c] = call],
           SaveThen(c, label),
           UNCHANGED <<now, vaultVars, lastFail, file, render, vdown, outcome>>
    PROVE  TypeInv'
<1>1. WorldTypes' /\ GlobalsTypes' /\ mem'[c] = cache
  BY DEF TypeInv, WorldTypes, GlobalsTypes, vaultVars
<1>2. CallTypes' /\ lookup'[c] = call
  BY DEF TypeInv, CallTypes
<1>3. ControlTypes' /\ Busy(c)' /\ ~Answered(c)'
  BY DEF TypeInv, ControlTypes, Labels, SaveThen, Busy, Answered
<1> QED BY <1>1, <1>2, <1>3, TypeFrame, NoneAssumption
           DEF TypeInv, ControlTypes, CallTypes, GlobalsTypes, SaveThen

LEMMA TypeHandleLogin ==
    ASSUME TypeInv, NEW c \in Contexts, HandleLogin(c)
    PROVE  TypeInv'
<1> DEFINE resp == lookup[c].resp
<1>1. lookup[c] \in Lookup /\ mem[c] \in Cache /\ Complete(lookup[c])
  BY BusyFacts DEF HandleLogin, TypeInv, AnswerComplete, Answered
<1>2. pc[c] = "answer" /\ lookup[c].req = "login"
      /\ UNCHANGED <<now, vaultVars, file>>
  BY DEF HandleLogin
<1>3. CASE resp.status = "ok"
  <2> DEFINE cache == [mem[c] EXCEPT !.tok =
                          [grant |-> resp.grant, exp |-> now + CachedFor]]
             call  == [lookup[c] EXCEPT !.req = "call", !.tok = resp.grant,
                          !.resp = None]
  <2>1. resp.grant \in Grant /\ now + CachedFor \in Nat
    BY <1>1, <1>2, <1>3, ConstantsAssumption
       DEF Complete, CachedFor, TypeInv, WorldTypes
  <2>2. cache \in Cache
    BY <1>1, <2>1 DEF Cache, CachedToken
  <2>3. call \in Lookup
    BY <1>1, <2>1 DEF Lookup
  <2>4. mem' = [mem EXCEPT ![c] = cache] /\ lookup' = [lookup EXCEPT ![c] = call]
    BY <1>3 DEF HandleLogin, TypeInv, CallTypes, GlobalsTypes
  <2>5. SaveThen(c, "send")
        /\ UNCHANGED <<lastFail, vdown, render, outcome>>
    BY <1>3 DEF HandleLogin
  <2> HIDE DEF cache, call
  <2> QED BY <1>2, <2>2, <2>3, <2>4, <2>5, TypeRecord
<1>4. CASE resp.status = "denied"
  BY <1>1, <1>2, <1>4, TypeEnd DEF HandleLogin, TypeInv, GlobalsTypes
<1>5. CASE resp.status = "odd"
  BY <1>1, <1>2, <1>5, TypeEnd DEF HandleLogin, TypeInv, GlobalsTypes
<1>6. CASE resp.status = "fail"
  BY <1>2, <1>6, MarkDownTypes DEF HandleLogin
<1> QED BY <1>3, <1>4, <1>5, <1>6 DEF HandleLogin

LEMMA TypeHandleDetect ==
    ASSUME TypeInv, NEW c \in Contexts, HandleDetect(c)
    PROVE  TypeInv'
<1> DEFINE version == Version(c)
           call == [lookup[c] EXCEPT !.goal = "read", !.resp = None,
                                     !.ver = version]
           cache == [mem[c] EXCEPT !.kv = version]
<1>1. lookup[c] \in Lookup /\ mem[c] \in Cache
  BY BusyFacts DEF HandleDetect
<1>2. version \in {1, 2}
  BY ConstantsAssumption DEF Version
<1>3. call \in Lookup /\ cache \in Cache
  BY <1>1, <1>2 DEF Lookup, Cache
<1>4. lookup' = [lookup EXCEPT ![c] = call]
  BY DEF HandleDetect, TypeInv, CallTypes
<1>5. CASE Confirmed(c)
  <2>1. mem' = [mem EXCEPT ![c] = cache] /\ SaveThen(c, "auth")
    BY <1>5 DEF HandleDetect, TypeInv, GlobalsTypes
  <2> QED BY <1>3, <1>4, <2>1, TypeRecord DEF HandleDetect
<1>6. CASE ~Confirmed(c)
  <2>1. untold' \in BOOLEAN /\ UNCHANGED <<secret, retired, epoch>>
    BY DEF HandleDetect, TypeInv, WorldTypes, vaultVars
  <2> QED BY <1>1, <1>3, <1>4, <1>6, <2>1, TypeMove DEF HandleDetect, Labels
<1> QED BY <1>5, <1>6

LEMMA TypeHandleRead ==
    ASSUME TypeInv, NEW c \in Contexts, HandleRead(c)
    PROVE  TypeInv'
<1> DEFINE resp == lookup[c].resp
<1>1. lookup[c] \in Lookup /\ mem[c] \in Cache /\ Complete(lookup[c])
  BY BusyFacts DEF HandleRead, TypeInv, AnswerComplete, Answered
<1>2. pc[c] = "answer" /\ lookup[c].req = "call"
      /\ lookup[c].goal \in {"read", "reread"}
      /\ UNCHANGED <<now, vaultVars, file>>
  BY DEF HandleRead
<1>3. CASE resp.status = "ok"
  <2> DEFINE cache == [mem[c] EXCEPT !.secrets =
                   [mem[c].secrets EXCEPT ![lookup[c].path] = NewEntry(c)]]
  <2>1. resp.data \in Versions /\ NewEntry(c) \in Entry
    BY <1>1, <1>2, <1>3 DEF Complete, NewEntry, Entry, Lookup
  <2>2. cache \in Cache
    BY <1>1, <2>1 DEF Cache, Lookup
  <2>3. Remember(c, resp.data) /\ Finish(c, "vault", resp.data)
        /\ UNCHANGED <<lastFail, vdown>>
    BY <1>3 DEF HandleRead
  <2>4. \/ mem' = [mem EXCEPT ![c] = cache] /\ SaveThen(c, "idle")
        \/ UNCHANGED mem /\ Goto(c, "idle")
    BY <1>3 DEF HandleRead, TypeInv, GlobalsTypes
  <2> HIDE DEF cache
  <2>5. /\ mem' \in [Contexts -> Cache \cup {None}]
        /\ \A d \in Contexts \ {c} : mem'[d] = mem[d]
        /\ mem'[c] # None
    BY <1>1, <2>2, <2>4, NoneAssumption DEF TypeInv, GlobalsTypes
  <2>6. Goto(c, "idle") \/ (SaveThen(c, "idle") /\ mem'[c] # None)
    BY <2>4, <2>5
  <2> QED BY <1>1, <1>2, <2>1, <2>3, <2>5, <2>6, TypeEnd
<1>4. CASE resp.status = "denied" /\ RefreshOnce(c)
  <2> DEFINE call == [lookup[c] EXCEPT !.goal = "reread", !.resp = None]
  <2>1. call \in Lookup
    BY <1>1 DEF Lookup
  <2>2. lookup' = [lookup EXCEPT ![c] = call]
    BY <1>4 DEF HandleRead, TypeInv, CallTypes
  <2>3. /\ Goto(c, "auth") /\ untold' \in BOOLEAN
        /\ UNCHANGED <<secret, retired, epoch, lastFail, mem, vdown, render,
                       outcome>>
    BY <1>4 DEF HandleRead, TypeInv, WorldTypes, vaultVars
  <2> QED BY <1>1, <1>2, <2>1, <2>2, <2>3, TypeMove DEF Labels
<1>5. CASE resp.status = "denied" /\ ~RefreshOnce(c)
  BY <1>1, <1>2, <1>5, TypeEnd DEF HandleRead, TypeInv, GlobalsTypes
<1>6. CASE resp.status = "odd"
  BY <1>1, <1>2, <1>6, TypeEnd DEF HandleRead, TypeInv, GlobalsTypes
<1>7. CASE resp.status = "fail"
  BY <1>2, <1>7, MarkDownTypes DEF HandleRead
<1> QED BY <1>3, <1>4, <1>5, <1>6, <1>7 DEF HandleRead

LEMMA TypeSave ==
    ASSUME TypeInv, NEW c \in Contexts, Save(c)
    PROVE  TypeInv'
<1> USE DEF Save
<1>1. mem[c] \in Cache
  BY DEF TypeInv, GlobalsTypes, Links
<1>2. WorldTypes' /\ GlobalsTypes' /\ CallTypes'
  BY <1>1 DEF TypeInv, WorldTypes, GlobalsTypes, CallTypes, vaultVars
<1>3. ControlTypes'
  BY DEF TypeInv, ControlTypes, Labels
<1>4. pc'[c] = after[c] /\ pc'[c] # "save" /\ (Busy(c)' <=> Busy(c))
  BY DEF TypeInv, ControlTypes, Busy
<1>5. (Answered(c) => Complete(lookup[c]))'
  <2>1. Answered(c)' => Answered(c)
    BY <1>4 DEF Answered, TypeInv, ControlTypes
  <2> QED BY <2>1 DEF TypeInv, AnswerComplete, Complete
<1>6. \A d \in Contexts \ {c} : pc'[d] = pc[d] /\ after'[d] = after[d]
  BY DEF TypeInv, ControlTypes
<1> QED BY <1>1, <1>2, <1>3, <1>4, <1>5, <1>6, TypeFrame, NoneAssumption
           DEF TypeInv, Links

LEMMA TypeRestart ==
    ASSUME TypeInv, NEW c \in Contexts, Restart(c)
    PROVE  TypeInv'
<1> USE DEF Restart
<1>1. WorldTypes' /\ GlobalsTypes' /\ CallTypes'
  BY DEF TypeInv, WorldTypes, GlobalsTypes, CallTypes, vaultVars
<1>2. ControlTypes' /\ pc'[c] = "idle" /\ lookup'[c] = None
  BY DEF TypeInv, ControlTypes, CallTypes, Labels
<1> QED BY <1>1, <1>2, TypeFrame
           DEF TypeInv, ControlTypes, CallTypes, GlobalsTypes, Busy, Answered

LEMMA TypeWorld ==
    ASSUME TypeInv, World
    PROVE  TypeInv'
<1>1. UNCHANGED contextVars
  BY DEF World, Tick, Revoke, LoseFile, Rotate
<1>2. GlobalsTypes' /\ ControlTypes' /\ CallTypes'
  BY <1>1 DEF TypeInv, GlobalsTypes, ControlTypes, CallTypes, contextVars
<1>3. Links' /\ AnswerComplete'
  BY <1>1 DEF TypeInv, Links, Busy, AnswerComplete, Answered, Complete,
              contextVars
<1>4. WorldTypes'
  <2>1. CASE Tick \/ Revoke \/ LoseFile
    BY <2>1 DEF Tick, Revoke, LoseFile, TypeInv, WorldTypes, vaultVars
  <2>2. ASSUME NEW s \in Paths, Rotate(s) PROVE WorldTypes'
    <3>1. secret[s] + 1 \in Versions
      BY <2>2, ConstantsAssumption DEF Rotate, TypeInv, WorldTypes, Versions
    <3> QED BY <2>2, <3>1 DEF Rotate, TypeInv, WorldTypes
  <2> QED BY <2>1, <2>2 DEF World
<1> QED BY <1>2, <1>3, <1>4 DEF TypeInv

LEMMA TypeStutter == TypeInv /\ UNCHANGED vars => TypeInv'
  BY DEF vars, TypeInv, WorldTypes, GlobalsTypes, ControlTypes, CallTypes,
         Links, Busy, AnswerComplete, Answered, Complete

LEMMA TypeNext ==
    ASSUME TypeInv, [Next]_vars
    PROVE  TypeInv'
<1>1. CASE World
  BY <1>1, TypeWorld
<1>2. ASSUME NEW c \in Contexts, Call(c) PROVE TypeInv'
  BY <1>2, TypeCall DEF Call
<1>3. ASSUME NEW c \in Contexts, Advance(c) PROVE TypeInv'
  <2>1. CASE NetworkFails(c)
    BY <2>1, MarkDownTypes DEF NetworkFails
  <2> QED BY <1>3, <2>1, TypeLoadFresh, TypeLoadThenRead, TypeAuth,
             TypeGiveUp, TypeSkipSend, TypeVaultAnswers, TypeReceive,
             TypeHandleLogin, TypeHandleDetect, TypeHandleRead,
             TypeDetectUnreachable, TypeSave DEF Advance
<1>4. ASSUME NEW c \in Contexts, Restart(c) PROVE TypeInv'
  BY <1>4, TypeRestart
<1>5. CASE UNCHANGED vars
  BY <1>5, TypeStutter
<1> QED BY <1>1, <1>2, <1>3, <1>4, <1>5 DEF Next

(* Every state of the driver is well formed: a lookup is there as long as    *)
(* its context is busy and a context never saves or consults a cache it has  *)
(* not loaded.                                                               *)
THEOREM TypeCorrect == Spec => []TypeOK
<1>1. Spec => []TypeInv
  BY TypeInit, TypeNext, PTL DEF Spec
<1>2. TypeInv => TypeOK
  BY DEF TypeInv, TypeOK, WorldTypes, GlobalsTypes, ControlTypes, CallTypes,
         Links
<1> QED BY <1>1, <1>2, PTL

-----------------------------------------------------------------------------
(* Steps of a context leave the world alone *)

SameWorld == UNCHANGED <<now, secret, retired>>

LEMMA StepsKeepWorld ==
    ASSUME NEW c \in Contexts, Call(c) \/ Advance(c) \/ Restart(c)
    PROVE  SameWorld
  BY DEF SameWorld, vaultVars, Call, LookupDedup, LookupBegin, Advance,
         LoadFresh, LoadThenRead, UseToken, NeedLogin, NoCredentials, Skip,
         Send, VaultAnswers, NetworkFails, Receive, HandleLogin,
         HandleDetect, HandleRead, DetectUnreachable, FallBack, GiveUp, Save,
         Restart

(* Steps of context c change the lookup and the control of c alone.          *)
LEMMA OthersUntouched ==
    ASSUME TypeInv, NEW c \in Contexts, Call(c) \/ Advance(c) \/ Restart(c)
    PROVE  \A d \in Contexts \ {c} :
               /\ pc'[d] = pc[d] /\ after'[d] = after[d]
               /\ lookup'[d] = lookup[d] /\ outcome'[d] = outcome[d]
               /\ vdown'[d] = vdown[d]
<1> USE DEF TypeInv, ControlTypes, CallTypes, GlobalsTypes, Goto, SaveThen,
            Finish, MarkDown
<1>1. CASE Call(c) \/ Restart(c)
  BY <1>1 DEF Call, LookupDedup, LookupBegin, Restart
<1>2. CASE LoadFresh(c) \/ LoadThenRead(c) \/ UseToken(c) \/ NeedLogin(c)
             \/ NoCredentials(c) \/ Skip(c) \/ Send(c)
  BY <1>2 DEF LoadFresh, LoadThenRead, UseToken, NeedLogin, NoCredentials,
              Skip, Send
<1>3. ASSUME NEW status, VaultAnswers(c, status)
      PROVE  \A d \in Contexts \ {c} :
               /\ pc'[d] = pc[d] /\ after'[d] = after[d]
               /\ lookup'[d] = lookup[d] /\ outcome'[d] = outcome[d]
               /\ vdown'[d] = vdown[d]
  BY <1>3 DEF VaultAnswers
<1>4. CASE NetworkFails(c) \/ Receive(c) \/ HandleLogin(c) \/ HandleDetect(c)
  BY <1>4 DEF NetworkFails, Receive, HandleLogin, HandleDetect
<1>5. CASE HandleRead(c) \/ DetectUnreachable(c) \/ FallBack(c) \/ GiveUp(c)
             \/ Save(c)
  BY <1>5 DEF HandleRead, DetectUnreachable, FallBack, GiveUp, Save
<1> QED BY <1>1, <1>2, <1>3, <1>4, <1>5 DEF Advance

-----------------------------------------------------------------------------
(* One timeout per window, when contexts follow one another *)

InWindow == lastFail # None /\ now < lastFail + Cooldown

(* Until the window ends nothing is on its way to the Vault or back, and the *)
(* marker is wherever this context or the next one will look for it.         *)
Remembered(c) ==
    InWindow =>
      /\ pc[c] # "wait" /\ ~Answered(c)
      /\ mem[c] # None => mem[c].down = lastFail
      /\ pc[c] # "save" => file # None /\ file.down = lastFail

WindowInv == TypeInv /\ \A c \in Contexts : Remembered(c)

LEMMA WindowStep ==
    ASSUME Faults = {}, TypeInv, TypeInv', NEW c \in Contexts, Remembered(c),
           Call(c) \/ Advance(c) \/ Restart(c)
    PROVE  Remembered(c)'
<1>0. SameWorld
  BY StepsKeepWorld
<1>1. ASSUME UNCHANGED <<lastFail, file, mem>>, pc[c] # "save",
             pc'[c] # "wait", ~Answered(c)'
      PROVE  Remembered(c)'
  BY <1>0, <1>1 DEF Remembered, InWindow, SameWorld
<1>2. ASSUME UNCHANGED lastFail, ~InWindow PROVE Remembered(c)'
  BY <1>0, <1>2 DEF Remembered, InWindow, SameWorld
<1>3. CASE Call(c)
  BY <1>1, <1>3 DEF Call, LookupDedup, LookupBegin, Goto, Answered, TypeInv,
                    ControlTypes
<1>4. CASE Restart(c)
  <2>1. pc[c] = "idle" /\ pc'[c] = "idle" /\ mem'[c] = None
    BY <1>4 DEF Restart, TypeInv, ControlTypes, GlobalsTypes
  <2> QED BY <1>0, <1>4, <2>1
          DEF Restart, Remembered, InWindow, SameWorld, Answered
<1>5. CASE LoadFresh(c) \/ LoadThenRead(c)
  <2>1. /\ mem'[c] = LoadedCache(c) /\ pc[c] = "load"
        /\ pc'[c] \in {"idle", "auth"} /\ UNCHANGED <<lastFail, file>>
    BY <1>5 DEF LoadFresh, LoadThenRead, Goto, TypeInv, ControlTypes,
                GlobalsTypes
  <2>2. InWindow => LoadedCache(c).down = lastFail
    BY <2>1 DEF Remembered, LoadedCache
  <2> QED BY <1>0, <2>1, <2>2 DEF Remembered, InWindow, SameWorld, Answered
<1>6. CASE \/ UseToken(c) \/ NeedLogin(c) \/ NoCredentials(c) \/ Skip(c)
           \/ DetectUnreachable(c) \/ FallBack(c) \/ GiveUp(c)
  BY <1>1, <1>6
     DEF UseToken, NeedLogin, NoCredentials, Skip, DetectUnreachable,
         FallBack, GiveUp, Goto, Answered, TypeInv, ControlTypes
<1>7. CASE Send(c)
  <2>1. mem[c] \in Cache /\ UNCHANGED lastFail
    BY <1>7, BusyFacts DEF Send
  <2>2. ~InWindow
    BY <1>7, <2>1, NoneAssumption
       DEF Send, BreakerOpen, Remembered, InWindow
  <2> QED BY <1>2, <2>1, <2>2
<1>8. CASE MarkDown(c) /\ (NetworkFails(c) \/ HandleLogin(c) \/ HandleRead(c))
  <2>1. mem[c] \in Cache
    BY <1>8, BusyFacts DEF NetworkFails, HandleLogin, HandleRead
  <2>2. mem'[c].down = now
    <3>1. mem' = [mem EXCEPT ![c] = [mem[c] EXCEPT !.down = now]]
      BY <1>8 DEF MarkDown, TypeInv, GlobalsTypes
    <3> QED BY <2>1, <3>1 DEF TypeInv, GlobalsTypes, Cache
  <2>3. lastFail' = now /\ pc'[c] = "save" /\ after'[c] = "unreach"
    BY <1>8 DEF MarkDown, SaveThen, TypeInv, ControlTypes
  <2> QED BY <2>2, <2>3 DEF Remembered, Answered
<1>9. ASSUME pc[c] = "wait" \/ Answered(c), UNCHANGED lastFail
      PROVE  Remembered(c)'
  BY <1>2, <1>9 DEF Remembered
<1>10. CASE \/ \E status \in {"ok", "bare", "denied", "fail", "odd"} :
                  VaultAnswers(c, status)
            \/ Receive(c) \/ HandleDetect(c)
            \/ (HandleLogin(c) \/ HandleRead(c)) /\ ~MarkDown(c)
  <2>1. pc[c] = "wait" \/ Answered(c)
    BY <1>10 DEF VaultAnswers, Receive, HandleDetect, HandleLogin, HandleRead,
                 Answered
  <2>2. UNCHANGED lastFail
    BY <1>10 DEF VaultAnswers, Receive, HandleDetect, HandleLogin, HandleRead
  <2> QED BY <1>9, <2>1, <2>2
<1>11. CASE Save(c)
  <2>1. /\ file' = mem[c] /\ UNCHANGED <<lastFail, mem>> /\ mem[c] # None
        /\ pc[c] = "save" /\ pc'[c] = after[c] /\ after'[c] = "idle"
    BY <1>11 DEF Save, TypeInv, ControlTypes, Links
  <2>2. after[c] # "wait"
    BY DEF TypeInv, ControlTypes
  <2> QED BY <1>0, <2>1, <2>2 DEF Remembered, InWindow, SameWorld, Answered,
                                  TypeInv, ControlTypes
<1> QED BY <1>3, <1>4, <1>5, <1>6, <1>7, <1>8, <1>10, <1>11
        DEF Advance, NetworkFails

LEMMA WindowNext ==
    ASSUME Faults = {}, \A c, d \in Contexts : c = d,
           WindowInv, [Next]_vars
    PROVE  WindowInv'
<1>1. TypeInv'
  BY TypeNext, TypeStutter DEF WindowInv
<1>2. CASE World \/ UNCHANGED vars
  <2>1. UNCHANGED <<contextVars, lastFail, file>>
    BY <1>2 DEF World, Tick, Revoke, LoseFile, Rotate, contextVars, vars
  <2>2. InWindow' => InWindow
    <3>1. now <= now' /\ now \in Nat /\ now' \in Nat /\ Cooldown \in Nat
      BY <1>1, <1>2, ConstantsAssumption
         DEF World, Tick, Revoke, LoseFile, Rotate, vaultVars, vars,
             WindowInv, TypeInv, WorldTypes
    <3>2. lastFail' = lastFail /\ (lastFail # None => lastFail \in Nat)
      BY <2>1 DEF WindowInv, TypeInv, WorldTypes
    <3> QED BY <3>1, <3>2 DEF InWindow
  <2> QED BY <1>1, <2>1, <2>2
          DEF WindowInv, Remembered, Answered, contextVars
<1>3. ASSUME NEW c \in Contexts, Call(c) \/ Advance(c) \/ Restart(c)
      PROVE  WindowInv'
  BY <1>1, <1>3, WindowStep DEF WindowInv
<1> QED BY <1>2, <1>3 DEF Next

(* One timeout per window: contexts that follow one another, with a file     *)
(* that is kept, send nothing to a Vault that failed less than               *)
(* outage_cooldown seconds ago (54-58).                                      *)
THEOREM OneTimeout ==
    ASSUME Faults = {}, \A c, d \in Contexts : c = d
    PROVE  Spec => OneTimeoutPerWindow
<1> DEFINE Late(c) == (pc[c] = "send" /\ pc'[c] = "wait") =>
                          (lastFail = None \/ now >= lastFail + Cooldown)
<1>1. Init => WindowInv
  BY TypeInit DEF Init, WindowInv, Remembered, InWindow
<1>2. WindowInv /\ [Next]_vars => WindowInv'
  BY WindowNext
<1>3. ASSUME WindowInv, [Next]_vars, NEW c \in Contexts,
             pc[c] = "send", pc'[c] = "wait"
      PROVE  lastFail = None \/ now >= lastFail + Cooldown
  <2>1. ~UNCHANGED pc
    BY <1>3
  <2>2. Call(c) \/ Advance(c) \/ Restart(c)
    BY <1>3, <2>1 DEF Next, World, Tick, Revoke, LoseFile, Rotate,
                      contextVars, vars
  <2>3. Send(c)
    BY <1>3, <2>2
       DEF WindowInv, TypeInv, ControlTypes, Goto, Call, LookupDedup,
           LookupBegin, Advance, LoadFresh, LoadThenRead, UseToken,
           NeedLogin, NoCredentials, Skip, VaultAnswers, NetworkFails,
           Receive, HandleLogin, HandleDetect, HandleRead, DetectUnreachable,
           FallBack, GiveUp, Save, Restart
  <2>4. mem[c] \in Cache /\ now \in Nat
        /\ (lastFail # None => lastFail \in Nat)
    BY <1>3, BusyFacts DEF WindowInv, TypeInv, WorldTypes
  <2>5. ~InWindow
    BY <1>3, <2>3, <2>4, NoneAssumption
       DEF Send, BreakerOpen, WindowInv, Remembered, InWindow
  <2> QED BY <2>4, <2>5, ConstantsAssumption DEF InWindow
<1>4. WindowInv /\ [Next]_vars => [\A c \in Contexts : Late(c)]_vars
  BY <1>3
<1> QED BY <1>1, <1>2, <1>4, PTL DEF Spec, OneTimeoutPerWindow

-----------------------------------------------------------------------------
(* What a lookup costs *)

(* The places a lookup goes to, one after the other, and its goals.          *)
Stays(c)       == lookup'[c].goal = lookup[c].goal
Turns(c, goal) == lookup'[c].goal = goal
At(c, label)   == pc[c] = label
To(c, label)   == pc'[c] = label
Via(c, label)  == pc'[c] = "save" /\ after'[c] = label

Moves(c) ==
    \/ At(c, "load") /\ To(c, "idle")
    \/ At(c, "load") /\ To(c, "auth") /\ (Turns(c, "detect") \/ Turns(c, "read"))
    \/ At(c, "auth") /\ To(c, "send") /\ Stays(c)
    \/ At(c, "auth") /\ To(c, "idle")
    \/ At(c, "send") /\ To(c, "unreach") /\ Stays(c)
    \/ At(c, "send") /\ To(c, "wait") /\ ~vdown[c] /\ lookup'[c] = lookup[c]
    \/ At(c, "wait") /\ To(c, "got") /\ Stays(c) /\ lookup'[c].req = lookup[c].req
    \/ pc[c] \in {"wait", "got", "answer"} /\ Via(c, "unreach") /\ Stays(c)
    \/ At(c, "got") /\ (To(c, "answer") \/ Via(c, "answer"))
         /\ lookup'[c] = lookup[c]
    \/ At(c, "answer") /\ lookup[c].req = "login" /\ Via(c, "send")
         /\ Stays(c) /\ lookup'[c].req = "call"
    \/ At(c, "answer") /\ (To(c, "idle") \/ Via(c, "idle"))
    \/ At(c, "answer") /\ lookup[c].goal = "detect"
         /\ (To(c, "auth") \/ Via(c, "auth")) /\ Turns(c, "read")
    \/ At(c, "answer") /\ lookup[c].goal = "read"
         /\ To(c, "auth") /\ Turns(c, "reread")
    \/ At(c, "unreach") /\ lookup[c].goal = "detect"
         /\ To(c, "auth") /\ Turns(c, "read")
    \/ At(c, "unreach") /\ To(c, "idle")
    \/ At(c, "save") /\ To(c, after[c]) /\ lookup'[c] = lookup[c]

(* Each step of a lookup is one of those moves.                              *)
LEMMA AdvanceMoves ==
    ASSUME TypeInv, NEW c \in Contexts, Advance(c)
    PROVE  Moves(c)
<1> USE DEF At, To, Via, Stays, Turns
<1>0. /\ pc \in [Contexts -> Labels]
      /\ after \in [Contexts -> {"idle", "auth", "send", "answer", "unreach"}]
      /\ lookup \in [Contexts -> Lookup \cup {None}]
      /\ pc[c] \notin {"idle", "save"} => lookup[c] \in Lookup
  BY BusyFacts DEF TypeInv, ControlTypes, CallTypes
<1>1. CASE LoadFresh(c) \/ LoadThenRead(c)
  <2>1. CASE LoadFresh(c)
    BY <1>0, <2>1 DEF LoadFresh, Goto, Moves
  <2>2. CASE LoadThenRead(c)
    <3>1. /\ At(c, "load") /\ To(c, "auth")
          /\ lookup'[c].goal \in {"detect", "read"}
      BY <1>0, <2>2 DEF LoadThenRead, Goto, Lookup
    <3> QED BY <3>1 DEF Moves
  <2> QED BY <1>1, <2>1, <2>2
<1>2. CASE UseToken(c) \/ NeedLogin(c) \/ NoCredentials(c)
  <2>1. CASE NoCredentials(c)
    BY <1>0, <2>1 DEF NoCredentials, Goto, Moves
  <2>2. CASE UseToken(c)
    <3>1. At(c, "auth") /\ To(c, "send") /\ Stays(c)
      BY <1>0, <2>2 DEF UseToken, Goto, Lookup
    <3> QED BY <3>1 DEF Moves
  <2>3. CASE NeedLogin(c)
    <3>1. At(c, "auth") /\ To(c, "send") /\ Stays(c)
      BY <1>0, <2>3 DEF NeedLogin, Goto, Lookup
    <3> QED BY <3>1 DEF Moves
  <2> QED BY <1>2, <2>1, <2>2, <2>3
<1>3. CASE Skip(c) \/ Send(c)
  <2>1. CASE Skip(c)
    BY <1>0, <2>1 DEF Skip, Goto, Moves
  <2>2. CASE Send(c)
    BY <1>0, <2>2 DEF Send, BreakerOpen, Goto, Moves
  <2> QED BY <1>3, <2>1, <2>2
<1>4. ASSUME NEW status \in {"ok", "bare", "denied", "fail", "odd"},
             VaultAnswers(c, status)
      PROVE  Moves(c)
  <2>1. At(c, "wait") /\ To(c, "got") /\ Stays(c)
        /\ lookup'[c].req = lookup[c].req
    BY <1>0, <1>4 DEF VaultAnswers, Goto, Lookup
  <2> QED BY <2>1 DEF Moves
<1>5. ASSUME pc[c] \in {"wait", "got", "answer"}, MarkDown(c) PROVE Moves(c)
  <2>1. Via(c, "unreach") /\ Stays(c)
    BY <1>0, <1>5 DEF MarkDown, SaveThen, Lookup
  <2> QED BY <1>5, <2>1 DEF Moves
<1>6. CASE Receive(c)
  BY <1>0, <1>6 DEF Receive, Goto, SaveThen, Moves
<1>7. CASE HandleLogin(c) /\ ~MarkDown(c)
  <2>1. \/ /\ SaveThen(c, "send")
           /\ lookup' = [lookup EXCEPT ![c].req = "call",
                             ![c].tok = lookup[c].resp.grant, ![c].resp = None]
        \/ Goto(c, "idle")
    BY <1>7 DEF HandleLogin
  <2>2. pc[c] = "answer" /\ lookup[c].req = "login"
    BY <1>7 DEF HandleLogin
  <2>3. CASE Goto(c, "idle")
    BY <1>0, <2>2, <2>3 DEF Goto, Moves
  <2>4. CASE SaveThen(c, "send") /\ ~Goto(c, "idle")
    <3>1. Via(c, "send") /\ Stays(c) /\ lookup'[c].req = "call"
      BY <1>0, <2>1, <2>2, <2>4 DEF SaveThen, Lookup
    <3> QED BY <2>2, <3>1 DEF Moves
  <2> QED BY <2>1, <2>3, <2>4
<1>8. CASE HandleDetect(c)
  <2>1. At(c, "answer") /\ lookup[c].goal = "detect"
        /\ (To(c, "auth") \/ Via(c, "auth")) /\ Turns(c, "read")
    BY <1>0, <1>8 DEF HandleDetect, Goto, SaveThen, Lookup
  <2> QED BY <2>1 DEF Moves
<1>9. CASE HandleRead(c) /\ ~MarkDown(c)
  <2>1. pc[c] = "answer"
    BY <1>9 DEF HandleRead
  <2>2. \/ Goto(c, "idle") \/ SaveThen(c, "idle")
        \/ /\ RefreshOnce(c) /\ Goto(c, "auth")
           /\ lookup' = [lookup EXCEPT ![c].goal = "reread", ![c].resp = None]
    BY <1>9 DEF HandleRead
  <2>3. CASE Goto(c, "idle") \/ SaveThen(c, "idle")
    BY <1>0, <2>1, <2>3 DEF Goto, SaveThen, Moves
  <2>4. CASE /\ RefreshOnce(c) /\ Goto(c, "auth")
             /\ lookup' = [lookup EXCEPT ![c].goal = "reread", ![c].resp = None]
    <3>1. lookup[c].goal = "read" /\ To(c, "auth") /\ Turns(c, "reread")
      BY <1>0, <2>1, <2>4 DEF RefreshOnce, Goto, Lookup
    <3> QED BY <2>1, <3>1 DEF Moves
  <2> QED BY <2>2, <2>3, <2>4
<1>10. CASE DetectUnreachable(c)
  <2>1. At(c, "unreach") /\ lookup[c].goal = "detect" /\ To(c, "auth")
        /\ Turns(c, "read")
    BY <1>0, <1>10 DEF DetectUnreachable, Goto, Lookup
  <2> QED BY <2>1 DEF Moves
<1>11. CASE FallBack(c) \/ GiveUp(c)
  BY <1>0, <1>11 DEF FallBack, GiveUp, Goto, Moves
<1>12. CASE Save(c)
  BY <1>0, <1>12 DEF Save, Moves
<1> QED BY <1>1, <1>2, <1>3, <1>4, <1>5, <1>6, <1>7, <1>8, <1>9, <1>10, <1>11,
           <1>12 DEF Advance, NetworkFails, HandleLogin, HandleRead

(* The parts of a running lookup its cost depends on.                        *)
LEMMA CallFacts ==
    ASSUME TypeInv, NEW c \in Contexts, Place(c) # "idle"
    PROVE  /\ Place(c) \in {"load", "auth", "send", "wait", "got", "answer",
                            "unreach"}
           /\ pc[c] = "load" <=> Place(c) = "load"
           /\ lookup[c] \in Lookup
           /\ lookup[c].goal \in {"detect", "read", "reread"}
           /\ lookup[c].req \in {"login", "call"}
<1>1. pc[c] \in Labels
      /\ after[c] \in {"idle", "auth", "send", "answer", "unreach"}
  BY DEF TypeInv, ControlTypes
<1>2. lookup[c] \in Lookup
  BY <1>1 DEF TypeInv, Links, CallTypes, Busy, Place
<1> QED BY <1>1, <1>2 DEF Place, Labels, Lookup

LEMMA StepsLeftType ==
    ASSUME TypeInv, NEW c \in Contexts
    PROVE  /\ StepsLeft(c) \in Nat
           /\ Place(c) \notin {"idle", "load"} =>
                  StepsHere(c) \in 7..20
<1>1. CASE Place(c) = "idle"
  BY <1>1 DEF StepsLeft
<1>2. CASE Place(c) # "idle"
  <2>1. StepsLater(c) \in Nat
    BY <1>2, CallFacts DEF StepsLater
  <2>2. Place(c) # "load" =>
            StepsHere(c) \in 7..20
    BY <1>2, CallFacts DEF StepsHere
  <2> QED BY <1>2, <2>1, <2>2 DEF StepsLeft
<1> QED BY <1>1, <1>2

LEMMA StepsLeftNext == (TypeInv => \A c \in Contexts : StepsLeft(c) \in Nat)'
<1>1. TypeInv => \A c \in Contexts : StepsLeft(c) \in Nat
  BY StepsLeftType
<1> QED BY <1>1, PTL

(* The lookup before and after a move that does not end it.                  *)
LEMMA MoveFacts ==
    ASSUME TypeInv, TypeInv', NEW c \in Contexts, Moves(c),
           Place(c)' # "idle"
    PROVE  /\ Place(c) # "idle"
           /\ pc[c] = "load" <=> Place(c) = "load"
           /\ lookup[c].goal \in {"detect", "read", "reread"}
           /\ lookup[c].req \in {"login", "call"}
           /\ after[c] \in {"idle", "auth", "send", "answer", "unreach"}
           /\ pc'[c] # "load" /\ Place(c)' # "load"
           /\ lookup'[c].goal \in {"detect", "read", "reread"}
           /\ lookup'[c].req \in {"login", "call"}
<1> USE DEF At, To, Via
<1>1. /\ pc'[c] \in Labels
      /\ after'[c] \in {"idle", "auth", "send", "answer", "unreach"}
      /\ after[c] \in {"idle", "auth", "send", "answer", "unreach"}
      /\ lookup' \in [Contexts -> Lookup \cup {None}]
  BY DEF TypeInv, ControlTypes, CallTypes
<1>2. lookup'[c] \in Lookup
  BY <1>1 DEF TypeInv, Links, Busy, Place
<1>3. pc'[c] # "load"
  BY <1>1 DEF Moves
<1>4. Place(c) # "idle"
  BY DEF Moves, Place
<1> QED BY <1>1, <1>2, <1>3, <1>4, CallFacts DEF Lookup, Place

(* Every step of a lookup leaves fewer.                                      *)
LEMMA AdvanceLowers ==
    ASSUME TypeInv, TypeInv', NEW c \in Contexts, Advance(c)
    PROVE  StepsLeft(c)' < StepsLeft(c)
<1> USE DEF At, To, Via, Stays, Turns
<1>0. Moves(c)
  BY AdvanceMoves
<1>1. CASE To(c, "idle") \/ Via(c, "idle")
  <2>1. StepsLeft(c)' = IF pc'[c] = "save" THEN 1 ELSE 0
    BY <1>1 DEF StepsLeft, Place
  <2>2. Place(c) # "idle" => StepsLeft(c) > 1
    BY StepsLeftType, CallFacts DEF StepsLeft, StepsLater
  <2>3. CASE Place(c) = "idle"
    <3>1. pc[c] = "save" /\ To(c, "idle")
      BY <1>0, <2>3 DEF Moves, Place
    <3> QED BY <2>1, <2>3, <3>1 DEF StepsLeft, Place
  <2>4. CASE Place(c) # "idle"
    BY <2>1, <2>2, <2>4, StepsLeftType
  <2> QED BY <2>3, <2>4
<1>2. CASE Place(c)' # "idle"
  <2>1. /\ Place(c) # "idle"
        /\ pc[c] = "load" <=> Place(c) = "load"
        /\ lookup[c].goal \in {"detect", "read", "reread"}
        /\ lookup[c].req \in {"login", "call"}
    BY <1>0, <1>2, MoveFacts
  <2>2. /\ after[c] \in {"idle", "auth", "send", "answer", "unreach"}
        /\ pc'[c] # "load" /\ Place(c)' # "load"
        /\ lookup'[c].goal \in {"detect", "read", "reread"}
        /\ lookup'[c].req \in {"login", "call"}
    BY <1>0, <1>2, MoveFacts
  <2> USE DEF StepsLeft, StepsHere, StepsLater, Place
  <2>3. CASE At(c, "load") \/ At(c, "auth")
    BY <1>0, <1>2, <2>1, <2>2, <2>3 DEF Moves
  <2>8. CASE At(c, "save")
    <3>1. pc'[c] = after[c] /\ lookup'[c] = lookup[c]
      BY <1>0, <2>8 DEF Moves
    <3> QED BY <1>2, <2>1, <2>2, <2>8, <3>1
  <2>4. CASE At(c, "send") \/ At(c, "wait")
    BY <1>0, <1>2, <2>1, <2>2, <2>4 DEF Moves
  <2>5. CASE At(c, "got")
    BY <1>0, <1>2, <2>1, <2>2, <2>5 DEF Moves
  <2>6. CASE At(c, "answer")
    BY <1>0, <1>2, <2>1, <2>2, <2>6 DEF Moves
  <2>7. CASE At(c, "unreach")
    BY <1>0, <1>2, <2>1, <2>2, <2>7 DEF Moves
  <2> QED BY <1>0, <2>3, <2>4, <2>5, <2>6, <2>7, <2>8 DEF Moves
<1> QED BY <1>1, <1>2 DEF Place

LEMMA CostStepIsStep ==
    ASSUME [CostNext]_<<vars, costVars>>
    PROVE  [Next]_vars
  BY DEF CostNext, CountedCall, CountedAdvance, CountedRestart, Next

LEMMA CostSpecIsSpec == CostSpec => Spec
<1>1. CostInit => Init
  BY DEF CostInit
<1>2. [CostNext]_<<vars, costVars>> => [Next]_vars
  BY CostStepIsStep
<1> QED BY <1>1, <1>2, PTL DEF CostSpec, Spec

(* Each step of a lookup leads on, and nothing but a call adds to what is    *)
(* left: with the fairness of FairSpec a lookup ends after at most as many   *)
(* steps (491-534).                                                          *)
THEOREM LookupsAdvance == CostSpec => LookupAdvances
<1> DEFINE Leads(c) == /\ Advance(c) => StepsLeft(c)' < StepsLeft(c)
                       /\ StepsLeft(c)' <= StepsLeft(c) \/ Call(c)
<1>1. ASSUME TypeInv, [Next]_vars, NEW d \in Contexts PROVE Leads(d)
  <2>1. TypeInv'
    BY <1>1, TypeNext
  <2>2. Advance(d) => StepsLeft(d)' < StepsLeft(d)
    BY <1>1, <2>1, AdvanceLowers
  <2>3. StepsLeft(d) \in Nat
    BY <1>1, StepsLeftType
  <2>4. ASSUME pc'[d] = pc[d], after'[d] = after[d], lookup'[d] = lookup[d]
        PROVE  StepsLeft(d)' = StepsLeft(d)
    BY <2>4 DEF StepsLeft, StepsHere, StepsLater, Place
  <2>5. CASE World \/ UNCHANGED vars
    <3>1. UNCHANGED <<pc, after, lookup>>
      BY <2>5 DEF World, Tick, Revoke, LoseFile, Rotate, contextVars, vars
    <3> QED BY <2>2, <2>3, <2>4, <3>1
  <2>6. ASSUME NEW c \in Contexts, c # d, Call(c) \/ Advance(c) \/ Restart(c)
        PROVE  Leads(d)
    <3>1. /\ pc'[d] = pc[d] /\ after'[d] = after[d]
          /\ lookup'[d] = lookup[d]
      BY <1>1, <2>6, OthersUntouched
    <3> QED BY <2>2, <2>3, <2>4, <3>1
  <2>7. CASE Advance(d)
    <3>1. StepsLeft(d)' < StepsLeft(d) /\ StepsLeft(d)' \in Nat
      BY <2>1, <2>2, <2>7, AdvanceLowers, StepsLeftNext
    <3> QED BY <2>2, <2>3, <3>1
  <2>8. CASE Restart(d)
    <3>1. pc'[d] = "idle"
      BY <1>1, <2>8 DEF Restart, TypeInv, ControlTypes
    <3>2. StepsLeft(d)' = 0
      BY <3>1 DEF StepsLeft, Place
    <3> QED BY <2>2, <2>3, <3>2
  <2>9. CASE Call(d)
    BY <2>2, <2>9
  <2> QED BY <1>1, <2>5, <2>6, <2>7, <2>8, <2>9 DEF Next
<1>2. TypeInv /\ [Next]_vars => [\A c \in Contexts : Leads(c)]_vars
  BY <1>1
<1>3. Spec => LookupAdvances
  BY <1>2, TypeInit, TypeNext, PTL DEF Spec, LookupAdvances
<1> QED BY <1>3, CostSpecIsSpec

-----------------------------------------------------------------------------
(* Requests and failures *)

RequestsHere(c) ==
    LET login == IF lookup[c].req = "login" THEN 1 ELSE 0
    IN  CASE Place(c) = "auth"                       -> 2
          [] Place(c) = "send"                       -> 1 + login
          [] Place(c) \in {"wait", "got", "answer"}  -> login
          [] Place(c) = "unreach"                    -> 0

RequestsLater(c) ==
    CASE lookup[c].goal = "detect" -> 4
      [] lookup[c].goal = "read"   -> 2
      [] lookup[c].goal = "reread" -> 0

(* The requests a lookup may still send.                                     *)
RequestsLeft(c) ==
    CASE Place(c) = "idle" -> 0
      [] Place(c) = "load" -> 6
      [] OTHER             -> RequestsHere(c) + RequestsLater(c)

(* What was sent and what may be sent make six, and a process that met a     *)
(* failure has nothing under way any more and will send nothing.             *)
Requests(c) == sent[c] + RequestsLeft(c) <= 6

Failures(c) ==
    /\ met[c] <= 1
    /\ met[c] = 1 => vdown[c] /\ pc[c] # "wait" /\ ~Answered(c)

CostInv ==
    /\ TypeInv
    /\ sent \in [Contexts -> Nat] /\ met \in [Contexts -> Nat]
    /\ \A c \in Contexts : Requests(c) /\ Failures(c)

LEMMA RequestsLeftType ==
    ASSUME TypeInv, NEW c \in Contexts
    PROVE  RequestsLeft(c) \in Nat
<1>1. CASE Place(c) \in {"idle", "load"}
  BY <1>1 DEF RequestsLeft
<1>2. CASE Place(c) \notin {"idle", "load"}
  BY <1>2, CallFacts DEF RequestsLeft, RequestsHere, RequestsLater
<1> QED BY <1>1, <1>2

LEMMA RequestsLeftNext ==
    (TypeInv => \A c \in Contexts : RequestsLeft(c) \in Nat)'
<1>1. TypeInv => \A c \in Contexts : RequestsLeft(c) \in Nat
  BY RequestsLeftType
<1> QED BY <1>1, PTL

(* What a step sends is taken from what is left.                             *)
LEMMA AdvanceSpends ==
    ASSUME TypeInv, TypeInv', NEW c \in Contexts, Advance(c)
    PROVE  /\ Sends(c) => RequestsLeft(c)' + 1 <= RequestsLeft(c)
           /\ RequestsLeft(c)' <= RequestsLeft(c)
<1> USE DEF At, To, Via, Stays, Turns
<1>0. Moves(c) /\ RequestsLeft(c) \in Nat
  BY AdvanceMoves, RequestsLeftType
<1>1. CASE Place(c)' = "idle"
  <2>1. RequestsLeft(c)' = 0 /\ ~Sends(c)
    BY <1>1 DEF RequestsLeft, Place, Sends
  <2> QED BY <1>0, <2>1
<1>2. CASE Place(c)' # "idle"
  <2>1. /\ Place(c) # "idle"
        /\ pc[c] = "load" <=> Place(c) = "load"
        /\ lookup[c].goal \in {"detect", "read", "reread"}
        /\ lookup[c].req \in {"login", "call"}
    BY <1>0, <1>2, MoveFacts
  <2>2. /\ after[c] \in {"idle", "auth", "send", "answer", "unreach"}
        /\ pc'[c] # "load" /\ Place(c)' # "load"
        /\ lookup'[c].goal \in {"detect", "read", "reread"}
        /\ lookup'[c].req \in {"login", "call"}
    BY <1>0, <1>2, MoveFacts
  <2> USE DEF RequestsLeft, RequestsHere, RequestsLater, Place, Sends
  <2>3. CASE At(c, "load") \/ At(c, "auth")
    BY <1>0, <1>2, <2>1, <2>2, <2>3 DEF Moves
  <2>4. CASE At(c, "save")
    <3>1. pc'[c] = after[c] /\ lookup'[c] = lookup[c]
      BY <1>0, <2>4 DEF Moves
    <3> QED BY <1>2, <2>1, <2>2, <2>4, <3>1
  <2>5. CASE At(c, "send") \/ At(c, "wait")
    BY <1>0, <1>2, <2>1, <2>2, <2>5 DEF Moves
  <2>6. CASE At(c, "got")
    BY <1>0, <1>2, <2>1, <2>2, <2>6 DEF Moves
  <2>7. CASE At(c, "answer")
    BY <1>0, <1>2, <2>1, <2>2, <2>7 DEF Moves
  <2>8. CASE At(c, "unreach")
    BY <1>0, <1>2, <2>1, <2>2, <2>8 DEF Moves
  <2> QED BY <1>0, <2>3, <2>4, <2>5, <2>6, <2>7, <2>8 DEF Moves
<1> QED BY <1>1, <1>2

(* The in-process marker is set by a failure, and cleared by an answer only. *)
LEMMA MarkerKept ==
    ASSUME TypeInv, NEW c \in Contexts, Advance(c)
    PROVE  /\ Fails(c) => vdown'[c] = TRUE /\ (pc[c] = "wait" \/ Answered(c))
           /\ pc[c] # "wait" /\ ~Answered(c) => vdown' = vdown
<1>0. /\ pc \in [Contexts -> Labels] /\ vdown \in [Contexts -> BOOLEAN]
      /\ after \in [Contexts -> {"idle", "auth", "send", "answer", "unreach"}]
  BY DEF TypeInv, ControlTypes, GlobalsTypes
<1> USE DEF Fails, Answered, Goto, SaveThen
<1>1. CASE \/ LoadFresh(c) \/ LoadThenRead(c) \/ UseToken(c) \/ NeedLogin(c)
           \/ NoCredentials(c) \/ Skip(c) \/ Send(c) \/ DetectUnreachable(c)
           \/ FallBack(c) \/ GiveUp(c)
  BY <1>0, <1>1 DEF LoadFresh, LoadThenRead, UseToken, NeedLogin,
                    NoCredentials, Skip, Send, DetectUnreachable, FallBack,
                    GiveUp
<1>2. CASE \E status \in {"ok", "bare", "denied", "fail", "odd"} :
              VaultAnswers(c, status)
  BY <1>0, <1>2 DEF VaultAnswers
<1>3. ASSUME pc[c] \in {"wait", "got", "answer"}, MarkDown(c)
      PROVE  vdown'[c] = TRUE /\ (pc[c] = "wait" \/ Answered(c))
  BY <1>0, <1>3 DEF MarkDown
<1>4. CASE Receive(c) \/ HandleDetect(c)
  BY <1>0, <1>4 DEF Receive, HandleDetect
<1>5. CASE (HandleLogin(c) \/ HandleRead(c)) /\ ~MarkDown(c)
  BY <1>0, <1>5 DEF HandleLogin, HandleRead
<1>6. CASE Save(c)
  BY <1>0, <1>6 DEF Save
<1> QED BY <1>1, <1>2, <1>3, <1>4, <1>5, <1>6
        DEF Advance, NetworkFails, HandleLogin, HandleRead

LEMMA CostAdvance ==
    ASSUME CostInv, TypeInv', NEW c \in Contexts, CountedAdvance(c)
    PROVE  Requests(c)' /\ Failures(c)'
<1>0. /\ Advance(c) /\ Moves(c) /\ Requests(c) /\ Failures(c)
      /\ sent[c] \in Nat /\ met[c] \in Nat
  BY AdvanceMoves DEF CountedAdvance, CostInv
<1>1. Requests(c)'
  <2>1. RequestsLeft(c) \in Nat /\ RequestsLeft(c)' \in Nat
    BY RequestsLeftType, RequestsLeftNext DEF CostInv
  <2>2. sent'[c] = IF Sends(c) THEN sent[c] + 1 ELSE sent[c]
    BY DEF CountedAdvance, CostInv
  <2>3. /\ Sends(c) => RequestsLeft(c)' + 1 <= RequestsLeft(c)
        /\ RequestsLeft(c)' <= RequestsLeft(c)
    BY <1>0, AdvanceSpends DEF CostInv
  <2> QED BY <1>0, <2>1, <2>2, <2>3 DEF Requests
<1>2. Failures(c)'
  <2>1. met'[c] = IF Fails(c) THEN met[c] + 1 ELSE met[c]
    BY DEF CountedAdvance, CostInv
  <2>2. /\ Fails(c) => vdown'[c] = TRUE /\ (pc[c] = "wait" \/ Answered(c))
        /\ pc[c] # "wait" /\ ~Answered(c) => vdown' = vdown
    BY <1>0, MarkerKept DEF CostInv
  <2>3. CASE Fails(c)
    <3>1. met[c] = 0
      BY <1>0, <2>2, <2>3 DEF Failures
    <3> QED BY <2>1, <2>2, <2>3, <3>1 DEF Failures, Fails, Answered
  <2>4. CASE ~Fails(c) /\ met[c] = 1
    <3>1. pc[c] # "wait" /\ ~Answered(c) /\ vdown[c] /\ vdown' = vdown
      BY <1>0, <2>2, <2>4 DEF Failures
    <3>2. pc'[c] # "wait" /\ ~Answered(c)'
      BY <1>0, <3>1 DEF Moves, At, To, Via, Answered, CostInv, TypeInv,
                        ControlTypes
    <3> QED BY <2>1, <2>4, <3>1, <3>2 DEF Failures
  <2>5. CASE ~Fails(c) /\ met[c] = 0
    BY <2>1, <2>5 DEF Failures
  <2> QED BY <1>0, <2>3, <2>4, <2>5 DEF Failures
<1> QED BY <1>1, <1>2

LEMMA CostNextKeeps ==
    ASSUME CostInv, [CostNext]_<<vars, costVars>>
    PROVE  CostInv'
<1>1. TypeInv'
  BY CostStepIsStep, TypeNext DEF CostInv
<1>2. ASSUME NEW d \in Contexts,
             pc'[d] = pc[d], after'[d] = after[d], lookup'[d] = lookup[d],
             vdown'[d] = vdown[d], sent'[d] = sent[d], met'[d] = met[d]
      PROVE  Requests(d)' /\ Failures(d)'
  <2>1. Requests(d) /\ Failures(d)
    BY DEF CostInv
  <2> QED BY <1>2, <2>1 DEF Requests, RequestsLeft, RequestsHere,
                            RequestsLater, Place, Failures, Answered
<1>3. CASE (World /\ UNCHANGED costVars) \/ UNCHANGED <<vars, costVars>>
  <2>1. UNCHANGED <<pc, after, lookup, vdown, sent, met>>
    BY <1>3 DEF World, Tick, Revoke, LoseFile, Rotate, contextVars, vars,
                costVars
  <2> QED BY <1>1, <1>2, <2>1 DEF CostInv
<1>4. ASSUME NEW c \in Contexts,
             CountedCall(c) \/ CountedAdvance(c) \/ CountedRestart(c)
      PROVE  CostInv'
  <2>1. sent' \in [Contexts -> Nat] /\ met' \in [Contexts -> Nat]
    BY <1>4 DEF CountedCall, CountedAdvance, CountedRestart, CostInv
  <2>2. ASSUME NEW d \in Contexts, c # d PROVE Requests(d)' /\ Failures(d)'
    <3>1. Call(c) \/ Advance(c) \/ Restart(c)
      BY <1>4 DEF CountedCall, CountedAdvance, CountedRestart
    <3>2. sent'[d] = sent[d] /\ met'[d] = met[d]
      BY <1>4, <2>2 DEF CountedCall, CountedAdvance, CountedRestart, CostInv
    <3> QED BY <1>2, <2>2, <3>1, <3>2, OthersUntouched DEF CostInv
  <2>3. Requests(c)' /\ Failures(c)'
    <3>1. CASE CountedAdvance(c)
      BY <1>1, <3>1, CostAdvance
    <3>2. CASE CountedRestart(c)
      <4>1. pc'[c] = "idle" /\ sent'[c] = 0 /\ met'[c] = 0
        BY <3>2 DEF CountedRestart, Restart, CostInv, TypeInv, ControlTypes
      <4> QED BY <4>1 DEF Requests, RequestsLeft, Place, Failures
    <3>3. CASE CountedCall(c)
      <4>1. /\ sent'[c] = 0 /\ met'[c] = met[c] /\ vdown' = vdown
            /\ pc[c] = "idle" /\ pc'[c] \in {"idle", "load"}
        BY <3>3 DEF CountedCall, Call, LookupDedup, LookupBegin, Goto,
                    CostInv, TypeInv, ControlTypes
      <4>2. Requests(c)'
        BY <4>1 DEF Requests, RequestsLeft, Place
      <4>3. Failures(c)'
        BY <4>1 DEF CostInv, Failures, Answered
      <4> QED BY <4>2, <4>3
    <3> QED BY <1>4, <3>1, <3>2, <3>3
  <2> QED BY <1>1, <2>1, <2>2, <2>3 DEF CostInv
<1> QED BY <1>3, <1>4 DEF CostNext

LEMMA CostInvariant == CostSpec => []CostInv
<1>1. CostInit => CostInv
  <2> SUFFICES ASSUME CostInit PROVE CostInv
    OBVIOUS
  <2>1. TypeInv
    BY TypeInit DEF CostInit
  <2>2. ASSUME NEW c \in Contexts PROVE Requests(c) /\ Failures(c)
    BY DEF CostInit, Init, Requests, RequestsLeft, Place, Failures
  <2> QED BY <2>1, <2>2 DEF CostInit, CostInv
<1>2. CostInv /\ [CostNext]_<<vars, costVars>> => CostInv'
  BY CostNextKeeps
<1> QED BY <1>1, <1>2, PTL DEF CostSpec

(* A lookup sends six requests at most, whatever the Vault answers and       *)
(* however often tokens expire or are revoked on the way (478-505).          *)
THEOREM AtMostSixRequests == CostSpec => []SixRequests
<1>1. ASSUME CostInv PROVE SixRequests
  BY <1>1, RequestsLeftType DEF CostInv, Requests, SixRequests
<1> QED BY <1>1, CostInvariant, PTL

(* A process waits for at most one failure of the Vault in its life, under   *)
(* all faults and with any number of contexts that overwrite the marker in   *)
(* the file (_request, 143-146).                                             *)
THEOREM ProcessFailsOnce == CostSpec => []OneFailurePerProcess
<1>1. CostInv => OneFailurePerProcess
  BY DEF CostInv, Failures, OneFailurePerProcess
<1> QED BY <1>1, CostInvariant, PTL
=============================================================================
