-------------------------- MODULE VaultValuesProofs --------------------------
(***************************************************************************)
(* What a lookup may answer, for every set of contexts and paths, every    *)
(* setting and every fault: how old a value can be (ValueInv), the         *)
(* refinement of SecretReads, that outages are not made up (OutageInv),    *)
(* where KV versions come from (VersionInv), and that denials are not the  *)
(* cache's fault (TokenInv).                                               *)
(*                                                                         *)
(* None is inductive.  An entry stays truthful when the secret rotates     *)
(* because its stamp is not in the future; a value just read is truthful   *)
(* for its stamp because the answer was computed after the lookup looked   *)
(* at the clock.  The invariant ValueInv adds these facts, and the others  *)
(* are built on it.                                                        *)
(***************************************************************************)
EXTENDS VaultSaltSdbProofs

HonestCache(cache) ==
    \A s \in Paths : cache.secrets[s] # None =>
        /\ CurrentSince(s, cache.secrets[s].data, cache.secrets[s].at)
        /\ cache.secrets[s].at <= now

HonestCaches ==
    /\ file # None => HonestCache(file)
    /\ \A c \in Contexts : mem[c] # None => HonestCache(mem[c])

(* A value is on its way from the Vault to context c.                        *)
ValueUnderWay(c) ==
    /\ Answered(c)
    /\ lookup[c].resp.status = "ok"
    /\ lookup[c].req = "call"
    /\ lookup[c].goal # "detect"

HonestCall(c) ==
    lookup[c] # None =>
        /\ lookup[c].start <= now
        /\ ValueUnderWay(c) => CurrentSince(lookup[c].path,
                                            lookup[c].resp.data,
                                            lookup[c].start)

HonestCalls == \A c \in Contexts : HonestCall(c)

Served == {"vault", "fresh", "stale"}

HonestOutcome(c) ==
    outcome[c] # None =>
        /\ outcome[c].start <= now
        /\ outcome[c].kind \in Served =>
             /\ outcome[c].data \in Versions
             /\ AgeLimit(outcome[c].kind) \in Nat
             /\ CurrentSince(outcome[c].path, outcome[c].data,
                             outcome[c].start - AgeLimit(outcome[c].kind))

HonestOutcomes == \A c \in Contexts : HonestOutcome(c)

ValueInv == TypeInv /\ HonestCaches /\ HonestCalls /\ HonestOutcomes

LEMMA ValueInit == Init => ValueInv
<1> SUFFICES ASSUME Init PROVE ValueInv
  OBVIOUS
<1>1. TypeInv
  BY TypeInit
<1>2. HonestCaches /\ HonestCalls /\ HonestOutcomes
  BY DEF Init, HonestCaches, HonestCalls, HonestCall, HonestOutcomes,
         HonestOutcome
<1> QED BY <1>1, <1>2 DEF ValueInv

-----------------------------------------------------------------------------
(* The world moves on *)

(* What was current at t or later still was, after the world took a step.    *)
LEMMA StillCurrent ==
    ASSUME WorldTypes, World,
           NEW s \in Paths, NEW v \in Versions, NEW t \in Int, t <= now,
           CurrentSince(s, v, t)
    PROVE  CurrentSince(s, v, t)' /\ now <= now'
<1>1. CASE SameWorld
  BY <1>1 DEF SameWorld, CurrentSince, WorldTypes
<1>2. CASE Tick
  BY <1>2 DEF Tick, vaultVars, CurrentSince, WorldTypes
<1>3. ASSUME NEW r \in Paths, Rotate(r) PROVE CurrentSince(s, v, t)'
  <2>1. CASE r # s
    BY <1>3, <2>1 DEF Rotate, CurrentSince, WorldTypes
  <2>2. CASE r = s
    <3>1. secret'[s] = secret[s] + 1
          /\ retired'[s] = [retired[s] EXCEPT ![secret[s]] = now]
      BY <1>3, <2>2 DEF Rotate, WorldTypes
    <3>2. CASE v = secret[s]
      BY <3>1, <3>2, ConstantsAssumption
         DEF CurrentSince, WorldTypes, Versions
    <3>3. CASE v < secret[s] /\ retired[s][v] >= t
      <4>1. secret[s] \in Int /\ v \in Int
        BY ConstantsAssumption DEF WorldTypes, Versions
      <4>2. v # secret[s] /\ v < secret'[s]
        BY <3>1, <3>3, <4>1
      <4>3. retired'[s][v] = retired[s][v]
        BY <3>1, <4>2 DEF WorldTypes
      <4> QED BY <3>3, <4>2, <4>3 DEF CurrentSince
    <3> QED BY <3>2, <3>3 DEF CurrentSince
  <2> QED BY <2>1, <2>2
<1>4. now <= now'
  BY DEF World, Tick, Revoke, LoseFile, Rotate, vaultVars, WorldTypes
<1> QED BY <1>1, <1>2, <1>3, <1>4
        DEF World, Revoke, LoseFile, SameWorld, vaultVars

LEMMA ValueWorld ==
    ASSUME ValueInv, World
    PROVE  ValueInv'
<1>1. TypeInv' /\ WorldTypes /\ UNCHANGED contextVars
  BY TypeWorld DEF ValueInv, TypeInv, World, Tick, Revoke, LoseFile, Rotate
<1>2. \A cache \in Cache : HonestCache(cache) => HonestCache(cache)'
  <2> SUFFICES ASSUME NEW cache \in Cache, HonestCache(cache),
                      NEW s \in Paths, cache.secrets[s] # None
               PROVE  /\ CurrentSince(s, cache.secrets[s].data,
                                      cache.secrets[s].at)'
                      /\ cache.secrets[s].at <= now'
    BY DEF HonestCache
  <2>1. cache.secrets[s].data \in Versions /\ cache.secrets[s].at \in Nat
    BY DEF Cache, Entry
  <2>2. now \in Nat /\ now' \in Nat
    BY <1>1 DEF WorldTypes, TypeInv
  <2> QED BY <1>1, <2>1, <2>2, StillCurrent DEF HonestCache
<1>3. HonestCaches'
  <2>1. file' = file \/ file' = None
    BY DEF World, Tick, Revoke, LoseFile, Rotate
  <2> QED BY <1>1, <1>2, <2>1
          DEF ValueInv, HonestCaches, contextVars, TypeInv, WorldTypes,
              GlobalsTypes
<1>4. HonestCalls'
  <2> SUFFICES ASSUME NEW c \in Contexts PROVE HonestCall(c)'
    BY DEF HonestCalls
  <2>1. HonestCall(c) /\ (Answered(c) => Complete(lookup[c]))
    BY DEF ValueInv, HonestCalls, TypeInv, AnswerComplete
  <2>2. lookup[c] # None => lookup[c] \in Lookup
    BY DEF ValueInv, TypeInv, CallTypes
  <2>3. lookup'[c] = lookup[c] /\ ValueUnderWay(c)' = ValueUnderWay(c)
    BY <1>1 DEF contextVars, ValueUnderWay, Answered
  <2>4. now <= now' /\ now \in Nat /\ now' \in Nat
    BY <1>1 DEF World, Tick, Revoke, LoseFile, Rotate, vaultVars, WorldTypes,
                TypeInv
  <2>5. CASE lookup[c] = None
    BY <2>3, <2>5 DEF HonestCall
  <2>6. CASE lookup[c] # None
    <3>1. lookup[c].start \in Nat /\ lookup[c].path \in Paths
      BY <2>2, <2>6 DEF Lookup
    <3>2. ASSUME ValueUnderWay(c)
          PROVE  CurrentSince(lookup[c].path, lookup[c].resp.data,
                              lookup[c].start)'
      <4>1. lookup[c].resp.data \in Versions
        BY <2>1, <3>2 DEF ValueUnderWay, Complete
      <4> QED BY <1>1, <2>1, <2>3, <2>6, <3>1, <3>2, <4>1, StillCurrent
              DEF HonestCall, CurrentSince
    <3> QED BY <2>1, <2>3, <2>4, <2>6, <3>1, <3>2 DEF HonestCall
  <2> QED BY <2>5, <2>6
<1>5. HonestOutcomes'
  <2> SUFFICES ASSUME NEW c \in Contexts PROVE HonestOutcome(c)'
    BY DEF HonestOutcomes
  <2>1. HonestOutcome(c) /\ outcome'[c] = outcome[c]
    BY <1>1 DEF ValueInv, HonestOutcomes, contextVars
  <2>2. now <= now' /\ now \in Nat /\ now' \in Nat
    BY <1>1 DEF World, Tick, Revoke, LoseFile, Rotate, vaultVars, WorldTypes,
                TypeInv
  <2>3. CASE outcome[c] = None
    BY <2>1, <2>3 DEF HonestOutcome
  <2>4. CASE outcome[c] # None
    <3>1. outcome[c].start \in Nat /\ outcome[c].path \in Paths
      BY <2>4 DEF ValueInv, TypeInv, CallTypes, Outcome
    <3>2. ASSUME outcome[c].kind \in Served
          PROVE  CurrentSince(outcome[c].path, outcome[c].data,
                       outcome[c].start - AgeLimit(outcome[c].kind))'
      <4> DEFINE t == outcome[c].start - AgeLimit(outcome[c].kind)
      <4>1. /\ outcome[c].data \in Versions /\ t \in Int /\ t <= now
            /\ CurrentSince(outcome[c].path, outcome[c].data, t)
        BY <2>1, <2>2, <2>4, <3>1, <3>2 DEF HonestOutcome
      <4>2. AgeLimit(outcome[c].kind)' = AgeLimit(outcome[c].kind)
        BY <2>1 DEF AgeLimit
      <4>3. t' = t
        BY <2>1, <4>2
      <4> HIDE DEF t
      <4>4. PICK s \in Paths, v \in Versions, u \in Int :
                s = outcome[c].path /\ v = outcome[c].data /\ u = t
        BY <3>1, <4>1
      <4>5. CurrentSince(s, v, u) /\ u <= now
        BY <4>1, <4>4 DEF CurrentSince
      <4>6. CurrentSince(s, v, u)'
        BY <1>1, <4>5, StillCurrent
      <4> QED BY <2>1, <4>3, <4>4, <4>6 DEF t, CurrentSince
    <3>3. AgeLimit(outcome[c].kind)' = AgeLimit(outcome[c].kind)
      BY <2>1 DEF AgeLimit
    <3>4. (outcome[c].start <= now)'
      BY <2>1, <2>2, <2>4, <3>1 DEF HonestOutcome
    <3>5. (outcome[c].kind \in Served)' =>
              /\ (outcome[c].data \in Versions)'
              /\ (AgeLimit(outcome[c].kind) \in Nat)'
      BY <2>1, <2>4, <3>3 DEF HonestOutcome, Served
    <3>6. (outcome[c].kind \in Served)' => outcome[c].kind \in Served
      BY <2>1 DEF Served
    <3> QED BY <3>2, <3>4, <3>5, <3>6 DEF HonestOutcome
  <2> QED BY <2>3, <2>4
<1> QED BY <1>1, <1>3, <1>4, <1>5 DEF ValueInv

-----------------------------------------------------------------------------
(* Steps of a context: the caches *)

LEMMA CacheStaysHonest ==
    ASSUME SameWorld, NEW cache, HonestCache(cache)
    PROVE  HonestCache(cache)'
  BY DEF SameWorld, HonestCache, CurrentSince

(* A step that gives context c an honest cache.                              *)
LEMMA CachesFrame ==
    ASSUME TypeInv, HonestCaches, SameWorld, NEW c \in Contexts,
           NEW cache, HonestCache(cache),
           mem' = [mem EXCEPT ![c] = cache],
           UNCHANGED file
    PROVE  HonestCaches'
<1>1. \A d \in Contexts : mem'[d] = IF d = c THEN cache ELSE mem[d]
  BY DEF TypeInv, GlobalsTypes
<1>2. HonestCache(cache)'
  BY CacheStaysHonest
<1>3. ASSUME NEW d \in Contexts, mem'[d] # None PROVE HonestCache(mem[d])'
  BY <1>1, <1>2, <1>3 DEF HonestCaches, HonestCache, SameWorld, CurrentSince
<1>4. file' # None => HonestCache(file)'
  BY DEF HonestCaches, HonestCache, SameWorld, CurrentSince
<1> QED BY <1>3, <1>4 DEF HonestCaches

LEMMA SameSecretsHonest ==
    ASSUME NEW old, NEW cache, HonestCache(old), cache.secrets = old.secrets
    PROVE  HonestCache(cache)
  BY DEF HonestCache

LEMMA CachesUnchanged ==
    ASSUME HonestCaches, SameWorld, UNCHANGED <<file, mem>>
    PROVE  HonestCaches'
  BY DEF HonestCaches, HonestCache, SameWorld, CurrentSince

LEMMA HonestLoad ==
    ASSUME HonestCaches, NEW c \in Contexts
    PROVE  HonestCache(LoadedCache(c))
<1>1. HonestCache(EmptyCache)
  BY DEF HonestCache, EmptyCache
<1> QED BY <1>1 DEF HonestCaches, LoadedCache

(* _mark_down, clearing the marker, storing a token or a KV version: the     *)
(* secrets in the cache are the same.                                        *)
LEMMA CachesOther ==
    ASSUME ValueInv, SameWorld, NEW c \in Contexts,
           \/ NetworkFails(c) \/ Receive(c) \/ HandleLogin(c)
           \/ HandleDetect(c)
    PROVE  HonestCaches'
<1>1. mem[c] \in Cache /\ UNCHANGED file
  BY BusyFacts DEF ValueInv, NetworkFails, Receive, HandleLogin, HandleDetect
<1>2. HonestCache(mem[c])
  BY <1>1, NoneAssumption DEF ValueInv, HonestCaches
<1>3. CASE UNCHANGED mem
  BY <1>1, <1>3, CachesUnchanged DEF ValueInv
<1>4. ASSUME NEW v, mem' = [mem EXCEPT ![c].down = v] PROVE HonestCaches'
  <2>1. mem' = [mem EXCEPT ![c] = [mem[c] EXCEPT !.down = v]]
    BY <1>4 DEF ValueInv, TypeInv, GlobalsTypes
  <2>2. [mem[c] EXCEPT !.down = v].secrets = mem[c].secrets
    BY <1>1 DEF Cache
  <2> QED BY <1>1, <1>2, <2>1, <2>2, SameSecretsHonest, CachesFrame
          DEF ValueInv
<1>5. ASSUME NEW v, mem' = [mem EXCEPT ![c].kv = v] PROVE HonestCaches'
  <2>1. mem' = [mem EXCEPT ![c] = [mem[c] EXCEPT !.kv = v]]
    BY <1>5 DEF ValueInv, TypeInv, GlobalsTypes
  <2>2. [mem[c] EXCEPT !.kv = v].secrets = mem[c].secrets
    BY <1>1 DEF Cache
  <2> QED BY <1>1, <1>2, <2>1, <2>2, SameSecretsHonest, CachesFrame
          DEF ValueInv
<1>6. ASSUME NEW v, mem' = [mem EXCEPT ![c].tok = v] PROVE HonestCaches'
  <2>1. mem' = [mem EXCEPT ![c] = [mem[c] EXCEPT !.tok = v]]
    BY <1>6 DEF ValueInv, TypeInv, GlobalsTypes
  <2>2. [mem[c] EXCEPT !.tok = v].secrets = mem[c].secrets
    BY <1>1 DEF Cache
  <2> QED BY <1>1, <1>2, <2>1, <2>2, SameSecretsHonest, CachesFrame
          DEF ValueInv
<1> QED BY <1>3, <1>4, <1>5, <1>6
        DEF NetworkFails, MarkDown, Receive, HandleLogin, HandleDetect

LEMMA CachesHandleRead ==
    ASSUME ValueInv, SameWorld, NEW c \in Contexts, HandleRead(c)
    PROVE  HonestCaches'
<1>1. mem[c] \in Cache /\ lookup[c] \in Lookup /\ UNCHANGED file
  BY BusyFacts DEF ValueInv, HandleRead
<1>2. HonestCache(mem[c])
  BY <1>1, NoneAssumption DEF ValueInv, HonestCaches
<1>3. CASE UNCHANGED mem
  BY <1>1, <1>3, CachesUnchanged DEF ValueInv
<1>4. CASE MarkDown(c)
  <2>1. mem' = [mem EXCEPT ![c] = [mem[c] EXCEPT !.down = now]]
    BY <1>4 DEF MarkDown, ValueInv, TypeInv, GlobalsTypes
  <2>2. [mem[c] EXCEPT !.down = now].secrets = mem[c].secrets
    BY <1>1 DEF Cache
  <2> QED BY <1>1, <1>2, <2>1, <2>2, SameSecretsHonest, CachesFrame
          DEF ValueInv
<1>5. CASE /\ lookup[c].resp.status = "ok"
           /\ mem' = [mem EXCEPT ![c].secrets =
                   [mem[c].secrets EXCEPT ![lookup[c].path] = NewEntry(c)]]
  <2> DEFINE cache == [mem[c] EXCEPT !.secrets =
                   [mem[c].secrets EXCEPT ![lookup[c].path] = NewEntry(c)]]
  <2>1. mem' = [mem EXCEPT ![c] = cache]
    BY <1>5 DEF ValueInv, TypeInv, GlobalsTypes
  <2>2. ValueUnderWay(c) /\ HonestCall(c)
    BY <1>5 DEF HandleRead, ValueUnderWay, Answered, ValueInv, HonestCalls
  <2>3. /\ CurrentSince(lookup[c].path, NewEntry(c).data, NewEntry(c).at)
        /\ NewEntry(c).at <= now
    BY <1>1, <2>2, NoneAssumption DEF HonestCall, NewEntry
  <2>4. HonestCache(cache)
    <3> SUFFICES ASSUME NEW s \in Paths, cache.secrets[s] # None
                 PROVE  /\ CurrentSince(s, cache.secrets[s].data,
                                        cache.secrets[s].at)
                        /\ cache.secrets[s].at <= now
      BY DEF HonestCache
    <3>1. cache.secrets[s] =
              IF s = lookup[c].path THEN NewEntry(c) ELSE mem[c].secrets[s]
      BY <1>1 DEF Cache, Lookup
    <3> HIDE DEF cache
    <3>2. CASE s = lookup[c].path
      BY <2>3, <3>1, <3>2 DEF CurrentSince
    <3>3. CASE s # lookup[c].path
      BY <1>2, <3>1, <3>3 DEF HonestCache, CurrentSince
    <3> QED BY <3>2, <3>3
  <2> HIDE DEF cache
  <2> QED BY <1>1, <2>1, <2>4, CachesFrame DEF ValueInv
<1> QED BY <1>3, <1>4, <1>5 DEF HandleRead

LEMMA CachesStep ==
    ASSUME ValueInv, NEW c \in Contexts, Call(c) \/ Advance(c) \/ Restart(c)
    PROVE  HonestCaches'
<1>0. SameWorld /\ HonestCaches /\ TypeInv
  BY StepsKeepWorld DEF ValueInv
<1>1. CASE Call(c)
  BY <1>0, <1>1, CachesUnchanged DEF Call, LookupDedup, LookupBegin
<1>2. CASE Restart(c)
  <2>1. \A d \in Contexts : mem'[d] = mem[d] \/ mem'[d] = None
    BY <1>0, <1>2 DEF Restart, TypeInv, GlobalsTypes
  <2> QED BY <1>0, <1>2, <2>1
          DEF Restart, HonestCaches, HonestCache, SameWorld, CurrentSince
<1>3. CASE LoadFresh(c) \/ LoadThenRead(c)
  BY <1>0, <1>3, HonestLoad, CachesFrame DEF LoadFresh, LoadThenRead
<1>4. CASE Save(c)
  <2>1. mem[c] # None
    BY <1>0, <1>4 DEF Save, TypeInv, Links
  <2>2. UNCHANGED mem /\ (file' = mem[c] \/ file' = file)
    BY <1>4 DEF Save
  <2> QED BY <1>0, <2>1, <2>2
          DEF HonestCaches, HonestCache, SameWorld, CurrentSince
<1>5. CASE \/ UseToken(c) \/ NeedLogin(c) \/ NoCredentials(c) \/ Skip(c)
           \/ Send(c) \/ DetectUnreachable(c) \/ FallBack(c) \/ GiveUp(c)
           \/ \E status \in {"ok", "bare", "denied", "fail", "odd"} :
                  VaultAnswers(c, status)
  <2>1. UNCHANGED <<file, mem>>
    BY <1>5 DEF UseToken, NeedLogin, NoCredentials, Skip, Send, VaultAnswers,
                DetectUnreachable, FallBack, GiveUp
  <2> QED BY <1>0, <2>1, CachesUnchanged
<1> QED BY <1>0, <1>1, <1>2, <1>3, <1>4, <1>5, CachesOther, CachesHandleRead
        DEF Advance

-----------------------------------------------------------------------------
(* Steps of a context: its call *)

LEMMA OthersCallsHonest ==
    ASSUME HonestCalls, TypeInv, SameWorld, NEW c \in Contexts,
           \A d \in Contexts \ {c} :
               /\ pc'[d] = pc[d] /\ after'[d] = after[d]
               /\ lookup'[d] = lookup[d],
           HonestCall(c)'
    PROVE  HonestCalls'
  BY DEF HonestCalls, HonestCall, ValueUnderWay, Answered, SameWorld,
         CurrentSince

(* The call of c ended, or it is the same call and no value is under way.    *)
LEMMA NoValueYet ==
    ASSUME ValueInv, SameWorld, NEW c \in Contexts,
           \/ lookup'[c] = None
           \/ /\ lookup[c] # None
              /\ lookup'[c].start = lookup[c].start
              /\ ~Answered(c)'
    PROVE  HonestCall(c)'
  BY DEF ValueInv, HonestCalls, HonestCall, ValueUnderWay, SameWorld

(* The call of c is untouched and no answer came.                            *)
LEMMA SameCall ==
    ASSUME ValueInv, SameWorld, NEW c \in Contexts,
           lookup'[c] = lookup[c], Answered(c)' => Answered(c)
    PROVE  HonestCall(c)'
  BY DEF ValueInv, HonestCalls, HonestCall, ValueUnderWay, SameWorld,
         CurrentSince

LEMMA CallsStep ==
    ASSUME ValueInv, NEW c \in Contexts, Call(c) \/ Advance(c) \/ Restart(c)
    PROVE  HonestCalls'
<1>0. SameWorld /\ TypeInv /\ HonestCalls
  BY StepsKeepWorld DEF ValueInv
<1> SUFFICES HonestCall(c)'
  BY <1>0, OthersCallsHonest, OthersUntouched
<1>1. ASSUME NEW s \in Paths, LookupBegin(c, s) PROVE HonestCall(c)'
  <2>1. lookup'[c].start = now /\ pc'[c] = "load" /\ now \in Nat
    BY <1>0, <1>1 DEF LookupBegin, Goto, TypeInv, CallTypes, ControlTypes,
                      WorldTypes
  <2> QED BY <1>0, <2>1 DEF HonestCall, ValueUnderWay, Answered, SameWorld
<1>2. ASSUME NEW s \in Paths, LookupDedup(c, s) PROVE HonestCall(c)'
  BY <1>0, <1>2, SameCall DEF LookupDedup, Answered
<1>3. CASE Restart(c) \/ LoadFresh(c) \/ NoCredentials(c) \/ FallBack(c)
             \/ GiveUp(c)
  <2>1. lookup'[c] = None
    BY <1>0, <1>3 DEF Restart, LoadFresh, NoCredentials, FallBack, GiveUp,
                      Finish, TypeInv, CallTypes
  <2> QED BY <1>0, <2>1, NoValueYet
<1>4. CASE LoadThenRead(c) \/ UseToken(c) \/ NeedLogin(c)
             \/ DetectUnreachable(c)
  <2>1. lookup[c] \in Lookup
    BY <1>0, <1>4, BusyFacts DEF LoadThenRead, UseToken, NeedLogin,
                                 DetectUnreachable
  <2>2. lookup'[c].start = lookup[c].start /\ ~Answered(c)'
    BY <1>0, <1>4, <2>1
       DEF LoadThenRead, UseToken, NeedLogin, DetectUnreachable, Goto, Lookup,
           Answered, TypeInv, CallTypes, ControlTypes
  <2> QED BY <1>0, <2>1, <2>2, NoneAssumption, NoValueYet
<1>5. CASE Skip(c) \/ Send(c)
  BY <1>0, <1>5, SameCall
     DEF Skip, Send, Goto, Answered, TypeInv, ControlTypes
<1>6. ASSUME NEW status \in {"ok", "bare", "denied", "fail", "odd"},
             VaultAnswers(c, status)
      PROVE  HonestCall(c)'
  <2>1. lookup[c] \in Lookup /\ lookup[c].start <= now
    BY <1>0, <1>6, BusyFacts, NoneAssumption
       DEF VaultAnswers, HonestCalls, HonestCall
  <2>2. /\ lookup'[c].start = lookup[c].start
        /\ lookup'[c].path = lookup[c].path
        /\ ValueUnderWay(c)' => lookup'[c].resp.data = secret[lookup[c].path]
    <3> DEFINE served == /\ status = "ok" /\ lookup[c].req = "call"
                         /\ lookup[c].goal # "detect"
               resp ==
                 [status |-> status,
                  data   |-> IF served THEN secret[lookup[c].path] ELSE None,
                  grant  |-> IF status = "ok" /\ lookup[c].req = "login"
                             THEN [epoch |-> epoch, mint |-> now] ELSE None]
    <3>1. lookup' = [lookup EXCEPT ![c].resp = resp]
      BY <1>6 DEF VaultAnswers
    <3>2. /\ lookup'[c].resp = resp /\ lookup'[c].start = lookup[c].start
          /\ lookup'[c].path = lookup[c].path
          /\ lookup'[c].req = lookup[c].req
          /\ lookup'[c].goal = lookup[c].goal
      BY <1>0, <2>1, <3>1 DEF TypeInv, CallTypes, Lookup
    <3> QED BY <3>1, <3>2 DEF ValueUnderWay
  <2> QED BY <1>0, <2>1, <2>2 DEF HonestCall, SameWorld, CurrentSince
<1>7. CASE NetworkFails(c) \/ HandleLogin(c) \/ HandleDetect(c)
             \/ HandleRead(c)
  <2>1. lookup[c] \in Lookup
    BY <1>0, <1>7, BusyFacts DEF NetworkFails, HandleLogin, HandleDetect,
                                 HandleRead
  <2>2. CASE MarkDown(c)
    <3>1. lookup'[c].start = lookup[c].start /\ ~Answered(c)'
      BY <1>0, <2>1, <2>2 DEF MarkDown, SaveThen, Lookup, Answered, TypeInv,
                              CallTypes, ControlTypes
    <3> QED BY <1>0, <2>1, <3>1, NoneAssumption, NoValueYet
  <2>3. CASE HandleLogin(c) /\ ~MarkDown(c)
    <3>1. \/ lookup'[c] = None
          \/ lookup'[c].start = lookup[c].start /\ ~Answered(c)'
      BY <1>0, <2>1, <2>3
         DEF HandleLogin, Finish, SaveThen, Goto, Lookup, Answered, TypeInv,
             CallTypes, ControlTypes
    <3> QED BY <1>0, <2>1, <3>1, NoneAssumption, NoValueYet
  <2>4. CASE HandleDetect(c)
    <3>1. lookup'[c].start = lookup[c].start /\ ~Answered(c)'
      BY <1>0, <2>1, <2>4
         DEF HandleDetect, SaveThen, Goto, Lookup, Answered, TypeInv,
             CallTypes, ControlTypes
    <3> QED BY <1>0, <2>1, <3>1, NoneAssumption, NoValueYet
  <2>5. CASE HandleRead(c) /\ ~MarkDown(c)
    <3>1. \/ lookup'[c] = None
          \/ lookup'[c].start = lookup[c].start /\ ~Answered(c)'
      BY <1>0, <2>1, <2>5
         DEF HandleRead, Finish, SaveThen, Goto, Lookup, Answered, TypeInv,
             CallTypes, ControlTypes
    <3> QED BY <1>0, <2>1, <3>1, NoneAssumption, NoValueYet
  <2> QED BY <1>7, <2>2, <2>3, <2>4, <2>5 DEF NetworkFails
<1>8. CASE Receive(c)
  BY <1>0, <1>8, SameCall DEF Receive, Answered
<1>9. CASE Save(c)
  BY <1>0, <1>9, SameCall DEF Save, Answered, TypeInv, ControlTypes
<1> QED BY <1>1, <1>2, <1>3, <1>4, <1>5, <1>6, <1>7, <1>8, <1>9
        DEF Call, Advance

-----------------------------------------------------------------------------
(* Steps of a context: the outcome *)

LEMMA OthersOutcomesHonest ==
    ASSUME HonestOutcomes, SameWorld, NEW c \in Contexts,
           \A d \in Contexts \ {c} : outcome'[d] = outcome[d],
           HonestOutcome(c)'
    PROVE  HonestOutcomes'
<1>1. ASSUME NEW d \in Contexts, outcome'[d] = outcome[d]
      PROVE  HonestOutcome(d)'
  <2>1. AgeLimit(outcome[d].kind)' = AgeLimit(outcome[d].kind)
    BY <1>1 DEF AgeLimit
  <2> QED BY <1>1, <2>1
          DEF HonestOutcomes, HonestOutcome, SameWorld, CurrentSince, Served
<1> QED BY <1>1 DEF HonestOutcomes

LEMMA SameOutcome ==
    ASSUME HonestOutcomes, SameWorld, NEW c \in Contexts,
           outcome'[c] = outcome[c]
    PROVE  HonestOutcome(c)'
<1>1. AgeLimit(outcome[c].kind)' = AgeLimit(outcome[c].kind)
  BY DEF AgeLimit
<1> QED BY <1>1
        DEF HonestOutcomes, HonestOutcome, SameWorld, CurrentSince, Served

(* A call that ends with a value at most limit seconds old.                  *)
LEMMA ServedOutcome ==
    ASSUME TypeInv, SameWorld, NEW c \in Contexts, lookup[c] \in Lookup,
           lookup[c].start <= now,
           NEW kind \in Served, NEW data \in Versions,
           AgeLimit(kind) \in Nat,
           CurrentSince(lookup[c].path, data, lookup[c].start - AgeLimit(kind)),
           Finish(c, kind, data)
    PROVE  HonestOutcome(c)'
<1>1. outcome'[c] = [kind |-> kind, path |-> lookup[c].path,
                     start |-> lookup[c].start, data |-> data]
  BY DEF Finish, TypeInv, CallTypes
<1>2. AgeLimit(outcome[c].kind)' = AgeLimit(kind)
  <2>1. outcome'[c].kind = kind
    BY <1>1
  <2> QED BY <2>1 DEF AgeLimit, Served
<1>3. CurrentSince(outcome[c].path, outcome[c].data,
                   outcome[c].start - AgeLimit(outcome[c].kind))'
  BY <1>1, <1>2 DEF SameWorld, CurrentSince
<1>4. (outcome[c].start <= now)' /\ outcome'[c].data \in Versions
  BY <1>1 DEF SameWorld
<1> QED BY <1>2, <1>3, <1>4 DEF HonestOutcome

(* A call that ends without a value.                                         *)
LEMMA FailedOutcome ==
    ASSUME TypeInv, SameWorld, NEW c \in Contexts, lookup[c] \in Lookup,
           lookup[c].start <= now,
           NEW kind \in {"denied", "error", "down"},
           Finish(c, kind, None)
    PROVE  HonestOutcome(c)'
<1>1. outcome'[c].kind = kind /\ outcome'[c].start = lookup[c].start
  BY DEF Finish, TypeInv, CallTypes
<1> QED BY <1>1 DEF HonestOutcome, SameWorld, Served

(* An entry younger than limit at the start of the lookup is good enough.    *)
LEMMA YoungEntry ==
    ASSUME ConstantsAssumption, WorldTypes,
           NEW cache \in Cache, HonestCache(cache),
           NEW s \in Paths, NEW start \in Nat, NEW limit \in Nat,
           cache.secrets[s] # None,
           YoungerThan(cache.secrets[s], limit, start)
    PROVE  /\ cache.secrets[s].data \in Versions
           /\ CurrentSince(s, cache.secrets[s].data, start - (limit - 1))
<1> DEFINE entry == cache.secrets[s]
<1>1. entry \in Entry
  BY DEF Cache
<1>2. entry.data \in Versions /\ entry.at \in Nat
  BY <1>1 DEF Entry
<1>3. start - (limit - 1) <= entry.at
  BY <1>2 DEF YoungerThan
<1>4. CurrentSince(s, entry.data, entry.at)
  BY DEF HonestCache
<1>5. retired[s][entry.data] \in Nat
  BY <1>2 DEF WorldTypes
<1> HIDE DEF entry
<1>6. CurrentSince(s, entry.data, start - (limit - 1))
  BY <1>2, <1>3, <1>4, <1>5 DEF CurrentSince
<1> QED BY <1>2, <1>6 DEF entry

LEMMA OutcomesStep ==
    ASSUME ValueInv, NEW c \in Contexts, Call(c) \/ Advance(c) \/ Restart(c)
    PROVE  HonestOutcomes'
<1>0. SameWorld /\ TypeInv /\ HonestOutcomes /\ HonestCall(c) /\ WorldTypes
  BY StepsKeepWorld DEF ValueInv, HonestCalls, TypeInv
<1> SUFFICES HonestOutcome(c)'
  BY <1>0, OthersOutcomesHonest, OthersUntouched
<1>1. ASSUME lookup[c] \in Lookup
      PROVE  /\ lookup[c].start <= now /\ lookup[c].start \in Nat
             /\ lookup[c].path \in Paths
  BY <1>0, <1>1, NoneAssumption DEF HonestCall, Lookup
<1>2. ASSUME NEW s \in Paths, LookupDedup(c, s) PROVE HonestOutcome(c)'
  <2>1. outcome'[c].kind = "dedup" /\ outcome'[c].start = now
    BY <1>0, <1>2 DEF LookupDedup, TypeInv, CallTypes
  <2> QED BY <1>0, <2>1 DEF HonestOutcome, SameWorld, Served, WorldTypes
<1>3. ASSUME outcome'[c] = None PROVE HonestOutcome(c)'
  BY <1>3 DEF HonestOutcome
<1>4. (\E s \in Paths : LookupBegin(c, s)) \/ Restart(c) => outcome'[c] = None
  BY <1>0 DEF LookupBegin, Restart, TypeInv, CallTypes
<1>5. CASE LoadFresh(c)
  <2> DEFINE cache == LoadedCache(c)
             data  == cache.secrets[lookup[c].path].data
  <2>1. /\ cache \in Cache /\ HonestCache(cache) /\ lookup[c] \in Lookup
        /\ FreshFor \in Nat /\ FreshFor > 0
        /\ cache.secrets[lookup[c].path] # None
        /\ YoungerThan(cache.secrets[lookup[c].path], FreshFor,
                       lookup[c].start)
        /\ Finish(c, "fresh", data)
    BY <1>0, <1>5, LoadedCacheType, HonestLoad, BusyFacts, ConstantsAssumption
       DEF LoadFresh, FreshEntry, ValueInv
  <2>2. AgeLimit("fresh") = FreshFor - 1 /\ AgeLimit("fresh") \in Nat
    BY <2>1 DEF AgeLimit
  <2> HIDE DEF cache
  <2>3. /\ data \in Versions
        /\ CurrentSince(lookup[c].path, data,
                        lookup[c].start - (FreshFor - 1))
    BY <1>0, <1>1, <2>1, YoungEntry, ConstantsAssumption
  <2> HIDE DEF data
  <2> QED BY <1>0, <1>1, <2>1, <2>2, <2>3, ServedOutcome DEF Served
<1>6. CASE FallBack(c)
  <2> DEFINE cache == mem[c]
             data  == cache.secrets[lookup[c].path].data
  <2>1. /\ cache \in Cache /\ lookup[c] \in Lookup
        /\ OfflineMaxAge \in Nat /\ OfflineMaxAge > 0
        /\ cache.secrets[lookup[c].path] # None
        /\ YoungerThan(cache.secrets[lookup[c].path], OfflineMaxAge,
                       lookup[c].start)
        /\ Finish(c, "stale", data)
    BY <1>0, <1>6, BusyFacts, ConstantsAssumption DEF FallBack, StaleEntry
  <2>2. HonestCache(cache)
    BY <2>1, NoneAssumption DEF ValueInv, HonestCaches
  <2>3. AgeLimit("stale") = OfflineMaxAge - 1 /\ AgeLimit("stale") \in Nat
    BY <2>1 DEF AgeLimit
  <2> HIDE DEF cache
  <2>4. /\ data \in Versions
        /\ CurrentSince(lookup[c].path, data,
                        lookup[c].start - (OfflineMaxAge - 1))
    BY <1>0, <1>1, <2>1, <2>2, YoungEntry, ConstantsAssumption
  <2> HIDE DEF data
  <2> QED BY <1>0, <1>1, <2>1, <2>3, <2>4, ServedOutcome DEF Served
<1>7. CASE NoCredentials(c) \/ GiveUp(c)
  BY <1>0, <1>1, <1>7, BusyFacts, FailedOutcome DEF NoCredentials, GiveUp
<1>8. CASE HandleLogin(c) /\ outcome' # outcome
  BY <1>0, <1>1, <1>8, BusyFacts, FailedOutcome DEF HandleLogin, MarkDown
<1>9. CASE HandleRead(c) /\ outcome' # outcome
  <2>1. lookup[c] \in Lookup
    BY <1>0, <1>9, BusyFacts DEF HandleRead
  <2>2. CASE lookup[c].resp.status = "ok"
    <3>1. ValueUnderWay(c) /\ Complete(lookup[c])
          /\ Finish(c, "vault", lookup[c].resp.data)
      BY <1>0, <1>9, <2>2
         DEF HandleRead, ValueUnderWay, Answered, TypeInv, AnswerComplete
    <3>2. lookup[c].resp.data \in Versions
      BY <3>1 DEF ValueUnderWay, Complete
    <3>3. CurrentSince(lookup[c].path, lookup[c].resp.data, lookup[c].start)
      BY <1>0, <2>1, <3>1, NoneAssumption DEF HonestCall
    <3>4. AgeLimit("vault") = 0 /\ lookup[c].start - 0 = lookup[c].start
      BY <1>1, <2>1 DEF AgeLimit
    <3> QED BY <1>0, <1>1, <2>1, <3>1, <3>2, <3>3, <3>4, ServedOutcome
            DEF Served
  <2>3. CASE lookup[c].resp.status # "ok"
    BY <1>0, <1>1, <1>9, <2>1, <2>3, FailedOutcome DEF HandleRead, MarkDown
  <2> QED BY <2>2, <2>3
<1>10. ASSUME outcome' = outcome PROVE HonestOutcome(c)'
  BY <1>0, <1>10, SameOutcome
<1>11. CASE \/ LoadThenRead(c) \/ UseToken(c) \/ NeedLogin(c) \/ Skip(c)
            \/ Send(c) \/ NetworkFails(c) \/ Receive(c) \/ HandleDetect(c)
            \/ DetectUnreachable(c) \/ Save(c)
            \/ \E status \in {"ok", "bare", "denied", "fail", "odd"} :
                   VaultAnswers(c, status)
  BY <1>10, <1>11
     DEF LoadThenRead, UseToken, NeedLogin, Skip, Send, NetworkFails,
         MarkDown, Receive, HandleDetect, DetectUnreachable, Save,
         VaultAnswers
<1> QED BY <1>2, <1>3, <1>4, <1>5, <1>6, <1>7, <1>8, <1>9, <1>10, <1>11
        DEF Call, Advance

-----------------------------------------------------------------------------
(* The theorems *)

LEMMA ValueNext ==
    ASSUME ValueInv, [Next]_vars
    PROVE  ValueInv'
<1>1. CASE World
  BY <1>1, ValueWorld
<1>2. ASSUME NEW c \in Contexts, Call(c) \/ Advance(c) \/ Restart(c)
      PROVE  ValueInv'
  BY <1>2, TypeNext, CachesStep, CallsStep, OutcomesStep DEF ValueInv, Next
<1>3. CASE UNCHANGED vars
  <2>1. TypeInv' /\ SameWorld
    BY <1>3, TypeStutter DEF ValueInv, SameWorld, vars
  <2>2. HonestCaches'
    BY <1>3, <2>1, CachesUnchanged DEF ValueInv, vars
  <2>3. \A c \in Contexts : HonestCall(c)'
    BY <1>3, <2>1, SameCall DEF ValueInv, vars, Answered
  <2>4. \A c \in Contexts : HonestOutcome(c)'
    BY <1>3, <2>1, SameOutcome DEF ValueInv, vars
  <2> QED BY <2>1, <2>2, <2>3, <2>4 DEF ValueInv, HonestCalls, HonestOutcomes
<1> QED BY <1>1, <1>2, <1>3 DEF Next

THEOREM ValueInvariant == Spec => []ValueInv
  BY ValueInit, ValueNext, PTL DEF Spec

(* No cache entry claims to be younger than it is, in the file or in any     *)
(* context.                                                                  *)
THEOREM CachesTruthful == Spec => []CacheTruthful
<1>1. ValueInv => CacheTruthful
  BY DEF ValueInv, HonestCaches, HonestCache, CacheTruthful, TruthfulCache
<1> QED BY <1>1, ValueInvariant, PTL

(* No value is served that was superseded longer ago than the setting for    *)
(* its kind allows.                                                          *)
THEOREM ServedInTime == Spec => []ServedWithinBound
<1>1. ValueInv => ServedWithinBound
  BY DEF ValueInv, HonestOutcomes, HonestOutcome, ServedWithinBound, Served
<1> QED BY <1>1, ValueInvariant, PTL

-----------------------------------------------------------------------------
(* The lookups implement SecretReads *)

Calls == [c \in Contexts |-> CallOf(c)]
Results == [c \in Contexts |-> ResultOf(c)]

LEMMA ReadsInit == Init => Reads!Init
<1> SUFFICES ASSUME Init PROVE Reads!Init
  OBVIOUS
<1>1. Calls = [c \in Contexts |-> None] /\ Results = [c \in Contexts |-> None]
  BY DEF Init, Calls, Results, CallOf, ResultOf
<1> QED BY <1>1
        DEF Init, Reads!Init, Reads!NoValues, Versions, Calls, Results

(* A step of context c changes what SecretReads sees of c alone.             *)
LEMMA OneContext ==
    ASSUME NEW c \in Contexts,
           \A d \in Contexts \ {c} :
               lookup'[d] = lookup[d] /\ outcome'[d] = outcome[d]
    PROVE  /\ Calls' = [Calls EXCEPT ![c] = CallOf(c)']
           /\ Results' = [Results EXCEPT ![c] = ResultOf(c)']
  BY DEF Calls, Results, CallOf, ResultOf

(* A step inside a call, at most of context c, is no step of SecretReads.    *)
LEMMA InsideCall ==
    ASSUME NEW c \in Contexts,
           \A d \in Contexts \ {c} :
               lookup'[d] = lookup[d] /\ outcome'[d] = outcome[d],
           \/ lookup'[c] = lookup[c]
           \/ /\ lookup[c] # None /\ lookup'[c] # None
              /\ lookup'[c].path = lookup[c].path
              /\ lookup'[c].start = lookup[c].start,
           SameWorld, UNCHANGED <<render, outcome>>
    PROVE  UNCHANGED Reads!vars
<1>1. CallOf(c)' = CallOf(c) /\ ResultOf(c)' = ResultOf(c)
  BY DEF CallOf, ResultOf
<1>2. Calls' = Calls /\ Results' = Results
  BY <1>1, OneContext DEF Calls, Results
<1> QED BY <1>2 DEF Reads!vars, SameWorld, Calls, Results

(* How a call of get() ends, as SecretReads sees it.                         *)
LEMMA EndOfCall ==
    ASSUME TypeInv, NEW c \in Contexts, lookup[c] \in Lookup,
           NEW kind \in {"fresh", "vault", "stale", "denied", "error", "down"},
           NEW data \in Versions \cup {None},
           Finish(c, kind, data)
    PROVE  /\ Calls[c] = [path |-> lookup[c].path, start |-> lookup[c].start]
           /\ Calls[c] # None
           /\ Calls' = [Calls EXCEPT ![c] = None]
           /\ Results' = [Results EXCEPT ![c] =
                  [path |-> lookup[c].path, data |-> data]]
<1> DEFINE ended == [kind |-> kind, path |-> lookup[c].path,
                     start |-> lookup[c].start, data |-> data]
<1>1. ended \in Outcome
  BY DEF Outcome, Lookup
<1>2. lookup'[c] = None /\ outcome'[c] = ended /\ ended # None
  BY <1>1, NoneAssumption DEF Finish, TypeInv, CallTypes
<1>3. \A d \in Contexts \ {c} :
          lookup'[d] = lookup[d] /\ outcome'[d] = outcome[d]
  BY DEF Finish, TypeInv, CallTypes
<1>4. /\ Calls' = [Calls EXCEPT ![c] = CallOf(c)']
      /\ Results' = [Results EXCEPT ![c] = ResultOf(c)']
  BY <1>3, OneContext
<1>5. CallOf(c)' = None
      /\ ResultOf(c)' = [path |-> lookup[c].path, data |-> data]
  BY <1>2 DEF CallOf, ResultOf
<1>6. Calls[c] = [path |-> lookup[c].path, start |-> lookup[c].start]
  BY NoneAssumption DEF Calls, CallOf
<1>7. Calls[c] # None
  BY <1>6, NoneAssumption DEF Lookup
<1> QED BY <1>4, <1>5, <1>6, <1>7

(* A value is served: it was current at t, which is recent enough.           *)
LEMMA ServeIsReturn ==
    ASSUME TypeInv, SameWorld, NEW c \in Contexts, lookup[c] \in Lookup,
           NEW kind \in Served, NEW data \in Versions,
           Finish(c, kind, data), Remember(c, data),
           NEW t \in Int, CurrentSince(lookup[c].path, data, t),
           t >= lookup[c].start \/ t + OldestServed > lookup[c].start,
           OldestServed \in Nat
    PROVE  \E v \in 0..MaxVersion : Reads!Return(c, v)
<1>1. lookup[c].path \in Paths /\ lookup[c].start \in Nat
  BY DEF Lookup
<1>2. /\ Calls[c] = [path |-> lookup[c].path, start |-> lookup[c].start]
      /\ Calls[c] # None
      /\ Calls' = [Calls EXCEPT ![c] = None]
      /\ Results' = [Results EXCEPT ![c] =
             [path |-> lookup[c].path, data |-> data]]
  BY EndOfCall DEF Served
<1>3. retired[lookup[c].path][data] \in Int
  BY <1>1 DEF TypeInv, WorldTypes
<1>4. Reads!Recent(lookup[c].path, data, lookup[c].start)
  BY <1>1, <1>3 DEF CurrentSince, Reads!Recent
<1>5. Reads!Recent(Calls[c].path, data, Calls[c].start)
  BY <1>2, <1>4 DEF Reads!Recent
<1>6. /\ render' = [render EXCEPT ![c][Calls[c].path] = data]
      /\ Results' = [Results EXCEPT ![c] =
             [path |-> Calls[c].path, data |-> data]]
  BY <1>2 DEF Remember
<1>7. Reads!Return(c, data)
  BY <1>2, <1>5, <1>6 DEF Reads!Return, Calls, Results, SameWorld
<1> QED BY <1>7 DEF Versions

LEMMA LimitsAreServed ==
    /\ OldestServed \in Nat
    /\ CacheOn => FreshFor <= OldestServed /\ OfflineMaxAge <= OldestServed
  BY ConstantsAssumption DEF OldestServed

(* An entry of a true cache, young enough.                                   *)
LEMMA EntryIsReturn ==
    ASSUME TypeInv, SameWorld, NEW c \in Contexts, lookup[c] \in Lookup,
           NEW cache \in Cache, HonestCache(cache),
           NEW limit \in Nat, CacheOn, limit <= OldestServed,
           cache.secrets[lookup[c].path] # None,
           YoungerThan(cache.secrets[lookup[c].path], limit, lookup[c].start),
           NEW kind \in Served,
           Finish(c, kind, cache.secrets[lookup[c].path].data),
           Remember(c, cache.secrets[lookup[c].path].data)
    PROVE  \E v \in 0..MaxVersion : Reads!Return(c, v)
<1>1. lookup[c].path \in Paths /\ lookup[c].start \in Nat
  BY DEF Lookup
<1>2. PICK entry \in Entry : entry = cache.secrets[lookup[c].path]
  BY <1>1 DEF Cache
<1>3. entry.data \in Versions /\ entry.at \in Nat
  BY DEF Entry
<1>4. PICK data \in Versions, t \in Int : data = entry.data /\ t = entry.at
  BY <1>3
<1>5. CurrentSince(lookup[c].path, data, t)
  BY <1>1, <1>2, <1>4 DEF HonestCache
<1>6. t + OldestServed > lookup[c].start
  BY <1>1, <1>2, <1>3, <1>4, LimitsAreServed DEF YoungerThan
<1>7. Finish(c, kind, data) /\ Remember(c, data)
  BY <1>2, <1>4
<1> QED BY <1>5, <1>6, <1>7, LimitsAreServed, ServeIsReturn

(* A call that ends without a value.                                         *)
LEMMA NoValueIsFail ==
    ASSUME TypeInv, SameWorld, NEW c \in Contexts, lookup[c] \in Lookup,
           NEW kind \in {"denied", "error", "down"}, Finish(c, kind, None),
           UNCHANGED render
    PROVE  Reads!Fail(c)
<1>1. /\ Calls[c] = [path |-> lookup[c].path, start |-> lookup[c].start]
      /\ Calls[c] # None
      /\ Calls' = [Calls EXCEPT ![c] = None]
      /\ Results' = [Results EXCEPT ![c] =
             [path |-> lookup[c].path, data |-> None]]
  BY EndOfCall
<1>2. Results' = [Results EXCEPT ![c] = [path |-> Calls[c].path,
                                         data |-> None]]
  BY <1>1
<1> QED BY <1>1, <1>2 DEF Reads!Fail, Calls, Results, SameWorld

LEMMA ReadsWorld ==
    ASSUME TypeInv, World
    PROVE  [Reads!Next]_Reads!vars
<1>1. UNCHANGED contextVars
  BY DEF World, Tick, Revoke, LoseFile, Rotate
<1>2. Calls' = Calls /\ Results' = Results /\ render' = render
  BY <1>1 DEF Calls, Results, CallOf, ResultOf, contextVars
<1>3. CASE Tick
  BY <1>2, <1>3 DEF Tick, vaultVars, Reads!Tick, Reads!Next, Calls, Results
<1>4. ASSUME NEW s \in Paths, Rotate(s) PROVE Reads!Rotate(s)
  BY <1>2, <1>4 DEF Rotate, Reads!Rotate, Calls, Results
<1>5. CASE Revoke \/ LoseFile
  BY <1>2, <1>5 DEF Revoke, LoseFile, vaultVars, Reads!vars, Calls, Results
<1> QED BY <1>3, <1>4, <1>5 DEF World, Reads!Next

LEMMA ReadsCall ==
    ASSUME TypeInv, NEW c \in Contexts, NEW s \in Paths,
           LookupDedup(c, s) \/ LookupBegin(c, s)
    PROVE  Reads!Begin(c, s) \/ Reads!Again(c, s)
<1>1. Calls[c] = None
  BY DEF LookupDedup, LookupBegin, TypeInv, Links, Busy, Calls, CallOf
<1>2. \A d \in Contexts \ {c} :
          lookup'[d] = lookup[d] /\ outcome'[d] = outcome[d]
  BY DEF LookupDedup, LookupBegin, TypeInv, CallTypes
<1>3. /\ Calls' = [Calls EXCEPT ![c] = CallOf(c)']
      /\ Results' = [Results EXCEPT ![c] = ResultOf(c)']
  BY <1>2, OneContext
<1>4. now \in Nat
  BY DEF TypeInv, WorldTypes
<1>5. CASE LookupDedup(c, s)
  <2> DEFINE ended == [kind |-> "dedup", path |-> s, start |-> now,
                       data |-> render[c][s]]
  <2>1. ended \in Outcome
    BY <1>4 DEF TypeInv, GlobalsTypes, Outcome
  <2>2. outcome'[c] = ended /\ ended # None
    BY <1>5, <2>1, NoneAssumption DEF LookupDedup, TypeInv, CallTypes
  <2>3. ResultOf(c)' = [path |-> s, data |-> render[c][s]]
    BY <2>2 DEF ResultOf
  <2>4. Calls' = Calls
    BY <1>5 DEF LookupDedup, Calls, CallOf
  <2>5. Reads!Again(c, s)
    BY <1>1, <1>3, <1>5, <2>3, <2>4
       DEF LookupDedup, vaultVars, Reads!Again, Calls, Results
  <2> QED BY <2>5
<1>6. CASE LookupBegin(c, s)
  <2> DEFINE begun == [path |-> s, start |-> now, goal |-> "read",
                       req |-> "call", ver |-> 0, tok |-> None,
                       resp |-> None]
  <2>1. begun \in Lookup
    BY <1>4 DEF Lookup
  <2>2. lookup'[c] = begun /\ begun # None /\ outcome'[c] = None
    BY <1>6, <2>1, NoneAssumption DEF LookupBegin, TypeInv, CallTypes
  <2>3. CallOf(c)' = [path |-> s, start |-> now] /\ ResultOf(c)' = None
    BY <2>2 DEF CallOf, ResultOf
  <2>4. Reads!Begin(c, s)
    BY <1>1, <1>3, <1>6, <2>3
       DEF LookupBegin, vaultVars, Reads!Begin, Calls, Results
  <2> QED BY <2>4
<1> QED BY <1>5, <1>6

LEMMA ReadsRestart ==
    ASSUME TypeInv, SameWorld, NEW c \in Contexts, Restart(c)
    PROVE  Reads!End(c)
<1>1. \A d \in Contexts \ {c} :
          lookup'[d] = lookup[d] /\ outcome'[d] = outcome[d]
  BY DEF Restart, TypeInv, CallTypes
<1>2. lookup'[c] = None /\ outcome'[c] = None
  BY DEF Restart, TypeInv, CallTypes
<1>3. /\ Calls' = [Calls EXCEPT ![c] = None]
      /\ Results' = [Results EXCEPT ![c] = None]
  BY <1>1, <1>2, OneContext DEF CallOf, ResultOf
<1> QED BY <1>3
        DEF Restart, SameWorld, Reads!End, Reads!NoValues, Calls, Results

(* Each step of a running lookup is one of the abstract read, or none.       *)
LEMMA ReadsAdvance ==
    ASSUME ValueInv, TypeInv', NEW c \in Contexts, Advance(c)
    PROVE  \/ \E v \in 0..MaxVersion : Reads!Return(c, v)
           \/ Reads!Fail(c)
           \/ UNCHANGED Reads!vars
<1>0. SameWorld /\ TypeInv
  BY StepsKeepWorld DEF ValueInv
<1>1. \A d \in Contexts \ {c} :
          lookup'[d] = lookup[d] /\ outcome'[d] = outcome[d]
  BY <1>0, OthersUntouched
<1>2. CASE LoadFresh(c)
  <2> DEFINE cache == LoadedCache(c)
  <2>1. /\ cache \in Cache /\ HonestCache(cache) /\ lookup[c] \in Lookup
        /\ CacheOn /\ FreshFor \in Nat
        /\ cache.secrets[lookup[c].path] # None
        /\ YoungerThan(cache.secrets[lookup[c].path], FreshFor,
                       lookup[c].start)
        /\ Finish(c, "fresh", cache.secrets[lookup[c].path].data)
        /\ Remember(c, cache.secrets[lookup[c].path].data)
    BY <1>0, <1>2, LoadedCacheType, HonestLoad, BusyFacts, ConstantsAssumption
       DEF LoadFresh, FreshEntry, ValueInv
  <2> HIDE DEF cache
  <2> QED BY <1>0, <2>1, LimitsAreServed, EntryIsReturn DEF Served
<1>3. CASE FallBack(c)
  <2> DEFINE cache == mem[c]
  <2>1. /\ cache \in Cache /\ lookup[c] \in Lookup
        /\ CacheOn /\ OfflineMaxAge \in Nat
        /\ cache.secrets[lookup[c].path] # None
        /\ YoungerThan(cache.secrets[lookup[c].path], OfflineMaxAge,
                       lookup[c].start)
        /\ Finish(c, "stale", cache.secrets[lookup[c].path].data)
        /\ Remember(c, cache.secrets[lookup[c].path].data)
    BY <1>0, <1>3, BusyFacts, ConstantsAssumption DEF FallBack, StaleEntry
  <2>2. HonestCache(cache)
    BY <2>1, NoneAssumption DEF ValueInv, HonestCaches
  <2> HIDE DEF cache
  <2> QED BY <1>0, <2>1, <2>2, LimitsAreServed, EntryIsReturn DEF Served
<1>4. CASE HandleRead(c) /\ lookup[c].resp.status = "ok"
  <2>1. /\ lookup[c] \in Lookup /\ ValueUnderWay(c) /\ Complete(lookup[c])
        /\ Finish(c, "vault", lookup[c].resp.data)
        /\ Remember(c, lookup[c].resp.data)
    BY <1>0, <1>4, BusyFacts
       DEF HandleRead, ValueUnderWay, Answered, TypeInv, AnswerComplete
  <2>2. PICK data \in Versions : data = lookup[c].resp.data
    BY <2>1 DEF ValueUnderWay, Complete
  <2>3. PICK t \in Int : t = lookup[c].start
    BY <2>1 DEF Lookup
  <2>4. CurrentSince(lookup[c].path, data, t)
    BY <2>1, <2>2, <2>3, NoneAssumption DEF ValueInv, HonestCalls, HonestCall
  <2> QED BY <1>0, <2>1, <2>2, <2>3, <2>4, LimitsAreServed, ServeIsReturn
          DEF Served
<1>5. CASE NoCredentials(c) \/ GiveUp(c)
  BY <1>0, <1>5, BusyFacts, NoValueIsFail DEF NoCredentials, GiveUp
<1>6. CASE /\ HandleLogin(c) \/ HandleRead(c)
           /\ \E kind \in {"denied", "error"} : Finish(c, kind, None)
           /\ UNCHANGED render
  <2>1. lookup[c] \in Lookup
    BY <1>0, <1>6, BusyFacts DEF HandleLogin, HandleRead
  <2> QED BY <1>0, <1>6, <2>1, NoValueIsFail
<1>7. ASSUME lookup[c] \in Lookup, Busy(c)', UNCHANGED <<render, outcome>>,
             lookup'[c].path = lookup[c].path,
             lookup'[c].start = lookup[c].start
      PROVE  UNCHANGED Reads!vars
  <2>1. lookup[c] # None /\ lookup'[c] # None
    BY <1>7, NoneAssumption DEF TypeInv, Links
  <2> QED BY <1>0, <1>1, <1>7, <2>1, InsideCall
<1>8. CASE LoadThenRead(c) \/ UseToken(c) \/ NeedLogin(c)
             \/ DetectUnreachable(c) \/ HandleDetect(c)
  <2>1. lookup[c] \in Lookup
    BY <1>0, <1>8, BusyFacts DEF LoadThenRead, UseToken, NeedLogin,
                                 DetectUnreachable, HandleDetect
  <2>2. Busy(c)'
    BY <1>0, <1>8 DEF LoadThenRead, UseToken, NeedLogin, DetectUnreachable,
                      HandleDetect, SaveThen, Goto, Busy, TypeInv,
                      ControlTypes
  <2>3. /\ lookup'[c].path = lookup[c].path
        /\ lookup'[c].start = lookup[c].start
        /\ UNCHANGED <<render, outcome>>
    BY <1>0, <1>8, <2>1
       DEF LoadThenRead, UseToken, NeedLogin, DetectUnreachable,
           HandleDetect, TypeInv, CallTypes, Lookup
  <2> QED BY <1>7, <2>1, <2>2, <2>3
<1>9. ASSUME NEW status \in {"ok", "bare", "denied", "fail", "odd"},
             VaultAnswers(c, status)
      PROVE  UNCHANGED Reads!vars
  <2>1. lookup[c] \in Lookup
    BY <1>0, <1>9, BusyFacts DEF VaultAnswers
  <2>2. Busy(c)' /\ UNCHANGED <<render, outcome>>
    BY <1>0, <1>9 DEF VaultAnswers, Goto, Busy, TypeInv, ControlTypes
  <2>3. \E resp : lookup' = [lookup EXCEPT ![c].resp = resp]
    BY <1>9 DEF VaultAnswers
  <2>4. lookup'[c].path = lookup[c].path /\ lookup'[c].start = lookup[c].start
    BY <1>0, <2>1, <2>3 DEF TypeInv, CallTypes, Lookup
  <2> QED BY <1>7, <2>1, <2>2, <2>4
<1>10. CASE MarkDown(c) /\ (NetworkFails(c) \/ HandleLogin(c) \/ HandleRead(c))
  <2>1. lookup[c] \in Lookup
    BY <1>0, <1>10, BusyFacts DEF NetworkFails, HandleLogin, HandleRead
  <2>2. Busy(c)' /\ UNCHANGED <<render, outcome>>
    BY <1>0, <1>10 DEF MarkDown, SaveThen, Busy, TypeInv, ControlTypes
  <2>3. lookup'[c].path = lookup[c].path /\ lookup'[c].start = lookup[c].start
    BY <1>0, <1>10, <2>1 DEF MarkDown, TypeInv, CallTypes, Lookup
  <2> QED BY <1>7, <2>1, <2>2, <2>3
<1>11. CASE \/ HandleLogin(c) /\ lookup[c].resp.status = "ok"
            \/ /\ HandleRead(c) /\ lookup[c].resp.status = "denied"
               /\ lookup[c].goal = "read"
  <2>1. lookup[c] \in Lookup
    BY <1>0, <1>11, BusyFacts DEF HandleLogin, HandleRead
  <2>2. Busy(c)' /\ UNCHANGED <<render, outcome>>
    BY <1>0, <1>11 DEF HandleLogin, HandleRead, RefreshOnce, Goto, SaveThen,
                       Busy, TypeInv, ControlTypes
  <2>3. lookup'[c].path = lookup[c].path /\ lookup'[c].start = lookup[c].start
    BY <1>0, <1>11, <2>1
       DEF HandleLogin, HandleRead, RefreshOnce, TypeInv, CallTypes, Lookup
  <2> QED BY <1>7, <2>1, <2>2, <2>3
<1>12. HandleLogin(c) \/ HandleRead(c) =>
           \/ MarkDown(c)
           \/ HandleLogin(c) /\ lookup[c].resp.status = "ok"
           \/ HandleRead(c) /\ lookup[c].resp.status = "ok"
           \/ /\ HandleRead(c) /\ lookup[c].resp.status = "denied"
              /\ lookup[c].goal = "read"
           \/ /\ \E kind \in {"denied", "error"} : Finish(c, kind, None)
              /\ UNCHANGED render
  BY DEF HandleLogin, HandleRead, RefreshOnce
<1>13. CASE Skip(c) \/ Send(c) \/ Receive(c) \/ Save(c)
  <2>1. lookup'[c] = lookup[c] /\ UNCHANGED <<render, outcome>>
    BY <1>13 DEF Skip, Send, Receive, Save
  <2> QED BY <1>0, <1>1, <2>1, InsideCall
<1> QED BY <1>2, <1>3, <1>4, <1>5, <1>6, <1>8, <1>9, <1>10, <1>11, <1>12,
           <1>13
        DEF Advance, NetworkFails

LEMMA ReadsNext ==
    ASSUME ValueInv, ValueInv', [Next]_vars
    PROVE  [Reads!Next]_Reads!vars
<1>0. TypeInv /\ TypeInv'
  BY DEF ValueInv
<1>1. CASE World
  BY <1>0, <1>1, ReadsWorld
<1>2. ASSUME NEW c \in Contexts, Call(c)
      PROVE  Reads!Next
  <2>1. \E s \in Paths : Reads!Begin(c, s) \/ Reads!Again(c, s)
    BY <1>0, <1>2, ReadsCall DEF Call
  <2> QED BY <2>1 DEF Reads!Next
<1>3. ASSUME NEW c \in Contexts, Restart(c)
      PROVE  Reads!Next
  <2>1. Reads!End(c)
    BY <1>0, <1>3, StepsKeepWorld, ReadsRestart
  <2> QED BY <2>1 DEF Reads!Next
<1>4. ASSUME NEW c \in Contexts, Advance(c)
      PROVE  [Reads!Next]_Reads!vars
  <2>1. \/ \E v \in 0..MaxVersion : Reads!Return(c, v)
        \/ Reads!Fail(c)
        \/ UNCHANGED Reads!vars
    BY <1>0, <1>4, ReadsAdvance
  <2> QED BY <2>1 DEF Reads!Next
<1>5. CASE UNCHANGED vars
  BY <1>5 DEF vars, Reads!vars, CallOf, ResultOf
<1> QED BY <1>1, <1>2, <1>3, <1>4, <1>5 DEF Next

(* The driver behaves as the single read of SecretReads: a value that a      *)
(* pillar gets was the secret's during the call, or as recently before it as *)
(* a setting allows, and stays the same for the context.                     *)
THEOREM LookupsAreReads == Spec => ImplementsReads
<1>1. ValueInv /\ [Next]_vars => [Reads!Next]_Reads!vars
  BY ValueNext, ReadsNext
<1> QED BY <1>1, ReadsInit, ValueInit, ValueNext, PTL
        DEF Spec, ImplementsReads, Reads!Spec

-----------------------------------------------------------------------------
(* Failures: the down markers are never made up *)

(* Some context met a failure when the marker of a cache says or later.      *)
TrueCache(cache) ==
    cache.down # None => lastFail # None /\ cache.down <= lastFail

TrueCaches ==
    /\ lastFail # None => lastFail <= now
    /\ file # None => TrueCache(file)
    /\ \A c \in Contexts : mem[c] # None => TrueCache(mem[c])

(* Context c has been, or is about to be, told that the Vault is unreachable.*)
ToldDown(c) == pc[c] = "unreach" \/ (pc[c] = "save" /\ after[c] = "unreach")

InOutage(c, start) ==
    lastFail # None /\ (vdown[c] \/ start < lastFail + Cooldown)

RealOutage(c) ==
    /\ vdown[c] => lastFail # None
    /\ ToldDown(c) => InOutage(c, lookup[c].start)
    /\ lookup[c] # None => outcome[c] = None
    /\ outcome[c] # None => (outcome[c].kind \in {"stale", "down"} =>
                                 InOutage(c, outcome[c].start))

OutageInv == ValueInv /\ TrueCaches /\ \A c \in Contexts : RealOutage(c)

(* A failure is recorded now, or none is.                                    *)
FailsNow == lastFail' = lastFail \/ lastFail' = now

LEMMA OutageInit == Init => OutageInv
<1> SUFFICES ASSUME Init PROVE OutageInv
  OBVIOUS
<1>1. ValueInv
  BY ValueInit
<1>2. TrueCaches /\ \A c \in Contexts : RealOutage(c)
  BY DEF Init, TrueCaches, RealOutage, ToldDown
<1> QED BY <1>1, <1>2 DEF OutageInv

(* A cache that was true stays true when the clock or the last failure moves.*)
LEMMA StaysTrue ==
    ASSUME WorldTypes, TrueCaches, FailsNow, now' \in Nat, now <= now',
           NEW cache \in Cache, TrueCache(cache)
    PROVE  TrueCache(cache)'
<1>1. cache.down # None => cache.down \in Nat
  BY DEF Cache
<1>2. lastFail # None => lastFail \in Nat /\ lastFail <= now
  BY DEF WorldTypes, TrueCaches
<1>3. now \in Nat /\ now # None
  BY NoneAssumption DEF WorldTypes
<1>4. TrueCache(cache)' <=> (cache.down # None =>
                                 lastFail' # None /\ cache.down <= lastFail')
  BY DEF TrueCache
<1> QED BY <1>1, <1>2, <1>3, <1>4 DEF TrueCache, FailsNow

(* A step that gives context c a true cache, or changes none.                *)
LEMMA TrueFrame ==
    ASSUME TypeInv, TrueCaches, FailsNow, SameWorld, NEW c \in Contexts,
           NEW cache \in Cache, TrueCache(cache)',
           UNCHANGED mem \/ mem' = [mem EXCEPT ![c] = cache],
           UNCHANGED file \/ file' = cache
    PROVE  TrueCaches'
<1>1. WorldTypes /\ now' = now /\ now \in Nat
  BY DEF TypeInv, SameWorld, WorldTypes
<1>2. lastFail' # None => lastFail' <= now'
  BY <1>1 DEF TrueCaches, FailsNow
<1>3. ASSUME NEW d \in Contexts, mem[d] # None PROVE TrueCache(mem[d])'
        \/ mem'[d] # mem[d]
  <2>1. mem[d] \in Cache /\ TrueCache(mem[d])
    BY <1>3 DEF TypeInv, GlobalsTypes, TrueCaches
  <2> DEFINE old == mem[d]
  <2>2. PICK k \in Cache : k = mem[d]
    BY <2>1
  <2>3. TrueCache(k)'
    BY <1>1, <2>1, <2>2, StaysTrue
  <2> QED BY <2>2, <2>3 DEF TrueCache
<1>4. file # None => TrueCache(file)' \/ file' # file
  <2> SUFFICES ASSUME file # None PROVE TrueCache(file)' \/ file' # file
    OBVIOUS
  <2>1. PICK k \in Cache : k = file /\ TrueCache(k)
    BY DEF TypeInv, WorldTypes, TrueCaches
  <2>2. TrueCache(k)'
    BY <1>1, <2>1, StaysTrue
  <2> QED BY <2>1, <2>2 DEF TrueCache
<1>5. file' # None => TrueCache(file)'
  BY <1>4 DEF TrueCache
<1>6. ASSUME NEW d \in Contexts, mem'[d] # None PROVE TrueCache(mem[d])'
  <2>1. mem'[d] = mem[d] \/ mem'[d] = cache
    BY DEF TypeInv, GlobalsTypes
  <2> QED BY <1>3, <1>6, <2>1 DEF TrueCache
<1> QED BY <1>2, <1>5, <1>6 DEF TrueCaches


LEMMA OutageWorld ==
    ASSUME OutageInv, World
    PROVE  TrueCaches' /\ \A c \in Contexts : RealOutage(c)'
<1>1. /\ WorldTypes /\ WorldTypes' /\ TypeInv /\ UNCHANGED contextVars
      /\ UNCHANGED lastFail /\ now <= now' /\ (file' = file \/ file' = None)
  <2>1. TypeInv /\ TypeInv'
    BY TypeWorld DEF OutageInv, ValueInv
  <2> QED BY <2>1
          DEF World, Tick, Revoke, LoseFile, Rotate, vaultVars, TypeInv,
              WorldTypes
<1>2. now' \in Nat /\ FailsNow /\ TrueCaches
  BY <1>1 DEF WorldTypes, FailsNow, OutageInv
<1>3. \A cache \in Cache : TrueCache(cache) => TrueCache(cache)'
  BY <1>1, <1>2, StaysTrue
<1>4. lastFail' # None => lastFail' <= now'
  BY <1>1, <1>2 DEF TrueCaches, WorldTypes
<1>5. file' # None => TrueCache(file)'
  BY <1>1, <1>2 DEF TrueCaches, TrueCache
<1>6. \A c \in Contexts : mem'[c] # None => TrueCache(mem[c])'
  BY <1>1, <1>2 DEF TrueCaches, TrueCache, contextVars
<1>7. \A c \in Contexts : RealOutage(c)'
  BY <1>1 DEF OutageInv, RealOutage, InOutage, ToldDown, contextVars
<1> QED BY <1>4, <1>5, <1>6, <1>7 DEF TrueCaches

-----------------------------------------------------------------------------
(* Steps of a context *)

LEMMA StepFails ==
    ASSUME NEW c \in Contexts, Call(c) \/ Advance(c) \/ Restart(c)
    PROVE  FailsNow
  BY DEF FailsNow, Call, LookupDedup, LookupBegin, Advance, LoadFresh,
         LoadThenRead, UseToken, NeedLogin, NoCredentials, Skip, Send,
         VaultAnswers, NetworkFails, MarkDown, Receive, HandleLogin,
         HandleDetect, HandleRead, DetectUnreachable, FallBack, GiveUp, Save,
         Restart

(* The cache of a context past the load, and any field of it replaced.       *)
LEMMA TrueField ==
    ASSUME OutageInv, FailsNow, SameWorld, NEW c \in Contexts,
           pc[c] \notin {"idle", "load", "save"},
           TypeInv', UNCHANGED file, mem'[c] # None,
           \/ UNCHANGED mem
           \/ \E v : mem' = [mem EXCEPT ![c].tok = v]
           \/ \E v : mem' = [mem EXCEPT ![c].secrets = v]
           \/ mem' = [mem EXCEPT ![c].down = None]
           \/ mem' = [mem EXCEPT ![c].down = now] /\ lastFail' = now
           \/ \E v : mem' = [mem EXCEPT ![c].kv = v]
    PROVE  TrueCaches'
<1>1. TypeInv /\ TrueCaches /\ mem[c] \in Cache
  BY BusyFacts DEF OutageInv, ValueInv
<1>2. TrueCache(mem[c]) /\ now' \in Nat /\ now <= now' /\ WorldTypes
  BY <1>1, NoneAssumption DEF TrueCaches, SameWorld, TypeInv, WorldTypes
<1>3. PICK k \in Cache : k = mem[c] /\ TrueCache(k)
  BY <1>1, <1>2
<1>4. TrueCache(k)'
  BY <1>1, <1>2, <1>3, StaysTrue
<1>5. PICK new \in Cache : new = mem'[c]
  BY DEF TypeInv, GlobalsTypes
<1>6. mem' = [mem EXCEPT ![c] = new]
  BY <1>1, <1>5 DEF TypeInv, GlobalsTypes
<1>7. TrueCache(new)'
  <2>1. \/ new.down \in {k.down, None}
        \/ new.down = now /\ lastFail' = now
    BY <1>1, <1>3, <1>5 DEF TypeInv, GlobalsTypes, Cache
  <2>2. now # None /\ now \in Nat
    BY <1>2, NoneAssumption DEF WorldTypes
  <2> QED BY <1>4, <2>1, <2>2 DEF TrueCache
<1> QED BY <1>1, <1>6, <1>7, TrueFrame

LEMMA TrueCachesStep ==
    ASSUME OutageInv, NEW c \in Contexts, Call(c) \/ Advance(c) \/ Restart(c),
           TypeInv'
    PROVE  TrueCaches'
<1>0. SameWorld /\ FailsNow /\ TypeInv /\ TrueCaches
  BY StepsKeepWorld, StepFails DEF OutageInv, ValueInv
<1>1. ASSUME UNCHANGED <<file, mem, lastFail>> PROVE TrueCaches'
  BY <1>0, <1>1 DEF TrueCaches, TrueCache, SameWorld
<1>2. CASE Call(c)
  BY <1>1, <1>2 DEF Call, LookupDedup, LookupBegin
<1>3. CASE Restart(c)
  <2>1. \A d \in Contexts : mem'[d] = mem[d] \/ mem'[d] = None
    BY <1>0, <1>3 DEF Restart, TypeInv, GlobalsTypes
  <2> QED BY <1>0, <1>3, <2>1 DEF Restart, TrueCaches, TrueCache, SameWorld
<1>4. CASE LoadFresh(c) \/ LoadThenRead(c)
  <2> DEFINE cache == LoadedCache(c)
  <2>1. /\ mem' = [mem EXCEPT ![c] = cache]
        /\ UNCHANGED <<file, lastFail>>
    BY <1>4 DEF LoadFresh, LoadThenRead
  <2>2. TrueCache(EmptyCache)
    BY DEF TrueCache, EmptyCache
  <2>3. cache \in Cache /\ TrueCache(cache)
    BY <1>0, <2>2, LoadedCacheType DEF LoadedCache, TrueCaches
  <2> HIDE DEF cache
  <2>4. PICK k \in Cache : k = cache /\ TrueCache(k)
    BY <2>3
  <2>5. TrueCache(k)'
    BY <2>1, <2>4 DEF TrueCache
  <2>6. mem' = [mem EXCEPT ![c] = k]
    BY <2>1, <2>4
  <2> QED BY <1>0, <2>1, <2>5, <2>6, TrueFrame
<1>5. CASE Save(c)
  <2>1. mem[c] # None
    BY <1>0, <1>5 DEF Save, TypeInv, Links
  <2> QED BY <1>0, <1>5, <2>1 DEF Save, TrueCaches, TrueCache, SameWorld
<1>6. CASE \/ UseToken(c) \/ NeedLogin(c) \/ NoCredentials(c) \/ Skip(c)
           \/ Send(c) \/ DetectUnreachable(c) \/ FallBack(c) \/ GiveUp(c)
           \/ \E status \in {"ok", "bare", "denied", "fail", "odd"} :
                  VaultAnswers(c, status)
  <2>1. UNCHANGED <<file, mem, lastFail>>
    BY <1>6 DEF UseToken, NeedLogin, NoCredentials, Skip, Send, VaultAnswers,
                DetectUnreachable, FallBack, GiveUp
  <2> QED BY <1>1, <2>1
<1>7. CASE NetworkFails(c) \/ Receive(c) \/ HandleLogin(c)
             \/ HandleDetect(c) \/ HandleRead(c)
  <2>1. pc[c] \notin {"idle", "load", "save"} /\ UNCHANGED file
    BY <1>7 DEF NetworkFails, Receive, HandleLogin, HandleDetect, HandleRead
  <2>2. \/ UNCHANGED mem
        \/ \E v : mem' = [mem EXCEPT ![c].tok = v]
        \/ \E v : mem' = [mem EXCEPT ![c].secrets = v]
        \/ mem' = [mem EXCEPT ![c].down = None]
        \/ mem' = [mem EXCEPT ![c].down = now] /\ lastFail' = now
        \/ \E v : mem' = [mem EXCEPT ![c].kv = v]
    <3>1. CASE MarkDown(c)
      BY <3>1 DEF MarkDown
    <3>2. CASE Receive(c)
      BY <3>2 DEF Receive
    <3>3. CASE HandleLogin(c) /\ ~MarkDown(c)
      BY <3>3 DEF HandleLogin
    <3>4. CASE HandleDetect(c)
      BY <3>4 DEF HandleDetect
    <3>5. CASE HandleRead(c) /\ ~MarkDown(c)
      BY <3>5 DEF HandleRead
    <3> QED BY <1>7, <3>1, <3>2, <3>3, <3>4, <3>5 DEF NetworkFails
  <2>3. mem'[c] # None
    <3>1. mem[c] # None
      BY <1>0, <2>1 DEF TypeInv, Links
    <3>2. UNCHANGED mem \/ pc'[c] \in {"save", "answer"}
      BY <1>0, <1>7 DEF NetworkFails, MarkDown, Receive, HandleLogin,
                        HandleDetect, HandleRead, SaveThen, Goto, TypeInv,
                        ControlTypes
    <3> QED BY <3>1, <3>2 DEF TypeInv, Links
  <2> QED BY <1>0, <2>1, <2>2, <2>3, TrueField
<1> QED BY <1>2, <1>3, <1>4, <1>5, <1>6, <1>7 DEF Advance

(* The outages of the others are as real as they were.                       *)
LEMMA OthersOutages ==
    ASSUME OutageInv, SameWorld, FailsNow, NEW c \in Contexts,
           \A d \in Contexts \ {c} :
               /\ pc'[d] = pc[d] /\ after'[d] = after[d]
               /\ lookup'[d] = lookup[d] /\ outcome'[d] = outcome[d]
               /\ vdown'[d] = vdown[d],
           RealOutage(c)'
    PROVE  \A d \in Contexts : RealOutage(d)'
<1> SUFFICES ASSUME NEW d \in Contexts, d # c PROVE RealOutage(d)'
  OBVIOUS
<1>1. /\ lastFail # None => lastFail \in Nat /\ lastFail <= now
      /\ now \in Nat /\ now # None /\ Cooldown \in Nat
  BY ConstantsAssumption, NoneAssumption
     DEF OutageInv, TrueCaches, ValueInv, TypeInv, WorldTypes
<1>2. ASSUME NEW start \in Nat, InOutage(d, start)
      PROVE  InOutage(d, start)'
  BY <1>1, <1>2 DEF InOutage, FailsNow
<1>3. RealOutage(d)
  BY DEF OutageInv
<1>4. CASE lookup[d] = None
  <2>1. ~ToldDown(d)
    BY <1>4 DEF ToldDown, OutageInv, ValueInv, TypeInv, Links, Busy
  <2>2. CASE outcome[d] = None
    BY <1>1, <1>3, <1>4, <2>1, <2>2 DEF RealOutage, ToldDown, FailsNow
  <2>3. CASE outcome[d] # None
    <3>1. PICK start \in Nat : start = outcome[d].start
      BY <2>3 DEF OutageInv, ValueInv, TypeInv, CallTypes, Outcome
    <3>2. outcome[d].kind \in {"stale", "down"} => InOutage(d, start)'
      BY <1>2, <1>3, <2>3, <3>1 DEF RealOutage, InOutage
    <3> QED BY <1>1, <1>3, <1>4, <2>1, <2>3, <3>1, <3>2
            DEF RealOutage, ToldDown, FailsNow, InOutage
  <2> QED BY <2>2, <2>3
<1>5. CASE lookup[d] # None
  <2>1. PICK start \in Nat : start = lookup[d].start
    BY <1>5 DEF OutageInv, ValueInv, TypeInv, CallTypes, Lookup
  <2>2. ToldDown(d) => InOutage(d, start)'
    BY <1>2, <1>3, <1>5, <2>1 DEF RealOutage, InOutage
  <2> QED BY <1>1, <1>3, <1>5, <2>1, <2>2
          DEF RealOutage, ToldDown, FailsNow, InOutage
<1> QED BY <1>4, <1>5

(* What a step does to the others' part in failures: nothing.                *)
LEMMA OthersUp ==
    ASSUME TypeInv, NEW c \in Contexts, Call(c) \/ Advance(c) \/ Restart(c)
    PROVE  \A d \in Contexts \ {c} : vdown'[d] = vdown[d]
  BY DEF TypeInv, GlobalsTypes, Call, LookupDedup, LookupBegin, Advance,
         LoadFresh, LoadThenRead, UseToken, NeedLogin, NoCredentials, Skip,
         Send, VaultAnswers, NetworkFails, MarkDown, Receive, HandleLogin,
         HandleDetect, HandleRead, DetectUnreachable, FallBack, GiveUp, Save,
         Restart

(* A step inside the call that tells c of no outage.                         *)
LEMMA StillUp ==
    ASSUME OutageInv, TypeInv', NEW c \in Contexts, lookup[c] # None,
           UNCHANGED <<lastFail, outcome>>, ~ToldDown(c)',
           vdown'[c] \in {vdown[c], FALSE}
    PROVE  RealOutage(c)'
  BY DEF OutageInv, RealOutage

(* A call that ends, but not for an outage.                                  *)
LEMMA EndsUp ==
    ASSUME OutageInv, NEW c \in Contexts, NEW kind, NEW data,
           kind \notin {"stale", "down"}, Finish(c, kind, data),
           UNCHANGED <<lastFail, vdown>>, ~ToldDown(c)'
    PROVE  RealOutage(c)'
<1>1. lookup'[c] = None /\ outcome'[c].kind = kind
  BY DEF OutageInv, ValueInv, TypeInv, CallTypes, Finish
<1> QED BY <1>1 DEF OutageInv, RealOutage

(* _mark_down: the failure is on record before anyone hears of it.           *)
LEMMA MarkedDown ==
    ASSUME OutageInv, NEW c \in Contexts, lookup[c] \in Lookup, MarkDown(c),
           UNCHANGED now
    PROVE  RealOutage(c)'
<1>1. now # None /\ vdown'[c] = TRUE /\ lastFail' = now
  BY NoneAssumption
     DEF OutageInv, ValueInv, TypeInv, WorldTypes, GlobalsTypes, MarkDown
<1>2. outcome'[c] = None
  BY NoneAssumption DEF OutageInv, RealOutage, MarkDown
<1> QED BY <1>1, <1>2 DEF RealOutage, InOutage

LEMMA RealOutageStep ==
    ASSUME OutageInv, NEW c \in Contexts, Call(c) \/ Advance(c) \/ Restart(c),
           TypeInv'
    PROVE  RealOutage(c)'
<1>0. SameWorld /\ TypeInv /\ RealOutage(c)
  BY StepsKeepWorld DEF OutageInv, ValueInv
<1>1. ASSUME NEW s \in Paths, LookupDedup(c, s) PROVE RealOutage(c)'
  <2>1. lookup[c] = None /\ outcome'[c].kind = "dedup" /\ ~ToldDown(c)'
    BY <1>0, <1>1
       DEF LookupDedup, TypeInv, Links, Busy, CallTypes, ToldDown
  <2> QED BY <1>0, <1>1, <2>1 DEF LookupDedup, RealOutage
<1>2. ASSUME NEW s \in Paths, LookupBegin(c, s) PROVE RealOutage(c)'
  <2>1. outcome'[c] = None /\ ~ToldDown(c)'
    BY <1>0, <1>2
       DEF LookupBegin, Goto, TypeInv, ControlTypes, CallTypes, ToldDown
  <2> QED BY <1>0, <1>2, <2>1 DEF LookupBegin, RealOutage
<1>3. CASE Restart(c)
  <2>1. outcome'[c] = None /\ vdown'[c] = FALSE /\ ~ToldDown(c)'
    BY <1>0, <1>3
       DEF Restart, TypeInv, ControlTypes, CallTypes, GlobalsTypes, ToldDown
  <2> QED BY <2>1 DEF RealOutage
<1>4. CASE LoadFresh(c) \/ NoCredentials(c)
  <2>1. ~ToldDown(c)' /\ UNCHANGED <<lastFail, vdown>>
    BY <1>0, <1>4
       DEF LoadFresh, NoCredentials, Goto, TypeInv, ControlTypes, ToldDown
  <2> QED BY <1>4, <2>1, EndsUp DEF LoadFresh, NoCredentials
<1>5. CASE \/ LoadThenRead(c) \/ UseToken(c) \/ NeedLogin(c) \/ Send(c)
           \/ DetectUnreachable(c)
           \/ \E status \in {"ok", "bare", "denied", "fail", "odd"} :
                  VaultAnswers(c, status)
  <2>1. lookup[c] # None
    BY <1>0, <1>5 DEF LoadThenRead, UseToken, NeedLogin, Send,
                      DetectUnreachable, VaultAnswers, TypeInv, Links, Busy
  <2>2. UNCHANGED <<lastFail, outcome, vdown>>
    BY <1>5 DEF LoadThenRead, UseToken, NeedLogin, Send, DetectUnreachable,
                VaultAnswers
  <2>3. ~ToldDown(c)'
    BY <1>0, <1>5 DEF LoadThenRead, UseToken, NeedLogin, Send,
                      DetectUnreachable, VaultAnswers, Goto, TypeInv,
                      ControlTypes, ToldDown
  <2> QED BY <1>5, <2>1, <2>2, <2>3, StillUp
<1>6. CASE Skip(c)
  <2>1. lookup[c] \in Lookup /\ mem[c] \in Cache
    BY <1>0, <1>6, BusyFacts DEF Skip
  <2>2. lookup[c].start \in Nat /\ lookup[c].start <= now
    BY <2>1, NoneAssumption
       DEF OutageInv, ValueInv, HonestCalls, HonestCall, Lookup
  <2>3. PICK k \in Cache : k = mem[c] /\ TrueCache(k)
    BY <2>1, NoneAssumption DEF OutageInv, TrueCaches
  <2>4. /\ k.down # None => k.down \in Nat
        /\ lastFail # None => lastFail \in Nat
        /\ now \in Nat /\ Cooldown \in Nat
    BY <1>0, <2>3, ConstantsAssumption DEF Cache, TypeInv, WorldTypes
  <2>5. vdown[c] \/ (k.down # None /\ now < k.down + Cooldown)
    BY <1>6, <2>3 DEF Skip, BreakerOpen
  <2>6. InOutage(c, lookup[c].start)
    BY <1>0, <2>2, <2>3, <2>4, <2>5 DEF InOutage, TrueCache, RealOutage
  <2> QED BY <1>0, <1>6, <2>6 DEF Skip, RealOutage, InOutage
<1>7. CASE MarkDown(c) /\ (NetworkFails(c) \/ HandleLogin(c) \/ HandleRead(c))
  <2>1. lookup[c] \in Lookup /\ UNCHANGED now
    BY <1>0, <1>7, BusyFacts DEF NetworkFails, HandleLogin, HandleRead
  <2> QED BY <1>7, <2>1, MarkedDown
<1>8. CASE Receive(c) \/ HandleDetect(c)
  <2>1. lookup[c] # None
    BY <1>0, <1>8 DEF Receive, HandleDetect, TypeInv, Links, Busy
  <2>2. UNCHANGED <<lastFail, outcome>> /\ vdown'[c] \in {vdown[c], FALSE}
    BY <1>0, <1>8 DEF Receive, HandleDetect, TypeInv, GlobalsTypes
  <2>3. ~ToldDown(c)'
    BY <1>0, <1>8 DEF Receive, HandleDetect, Goto, SaveThen, TypeInv,
                      ControlTypes, ToldDown
  <2> QED BY <2>1, <2>2, <2>3, StillUp
<1>9. CASE (HandleLogin(c) \/ HandleRead(c)) /\ ~MarkDown(c)
  <2>1. lookup[c] # None /\ UNCHANGED <<lastFail, vdown>>
    BY <1>0, <1>9 DEF HandleLogin, HandleRead, TypeInv, Links, Busy
  <2>2. ~ToldDown(c)'
    BY <1>0, <1>9 DEF HandleLogin, HandleRead, Goto, SaveThen, TypeInv,
                      ControlTypes, ToldDown
  <2>3. \/ UNCHANGED outcome
        \/ \E kind \in {"vault", "denied", "error"} :
             \E data : Finish(c, kind, data)
    BY <1>9 DEF HandleLogin, HandleRead
  <2> QED BY <2>1, <2>2, <2>3, StillUp, EndsUp
<1>10. CASE FallBack(c) \/ GiveUp(c)
  <2>1. InOutage(c, lookup[c].start)
    BY <1>0, <1>10 DEF FallBack, GiveUp, RealOutage, ToldDown
  <2>2. /\ outcome'[c].start = lookup[c].start /\ lookup'[c] = None
        /\ ~ToldDown(c)' /\ UNCHANGED <<lastFail, vdown>>
    BY <1>0, <1>10 DEF FallBack, GiveUp, Finish, Goto, TypeInv, ControlTypes,
                       CallTypes, ToldDown
  <2> QED BY <1>0, <2>1, <2>2 DEF RealOutage, InOutage
<1>11. CASE Save(c)
  <2>1. ToldDown(c)' => ToldDown(c)
    BY <1>0, <1>11 DEF Save, TypeInv, ControlTypes, ToldDown
  <2>2. UNCHANGED <<lastFail, vdown, lookup, outcome>>
    BY <1>11 DEF Save
  <2> QED BY <1>0, <2>1, <2>2 DEF RealOutage, InOutage
<1> QED BY <1>1, <1>2, <1>3, <1>4, <1>5, <1>6, <1>7, <1>8, <1>9, <1>10,
           <1>11
        DEF Call, Advance, NetworkFails

LEMMA OutageNext ==
    ASSUME OutageInv, [Next]_vars
    PROVE  OutageInv'
<1>1. ValueInv'
  BY ValueNext DEF OutageInv
<1>2. CASE World
  BY <1>1, <1>2, OutageWorld DEF OutageInv
<1>3. ASSUME NEW c \in Contexts, Call(c) \/ Advance(c) \/ Restart(c)
      PROVE  OutageInv'
  <2>1. TypeInv /\ TypeInv' /\ SameWorld /\ FailsNow
    BY <1>1, <1>3, StepsKeepWorld, StepFails DEF OutageInv, ValueInv
  <2>2. TrueCaches' /\ RealOutage(c)'
    BY <1>3, <2>1, TrueCachesStep, RealOutageStep
  <2>3. \A d \in Contexts : RealOutage(d)'
    BY <1>3, <2>1, <2>2, OthersUntouched, OthersUp, OthersOutages
  <2> QED BY <1>1, <2>2, <2>3 DEF OutageInv
<1>4. CASE UNCHANGED vars
  BY <1>1, <1>4 DEF OutageInv, TrueCaches, TrueCache, RealOutage, ToldDown,
                    InOutage, vars
<1> QED BY <1>2, <1>3, <1>4 DEF Next

-----------------------------------------------------------------------------
(* The KV version is never guessed *)

(* What a cache says of the mount is so, or is the 2 of an answer without it.*)
Told(cache) == cache.kv \in {0, TrueKv} \/ (untold /\ cache.kv = 2)

(* An answer without a version is under way to context c.                    *)
BareAnswer(c) == Answered(c) /\ lookup[c].resp.status = "bare"

VersionInv ==
    /\ TypeInv
    /\ file # None => Told(file)
    /\ \A c \in Contexts : mem[c] # None => Told(mem[c])
    /\ \A c \in Contexts : BareAnswer(c) => untold

(* What a step of context c does to the caches.                              *)
LEMMA CachesAfter ==
    ASSUME TypeInv, TypeInv', NEW c \in Contexts,
           Call(c) \/ Advance(c) \/ Restart(c)
    PROVE  /\ file' = file \/ file' = mem[c]
           /\ \A d \in Contexts \ {c} : mem'[d] = mem[d]
           /\ mem'[c] # None =>
                \/ mem'[c] = LoadedCache(c)
                \/ mem[c] # None /\ mem'[c].kv = mem[c].kv
                \/ HandleDetect(c) /\ Confirmed(c) /\ mem'[c].kv = Version(c)
<1>0. mem \in [Contexts -> Cache \cup {None}]
      /\ (pc[c] \notin {"idle", "load", "save"} => mem[c] \in Cache)
  BY BusyFacts DEF TypeInv, GlobalsTypes
<1>1. ASSUME UNCHANGED mem, file' = file \/ file' = mem[c]
      PROVE  /\ file' = file \/ file' = mem[c]
             /\ \A d \in Contexts \ {c} : mem'[d] = mem[d]
             /\ mem'[c] # None => mem'[c] = LoadedCache(c)
  BY <1>1 DEF LoadedCache
<1>2. CASE Call(c) \/ Save(c)
  BY <1>1, <1>2 DEF Call, LookupDedup, LookupBegin, Save
<1>3. CASE Restart(c)
  BY <1>0, <1>3 DEF Restart
<1>4. CASE LoadFresh(c) \/ LoadThenRead(c)
  BY <1>0, <1>4 DEF LoadFresh, LoadThenRead
<1>5. CASE \/ UseToken(c) \/ NeedLogin(c) \/ NoCredentials(c) \/ Skip(c)
           \/ Send(c) \/ DetectUnreachable(c) \/ FallBack(c) \/ GiveUp(c)
           \/ \E status \in {"ok", "bare", "denied", "fail", "odd"} :
                  VaultAnswers(c, status)
  BY <1>1, <1>5 DEF UseToken, NeedLogin, NoCredentials, Skip, Send,
                    VaultAnswers, DetectUnreachable, FallBack, GiveUp
<1>6. CASE NetworkFails(c) \/ Receive(c) \/ HandleLogin(c) \/ HandleRead(c)
  <2>1. pc[c] \notin {"idle", "load", "save"} /\ UNCHANGED file
    BY <1>6 DEF NetworkFails, Receive, HandleLogin, HandleRead
  <2>2. \/ UNCHANGED mem
        \/ \E v : mem' = [mem EXCEPT ![c].tok = v]
        \/ \E v : mem' = [mem EXCEPT ![c].secrets = v]
        \/ \E v : mem' = [mem EXCEPT ![c].down = v]
    BY <1>6 DEF NetworkFails, MarkDown, Receive, HandleLogin, HandleRead
  <2>3. mem'[c].kv = mem[c].kv
    BY <1>0, <2>1, <2>2 DEF Cache
  <2>4. \A d \in Contexts \ {c} : mem'[d] = mem[d]
    BY <1>0, <2>2
  <2> QED BY <1>0, <2>1, <2>3, <2>4, NoneAssumption
<1>7. CASE HandleDetect(c)
  <2>1. CASE Confirmed(c)
    BY <1>0, <1>7, <2>1 DEF HandleDetect, Cache
  <2>2. CASE ~Confirmed(c)
    BY <1>1, <1>7, <2>2 DEF HandleDetect
  <2> QED BY <2>1, <2>2
<1> QED BY <1>2, <1>3, <1>4, <1>5, <1>6, <1>7 DEF Advance

(* Once a detection was answered without a version, that stays known.        *)
LEMMA ToldOnce ==
    ASSUME [Next]_vars, untold
    PROVE  untold'
<1>1. ASSUME NEW c, NEW status, VaultAnswers(c, status) PROVE untold'
  BY <1>1 DEF VaultAnswers
<1> QED BY <1>1
        DEF Next, World, Tick, Revoke, LoseFile, Rotate, Call, LookupDedup,
            LookupBegin, Advance, LoadFresh, LoadThenRead, UseToken,
            NeedLogin, NoCredentials, Skip, Send, NetworkFails, Receive,
            HandleLogin, HandleDetect, HandleRead, DetectUnreachable,
            FallBack, GiveUp, Save, Restart, vaultVars, vars

(* Only the Vault sends an answer, and the only new one without a version is *)
(* the one that it has just sent.                                            *)
LEMMA BareStep ==
    ASSUME TypeInv, NEW c \in Contexts, Call(c) \/ Advance(c) \/ Restart(c),
           BareAnswer(c)'
    PROVE  BareAnswer(c) \/ untold'
<1>0. /\ pc \in [Contexts -> Labels] /\ lookup \in [Contexts -> Lookup \cup {None}]
      /\ after \in [Contexts -> {"idle", "auth", "send", "answer", "unreach"}]
  BY DEF TypeInv, ControlTypes, CallTypes
<1> USE DEF Answered, Goto, SaveThen
<1>1. CASE Call(c) \/ Restart(c)
  BY <1>0, <1>1 DEF Call, LookupDedup, LookupBegin, Restart, BareAnswer
<1>2. CASE \/ LoadFresh(c) \/ LoadThenRead(c) \/ UseToken(c) \/ NeedLogin(c)
           \/ NoCredentials(c) \/ Skip(c) \/ Send(c) \/ DetectUnreachable(c)
           \/ FallBack(c) \/ GiveUp(c)
  BY <1>0, <1>2 DEF LoadFresh, LoadThenRead, UseToken, NeedLogin,
                    NoCredentials, Skip, Send, DetectUnreachable, FallBack,
                    GiveUp, BareAnswer
<1>3. ASSUME NEW status \in {"ok", "bare", "denied", "fail", "odd"},
             VaultAnswers(c, status)
      PROVE  untold'
  <2>1. lookup[c] \in Lookup
    BY <1>3, BusyFacts DEF VaultAnswers
  <2>2. lookup'[c].resp.status = status
    BY <1>0, <1>3, <2>1 DEF VaultAnswers, Lookup
  <2> QED BY <1>3, <2>2 DEF VaultAnswers, BareAnswer
<1>4. CASE Receive(c) \/ Save(c)
  BY <1>0, <1>4 DEF Receive, Save, BareAnswer
<1>5. CASE MarkDown(c) \/ HandleDetect(c)
  BY <1>0, <1>5 DEF MarkDown, HandleDetect, BareAnswer
<1>6. CASE (HandleLogin(c) \/ HandleRead(c)) /\ ~MarkDown(c)
  BY <1>0, <1>6 DEF HandleLogin, HandleRead, BareAnswer
<1> QED BY <1>1, <1>2, <1>3, <1>4, <1>5, <1>6
        DEF Advance, NetworkFails, HandleLogin, HandleRead

LEMMA VersionStep ==
    ASSUME VersionInv, TypeInv', [Next]_vars, NEW c \in Contexts,
           Call(c) \/ Advance(c) \/ Restart(c)
    PROVE  VersionInv'
<1>1. TypeInv /\ (untold => untold')
  BY ToldOnce DEF VersionInv
<1>2. ASSUME NEW cache, Told(cache)
      PROVE  cache.kv \in {0, TrueKv} \/ (untold' /\ cache.kv = 2)
  BY <1>1, <1>2 DEF Told
<1>3. file' # None => Told(file)'
  <2>1. file' = file \/ file' = mem[c]
    BY <1>1, CachesAfter
  <2> QED BY <1>2, <2>1 DEF VersionInv, Told
<1>4. mem'[c] # None => Told(mem[c])'
  <2> SUFFICES ASSUME mem'[c] # None PROVE Told(mem[c])'
    OBVIOUS
  <2>1. \/ mem'[c] = LoadedCache(c)
        \/ mem[c] # None /\ mem'[c].kv = mem[c].kv
        \/ HandleDetect(c) /\ Confirmed(c) /\ mem'[c].kv = Version(c)
    BY <1>1, CachesAfter
  <2>2. CASE mem'[c] = LoadedCache(c)
    <3>1. EmptyCache.kv = 0
      BY DEF EmptyCache
    <3>2. Told(LoadedCache(c))
      BY <3>1 DEF LoadedCache, VersionInv, Told
    <3> QED BY <1>2, <2>2, <3>2 DEF Told
  <2>3. CASE mem[c] # None /\ mem'[c].kv = mem[c].kv
    BY <1>2, <2>3 DEF VersionInv, Told
  <2>4. CASE HandleDetect(c) /\ Confirmed(c) /\ mem'[c].kv = Version(c)
    <3>1. Answered(c)
      BY <2>4 DEF HandleDetect, Answered
    <3>2. Version(c) = TrueKv \/ (untold /\ Version(c) = 2)
      BY <2>4, <3>1 DEF Confirmed, Version, VersionInv, BareAnswer
    <3> QED BY <1>1, <2>4, <3>2 DEF Told
  <2> QED BY <2>1, <2>2, <2>3, <2>4
<1>5. ASSUME NEW d \in Contexts, d # c, mem'[d] # None PROVE Told(mem[d])'
  <2>1. mem'[d] = mem[d]
    BY <1>1, <1>5, CachesAfter
  <2> QED BY <1>2, <1>5, <2>1 DEF VersionInv, Told
<1>6. ASSUME NEW d \in Contexts, BareAnswer(d)' PROVE untold'
  <2>1. CASE d = c
    BY <1>1, <1>6, <2>1, BareStep DEF VersionInv
  <2>2. CASE d # c
    <3>1. BareAnswer(d)
      BY <1>1, <1>6, <2>2, OthersUntouched DEF BareAnswer, Answered
    <3> QED BY <1>1, <3>1 DEF VersionInv
  <2> QED BY <2>1, <2>2
<1> QED BY <1>3, <1>4, <1>5, <1>6 DEF VersionInv

LEMMA VersionNext ==
    ASSUME VersionInv, [Next]_vars
    PROVE  VersionInv'
<1>1. TypeInv' /\ (untold => untold')
  BY TypeNext, ToldOnce DEF VersionInv
<1>2. CASE World \/ UNCHANGED vars
  <2>1. UNCHANGED contextVars /\ (file' = file \/ file' = None)
    BY <1>2 DEF World, Tick, Revoke, LoseFile, Rotate, contextVars, vars
  <2> QED BY <1>1, <2>1
          DEF VersionInv, Told, BareAnswer, Answered, contextVars
<1>3. ASSUME NEW c \in Contexts, Call(c) \/ Advance(c) \/ Restart(c)
      PROVE  VersionInv'
  BY <1>1, <1>3, VersionStep
<1> QED BY <1>2, <1>3 DEF Next

(* A KV version that is kept is the mount's, or the 2 that stands for an     *)
(* answer that leaves it out: no failure, refusal or stale token makes the   *)
(* driver keep one (451-488).                                                *)
THEOREM VersionsAreFromMount == Spec => []KvFromMount
<1>1. Init => VersionInv
  <2> SUFFICES ASSUME Init PROVE VersionInv
    OBVIOUS
  <2>1. TypeInv
    BY TypeInit
  <2> QED BY <2>1 DEF Init, VersionInv, BareAnswer, Answered
<1>2. VersionInv => KvFromMount
  BY DEF VersionInv, Told, KvFromMount
<1> QED BY <1>1, <1>2, VersionNext, PTL DEF Spec

(* A lookup serves an old value, or gives up, only in an outage some context *)
(* met.                                                                      *)
THEOREM OutagesAreReal == Spec => []OutageIsReal
<1>1. OutageInv => OutageIsReal
  BY DEF OutageInv, RealOutage, InOutage, OutageIsReal
<1> QED BY <1>1, OutageInit, OutageNext, PTL DEF Spec
-----------------------------------------------------------------------------
(* A denial is never the fault of a cached token *)

(* The retry after a 403 carries a token that was issued to this very call.  *)
FreshToken(c) ==
    lookup[c] # None =>
      /\ (/\ lookup[c].goal = "reread" /\ lookup[c].req = "call"
          /\ pc[c] # "auth" /\ ~Static) => lookup[c].tok.mint >= lookup[c].start
      /\ (Answered(c) /\ lookup[c].req = "login"
            /\ lookup[c].resp.status = "ok")
              => lookup[c].resp.grant.mint >= lookup[c].start

TokenInv == OutageInv /\ \A c \in Contexts : FreshToken(c)

LEMMA TokenStep ==
    ASSUME TokenInv, NEW c \in Contexts,
           Call(c) \/ Advance(c) \/ Restart(c)
    PROVE  FreshToken(c)'
<1>0. TypeInv /\ FreshToken(c) /\ SameWorld
  BY StepsKeepWorld DEF TokenInv, OutageInv, ValueInv
<1>1. ASSUME NEW s \in Paths, LookupDedup(c, s) PROVE FreshToken(c)'
  BY <1>0, <1>1 DEF LookupDedup, FreshToken, Answered
<1>2. ASSUME NEW s \in Paths, LookupBegin(c, s) PROVE FreshToken(c)'
  <2>1. lookup'[c].goal = "read" /\ lookup'[c].req = "call"
    BY <1>0, <1>2 DEF LookupBegin, TypeInv, CallTypes
  <2> QED BY <2>1 DEF FreshToken
<1>3. CASE Restart(c) \/ LoadFresh(c) \/ NoCredentials(c) \/ FallBack(c)
             \/ GiveUp(c)
  <2>1. lookup'[c] = None
    BY <1>0, <1>3 DEF Restart, LoadFresh, NoCredentials, FallBack, GiveUp,
                      Finish, TypeInv, CallTypes
  <2> QED BY <2>1 DEF FreshToken
<1>4. CASE LoadThenRead(c) \/ DetectUnreachable(c) \/ HandleDetect(c)
  <2>1. lookup[c] \in Lookup
    BY <1>0, <1>4, BusyFacts DEF LoadThenRead, DetectUnreachable, HandleDetect
  <2>2. lookup'[c].goal # "reread" /\ ~Answered(c)'
    BY <1>0, <1>4, <2>1
       DEF LoadThenRead, DetectUnreachable, HandleDetect, Goto, SaveThen,
           Lookup, Answered, TypeInv, CallTypes, ControlTypes
  <2> QED BY <2>2 DEF FreshToken
<1>5. CASE UseToken(c) \/ NeedLogin(c)
  <2>1. lookup[c] \in Lookup
    BY <1>0, <1>5, BusyFacts DEF UseToken, NeedLogin
  <2>2. lookup'[c].goal # "reread" \/ lookup'[c].req = "login" \/ Static
    BY <1>0, <1>5, <2>1
       DEF UseToken, ReusableToken, NeedLogin, Lookup, TypeInv, CallTypes
  <2>3. ~Answered(c)'
    BY <1>0, <1>5
       DEF UseToken, NeedLogin, Goto, Answered, TypeInv, ControlTypes
  <2> QED BY <2>2, <2>3 DEF FreshToken
<1>6. CASE Skip(c) \/ Send(c) \/ Receive(c) \/ Save(c)
  <2>1. lookup'[c] = lookup[c] /\ (Answered(c)' => Answered(c))
    BY <1>0, <1>6 DEF Skip, Send, Receive, Save, Goto, SaveThen, Answered,
                      TypeInv, ControlTypes
  <2>2. pc[c] # "auth"
    BY <1>6 DEF Skip, Send, Receive, Save
  <2> QED BY <1>0, <2>1, <2>2 DEF FreshToken
<1>7. ASSUME NEW status \in {"ok", "bare", "denied", "fail", "odd"},
             VaultAnswers(c, status)
      PROVE  FreshToken(c)'
  <2>1. lookup[c] \in Lookup /\ lookup[c].start <= now /\ pc[c] = "wait"
    BY <1>0, <1>7, BusyFacts, NoneAssumption
       DEF VaultAnswers, TokenInv, OutageInv, ValueInv, HonestCalls,
           HonestCall
  <2> DEFINE resp ==
        [status |-> status,
         data   |-> IF status = "ok" /\ lookup[c].req = "call"
                         /\ lookup[c].goal # "detect"
                    THEN secret[lookup[c].path] ELSE None,
         grant  |-> IF status = "ok" /\ lookup[c].req = "login"
                    THEN [epoch |-> epoch, mint |-> now] ELSE None]
  <2>2. lookup' = [lookup EXCEPT ![c].resp = resp]
    BY <1>7 DEF VaultAnswers
  <2>3. /\ lookup'[c].resp = resp /\ lookup'[c].start = lookup[c].start
        /\ lookup'[c].req = lookup[c].req /\ lookup'[c].tok = lookup[c].tok
        /\ lookup'[c].goal = lookup[c].goal
    BY <1>0, <2>1, <2>2 DEF TypeInv, CallTypes, Lookup
  <2>4. status = "ok" /\ lookup[c].req = "login" => resp.grant.mint = now
    OBVIOUS
  <2>5. resp.status = status /\ lookup[c].start \in Nat /\ now \in Nat
    BY <1>0, <2>1 DEF TypeInv, WorldTypes, Lookup
  <2> HIDE DEF resp
  <2> QED BY <1>0, <2>1, <2>3, <2>4, <2>5, NoneAssumption DEF FreshToken
<1>8. CASE MarkDown(c) /\ (NetworkFails(c) \/ HandleLogin(c) \/ HandleRead(c))
  <2>1. lookup[c] \in Lookup /\ pc[c] # "auth"
    BY <1>0, <1>8, BusyFacts DEF NetworkFails, HandleLogin, HandleRead
  <2>2. /\ lookup'[c].start = lookup[c].start
        /\ lookup'[c].req = lookup[c].req /\ lookup'[c].tok = lookup[c].tok
        /\ lookup'[c].goal = lookup[c].goal /\ ~Answered(c)'
    BY <1>0, <1>8, <2>1 DEF MarkDown, SaveThen, Lookup, Answered, TypeInv,
                            CallTypes, ControlTypes
  <2> QED BY <1>0, <2>1, <2>2, NoneAssumption DEF FreshToken
<1>9. CASE HandleLogin(c) /\ ~MarkDown(c)
  <2>1. lookup[c] \in Lookup
    BY <1>0, <1>9, BusyFacts DEF HandleLogin
  <2>2. CASE lookup[c].resp.status = "ok"
    <3>1. lookup[c].resp.grant.mint >= lookup[c].start
      BY <1>0, <1>9, <2>1, <2>2, NoneAssumption
         DEF HandleLogin, FreshToken, Answered
    <3>2. /\ lookup'[c].start = lookup[c].start
          /\ lookup'[c].tok = lookup[c].resp.grant /\ ~Answered(c)'
      BY <1>0, <1>9, <2>1, <2>2
         DEF HandleLogin, MarkDown, SaveThen, Lookup, Answered, TypeInv,
             CallTypes, ControlTypes
    <3> QED BY <3>1, <3>2 DEF FreshToken
  <2>3. CASE lookup[c].resp.status # "ok"
    <3>1. lookup'[c] = None
      BY <1>0, <1>9, <2>3 DEF HandleLogin, Finish, TypeInv, CallTypes
    <3> QED BY <3>1 DEF FreshToken
  <2> QED BY <2>2, <2>3
<1>10. CASE HandleRead(c) /\ ~MarkDown(c)
  <2>1. lookup'[c] = None \/ (pc'[c] = "auth" /\ ~Answered(c)')
    BY <1>0, <1>10 DEF HandleRead, Finish, Goto, Answered, TypeInv, CallTypes,
                       ControlTypes
  <2> QED BY <2>1 DEF FreshToken
<1> QED BY <1>1, <1>2, <1>3, <1>4, <1>5, <1>6, <1>7, <1>8, <1>9, <1>10
        DEF Call, Advance, NetworkFails

LEMMA TokenNext ==
    ASSUME TokenInv, [Next]_vars
    PROVE  TokenInv'
<1>1. OutageInv'
  BY OutageNext DEF TokenInv
<1>2. ASSUME NEW c \in Contexts, FreshToken(c),
             /\ pc'[c] = pc[c] /\ after'[c] = after[c]
             /\ lookup'[c] = lookup[c]
      PROVE  FreshToken(c)'
  BY <1>2 DEF FreshToken, Answered
<1>3. CASE World
  <2>1. UNCHANGED contextVars
    BY <1>3 DEF World, Tick, Revoke, LoseFile, Rotate
  <2> QED BY <1>1, <1>2, <2>1 DEF TokenInv, contextVars
<1>4. ASSUME NEW c \in Contexts, Call(c) \/ Advance(c) \/ Restart(c)
      PROVE  TokenInv'
  <2>1. FreshToken(c)'
    BY <1>4, TokenStep
  <2>2. \A d \in Contexts \ {c} :
               /\ pc'[d] = pc[d] /\ after'[d] = after[d]
               /\ lookup'[d] = lookup[d]
    BY <1>4, OthersUntouched DEF TokenInv, OutageInv, ValueInv
  <2> QED BY <1>1, <1>2, <2>1, <2>2 DEF TokenInv
<1>5. CASE UNCHANGED vars
  BY <1>1, <1>2, <1>5 DEF TokenInv, vars
<1> QED BY <1>3, <1>4, <1>5 DEF Next

(* A lookup that is denied has been denied a token that was issued to it, or *)
(* the static one: the driver never gives up on a stale token (503-505).     *)
THEOREM DenialsAreGenuine == Spec => DenialIsGenuine
<1> DEFINE Genuine(c) ==
      (outcome'[c] # None /\ outcome'[c].kind = "denied" /\ Busy(c)) =>
            \/ lookup[c].req = "login"
            \/ lookup[c].tok.mint >= lookup[c].start
            \/ Static
<1>1. Init => TokenInv
  BY OutageInit DEF Init, TokenInv, FreshToken
<1>2. TokenInv /\ [Next]_vars => TokenInv'
  BY TokenNext
<1>3. ASSUME TokenInv, [Next]_vars, NEW c \in Contexts PROVE Genuine(c)
  <2>0. TypeInv /\ (Busy(c) => outcome[c] = None) /\ FreshToken(c)
    BY <1>3 DEF TokenInv, OutageInv, RealOutage, ValueInv, TypeInv, Links
  <2>1. CASE outcome'[c] = outcome[c]
    BY <2>0, <2>1
  <2>2. CASE World \/ UNCHANGED vars
    BY <2>1, <2>2 DEF World, Tick, Revoke, LoseFile, Rotate, contextVars, vars
  <2>3. ASSUME NEW d \in Contexts \ {c}, Call(d) \/ Advance(d) \/ Restart(d)
        PROVE  Genuine(c)
    BY <2>0, <2>1, <2>3, OthersUntouched
  <2>4. CASE Call(c) \/ Restart(c)
    <3>1. outcome'[c] # None => ~Busy(c) \/ outcome'[c] = outcome[c]
      BY <2>0, <2>4 DEF Call, LookupDedup, LookupBegin, Restart, Busy, TypeInv,
                        CallTypes
    <3> QED BY <2>1, <3>1
  <2>5. CASE Advance(c) /\ UNCHANGED outcome
    BY <2>1, <2>5
  <2>6. CASE Advance(c) /\ \E kind, data : kind # "denied"
                                             /\ Finish(c, kind, data)
    <3>1. outcome'[c].kind # "denied"
      BY <2>0, <2>6 DEF Finish, TypeInv, CallTypes
    <3> QED BY <3>1
  <2>7. CASE HandleLogin(c)
    BY <2>7 DEF HandleLogin
  <2>8. CASE HandleRead(c)
    <3>1. CASE lookup[c].goal = "reread"
      BY <2>0, <2>8, <3>1, BusyFacts, NoneAssumption
         DEF HandleRead, FreshToken
    <3>2. CASE lookup[c].goal = "read"
      <4>1. \/ UNCHANGED outcome
            \/ \E kind \in {"vault", "error"} : \E data : Finish(c, kind, data)
        BY <2>8, <3>2 DEF HandleRead, RefreshOnce, MarkDown
      <4>2. Advance(c)
        BY <2>8 DEF Advance
      <4> QED BY <2>5, <2>6, <4>1, <4>2
    <3> QED BY <2>8, <3>1, <3>2 DEF HandleRead
  <2>9. Advance(c) =>
          \/ UNCHANGED outcome \/ HandleLogin(c) \/ HandleRead(c)
          \/ \E kind, data : kind # "denied" /\ Finish(c, kind, data)
    BY DEF Advance, LoadFresh, LoadThenRead, UseToken, NeedLogin,
           NoCredentials, Skip, Send, VaultAnswers, NetworkFails, MarkDown,
           Receive, HandleDetect, DetectUnreachable, FallBack, GiveUp, Save
  <2> QED BY <1>3, <2>2, <2>3, <2>4, <2>5, <2>6, <2>7, <2>8, <2>9 DEF Next
<1>4. TokenInv /\ [Next]_vars => [\A c \in Contexts : Genuine(c)]_vars
  BY <1>3
<1> QED BY <1>1, <1>2, <1>4, PTL DEF Spec, DenialIsGenuine
=============================================================================
