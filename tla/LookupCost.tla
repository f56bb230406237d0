----------------------------- MODULE LookupCost -----------------------------
(***************************************************************************)
(* What a lookup of VaultSaltSdb costs: the requests it sends, the         *)
(* failures its process waits for, the steps until it ends.  Two histories *)
(* are added to the driver, whose steps are those of VaultSaltSdb.         *)
(***************************************************************************)
EXTENDS VaultSaltSdb

VARIABLES
    sent,       \* history: requests of the running lookup of each context
    met         \* history: failures each process has met since it began

costVars == <<sent, met>>

CostInit ==
    /\ Init
    /\ sent = [c \in Contexts |-> 0]
    /\ met = [c \in Contexts |-> 0]

(* _request reaches the network.                                             *)
Sends(c) == pc[c] = "send" /\ pc'[c] = "wait"

(* _mark_down: the only save after which _VaultUnreachable is raised.        *)
Fails(c) == pc'[c] = "save" /\ after'[c] = "unreach"

CountedCall(c) ==
    /\ Call(c)
    /\ sent' = [sent EXCEPT ![c] = 0]
    /\ UNCHANGED met

CountedAdvance(c) ==
    /\ Advance(c)
    /\ sent' = IF Sends(c) THEN [sent EXCEPT ![c] = @ + 1] ELSE sent
    /\ met' = IF Fails(c) THEN [met EXCEPT ![c] = @ + 1] ELSE met

CountedRestart(c) ==
    /\ Restart(c)
    /\ sent' = [sent EXCEPT ![c] = 0]
    /\ met' = [met EXCEPT ![c] = 0]

CostNext ==
    \/ World /\ UNCHANGED costVars
    \/ \E c \in Contexts :
          CountedCall(c) \/ CountedAdvance(c) \/ CountedRestart(c)

CostSpec == CostInit /\ [][CostNext]_<<vars, costVars>>

-----------------------------------------------------------------------------
(* What is left of a lookup *)

(* Where a context is, or will be when its file is saved.                    *)
Place(c) == IF pc[c] = "save" THEN after[c] ELSE pc[c]

(* Steps until its present goal is reached or given up: a login, with the    *)
(* save of its token, comes before the call it is made for.                  *)
StepsHere(c) ==
    LET login == IF lookup[c].req = "login" THEN 6 ELSE 0
    IN  CASE Place(c) = "auth"    -> 20
          [] Place(c) = "send"    -> 13 + login
          [] Place(c) = "wait"    -> 12 + login
          [] Place(c) = "got"     -> 11 + login
          [] Place(c) = "answer"  -> 9 + login
          [] Place(c) = "unreach" -> 7

(* Steps of the goals that may follow: the read after the detection, the     *)
(* second read after the first.                                              *)
StepsLater(c) ==
    CASE lookup[c].goal = "detect" -> 44
      [] lookup[c].goal = "read"   -> 22
      [] lookup[c].goal = "reread" -> 0

(* No lookup takes more steps than these from where it is.                   *)
StepsLeft(c) ==
    LET save == IF pc[c] = "save" THEN 1 ELSE 0
    IN  CASE Place(c) = "idle" -> save
          [] Place(c) = "load" -> 70
          [] OTHER             -> save + StepsHere(c) + StepsLater(c)

-----------------------------------------------------------------------------
(* Properties *)

(* Detecting the KV version, reading and reading again after a 403 cost a    *)
(* request each, and a login each at most, tokens that expire on the way     *)
(* included (_kv_version, _token, _read_secret, lines 478-505).              *)
SixRequests == \A c \in Contexts : sent[c] <= 6

(* A process waits for one failure of the Vault and no more, in however many *)
(* lookups and whatever becomes of the marker in the file, which others      *)
(* overwrite, fail to save or lose: "base urls found unreachable this        *)
(* process (circuit breaker)" (line 95).                                     *)
OneFailurePerProcess == \A c \in Contexts : met[c] <= 1

(* No handler leads back to where its lookup has been: each step leaves      *)
(* fewer to take, and nothing but a new call adds to them.  The detection    *)
(* that fails, the 403 and the login inside either are each left for good.   *)
LookupAdvances ==
    [][\A c \in Contexts :
         /\ Advance(c) => StepsLeft(c)' < StepsLeft(c)
         /\ StepsLeft(c)' <= StepsLeft(c) \/ Call(c)]_vars
=============================================================================
